\* A domain that was bought is asked for again.
SPECIFICATION Spec
CONSTANTS
  d1 = d1  d2 = d2  r1 = r1  r2 = r2
  Domains = {d1, d2}
  Requests = {r1}
  Prices = {1, 2}
  Cap = 2
  NamecheapCap = 2
  Registrars = {"aws-route53"}
  Faults = {}
  NoDomain = NoDomain  Free = Free  Leaked = Leaked
  MaxRequests = 3
  MaxCrashes = 0
SYMMETRY Symmetric
INVARIANTS CapHolds
CHECK_DEADLOCK FALSE
