\* Two requests in progress, for one domain or two at two registrars, retries, lost answers, failed
\* writes and audits and a crash.
SPECIFICATION Spec
CONSTANTS
  d1 = d1  d2 = d2  r1 = r1  r2 = r2
  Domains = {d1, d2}
  Requests = {r1, r2}
  Prices = {1, 2}
  Cap = 3
  NamecheapCap = 2
  Registrars = {"aws-route53", "namecheap"}
  Faults = {"write", "audit"}
  NoDomain = NoDomain  Free = Free  Leaked = Leaked
  MaxRequests = 3
  MaxCrashes = 1
SYMMETRY Symmetric
INVARIANTS TypeOK BudgetHolds LiveIsCounted
PROPERTIES NotRegisteredTwice
CHECK_DEADLOCK FALSE
