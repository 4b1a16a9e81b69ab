\* Two proposals with one hash, audit faults and a gateway restart.
SPECIFICATION Spec
CONSTANTS
  p1 = p1  p2 = p2  s1 = s1  s2 = s2
  Proposals = {p1, p2}
  HashOf <- SameHash
  PlanProposals = {p1}
  Signers = {s1}
  Rejecters = {x1}
  Nobody = Nobody
  AuditFaults = TRUE
  MaxCrashes = 1
INVARIANTS MutationAuthorised CanvasBackedByAudit OnePendingPerHash
PROPERTIES DecisionStands
CHECK_DEADLOCK FALSE
