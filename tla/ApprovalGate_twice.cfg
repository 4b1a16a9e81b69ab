\* Two signatures of one proposal.
SPECIFICATION Spec
CONSTANTS
  p1 = p1  p2 = p2  s1 = s1  s2 = s2
  Proposals = {p1}
  HashOf <- SameHash
  PlanProposals = {}
  Signers = {s1, s2}
  Rejecters = {x1}
  Nobody = Nobody
  AuditFaults = FALSE
  MaxCrashes = 0
INVARIANTS MutatedOnce
CHECK_DEADLOCK FALSE
