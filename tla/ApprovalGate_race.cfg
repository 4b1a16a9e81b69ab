\* Two signatures of one proposal race, and any file may fail under them.
SPECIFICATION FairSpec
CONSTANTS
  p1 = p1  p2 = p2  s1 = s1  s2 = s2
  Proposals = {p1}
  HashOf <- SameHash
  PlanProposals = {}
  Signers = {s1, s2}
  Rejecters = {}
  Nobody = Nobody
  AuditFaults = TRUE
  MaxCrashes = 0
INVARIANTS TypeOK
PROPERTIES SignedSettles MutationReported
CHECK_DEADLOCK FALSE
