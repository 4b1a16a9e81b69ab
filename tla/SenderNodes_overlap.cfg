\* Two requests in progress side by side, on two nodes.
SPECIFICATION Spec
CONSTANTS
  n1 = n1  n2 = n2  h1 = h1  h2 = h2
  Nodes = {n1, n2}
  Handlers = {h1, h2}
  Ops = {"register", "manual", "retire", "health", "reputation"}
  MaxRequests = 2
  NoNode = NoNode
SYMMETRY Symmetric
INVARIANTS TypeOK
PROPERTIES RestoredByOperator RetirementStands ReconcileQuarantines
CHECK_DEADLOCK FALSE
