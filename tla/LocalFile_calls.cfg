\* Two callers in the gateway and one in a worker, kills and full disks.
SPECIFICATION FairSpec
CONSTANTS
  g1 = g1  g2 = g2  k1 = k1  gateway = gateway  worker = worker
  Clients = {g1, g2, k1}
  ProcessOf <- InProcess
  Nobody = Nobody
  MaxCalls = 4
  MaxFaults = 2
INVARIANTS TypeOK LockRemoved ChainLinked
PROPERTIES TornStops StoredSpec CallEnds
CHECK_DEADLOCK FALSE
