-------------------------- MODULE SenderNodesProofs --------------------------
(***************************************************************************)
(* Proofs about SenderNodes: what a request may do to a node's status, for *)
(* any number of nodes and of requests in progress side by side.           *)
(***************************************************************************)
EXTENDS SenderNodes, TLAPS

-----------------------------------------------------------------------------
(* The inductive invariants.                                               *)

\* Where a request stands once it is decided, and where it sets one node.
Applying == {"finding", "reading", "writing"}
Setting == {"reading", "writing"}

\* What a request is about to set belongs to what it asked for.
PlanOfRequest(h) ==
  LET r == request[h]
  IN /\ r \in Requests
     /\ pc[h] \in Setting => target[h] \in DOMAIN todo[h]
     /\ r.op \in {"register", "manual", "retire"} => DOMAIN todo[h] \subseteq {r.node}
     /\ \A n \in DOMAIN todo[h] :
          CASE r.op = "register" -> todo[h][n] = r.arg
            [] r.op = "manual" -> todo[h][n] = NextStatus(r.arg)
            [] r.op = "retire" -> todo[h][n] = "retired"
            [] r.op \in {"health", "reputation"} -> todo[h][n] \in {"degraded", "quarantined"}

PlansFollow == \A h \in Handlers :
  /\ pc[h] = "deciding" => request[h] \in Requests /\ request[h].op # "register"
  /\ pc[h] \in Applying => PlanOfRequest(h)

\* What a handler read of a node no other request has changed since is as it is.
ReadIsCurrent == \A h \in Handlers : \A n \in Nodes \ since[h] :
  /\ pc[h] = "deciding" => seen[h][n] = file[n]
  /\ pc[h] = "writing" => held[h][n] = file[n]

\* A health reconciliation quarantines such a node with a complaint, unless it is
\* quarantined or retiring already.
CriticalPlanned(h) == \A n \in critical[h] \ since[h] :
  IF n \in DOMAIN todo[h] THEN todo[h][n] = "quarantined"
                         ELSE file[n] \in Retiring \cup {"quarantined"}

CriticalKept == \A h \in Handlers :
  pc[h] \in Applying /\ request[h].op = "health" => CriticalPlanned(h)

\* Such a node has not started to retire, unless that is what was asked for.
RetiringSpared == \A h \in Handlers :
  pc[h] \in Applying /\ request[h].op \in {"manual", "health", "reputation"} =>
    \A n \in DOMAIN todo[h] \ since[h] : file[n] \notin Retiring

IInv == PlansFollow /\ ReadIsCurrent /\ CriticalKept /\ RetiringSpared

-----------------------------------------------------------------------------
(* Operators of the model.                                                 *)

SomePlans == UNION {[S -> Statuses] : S \in SUBSET Nodes}

\* A status for each of some nodes is a plan.
LEMMA SomePlan ==
  ASSUME NEW S \in SUBSET Nodes, NEW f \in [S -> Statuses]
  PROVE  f \in SomePlans
BY DEF SomePlans

\* What a request plans is a status for some of the nodes; no plan makes a node
\* active but a manual reactivation, and each is about what was asked for.
LEMMA PlansSound ==
  ASSUME TypeOK, NEW h \in Handlers, request[h] \in Requests, request[h].op # "register",
         NEW plan \in Plans(h)
  PROVE  /\ plan \in SomePlans
         /\ \A n \in DOMAIN plan :
              /\ CASE request[h].op = "manual" ->
                       n = request[h].node /\ plan[n] = NextStatus(request[h].arg)
                   [] request[h].op = "retire" -> n = request[h].node /\ plan[n] = "retired"
                   [] request[h].op \in {"health", "reputation"} ->
                       plan[n] \in {"degraded", "quarantined"}
              /\ request[h].op # "retire" => seen[h][n] \notin Retiring
              /\ seen[h][n] # "absent"
<1> DEFINE r == request[h]
           Known == [Nodes -> {"healthy", "degraded", "critical"}]
<1>1. /\ r.op \in {"manual", "retire", "health", "reputation"}
      /\ r.op = "manual" => r.node \in Nodes /\ r.arg \in Actions
      /\ r.op = "retire" => r.node \in Nodes
      /\ seen[h] \in Files
  BY DEF Requests, TypeOK
<1>2. CASE r.op = "manual"
  <2>1. plan = [n \in {m \in Listed(h) \cap {r.node} : seen[h][m] \in AllowedFrom(r.arg)} |->
                  NextStatus(r.arg)]
    BY <1>2 DEF Plans
  <2>2. NextStatus(r.arg) \in Statuses /\ AllowedFrom(r.arg) \cap Retiring = {}
    BY <1>1, <1>2 DEF NextStatus, AllowedFrom, Actions, Statuses, Retiring
  <2>. QED
    BY <1>1, <1>2, <2>1, <2>2 DEF Listed, SomePlans
<1>3. CASE r.op = "retire"
  <2>1. plan = [n \in {m \in {r.node} : seen[h][m] = "retired_pending_approval"} |-> "retired"]
    BY <1>3 DEF Plans
  <2>. QED
    BY <1>1, <1>3, <2>1 DEF SomePlans, Statuses, Retiring
<1>4. CASE r.op = "health"
  <2> DEFINE next == [n \in Nodes |-> HealthStatus(seen[h][n], evidence[n])]
  <2>1. plan = [n \in {m \in Listed(h) : next[m] # seen[h][m]} |-> next[n]]
    BY <1>4 DEF Plans
  <2>2. \A n \in DOMAIN plan : n \in Nodes /\ plan[n] = HealthStatus(seen[h][n], evidence[n])
                              /\ plan[n] # seen[h][n] /\ seen[h][n] # "absent"
    BY <2>1 DEF Listed
  <2>3. \A n \in DOMAIN plan : plan[n] \in {"degraded", "quarantined"} /\ seen[h][n] \notin Retiring
    BY <2>2 DEF HealthStatus
  <2>4. DOMAIN plan \in SUBSET Nodes /\ plan \in [DOMAIN plan -> Statuses]
    BY <2>1, <2>2, <2>3 DEF Listed, Statuses
  <2>5. plan \in SomePlans
    BY <2>4, SomePlan
  <2>. QED
    BY <1>1, <1>4, <2>2, <2>3, <2>5
<1>5. CASE r.op = "reputation"
  <2>1. PICK s \in Known :
          plan = [n \in {m \in Listed(h) :
                          [k \in Nodes |-> ReputationStatus(seen[h][k], s[k])][m] # seen[h][m]} |->
                    [k \in Nodes |-> ReputationStatus(seen[h][k], s[k])][n]]
    BY <1>5 DEF Plans
  <2>2. \A n \in DOMAIN plan : n \in Nodes /\ plan[n] = ReputationStatus(seen[h][n], s[n])
                              /\ plan[n] # seen[h][n] /\ seen[h][n] # "absent"
    BY <2>1 DEF Listed
  <2>3. \A n \in DOMAIN plan : plan[n] \in {"degraded", "quarantined"} /\ seen[h][n] \notin Retiring
    BY <2>2 DEF ReputationStatus
  <2>4. DOMAIN plan \in SUBSET Nodes /\ plan \in [DOMAIN plan -> Statuses]
    BY <2>1, <2>2, <2>3 DEF Listed, Statuses
  <2>5. plan \in SomePlans
    BY <2>4, SomePlan
  <2>. QED
    BY <1>1, <1>5, <2>2, <2>3, <2>5
<1>. QED
  BY <1>1, <1>2, <1>3, <1>4, <1>5

\* A health reconciliation plans to quarantine every node with a complaint that
\* is not quarantined or retiring already.
LEMMA HealthPlanCritical ==
  ASSUME NEW h \in Handlers, request[h].op = "health", NEW plan \in Plans(h),
         NEW n \in Listed(h), "complaint" \in evidence[n]
  PROVE  IF n \in DOMAIN plan THEN plan[n] = "quarantined"
                               ELSE seen[h][n] \in Retiring \cup {"quarantined"}
<1> DEFINE next == [m \in Nodes |-> HealthStatus(seen[h][m], evidence[m])]
<1>1. plan = [m \in {k \in Listed(h) : next[k] # seen[h][k]} |-> next[m]]
  BY DEF Plans
<1>2. n \in Nodes /\ next[n] = HealthStatus(seen[h][n], evidence[n])
  BY DEF Listed
<1>3. next[n] = IF seen[h][n] \in Retiring THEN seen[h][n] ELSE "quarantined"
  BY <1>2 DEF HealthStatus
<1> HIDE DEF next
<1>. QED
  BY <1>1, <1>2, <1>3

-----------------------------------------------------------------------------
(* Type correctness.                                                       *)

\* The initial states are of the right types and satisfy every invariant.
LEMMA Initially == Init => TypeOK /\ IInv
<1> SUFFICES ASSUME Init PROVE TypeOK /\ IInv
  OBVIOUS
<1> USE DEF Init
<1>1. NoPlan \in SomePlans
  <2>1. NoPlan \in [{} -> Statuses]
    BY DEF NoPlan
  <2>. QED
    BY <2>1, SomePlan
<1>2. NoFile \in Files
  BY DEF NoFile, Files
<1>3. TypeOK
  BY <1>1, <1>2, NodesAssumption
     DEF TypeOK, SomePlans, Files, Statuses, Retiring, NodesAssumption
<1>4. IInv
  BY DEF IInv, PlansFollow, ReadIsCurrent, CriticalKept, RetiringSpared, Applying
<1>. QED
  BY <1>3, <1>4

\* Every step keeps every variable in its type.
LEMMA TypeStep == TypeOK /\ PlansFollow /\ [Next]_vars => TypeOK'
<1> SUFFICES ASSUME TypeOK, PlansFollow, [Next]_vars
             PROVE  TypeOK'
  OBVIOUS
<1> USE DEF TypeOK, At, Goto
<1>1. ASSUME NEW n \in Nodes, Worsen(n) PROVE TypeOK'
  BY <1>1 DEF Worsen
<1>2. ASSUME NEW h \in Handlers, Begin(h) PROVE TypeOK'
  <2>1. PICK r \in Requests :
          /\ request' = [request EXCEPT ![h] = r]
          /\ IF r.op = "register"
               THEN /\ Goto(h, "reading")
                    /\ target' = [target EXCEPT ![h] = r.node]
                    /\ todo' = [todo EXCEPT ![h] = [n \in {r.node} |-> r.arg]]
               ELSE Goto(h, "deciding") /\ UNCHANGED <<target, todo>>
    BY <1>2 DEF Begin
  <2>2. r.op = "register" => r.node \in Nodes /\ r.arg \in Statuses
    BY DEF Requests, Statuses, Retiring
  <2>3. r.op = "register" => [n \in {r.node} |-> r.arg] \in SomePlans
    BY <2>2, SomePlan
  <2>4. todo' \in [Handlers -> SomePlans] /\ target' \in [Handlers -> Nodes \cup {NoNode}]
    BY <2>1, <2>2, <2>3 DEF SomePlans
  <2>5. NoFile \in Files
    BY DEF NoFile, Files
  <2>6. served' \in 0..MaxRequests
    BY <1>2, NodesAssumption DEF Begin, NodesAssumption
  <2>. QED
    BY <1>2, <2>1, <2>4, <2>5, <2>6 DEF Begin, SomePlans
<1>3. ASSUME NEW h \in Handlers, Decide(h) PROVE TypeOK'
  <2>1. PICK plan \in Plans(h) :
          /\ todo' = [todo EXCEPT ![h] = plan]
          /\ Goto(h, IF DOMAIN plan = {} THEN "idle" ELSE "finding")
    BY <1>3 DEF Decide
  <2>2. plan \in SomePlans
    BY <1>3, PlansSound DEF Decide, PlansFollow
  <2>3. NoFile \in Files
    BY DEF NoFile, Files
  <2>. QED
    BY <1>3, <2>1, <2>2, <2>3 DEF Decide, SomePlans, Listed
<1>4. ASSUME NEW h \in Handlers, Find(h) PROVE TypeOK'
  <2>1. DOMAIN todo[h] \subseteq Nodes
    OBVIOUS
  <2>2. PICK n \in Nodes :
          \/ pc' = [pc EXCEPT ![h] = "idle"] /\ target' = target
          \/ pc' = [pc EXCEPT ![h] = "reading"] /\ target' = [target EXCEPT ![h] = n]
    BY <1>4, <2>1 DEF Find
  <2>3. /\ pc' \in [Handlers -> {"idle", "deciding", "finding", "reading", "writing"}]
        /\ target' \in [Handlers -> Nodes \cup {NoNode}]
    BY <2>2
  <2>4. UNCHANGED <<file, evidence, request, seen, todo, held, served, since, critical>>
    BY <1>4 DEF Find
  <2>. QED
    BY <2>3, <2>4
<1>5. ASSUME NEW h \in Handlers, Read(h) PROVE TypeOK'
  BY <1>5 DEF Read
<1>6. ASSUME NEW h \in Handlers, Write(h) PROVE TypeOK'
  <2> DEFINE n == target[h]
             left == DOMAIN todo[h] \ {n}
             rest == [m \in left |-> todo[h][m]]
  <2>1. PICK S \in SUBSET Nodes : todo[h] \in [S -> Statuses]
    OBVIOUS
  <2>2. n \in S
    BY <1>6, <2>1 DEF Write, PlansFollow, PlanOfRequest, Applying, Setting
  <2>3. rest \in SomePlans
    <3>1. left \in SUBSET Nodes /\ rest \in [left -> Statuses]
      BY <2>1
    <3>. QED
      BY <3>1, SomePlan
  <2>4. todo' \in [Handlers -> SomePlans]
    BY <1>6, <2>3 DEF Write, SomePlans
  <2>5. file' \in Files
    BY <1>6, <2>1, <2>2 DEF Write, Files
  <2>6. NoFile \in Files
    BY DEF NoFile, Files
  <2>7. since' \in [Handlers -> SUBSET Nodes]
    BY <1>6 DEF Write, Changed
  <2>. QED
    BY <1>6, <2>4, <2>5, <2>6, <2>7 DEF Write, SomePlans
<1>7. CASE UNCHANGED vars
  BY <1>7 DEF vars
<1>. QED
  BY <1>1, <1>2, <1>3, <1>4, <1>5, <1>6, <1>7 DEF Next

-----------------------------------------------------------------------------
(* Plans and the files they were made from, however requests overlap.      *)

\* A request sets nothing but what its operation planned.
LEMMA PlansFollowStep == TypeOK /\ PlansFollow /\ [Next]_vars => PlansFollow'
<1> SUFFICES ASSUME TypeOK, PlansFollow, [Next]_vars, NEW g \in Handlers
             PROVE  /\ pc'[g] = "deciding" => request'[g] \in Requests /\ request'[g].op # "register"
                    /\ pc'[g] \in Applying => PlanOfRequest(g)'
  BY DEF PlansFollow
<1> USE DEF TypeOK, At, Goto
<1>1. ASSUME NEW n \in Nodes, Worsen(n)
      PROVE  UNCHANGED <<pc, request, todo, target>>
  BY <1>1 DEF Worsen
<1>2. ASSUME NEW h \in Handlers, h # g, Begin(h) \/ Decide(h) \/ Find(h) \/ Read(h) \/ Write(h)
      PROVE  pc'[g] = pc[g] /\ request'[g] = request[g] /\ todo'[g] = todo[g] /\ target'[g] = target[g]
  <2>1. CASE Begin(h)
    BY <1>2, <2>1 DEF Begin
  <2>2. CASE Decide(h)
    BY <1>2, <2>2 DEF Decide
  <2>3. CASE Find(h)
    BY <1>2, <2>3 DEF Find
  <2>4. CASE Read(h)
    BY <1>2, <2>4 DEF Read
  <2>5. CASE Write(h)
    BY <1>2, <2>5 DEF Write
  <2>. QED
    BY <1>2, <2>1, <2>2, <2>3, <2>4, <2>5
<1>3. CASE /\ pc'[g] = pc[g] /\ request'[g] = request[g]
           /\ todo'[g] = todo[g] /\ target'[g] = target[g]
  BY <1>3 DEF PlansFollow, PlanOfRequest
<1>4. CASE Begin(g)
  <2>1. PICK r \in Requests :
          /\ request'[g] = r
          /\ IF r.op = "register"
               THEN pc'[g] = "reading" /\ target'[g] = r.node /\ todo'[g] = [n \in {r.node} |-> r.arg]
               ELSE pc'[g] = "deciding"
    BY <1>4 DEF Begin
  <2>. QED
    BY <2>1 DEF Applying, PlanOfRequest
<1>5. CASE Decide(g)
  <2>1. PICK plan \in Plans(g) :
          /\ todo'[g] = plan
          /\ pc'[g] = IF DOMAIN plan = {} THEN "idle" ELSE "finding"
    BY <1>5 DEF Decide
  <2>2. request[g] \in Requests /\ request[g].op # "register" /\ request'[g] = request[g]
    BY <1>5 DEF Decide, PlansFollow
  <2>3. \A n \in DOMAIN plan :
          CASE request[g].op = "manual" -> n = request[g].node /\ plan[n] = NextStatus(request[g].arg)
            [] request[g].op = "retire" -> n = request[g].node /\ plan[n] = "retired"
            [] request[g].op \in {"health", "reputation"} -> plan[n] \in {"degraded", "quarantined"}
    BY <2>2, PlansSound
  <2>4. request[g].op \in {"manual", "retire", "health", "reputation"}
    BY <2>2 DEF Requests
  <2>. QED
    BY <2>1, <2>2, <2>3, <2>4 DEF PlanOfRequest, Setting, Applying
<1>6. CASE Find(g)
  BY <1>6 DEF Find, PlansFollow, PlanOfRequest, Applying, Setting
<1>7. CASE Read(g)
  BY <1>7 DEF Read, PlansFollow, PlanOfRequest, Applying, Setting
<1>8. CASE Write(g)
  <2> DEFINE left == DOMAIN todo[g] \ {target[g]}
  <2>1. /\ pc[g] = "writing" /\ request'[g] = request[g]
        /\ todo'[g] = [m \in left |-> todo[g][m]]
        /\ pc'[g] = IF left = {} THEN "idle" ELSE "finding"
    BY <1>8 DEF Write
  <2>2. PlanOfRequest(g)
    BY <2>1 DEF PlansFollow, Applying
  <2>. QED
    BY <2>1, <2>2 DEF PlanOfRequest, Setting, Applying
<1>9. CASE UNCHANGED vars
  BY <1>3, <1>9 DEF vars
<1>. QED
  BY <1>1, <1>2, <1>3, <1>4, <1>5, <1>6, <1>7, <1>8, <1>9 DEF Next

\* The steps as handler g sees them: its own, or one that leaves it as it is and enters in
\* since[g] the nodes it changes.
Elsewhere(g) ==
  /\ pc'[g] = pc[g] /\ request'[g] = request[g] /\ todo'[g] = todo[g] /\ target'[g] = target[g]
  /\ seen'[g] = seen[g] /\ held'[g] = held[g] /\ critical'[g] = critical[g]
  /\ \A n \in Nodes \ since'[g] : n \notin since[g] /\ file'[n] = file[n]

\* Every step is one of these.
LEMMA StepsOf ==
  ASSUME TypeOK, [Next]_vars, NEW g \in Handlers
  PROVE  \/ Begin(g) /\ file' = file
         \/ (Decide(g) \/ Find(g) \/ Read(g)) /\ file' = file /\ since' = since
         \/ Write(g) /\ since'[g] = since[g]
         \/ Elsewhere(g)
<1> USE DEF TypeOK, At, Goto
<1>1. ASSUME NEW n \in Nodes, Worsen(n) PROVE Elsewhere(g)
  BY <1>1 DEF Worsen, Elsewhere
<1>2. ASSUME NEW h \in Handlers, h # g, Begin(h) \/ Decide(h) \/ Find(h) \/ Read(h)
      PROVE  Elsewhere(g)
  <2>1. CASE Begin(h)
    BY <1>2, <2>1 DEF Begin, Elsewhere
  <2>2. CASE Decide(h)
    BY <1>2, <2>2 DEF Decide, Elsewhere
  <2>3. CASE Find(h)
    BY <1>2, <2>3 DEF Find, Elsewhere
  <2>4. CASE Read(h)
    BY <1>2, <2>4 DEF Read, Elsewhere
  <2>. QED
    BY <1>2, <2>1, <2>2, <2>3, <2>4
<1>3. ASSUME NEW h \in Handlers, h # g, Write(h) PROVE Elsewhere(g)
  <2>1. since'[g] = since[g] \cup Changed
    BY <1>3 DEF Write
  <2>2. \A n \in Nodes \ since'[g] : n \notin since[g] /\ file'[n] = file[n]
    BY <2>1 DEF Changed
  <2>. QED
    BY <1>3, <2>2 DEF Write, Elsewhere
<1>4. ASSUME Write(g) PROVE since'[g] = since[g]
  BY <1>4 DEF Write
<1>5. Begin(g) => file' = file
  BY DEF Begin
<1>6. Decide(g) \/ Find(g) \/ Read(g) => file' = file /\ since' = since
  BY DEF Decide, Find, Read
<1>7. UNCHANGED vars => Elsewhere(g)
  BY DEF vars, Elsewhere
<1>. QED
  BY <1>1, <1>2, <1>3, <1>4, <1>5, <1>6, <1>7 DEF Next

\* What a handler read of a node no other request changed since is as it is.
LEMMA ReadIsCurrentStep == TypeOK /\ ReadIsCurrent /\ [Next]_vars => ReadIsCurrent'
<1> SUFFICES ASSUME TypeOK, ReadIsCurrent, [Next]_vars, NEW g \in Handlers,
                    NEW n \in Nodes \ since'[g]
             PROVE  /\ pc'[g] = "deciding" => seen'[g][n] = file'[n]
                    /\ pc'[g] = "writing" => held'[g][n] = file'[n]
  BY DEF ReadIsCurrent
<1> USE DEF TypeOK, At, Goto
<1>1. CASE Begin(g)
  BY <1>1 DEF Begin
<1>2. CASE Write(g)
  BY <1>2 DEF Write
<1>3. CASE file' = file /\ Decide(g)
  BY <1>3 DEF Decide
<1>4. CASE file' = file /\ Find(g)
  BY <1>4 DEF Find
<1>5. CASE file' = file /\ Read(g)
  BY <1>5 DEF Read
<1>6. CASE Elsewhere(g)
  BY <1>6 DEF Elsewhere, ReadIsCurrent
<1>. QED
  BY <1>1, <1>2, <1>3, <1>4, <1>5, <1>6, StepsOf

\* What the write of a handler leaves of a node no other request changed since.
LEMMA WriteKeeps ==
  ASSUME TypeOK, IInv, NEW g \in Handlers, Write(g), NEW n \in Nodes \ since[g]
  PROVE  file'[n] = IF n = target[g] THEN todo[g][n] ELSE file[n]
<1>1. pc[g] = "writing" /\ file' = [held[g] EXCEPT ![target[g]] = todo[g][target[g]]]
  BY DEF Write, At
<1>2. held[g][n] = file[n]
  BY <1>1 DEF IInv, ReadIsCurrent
<1>. QED
  BY <1>1, <1>2 DEF TypeOK, Files

\* Deciding, finding and writing of one health reconciliation.
LEMMA CriticalKeptStep == TypeOK /\ IInv /\ [Next]_vars => CriticalKept'
<1> SUFFICES ASSUME TypeOK, IInv, [Next]_vars, NEW g \in Handlers,
                    pc'[g] \in Applying, request'[g].op = "health"
             PROVE  CriticalPlanned(g)'
  BY DEF CriticalKept
<1> USE DEF TypeOK, At, Goto, Applying
<1>1. CASE Begin(g)
  BY <1>1 DEF Begin
<1>2. CASE Write(g) /\ since'[g] = since[g]
  <2> DEFINE n == target[g]
  <2>1. /\ pc[g] = "writing" /\ request[g].op = "health"
        /\ todo'[g] = [m \in DOMAIN todo[g] \ {n} |-> todo[g][m]]
        /\ critical'[g] = critical[g] /\ critical[g] \subseteq Nodes
    BY <1>2 DEF Write
  <2>2. CriticalPlanned(g) /\ n \in DOMAIN todo[g]
    BY <2>1 DEF IInv, CriticalKept, PlansFollow, PlanOfRequest, Setting
  <2>3. \A m \in critical[g] \ since[g] : file'[m] = IF m = n THEN todo[g][m] ELSE file[m]
    BY <1>2, <2>1, WriteKeeps
  <2>. QED
    BY <1>2, <2>1, <2>2, <2>3 DEF CriticalPlanned
<1>3. CASE file' = file /\ since' = since /\ Decide(g)
  <2>1. PICK plan \in Plans(g) :
          /\ todo'[g] = plan
          /\ critical'[g] = {n \in Listed(g) : "complaint" \in evidence[n]}
          /\ pc[g] = "deciding" /\ request'[g] = request[g]
    BY <1>3 DEF Decide
  <2>2. request[g].op = "health"
    BY <2>1
  <2>3. \A n \in critical'[g] : IF n \in DOMAIN plan THEN plan[n] = "quarantined"
                                   ELSE seen[g][n] \in Retiring \cup {"quarantined"}
    BY <2>1, <2>2, HealthPlanCritical
  <2>4. \A n \in critical'[g] \ since[g] : seen[g][n] = file[n]
    BY <2>1 DEF IInv, ReadIsCurrent, Listed
  <2>. QED
    BY <1>3, <2>1, <2>3, <2>4 DEF CriticalPlanned
<1>4. CASE file' = file /\ since' = since /\ Find(g)
  BY <1>4 DEF Find, IInv, CriticalKept, CriticalPlanned
<1>5. CASE file' = file /\ since' = since /\ Read(g)
  BY <1>5 DEF Read, IInv, CriticalKept, CriticalPlanned
<1>6. CASE Elsewhere(g)
  <2>1. CriticalPlanned(g) /\ critical[g] \subseteq Nodes
    BY <1>6 DEF Elsewhere, IInv, CriticalKept
  <2>. QED
    BY <1>6, <2>1 DEF Elsewhere, CriticalPlanned
<1>. QED
  BY <1>1, <1>2, <1>3, <1>4, <1>5, <1>6, StepsOf

\* A control or a reconciliation is about to set no node that has begun to retire, unless
\* another request changed the node meanwhile.
LEMMA RetiringSparedStep == TypeOK /\ IInv /\ [Next]_vars => RetiringSpared'
<1> SUFFICES ASSUME TypeOK, IInv, [Next]_vars, NEW g \in Handlers, pc'[g] \in Applying,
                    request'[g].op \in {"manual", "health", "reputation"},
                    NEW n \in DOMAIN todo'[g] \ since'[g]
             PROVE  file'[n] \notin Retiring
  BY DEF RetiringSpared
<1> USE DEF TypeOK, At, Goto, Applying
<1>1. CASE Begin(g)
  BY <1>1 DEF Begin
<1>2. CASE Write(g) /\ since'[g] = since[g]
  <2>1. /\ pc[g] = "writing" /\ request'[g] = request[g]
        /\ DOMAIN todo'[g] = DOMAIN todo[g] \ {target[g]} /\ DOMAIN todo[g] \subseteq Nodes
    BY <1>2 DEF Write
  <2>2. file'[n] = file[n]
    BY <1>2, <2>1, WriteKeeps
  <2>. QED
    BY <1>2, <2>1, <2>2 DEF IInv, RetiringSpared
<1>3. CASE file' = file /\ since' = since /\ Decide(g)
  <2>1. PICK plan \in Plans(g) :
          /\ todo'[g] = plan
          /\ pc[g] = "deciding" /\ request'[g] = request[g] /\ file' = file
    BY <1>3 DEF Decide
  <2>2. request[g] \in Requests /\ request[g].op # "register" /\ request[g].op # "retire"
    BY <2>1 DEF IInv, PlansFollow
  <2>3. plan \in SomePlans /\ seen[g][n] \notin Retiring
    BY <2>1, <2>2, PlansSound
  <2>4. n \in Nodes \ since[g]
    BY <1>3, <2>1, <2>3 DEF SomePlans
  <2>. QED
    BY <2>1, <2>3, <2>4 DEF IInv, ReadIsCurrent
<1>4. CASE file' = file /\ since' = since /\ Find(g)
  BY <1>4 DEF Find, IInv, RetiringSpared
<1>5. CASE file' = file /\ since' = since /\ Read(g)
  BY <1>5 DEF Read, IInv, RetiringSpared
<1>6. CASE Elsewhere(g)
  <2>1. n \in Nodes /\ n \in DOMAIN todo[g]
    BY <1>6 DEF Elsewhere
  <2>. QED
    BY <1>6, <2>1 DEF Elsewhere, IInv, RetiringSpared
<1>. QED
  BY <1>1, <1>2, <1>3, <1>4, <1>5, <1>6, StepsOf

\* The invariant holds at start and is kept by every step.
LEMMA Invariance == Spec => [](TypeOK /\ IInv)
<1>1. TypeOK /\ IInv /\ [Next]_vars => (TypeOK /\ IInv)'
  BY TypeStep, PlansFollowStep, ReadIsCurrentStep, CriticalKeptStep, RetiringSparedStep DEF IInv
<1>. QED
  BY <1>1, Initially, PTL DEF Spec

-----------------------------------------------------------------------------
(* Theorems.                                                               *)

\* SenderNode fields keep their types.
THEOREM TypeCorrect == Spec => []TypeOK
BY Invariance, PTL

\* evaluateHealth (sender-node-health routes): however requests overlap, a health
\* reconciliation that did all it planned leaves every node that had a complaint
\* quarantined or retired, but for those another request changed meanwhile.
THEOREM ReconcileQuarantinesHolds == Spec => ReconcileQuarantines
<1>1. ASSUME TypeOK, IInv, [Next]_vars, NEW g \in Handlers, Finishes(g, "health"),
             NEW n \in critical'[g] \ since[g]
      PROVE  file'[n] \in Retiring \cup {"quarantined"}
  <2> USE DEF TypeOK, At, Goto
  <2>1. /\ request[g].op = "health" /\ pc[g] # "idle" /\ pc'[g] = "idle"
        /\ DOMAIN todo'[g] = {}
    BY <1>1 DEF Finishes
  <2>2. Decide(g) \/ Find(g) \/ Write(g)
    BY <1>1, <2>1, StepsOf DEF Begin, Read, Elsewhere
  <2>3. CASE Decide(g)
    <3>1. PICK plan \in Plans(g) :
            /\ todo'[g] = plan
            /\ critical'[g] = {m \in Listed(g) : "complaint" \in evidence[m]}
            /\ pc[g] = "deciding" /\ file' = file
      BY <1>1, <2>3 DEF Decide
    <3>2. n \in Nodes /\ seen[g][n] = file[n] /\ DOMAIN plan = {}
      BY <1>1, <2>1, <3>1 DEF IInv, ReadIsCurrent, Listed
    <3>. QED
      BY <1>1, <2>1, <3>1, <3>2, HealthPlanCritical
  <2>4. CASE Find(g)
    BY <2>1, <2>4 DEF Find
  <2>5. CASE Write(g)
    <3>1. /\ pc[g] = "writing" /\ critical'[g] = critical[g] /\ n \in Nodes
          /\ DOMAIN todo'[g] = DOMAIN todo[g] \ {target[g]}
      BY <1>1, <2>5 DEF Write
    <3>2. CriticalPlanned(g) /\ target[g] \in DOMAIN todo[g]
      BY <1>1, <2>1, <3>1 DEF IInv, CriticalKept, PlansFollow, PlanOfRequest, Applying, Setting
    <3>3. n \in DOMAIN todo[g] => n = target[g]
      BY <2>1, <3>1
    <3>4. file'[n] = IF n = target[g] THEN todo[g][n] ELSE file[n]
      BY <1>1, <2>5, <3>1, WriteKeeps
    <3>. QED
      BY <1>1, <3>1, <3>2, <3>3, <3>4 DEF CriticalPlanned
  <2>. QED
    BY <2>2, <2>3, <2>4, <2>5
<1>2. TypeOK /\ IInv /\ [Next]_vars =>
        [\A h \in Handlers : Finishes(h, "health") =>
           \A n \in critical'[h] \ since[h] : file'[n] \in Retiring \cup {"quarantined"}]_vars
  BY <1>1
<1>. QED
  BY <1>2, Invariance, PTL DEF ReconcileQuarantines, Spec

\* A step that changes a node's status is the write of one request.  It sets the node to what
\* that request planned for it, or puts back what it had read of a node another request
\* changed since.
LEMMA ChangeIsWrite ==
  ASSUME TypeOK, IInv, [Next]_vars, NEW n \in Nodes, file'[n] # file[n]
  PROVE  \E h \in Handlers :
           \/ Sets(h, n) /\ file'[n] = todo[h][n] /\ n \in DOMAIN todo[h] /\ PlanOfRequest(h)
           \/ SetsOther(h, n) /\ n \in since[h]
<1>1. PICK h \in Handlers : Write(h)
  BY DEF Next, Worsen, Begin, Decide, Find, Read, vars
<1>2. /\ pc[h] = "writing" /\ pc'[h] # "writing"
      /\ file' = [held[h] EXCEPT ![target[h]] = todo[h][target[h]]] /\ held[h] \in Files
  BY <1>1 DEF Write, At, Goto, TypeOK
<1>3. PlanOfRequest(h) /\ target[h] \in DOMAIN todo[h]
  BY <1>2 DEF IInv, PlansFollow, PlanOfRequest, Applying, Setting
<1>4. CASE target[h] = n
  BY <1>2, <1>3, <1>4 DEF Sets, At, Files
<1>5. CASE target[h] # n
  <2>1. n \in since[h]
    BY <1>1, <1>5, WriteKeeps
  <2>. QED
    BY <1>2, <1>5, <2>1 DEF SetsOther, At
<1>. QED
  BY <1>4, <1>5

\* manualControlPolicies, evaluateOneNode, recommendedStatusFor: only an operator's
\* reactivation of the node, or its registration as active, makes a degraded, paused or
\* quarantined node active; overlapping requests can only put back what one of them changed.
THEOREM RestoredByOperatorHolds == Spec => RestoredByOperator
<1>1. ASSUME TypeOK, IInv, [Next]_vars, NEW n \in Nodes,
             file[n] \in {"degraded", "paused", "quarantined"}, file'[n] = "active"
      PROVE  \E h \in Handlers :
               \/ Sets(h, n) /\ Activates(h, n)
               \/ SetsOther(h, n) /\ n \in since[h]
  <2>1. PICK h \in Handlers :
          \/ Sets(h, n) /\ file'[n] = todo[h][n] /\ n \in DOMAIN todo[h] /\ PlanOfRequest(h)
          \/ SetsOther(h, n) /\ n \in since[h]
    BY <1>1, ChangeIsWrite
  <2>2. ASSUME todo[h][n] = "active", n \in DOMAIN todo[h], PlanOfRequest(h)
        PROVE  Activates(h, n)
    <3>1. request[h] \in Requests /\ request[h].op \in {"register", "manual"}
      BY <2>2 DEF PlanOfRequest, Requests
    <3>2. request[h].node = n
      BY <2>2, <3>1 DEF PlanOfRequest
    <3>3. CASE request[h].op = "manual"
      <4>1. request[h].arg \in Actions /\ NextStatus(request[h].arg) = "active"
        BY <2>2, <3>1, <3>3 DEF PlanOfRequest, Requests
      <4>2. request[h].arg = "reactivate"
        BY <4>1 DEF Actions, NextStatus
      <4>. QED
        BY <3>1, <3>2, <3>3, <4>2 DEF Activates, Requests
    <3>4. CASE request[h].op = "register"
      BY <2>2, <3>1, <3>2, <3>4 DEF Activates, PlanOfRequest, Requests
    <3>. QED
      BY <3>1, <3>3, <3>4
  <2>. QED
    BY <1>1, <2>1, <2>2
<1>2. TypeOK /\ IInv /\ [Next]_vars =>
        [\A n \in Nodes :
           file[n] \in {"degraded", "paused", "quarantined"} /\ file'[n] = "active" =>
             \E h \in Handlers :
                \/ Sets(h, n) /\ Activates(h, n)
                \/ SetsOther(h, n) /\ n \in since[h]]_vars
  BY <1>1
<1>. QED
  BY <1>2, Invariance, PTL DEF RestoredByOperator, Spec

\* A node being retired is changed by the approval of its retirement or by a new registration
\* of it, never by a manual control or a reconciliation, though both decide on a list they
\* read earlier, unless another request changed the node after that list was read.
THEOREM RetirementStandsHolds == Spec => RetirementStands
<1>1. ASSUME TypeOK, IInv, [Next]_vars, NEW n \in Nodes, file[n] \in Retiring, file'[n] # file[n]
      PROVE  \E h \in Handlers :
               \/ Sets(h, n) /\ request[h].op \in {"retire", "register"} /\ request[h].node = n
               \/ (Sets(h, n) \/ SetsOther(h, n)) /\ n \in since[h]
  <2>1. PICK h \in Handlers :
          \/ Sets(h, n) /\ file'[n] = todo[h][n] /\ n \in DOMAIN todo[h] /\ PlanOfRequest(h)
          \/ SetsOther(h, n) /\ n \in since[h]
    BY <1>1, ChangeIsWrite
  <2>2. ASSUME Sets(h, n), n \in DOMAIN todo[h], PlanOfRequest(h), n \notin since[h]
        PROVE  request[h].op \in {"retire", "register"} /\ request[h].node = n
    <3>1. pc[h] \in Applying
      BY <2>2 DEF Sets, At, Applying
    <3>2. request[h].op \notin {"manual", "health", "reputation"}
      BY <1>1, <2>2, <3>1 DEF IInv, RetiringSpared
    <3>. QED
      BY <2>2, <3>2 DEF PlanOfRequest, Requests
  <2>. QED
    BY <2>1, <2>2
<1>2. TypeOK /\ IInv /\ [Next]_vars =>
        [\A n \in Nodes :
           file[n] \in Retiring /\ file'[n] # file[n] =>
             \E h \in Handlers :
                \/ Sets(h, n) /\ request[h].op \in {"retire", "register"} /\ request[h].node = n
                \/ (Sets(h, n) \/ SetsOther(h, n)) /\ n \in since[h]]_vars
  BY <1>1
<1>. QED
  BY <1>2, Invariance, PTL DEF RetirementStands, Spec
=============================================================================
