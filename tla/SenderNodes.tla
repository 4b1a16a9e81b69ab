----------------------------- MODULE SenderNodes -----------------------------
(***************************************************************************)
(* The sender-node file and the gateway's requests that change a node's    *)
(* status: registration, manual controls, retirement approval, and the     *)
(* reconciliations with health results and with IP reputation.             *)
(*                                                                         *)
(* Every request decides on a list of nodes it read at its start.  Each    *)
(* status it then sets is a read of the whole file, without the lock, and  *)
(* a write of what was read with one entry replaced.                       *)
(***************************************************************************)
EXTENDS Naturals, FiniteSets

CONSTANTS Nodes,            \* node ids
          Handlers,         \* requests that may be in progress side by side
          Ops,              \* the kinds of requests considered
          MaxRequests,      \* requests considered
          NoNode            \* no node

Actions == {"pause", "reactivate", "degrade", "quarantine"}
Retiring == {"retired_pending_approval", "retired"}
Statuses == {"warming", "active", "degraded", "paused", "quarantined"} \cup Retiring
Results == {"complaint", "bounces"}

ASSUME NodesAssumption ==
  /\ NoNode \notin Nodes
  /\ Ops \subseteq {"register", "manual", "retire", "health", "reputation"}
  /\ MaxRequests \in Nat

\* The requests of the routes; a registration may name any status, of a known node too.
Requests ==
  {r \in [op : {"register"}, node : Nodes, arg : Statuses]
         \cup [op : {"manual"}, node : Nodes, arg : Actions]
         \cup [op : {"retire"}, node : Nodes, arg : {"approve"}]
         \cup [op : {"health", "reputation"}, node : {NoNode}, arg : {"reconcile"}] : r.op \in Ops}
NoRequest == [op |-> "none", node |-> NoNode, arg |-> "none"]

VARIABLES file,             \* the nodes' statuses in the file
          evidence,         \* what the send results say of each node
          pc, request,      \* each handler's position and request
          seen,             \* the list it decides on
          todo,             \* the statuses it has still to set
          target,           \* the node it is setting
          held,             \* the file as store.upsert read it
          served,           \* requests begun
          (* What has happened; no action depends on it.                  *)
          since,            \* nodes others changed since a handler's request began
          critical          \* nodes with a complaint in the results a handler read

vars == <<file, evidence, pc, request, seen, todo, target, held, served, since, critical>>

Files == [Nodes -> Statuses \cup {"absent"}]
NoFile == [n \in Nodes |-> "absent"]
NoPlan == [n \in {} |-> "warming"]

TypeOK ==
  /\ file \in Files
  /\ evidence \in [Nodes -> SUBSET Results]
  /\ pc \in [Handlers -> {"idle", "deciding", "finding", "reading", "writing"}]
  /\ request \in [Handlers -> Requests \cup {NoRequest}]
  /\ seen \in [Handlers -> Files] /\ held \in [Handlers -> Files]
  /\ todo \in [Handlers -> UNION {[S -> Statuses] : S \in SUBSET Nodes}]
  /\ target \in [Handlers -> Nodes \cup {NoNode}]
  /\ served \in 0..MaxRequests
  /\ since \in [Handlers -> SUBSET Nodes]
  /\ critical \in [Handlers -> SUBSET Nodes]

Init ==
  /\ file \in [Nodes -> {"absent", "active", "quarantined", "retired_pending_approval"}]
  /\ evidence = [n \in Nodes |-> {}]
  /\ pc = [h \in Handlers |-> "idle"]
  /\ request = [h \in Handlers |-> NoRequest]
  /\ seen = [h \in Handlers |-> NoFile]
  /\ held = [h \in Handlers |-> NoFile]
  /\ todo = [h \in Handlers |-> NoPlan]
  /\ target = [h \in Handlers |-> NoNode]
  /\ served = 0
  /\ since = [h \in Handlers |-> {}]
  /\ critical = [h \in Handlers |-> {}]

-----------------------------------------------------------------------------
(* The rules.                                                              *)

\* Mutant: the action's name is taken for the status.
Next_Raw(action) == action
\* manualControlPolicies: the status an action leads to ...
NextStatus(action) ==
  CASE action = "pause" -> "paused"
    [] action = "reactivate" -> "active"
    [] action = "degrade" -> "degraded"
    [] action = "quarantine" -> "quarantined"

\* ... and those it may start from.
AllowedFrom(action) ==
  CASE action = "pause" -> {"active", "warming", "degraded", "paused"}
    [] action = "reactivate" -> {"paused", "degraded", "active"}
    [] action = "degrade" -> {"active", "warming", "paused", "degraded"}
    [] action = "quarantine" -> Statuses \ Retiring

\* Mutant: bounces are looked at before complaints.
HealthStatus_BouncesFirst(s, found) ==
  IF s \in Retiring THEN s
  ELSE IF "bounces" \in found THEN "degraded"
  ELSE IF "complaint" \in found THEN "quarantined" ELSE s
\* Mutant: a node within the thresholds is healthy again.
HealthStatus_Heals(s, found) ==
  IF s \in Retiring THEN s
  ELSE IF "complaint" \in found THEN "quarantined"
  ELSE IF "bounces" \in found THEN "degraded" ELSE "active"
\* evaluateOneNode: the recommended status of a node with status s.
HealthStatus(s, found) ==
  IF s \in Retiring THEN s
  ELSE IF "complaint" \in found THEN "quarantined"
  ELSE IF "bounces" \in found THEN "degraded" ELSE s

\* Mutant: a retired node with critical signals is quarantined.
ReputationStatus_Retired(s, state) ==
  CASE state = "critical" -> "quarantined" [] state = "degraded" -> "degraded" [] OTHER -> s
\* recommendedStatusFor.
ReputationStatus(s, state) ==
  IF s \in Retiring THEN s
  ELSE CASE state = "critical" -> "quarantined"
         [] state = "degraded" -> "degraded"
         [] OTHER -> s

\* The states the request's own signals and the results can give a node: rates
\* and signals may give any, a complaint is always critical.
ReputationStates(n) ==
  IF "complaint" \in evidence[n] THEN {"critical"} ELSE {"healthy", "degraded", "critical"}

-----------------------------------------------------------------------------
(* Requests.                                                               *)

At(h, step) == pc[h] = step
Goto(h, step) == pc' = [pc EXCEPT ![h] = step]

\* A result that counts against n is recorded.
Worsen(n) ==
  /\ \E e \in Results : evidence' = [evidence EXCEPT ![n] = @ \cup {e}]
  /\ UNCHANGED <<file, pc, request, seen, todo, target, held, served, since, critical>>

\* A request arrives and lists the nodes; a registration goes straight to upsert.
Begin(h) ==
  /\ At(h, "idle")
  /\ served < MaxRequests
  /\ served' = served + 1
  /\ \E r \in Requests :
       /\ request' = [request EXCEPT ![h] = r]
       /\ IF r.op = "register"
            THEN /\ Goto(h, "reading")
                 /\ target' = [target EXCEPT ![h] = r.node]
                 /\ todo' = [todo EXCEPT ![h] = [n \in {r.node} |-> r.arg]]
            ELSE Goto(h, "deciding") /\ UNCHANGED <<target, todo>>
  /\ seen' = [seen EXCEPT ![h] = IF pc'[h] = "deciding" THEN file ELSE NoFile]
  /\ since' = [since EXCEPT ![h] = {}]
  /\ critical' = [critical EXCEPT ![h] = {}]
  /\ UNCHANGED <<file, evidence, held>>

Listed(h) == {n \in Nodes : seen[h][n] # "absent"}

\* The changes a request may want, given the list it read and the results of now.
Plans(h) ==
  LET r == request[h]
      changes(next) == [n \in {m \in Listed(h) : next[m] # seen[h][m]} |-> next[n]]
      states == {s \in [Nodes -> {"healthy", "degraded", "critical"}] :
                   \A n \in Nodes : s[n] \in ReputationStates(n)}
  IN CASE r.op = "manual" ->
            {[n \in {m \in Listed(h) \cap {r.node} : seen[h][m] \in AllowedFrom(r.arg)} |->
                NextStatus(r.arg)]}
       [] r.op = "retire" ->
            {[n \in {m \in {r.node} : seen[h][m] = "retired_pending_approval"} |-> "retired"]}
       [] r.op = "health" ->
            {changes([n \in Nodes |-> HealthStatus(seen[h][n], evidence[n])])}
       [] r.op = "reputation" ->
            {changes([n \in Nodes |-> ReputationStatus(seen[h][n], s[n])]) : s \in states}

\* The request is decided; one that changes nothing, or is refused, is answered.
Decide(h) ==
  /\ At(h, "deciding")
  /\ \E plan \in Plans(h) :
       /\ todo' = [todo EXCEPT ![h] = plan]
       /\ Goto(h, IF DOMAIN plan = {} THEN "idle" ELSE "finding")
  /\ critical' = [critical EXCEPT ![h] = {n \in Listed(h) : "complaint" \in evidence[n]}]
  /\ seen' = [seen EXCEPT ![h] = NoFile]
  /\ UNCHANGED <<file, evidence, request, target, held, served, since>>

\* updateStatus looks the node up again; if it is gone the request fails.
Find(h) ==
  /\ At(h, "finding")
  /\ \E n \in DOMAIN todo[h] :
       IF file[n] = "absent"
         THEN Goto(h, "idle") /\ UNCHANGED target
         ELSE Goto(h, "reading") /\ target' = [target EXCEPT ![h] = n]
  /\ UNCHANGED <<file, evidence, request, seen, todo, held, served, since, critical>>

\* store.upsert reads the file without the lock ...
Read(h) ==
  /\ At(h, "reading")
  /\ held' = [held EXCEPT ![h] = file]
  /\ Goto(h, "writing")
  /\ UNCHANGED <<file, evidence, request, seen, todo, target, served, since, critical>>

\* The nodes this step changes in the file.
Changed == {n \in Nodes : file'[n] # file[n]}

\* ... and writes it with the node replaced, or added.
Write(h) ==
  LET n == target[h]
      left == DOMAIN todo[h] \ {n}
  IN /\ At(h, "writing")
     /\ file' = [held[h] EXCEPT ![n] = todo[h][n]]
     /\ todo' = [todo EXCEPT ![h] = [m \in left |-> todo[h][m]]]
     /\ Goto(h, IF left = {} THEN "idle" ELSE "finding")
     /\ since' = [g \in Handlers |-> IF g = h THEN since[h] ELSE since[g] \cup Changed]
     /\ target' = [target EXCEPT ![h] = NoNode]
     /\ held' = [held EXCEPT ![h] = NoFile]
     /\ UNCHANGED <<evidence, request, seen, served, critical>>

Next ==
  \/ \E n \in Nodes : Worsen(n)
  \/ \E h \in Handlers : Begin(h) \/ Decide(h) \/ Find(h) \/ Read(h) \/ Write(h)

Spec == Init /\ [][Next]_vars

-----------------------------------------------------------------------------
(* Properties.                                                             *)

\* Handler h makes the write of this step, to set node n or another.
Sets(h, n) == At(h, "writing") /\ pc'[h] # "writing" /\ target[h] = n
SetsOther(h, n) == At(h, "writing") /\ pc'[h] # "writing" /\ target[h] # n

\* A node that is degraded, paused or quarantined becomes active because an operator
\* reactivated that node, or somebody registered it as active.  No reconciliation and no
\* request about another node does it, except by writing back what it had read of a node
\* whose status another request changed meanwhile.
Activates(h, n) == request[h] \in {[op |-> "manual", node |-> n, arg |-> "reactivate"],
                                    [op |-> "register", node |-> n, arg |-> "active"]}
RestoredByOperator ==
  [][\A n \in Nodes :
       file[n] \in {"degraded", "paused", "quarantined"} /\ file'[n] = "active" =>
         \E h \in Handlers :
            \/ Sets(h, n) /\ Activates(h, n)
            \/ SetsOther(h, n) /\ n \in since[h]]_vars

\* A node being retired, or retired, is changed by the approval of its retirement or a new
\* registration of it.  A manual control or a reconciliation, which decides on a list it
\* read earlier, does it only if another request changed the node meanwhile.
RetirementStands ==
  [][\A n \in Nodes :
       file[n] \in Retiring /\ file'[n] # file[n] =>
         \E h \in Handlers :
            \/ Sets(h, n) /\ request[h].op \in {"retire", "register"} /\ request[h].node = n
            \/ (Sets(h, n) \/ SetsOther(h, n)) /\ n \in since[h]]_vars

\* A health reconciliation that did all it planned leaves every node that had a complaint
\* quarantined or retired, but for those other requests changed while it was in progress.
Finishes(h, op) == request[h].op = op /\ pc[h] # "idle" /\ pc'[h] = "idle" /\ DOMAIN todo'[h] = {}
ReconcileQuarantines ==
  [][\A h \in Handlers : Finishes(h, "health") =>
       \A n \in critical'[h] \ since[h] : file'[n] \in Retiring \cup {"quarantined"}]_vars
=============================================================================
