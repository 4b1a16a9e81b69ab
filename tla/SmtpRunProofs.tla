---------------------------- MODULE SmtpRunProofs ----------------------------
(***************************************************************************)
(* Proofs about SmtpRun: one server per run and restart, none beside one   *)
(* the run is bound to or could find, an account that is never forgotten,  *)
(* and deletions proposed only for the run's own server, for any accounts, *)
(* faults, requests and restarts.                                          *)
(***************************************************************************)
EXTENDS SmtpRun, SequenceTheorems, FiniteSetTheorems, TLAPS

-----------------------------------------------------------------------------
(* The inductive invariant.                                                *)

\* Where a request that was bound to no account may still choose one.
Open ==
  \/ pc = "choosing"
  \/ pc \in {"calling", "executing"} /\ cur \in {"register", "create"}
  \/ pc = "waiting" /\ cur = "register"

\* A bound request keeps the account of the record, and an unbound one has come
\* before any server and any creation in progress.
RequestBound ==
  /\ requested # NoAccount => account = requested
  /\ requested = NoAccount /\ Open => Own = {} /\ at["create"] = "none"

\* The step a request is at, and its lease.
RequestPlaced ==
  /\ pc \in {"choosing", "adopting", "readopting"} => cur = "create"
  /\ pc \in {"gating", "checking"} => cur = "send"
  /\ cur = "create" /\ pc \in {"calling", "executing", "waiting"} => account \in Accounts
  /\ cur = "create" /\ pc \in {"executing", "waiting"} => steps["create"] = "live"
  /\ pc \in {"adopting", "readopting"} => steps["create"] = "done"
  /\ pc = "proposing" => slug # 0 /\ created = "yes"

\* The creation works in the recorded account for a request that waits for it, is
\* bound to that account, or is gone; once executed it is not executed again.
CreationPlaced ==
  at["create"] # "none" =>
    /\ "create" \in replay
    /\ on = account /\ on \in Accounts
    /\ \/ pc \in {"idle", "proposing"}
       \/ requested = account
       \/ pc = "waiting" /\ cur = "create"

\* A process that has not yet made a server has one to make; the first of a run that is
\* not bound to an account has none before it.
Budgeted ==
  /\ IsFiniteSet(Own)
  /\ "create" \notin replay \/ at["create"] \in {"looking", "making"} => Cardinality(Own) <= crashes
FirstUnbound ==
  /\ pc = "waiting" /\ cur = "create" /\ requested = NoAccount
  /\ at["create"] \in {"looking", "making"}
  => Own = {}

\* It makes a server when the run is bound to none and its account lists none, and goes on
\* with that server, the last; what it binds the run to comes after every other of the run's.
CreationSound ==
  /\ at["create"] = "making" => /\ binding = 0
                               /\ \A i \in 1..Len(servers) \ Own : servers[i].account # on
  /\ at["create"] \in {"preparing", "binding"} => made \in Own
  /\ at["create"] \in {"preparing", "binding", "rebinding"} => \A k \in Own : k <= made

\* What the request that waits for the creation is told.
AnswerSound ==
  pc = "waiting" /\ cur = "create" =>
    /\ answer \in {"none", "created", "reused", "payment", "error"}
    /\ answer # "none" => at["create"] = "none"
    /\ answer = "payment" /\ requested = NoAccount => Own = {}
    /\ answer = "created" => made \in Own

\* The result of the create step is recorded once; what counts as created by the
\* run is a server of the run's.
RecordSound ==
  /\ steps["create"] # "done" => recorded.how = "none" /\ created = "unknown"
  /\ recorded.how = "created" => recorded.nr \in Own
  /\ created = "yes" => recorded.how = "created" /\ slug = recorded.nr

RunInv ==
  /\ OneServer
  /\ NoneBeside
  /\ AccountRemembered
  /\ Budgeted
  /\ RequestBound
  /\ RequestPlaced
  /\ CreationPlaced
  /\ FirstUnbound
  /\ CreationSound
  /\ AnswerSound
  /\ RecordSound
  /\ RollbackOnlyOwn

-----------------------------------------------------------------------------
(* The provider's servers.                                                 *)

ServerType == [account : Accounts, by : {"run", "other"}, ip : BOOLEAN]

\* A server's address changes nothing else of it.
LEMMA AddressKeeps ==
  ASSUME TypeOK, NEW k \in 1..Len(servers), Address(k)
  PROVE  /\ servers' \in Seq(ServerType) /\ Len(servers') = Len(servers)
         /\ \A i \in 1..Len(servers) : servers'[i].account = servers[i].account
                                       /\ servers'[i].by = servers[i].by
         /\ Own' = Own
<1> DEFINE e == [servers[k] EXCEPT !.ip = TRUE]
<1>1. servers \in Seq(ServerType)
  BY DEF TypeOK, ServerType
<1>2. servers[k] \in ServerType
  BY <1>1, ElementOfSeq
<1>3. e \in ServerType /\ e.account = servers[k].account /\ e.by = servers[k].by
  BY <1>2 DEF ServerType
<1>4. servers' = [servers EXCEPT ![k] = e]
  BY DEF Address
<1> HIDE DEF e
<1>5. /\ servers' \in Seq(ServerType) /\ Len(servers') = Len(servers)
      /\ \A i \in 1..Len(servers) : servers'[i] = IF i = k THEN e ELSE servers[i]
  BY <1>1, <1>3, <1>4, ExceptSeq
<1>. QED
  BY <1>3, <1>5 DEF Own

\* A new server comes last.
LEMMA AppendKeeps ==
  ASSUME TypeOK, on \in Accounts, servers' = Append(servers, Server(on, "run"))
  PROVE  /\ servers' \in Seq(ServerType) /\ Len(servers') = Len(servers) + 1 /\ Len(servers) \in Nat
         /\ \A i \in 1..Len(servers) : servers'[i] = servers[i]
         /\ servers'[Len(servers')].account = on
         /\ Own' = Own \cup {Len(servers')}
<1> DEFINE new == Server(on, "run")
<1>1. servers \in Seq(ServerType) /\ Len(servers) \in Nat
  BY LenProperties DEF TypeOK, ServerType
<1>2. new \in ServerType /\ new.account = on /\ new.by = "run"
  BY DEF Server, ServerType
<1> HIDE DEF new
<1>3. /\ servers' \in Seq(ServerType) /\ Len(servers') = Len(servers) + 1
      /\ \A i \in 1..Len(servers) : servers'[i] = servers[i]
      /\ servers'[Len(servers) + 1] = new
  BY <1>1, <1>2, AppendProperties DEF new
<1>. QED
  BY <1>1, <1>2, <1>3 DEF Own

-----------------------------------------------------------------------------
(* Type correctness.                                                       *)

\* TypeOK in parts: the record, the request, the handlers, the provider, the rest.
RunOK ==
  /\ steps \in [Steps -> {"none", "live", "stale", "pending", "done"}]
  /\ account \in Accounts \cup {NoAccount}
  /\ recorded \in [how : {"none", "created", "reused"}, nr : 0..Len(servers)]
  /\ slug \in 0..Len(servers) /\ created \in {"unknown", "yes", "no"}
  /\ mail \in {"none", "passed", "failed"}
RequestOK ==
  /\ requested \in Accounts \cup {NoAccount}
  /\ pc \in {"idle", "choosing", "calling", "executing", "waiting", "adopting", "readopting",
             "gating", "checking", "proposing"}
  /\ cur \in Steps /\ excluded \subseteq Accounts /\ declined \in BOOLEAN
  /\ answer \in {"none", "ok", "created", "reused", "payment", "error", "incomplete", "failed"}
HandlerOK ==
  /\ replay \subseteq Steps
  /\ at \in [Steps -> {"none", "looking", "making", "preparing", "binding", "rebinding",
                    "working"}]
  /\ on \in Accounts \cup {NoAccount} /\ made \in 0..Len(servers)
ProviderOK ==
  /\ servers \in Seq(ServerType)
  /\ binding \in 0..Len(servers)
PastOK ==
  /\ rollbacks \subseteq [nr : 1..Len(servers), account : Accounts]
  /\ starts \in 0..MaxStarts /\ crashes \in 0..MaxCrashes

\* The parts together are the type invariant, before and after a step.
LEMMA TypeParts ==
  /\ TypeOK <=> RunOK /\ RequestOK /\ HandlerOK /\ ProviderOK /\ PastOK
  /\ TypeOK' <=> RunOK' /\ RequestOK' /\ HandlerOK' /\ ProviderOK' /\ PastOK'
BY DEF TypeOK, RunOK, RequestOK, HandlerOK, ProviderOK, PastOK, ServerType

\* A part whose variables and whose servers stay as they are keeps its types.
LEMMA PartsKept ==
  ASSUME TypeOK, UNCHANGED servers
  PROVE  /\ UNCHANGED run => RunOK'
         /\ UNCHANGED request => RequestOK'
         /\ UNCHANGED handler => HandlerOK'
         /\ UNCHANGED binding => ProviderOK'
         /\ UNCHANGED <<rollbacks, starts, crashes>> => PastOK'
<1> USE TypeParts
<1>1. UNCHANGED run => RunOK'
  BY DEF RunOK, run
<1>2. UNCHANGED request => RequestOK'
  BY DEF RequestOK, request
<1>3. UNCHANGED handler => HandlerOK'
  BY DEF HandlerOK, handler
<1>4. UNCHANGED binding => ProviderOK'
  BY DEF ProviderOK
<1>5. UNCHANGED <<rollbacks, starts, crashes>> => PastOK'
  BY DEF PastOK
<1>. QED
  BY <1>1, <1>2, <1>3, <1>4, <1>5

\* More servers, and the same values, keep the types that mention servers.
LEMMA PartsGrow ==
  ASSUME TypeOK, Len(servers) \in Nat, Len(servers') \in Nat, Len(servers) <= Len(servers')
  PROVE  /\ UNCHANGED run => RunOK'
         /\ UNCHANGED request => RequestOK'
         /\ UNCHANGED handler => HandlerOK'
         /\ UNCHANGED binding /\ servers' \in Seq(ServerType) => ProviderOK'
         /\ UNCHANGED <<rollbacks, starts, crashes>> => PastOK'
<1> USE TypeParts
<1>1. 0..Len(servers) \subseteq 0..Len(servers') /\ 1..Len(servers) \subseteq 1..Len(servers')
  OBVIOUS
<1>2. UNCHANGED run => RunOK'
  BY <1>1 DEF RunOK, run
<1>3. UNCHANGED request => RequestOK'
  BY DEF RequestOK, request
<1>4. UNCHANGED handler => HandlerOK'
  BY <1>1 DEF HandlerOK, handler
<1>5. UNCHANGED binding /\ servers' \in Seq(ServerType) => ProviderOK'
  BY <1>1 DEF ProviderOK
<1>6. UNCHANGED <<rollbacks, starts, crashes>> => PastOK'
  BY <1>1 DEF PastOK
<1>. QED
  BY <1>2, <1>3, <1>4, <1>5, <1>6

\* A failed call ends the request or moves the creation on.
LEMMA CallFailsTypes ==
  ASSUME TypeOK, RunInv, NEW payment \in BOOLEAN, CallFails(payment),
         pc \in {"calling", "executing", "waiting"}, UNCHANGED <<servers, recorded, slug, created, mail>>
  PROVE  RunOK' /\ RequestOK'
<1> USE TypeParts DEF Go, Leave
<1>1. Released \in [Steps -> {"none", "live", "stale", "pending", "done"}]
  BY DEF Released, RunOK
<1>2. CASE NextAccount(payment)
  <2>1. account \in Accounts
    BY <1>2 DEF NextAccount, MovesOn, RunInv, RequestPlaced
  <2>. QED
    BY <1>1, <1>2, <2>1 DEF NextAccount, RunOK, RequestOK
<1>3. CASE ~ NextAccount(payment)
  <2>1. Fail(IF cur = "create" THEN Released ELSE steps, cur \in {"provision", "send"})
        /\ UNCHANGED account
    BY <1>3 DEF CallFails
  <2>. QED
    BY <1>1, <2>1 DEF Fail, RunOK, RequestOK
<1>. QED
  BY <1>2, <1>3

\* Every step keeps every variable in its type.
LEMMA TypeStep == TypeOK /\ RunInv /\ [Next]_vars => TypeOK'
<1> SUFFICES ASSUME TypeOK, RunInv, [Next]_vars
             PROVE  RunOK' /\ RequestOK' /\ HandlerOK' /\ ProviderOK' /\ PastOK'
  BY TypeParts
<1> USE TypeParts DEF Go, Leave, handler, provider
<1>1. MaxStarts \in Nat /\ MaxCrashes \in Nat /\ Len(servers) \in Nat
  BY RunAssumption, LenProperties DEF RunAssumption, ProviderOK
<1>2. ASSUME NEW a \in Accounts \cup {NoAccount}, Start(a)
      PROVE  RunOK' /\ RequestOK' /\ HandlerOK' /\ ProviderOK' /\ PastOK'
  <2>1. HandlerOK' /\ ProviderOK'
    BY <1>2, PartsKept DEF Start
  <2>2. RunOK' /\ RequestOK'
    BY <1>2 DEF Start, Enter, RunOK, RequestOK, Steps
  <2>3. PastOK'
    BY <1>1, <1>2 DEF Start, PastOK
  <2>. QED
    BY <2>1, <2>2, <2>3
<1>3. CASE Choose
  <2>1. HandlerOK' /\ ProviderOK' /\ PastOK'
    BY <1>3, PartsKept DEF Choose
  <2>2. UNCHANGED <<servers, recorded, slug, created, mail>>
    BY <1>3 DEF Choose
  <2>3. account' \in Accounts \cup {NoAccount} /\ excluded' \subseteq Accounts
    BY <1>3 DEF Choose, RunOK, RequestOK, Fail
  <2>4. Released \in [Steps -> {"none", "live", "stale", "pending", "done"}]
    BY DEF Released, RunOK
  <2>5. steps' \in [Steps -> {"none", "live", "stale", "pending", "done"}]
    BY <1>3, <2>4 DEF Choose, RunOK, Fail
  <2>6. /\ pc' \in {"calling", "choosing", "idle", "proposing"} /\ UNCHANGED <<cur, answer>>
        /\ requested' \in {requested, NoAccount} /\ declined' \in {declined, FALSE}
    BY <1>3 DEF Choose, Fail
  <2>7. RunOK'
    BY <2>2, <2>3, <2>5 DEF RunOK
  <2>8. RequestOK'
    BY <2>3, <2>6 DEF RequestOK
  <2>. QED
    BY <2>1, <2>7, <2>8
<1>4. CASE Skip
  <2>1. RunOK' /\ HandlerOK' /\ ProviderOK' /\ PastOK'
    BY <1>4, PartsKept DEF Skip
  <2>. QED
    BY <1>4, <2>1 DEF Skip, Enter, After, RequestOK, Steps
<1>5. CASE InFlight
  <2>1. HandlerOK' /\ ProviderOK' /\ PastOK'
    BY <1>5, PartsKept DEF InFlight
  <2>. QED
    BY <1>5, <2>1 DEF InFlight, Fail, RunOK, RequestOK
<1>6. ASSUME NEW deep \in BOOLEAN, Refuse(deep)
      PROVE  RunOK' /\ RequestOK' /\ HandlerOK' /\ ProviderOK' /\ PastOK'
  <2>1. HandlerOK' /\ ProviderOK' /\ PastOK' /\ UNCHANGED <<servers, recorded, slug, created, mail>>
        /\ pc \in {"calling", "executing"}
    BY <1>6, PartsKept DEF Refuse
  <2>2. CASE CallFails(declined)
    BY <2>1, <2>2, CallFailsTypes DEF RequestOK
  <2>3. CASE Fail(steps, FALSE) /\ UNCHANGED account
    BY <2>1, <2>3 DEF Fail, RunOK, RequestOK
  <2>. QED
    BY <1>6, <2>1, <2>2, <2>3 DEF Refuse
<1>7. CASE MarkInFlight
  <2>1. HandlerOK' /\ ProviderOK' /\ PastOK'
    BY <1>7, PartsKept DEF MarkInFlight
  <2>. QED
    BY <1>7, <2>1 DEF MarkInFlight, RunOK, RequestOK
<1>8. CASE Execute
  <2>1. ProviderOK' /\ PastOK' /\ UNCHANGED <<servers, recorded, slug, created, mail>>
        /\ pc = "executing"
    BY <1>8, PartsKept DEF Execute
  <2>2. CASE CallFails(declined) /\ UNCHANGED handler
    BY <2>1, <2>2, CallFailsTypes, PartsKept DEF RequestOK
  <2>3. CASE ~ Replayed(cur)
    <3>1. RunOK' /\ RequestOK'
      BY <1>8, <2>1, <2>3 DEF Execute, RunOK, RequestOK
    <3>2. HandlerOK'
      BY <1>8, <2>1, <2>3 DEF Execute, HandlerOK, RunOK, RequestOK
    <3>. QED
      BY <2>1, <3>1, <3>2
  <2>. QED
    BY <1>8, <2>1, <2>2, <2>3 DEF Execute
<1>9. CASE TimeOut
  BY <1>9, CallFailsTypes, PartsKept DEF TimeOut
<1>10. CASE ReceiveFailure
  BY <1>10, CallFailsTypes, PartsKept DEF ReceiveFailure
<1>11. CASE ReceiveResult
  <2>1. HandlerOK' /\ ProviderOK' /\ PastOK' /\ servers' = servers
    BY <1>11, PartsKept DEF ReceiveResult
  <2>2. cur = "create" => answer \in {"created", "reused"}
    BY <1>11 DEF ReceiveResult, RunInv, AnswerSound
  <2>3. recorded' \in [how : {"none", "created", "reused"}, nr : 0..Len(servers)]
    BY <1>11, <2>2 DEF ReceiveResult, RunOK, HandlerOK
  <2>4. RunOK'
    BY <1>11, <2>1, <2>3 DEF ReceiveResult, RunOK
  <2>5. RequestOK'
    BY <1>11 DEF ReceiveResult, Enter, After, RequestOK, Steps
  <2>. QED
    BY <2>1, <2>4, <2>5
<1>12. CASE Adopt
  <2>1. HandlerOK' /\ ProviderOK' /\ PastOK'
    BY <1>12, PartsKept DEF Adopt
  <2>2. RunOK'
    BY <1>12, <2>1 DEF Adopt, Enter, Provenance, RunOK
  <2>3. RequestOK'
    BY <1>12 DEF Adopt, Enter, RequestOK, Steps
  <2>. QED
    BY <2>1, <2>2, <2>3
<1>13. CASE Gate
  <2>1. HandlerOK' /\ ProviderOK' /\ PastOK'
    BY <1>13, PartsKept DEF Gate
  <2>2. steps' \in [Steps -> {"none", "live", "stale", "pending", "done"}] /\ mail' \in {"none", "passed", "failed"}
    BY <1>13 DEF Gate, Fail, RunOK
  <2>3. RunOK'
    BY <1>13, <2>1, <2>2 DEF Gate, RunOK
  <2>4. RequestOK'
    BY <1>13 DEF Gate, Fail, RequestOK, Steps
  <2>. QED
    BY <2>1, <2>3, <2>4
<1>14. CASE Check
  <2>1. HandlerOK' /\ ProviderOK' /\ PastOK'
    BY <1>14, PartsKept DEF Check
  <2>2. steps' \in [Steps -> {"none", "live", "stale", "pending", "done"}] /\ mail' \in {"none", "passed", "failed"}
    BY <1>14 DEF Check, Fail, RunOK
  <2>3. RunOK'
    BY <1>14, <2>1, <2>2 DEF Check, RunOK
  <2>4. RequestOK'
    BY <1>14 DEF Check, Fail, RequestOK, Steps
  <2>. QED
    BY <2>1, <2>3, <2>4
<1>15. CASE Propose
  <2>1. RunOK' /\ HandlerOK' /\ ProviderOK'
    BY <1>15, PartsKept DEF Propose
  <2>2. RequestOK'
    BY <1>15 DEF Propose, RequestOK
  <2>3. slug \in Own
    BY <1>15 DEF Propose, RunInv, RequestPlaced, RecordSound
  <2>4. slug \in 1..Len(servers) /\ account = servers[slug].account
    BY <2>3 DEF Own, RunInv, AccountRemembered
  <2>5. account \in Accounts
    <3>1. servers[slug] \in ServerType
      BY <2>4, ElementOfSeq DEF ProviderOK
    <3>. QED
      BY <2>4, <3>1 DEF ServerType
  <2>6. PastOK'
    BY <1>15, <2>4, <2>5 DEF Propose, PastOK
  <2>. QED
    BY <2>1, <2>2, <2>6
<1>16. CASE Look
  <2>1. RunOK' /\ ProviderOK' /\ PastOK' /\ servers' = servers
    BY <1>16, PartsKept DEF Look
  <2>2. made' \in 0..Len(servers)
    BY <1>16 DEF Look, Listed, HandlerOK, ProviderOK
  <2>3. at' \in [Steps -> {"none", "looking", "making", "preparing", "binding", "rebinding", "working"}]
        /\ RequestOK'
    BY <1>16 DEF Look, Answer, HandlerOK, RequestOK
  <2>. QED
    BY <1>16, <2>1, <2>2, <2>3 DEF Look, HandlerOK
<1>17. CASE Make
  <2>1. on \in Accounts
    BY <1>17 DEF Make, RunInv, CreationPlaced
  <2>2. /\ servers' \in Seq(ServerType) /\ Len(servers') \in Nat /\ Len(servers) <= Len(servers')
    BY <1>1, <1>17, <2>1, AppendKeeps DEF Make, ProviderOK
  <2>3. RunOK' /\ ProviderOK' /\ PastOK'
    BY <1>1, <1>17, <2>2, PartsGrow DEF Make
  <2>4. made' \in 0..Len(servers')
    BY <1>1, <1>17, <2>2 DEF Make, HandlerOK
  <2>5. at' \in [Steps -> {"none", "looking", "making", "preparing", "binding", "rebinding", "working"}]
        /\ RequestOK'
    BY <1>17 DEF Make, Answer, HandlerOK, RequestOK
  <2>. QED
    BY <1>17, <2>3, <2>4, <2>5 DEF Make, HandlerOK
<1>18. CASE Prepare
  <2>1. RunOK' /\ ProviderOK' /\ PastOK'
    BY <1>18, PartsKept DEF Prepare
  <2>. QED
    BY <1>18, <2>1 DEF Prepare, Answer, HandlerOK, RequestOK
<1>19. CASE Bind
  <2>1. RunOK' /\ PastOK'
    BY <1>19, PartsKept DEF Bind
  <2>2. ProviderOK'
    BY <1>19 DEF Bind, ProviderOK, HandlerOK
  <2>. QED
    BY <1>19, <2>1, <2>2 DEF Bind, Answer, HandlerOK, RequestOK
<1>20. ASSUME NEW s \in Steps, NEW what \in {"ok", "error", "incomplete", "failed"}, Work(s, what)
       PROVE  RunOK' /\ RequestOK' /\ HandlerOK' /\ ProviderOK' /\ PastOK'
  <2>1. RunOK' /\ ProviderOK' /\ PastOK'
    BY <1>20, PartsKept DEF Work
  <2>. QED
    BY <1>20, <2>1 DEF Work, Answer, HandlerOK, RequestOK
<1>21. ASSUME NEW k \in 1..Len(servers), Address(k)
       PROVE  RunOK' /\ RequestOK' /\ HandlerOK' /\ ProviderOK' /\ PastOK'
  <2>1. servers' \in Seq(ServerType) /\ Len(servers') = Len(servers)
    BY <1>21, AddressKeeps
  <2>. QED
    BY <1>1, <1>21, <2>1, PartsGrow DEF Address
<1>22. ASSUME NEW s \in Steps, Expire(s)
       PROVE  RunOK' /\ RequestOK' /\ HandlerOK' /\ ProviderOK' /\ PastOK'
  <2>1. RequestOK' /\ HandlerOK' /\ ProviderOK' /\ PastOK'
    BY <1>22, PartsKept DEF Expire
  <2>. QED
    BY <1>22, <2>1 DEF Expire, RunOK
<1>23. CASE Crash
  <2>1. RunOK' /\ ProviderOK' /\ servers' = servers
    BY <1>23, PartsKept DEF Crash
  <2>2. RequestOK'
    BY <1>23 DEF Crash, RequestOK
  <2>3. PastOK'
    BY <1>1, <1>23, <2>1 DEF Crash, PastOK
  <2>4. HandlerOK'
    BY <1>1, <1>23, <2>1 DEF Crash, HandlerOK
  <2>. QED
    BY <2>1, <2>2, <2>4, <2>3
<1>24. CASE UNCHANGED vars
  BY <1>24, PartsKept DEF vars
<1>. QED
  BY <1>2, <1>3, <1>4, <1>5, <1>6, <1>7, <1>8, <1>9, <1>10, <1>11, <1>12, <1>13, <1>14, <1>15, <1>16, <1>17, <1>18, <1>19, <1>20, <1>21, <1>22, <1>23, <1>24 DEF Next

-----------------------------------------------------------------------------
(* Servers and accounts.                                                   *)

\* The run gets a server when its creation makes one, in the account on record; no other
\* step changes whose the servers are or where they live.
SameServers ==
  /\ Own' = Own /\ Len(servers') = Len(servers)
  /\ \A i \in 1..Len(servers) : servers'[i].account = servers[i].account
                               /\ servers'[i].by = servers[i].by
NewServer ==
  /\ Make /\ at["create"] = "making" /\ on = account /\ on \in Accounts
  /\ Own' = Own \cup {Len(servers')}
  /\ Len(servers') = Len(servers) + 1 /\ Len(servers) \in Nat
  /\ servers'[Len(servers')].account = on
  /\ \A i \in 1..Len(servers) : servers'[i] = servers[i]
LEMMA ServersStep ==
  ASSUME TypeOK, RunInv, [Next]_vars
  PROVE  SameServers \/ NewServer
<1>1. CASE UNCHANGED servers
  BY <1>1 DEF SameServers, Own
<1>2. ASSUME NEW k \in 1..Len(servers), Address(k) PROVE SameServers
  BY <1>2, AddressKeeps DEF SameServers
<1>3. CASE Make /\ servers' = Append(servers, Server(on, "run"))
  <2>1. at["create"] = "making" /\ on = account /\ on \in Accounts
    BY <1>3 DEF Make, RunInv, CreationPlaced
  <2>. QED
    BY <1>3, <2>1, AppendKeeps DEF NewServer
<1>4. \/ UNCHANGED servers
      \/ Make /\ servers' = Append(servers, Server(on, "run"))
      \/ \E k \in 1..Len(servers) : Address(k)
  BY DEF Next, vars, provider, Start, Choose, Skip, InFlight, Refuse, MarkInFlight, Execute, TimeOut,
         ReceiveFailure, ReceiveResult, Adopt, Gate, Check, Propose, Look, Make, Prepare, Bind, Work,
         Expire, Crash
<1>. QED
  BY <1>1, <1>2, <1>3, <1>4

\* The call that moves the creation on to another account comes before any server.
LEMMA MovesOnEarly ==
  ASSUME TypeOK, RunInv, NEW payment \in BOOLEAN, NextAccount(payment),
         \/ pc \in {"calling", "executing"}
         \/ pc = "waiting" /\ (payment => answer = "payment")
  PROVE  Own = {} /\ at["create"] = "none"
<1>1. cur = "create" /\ requested = NoAccount /\ payment
  BY DEF NextAccount, MovesOn, Recoverable
<1>2. CASE pc \in {"calling", "executing"}
  BY <1>1, <1>2 DEF RunInv, RequestBound, Open
<1>3. CASE pc = "waiting"
  BY <1>1, <1>3 DEF RunInv, AnswerSound
<1>. QED
  BY <1>2, <1>3

\* Without an account on record there is no server of the run's and no creation.
LEMMA UnboundEarly ==
  ASSUME TypeOK, RunInv, account = NoAccount
  PROVE  Own = {} /\ at["create"] = "none"
<1>1. ASSUME NEW k \in Own PROVE servers[k].account \in Accounts
  <2>1. servers[k] \in ServerType
    BY ElementOfSeq DEF Own, TypeOK, ServerType
  <2>. QED
    BY <2>1 DEF ServerType
<1>2. \A k \in Own : servers[k].account = NoAccount
  BY DEF RunInv, AccountRemembered
<1>3. Own = {}
  BY <1>1, <1>2, RunAssumption DEF RunAssumption
<1>4. at["create"] = "none"
  BY RunAssumption DEF RunAssumption, RunInv, CreationPlaced
<1>. QED
  BY <1>3, <1>4

\* The recorded account changes only before there is a server or a creation.
LEMMA AccountKept ==
  ASSUME TypeOK, RunInv, [Next]_vars
  PROVE  account' = account \/ (Own = {} /\ at["create"] = "none")
<1> USE DEF run
<1>1. ASSUME NEW a \in Accounts \cup {NoAccount}, Start(a), account = NoAccount
      PROVE  Own = {} /\ at["create"] = "none"
  BY <1>1, UnboundEarly
<1>2. ASSUME Choose, account' # account PROVE Own = {} /\ at["create"] = "none"
  <2>1. requested = NoAccount /\ pc = "choosing"
    BY <1>2 DEF Choose, RunInv, RequestBound
  <2>. QED
    BY <2>1 DEF RunInv, RequestBound, Open
<1>3. ASSUME NEW payment \in BOOLEAN, CallFails(payment), account' # account,
             pc \in {"calling", "executing"} \/ (pc = "waiting" /\ (payment => answer = "payment"))
      PROVE  Own = {} /\ at["create"] = "none"
  BY <1>3, MovesOnEarly DEF CallFails
<1>4. ASSUME NEW deep \in BOOLEAN, Refuse(deep), account' # account
      PROVE  Own = {} /\ at["create"] = "none"
  <2>1. CallFails(declined) /\ pc \in {"calling", "executing"} /\ declined \in BOOLEAN
    BY <1>4 DEF Refuse, TypeOK
  <2>. QED
    BY <1>3, <1>4, <2>1
<1>5. ASSUME Execute, account' # account PROVE Own = {} /\ at["create"] = "none"
  <2>1. CallFails(declined) /\ pc = "executing" /\ declined \in BOOLEAN
    BY <1>5 DEF Execute, TypeOK
  <2>. QED
    BY <1>3, <1>5, <2>1
<1>6. ASSUME TimeOut \/ ReceiveFailure, account' # account PROVE Own = {} /\ at["create"] = "none"
  <2>1. pc = "waiting" /\ \E payment \in BOOLEAN : CallFails(payment) /\ (payment => answer = "payment")
    BY <1>6 DEF TimeOut, ReceiveFailure
  <2>. QED
    BY <1>3, <1>6, <2>1
<1>7. \/ account' = account \/ Choose \/ Execute \/ TimeOut \/ ReceiveFailure
      \/ \E deep \in BOOLEAN : Refuse(deep)
      \/ \E a \in Accounts \cup {NoAccount} : Start(a) /\ account = NoAccount
  BY DEF Next, vars, Start, Skip, InFlight, MarkInFlight, ReceiveResult, Adopt, Gate, Check, Propose,
         Look, Make, Prepare, Bind, Work, Address, Expire, Crash
<1>. QED
  BY <1>1, <1>2, <1>4, <1>5, <1>6, <1>7

\* Every server of the run is in the account on record.
LEMMA AccountStep == TypeOK /\ RunInv /\ [Next]_vars => AccountRemembered'
<1> SUFFICES ASSUME TypeOK, RunInv, [Next]_vars PROVE AccountRemembered'
  OBVIOUS
<1>1. CASE SameServers
  <2>1. ASSUME NEW k \in Own PROVE account' = servers'[k].account
    BY <1>1, <2>1, AccountKept DEF SameServers, RunInv, AccountRemembered, Own
  <2>. QED
    BY <1>1, <2>1 DEF SameServers, AccountRemembered
<1>2. CASE NewServer
  <2>1. account' = account
    BY <1>2 DEF NewServer, Make, run
  <2>2. \A k \in Own : servers'[k].account = account
    BY <1>2 DEF NewServer, Own, RunInv, AccountRemembered
  <2>. QED
    BY <1>2, <2>1, <2>2 DEF NewServer, AccountRemembered
<1>. QED
  BY <1>1, <1>2, ServersStep

\* A process makes one server: it has one to make until its creation has made it, and a
\* restart gives it another.
LEMMA BudgetStep == TypeOK /\ RunInv /\ [Next]_vars => OneServer' /\ Budgeted'
<1> SUFFICES ASSUME TypeOK, RunInv, [Next]_vars PROVE OneServer' /\ Budgeted'
  OBVIOUS
<1>1. crashes \in Nat /\ Cardinality(Own) \in Nat /\ IsFiniteSet(Own) /\ Cardinality(Own) <= 1 + crashes
  BY RunAssumption, FS_CardinalityType DEF RunAssumption, TypeOK, RunInv, Budgeted, OneServer
<1>2. CASE SameServers
  <2>1. Own' = Own
    BY <1>2 DEF SameServers
  <2>2. CASE Crash
    BY <1>1, <2>1, <2>2 DEF Crash, OneServer, Budgeted
  <2>3. CASE ~ Crash
    <3>1. crashes' = crashes
      BY <2>3 DEF Next, vars, Start, Choose, Skip, InFlight, Refuse, MarkInFlight, Execute, TimeOut,
                  ReceiveFailure, ReceiveResult, Adopt, Gate, Check, Propose, Look, Make, Prepare, Bind,
                  Work, Address, Expire
    <3>2. "create" \notin replay' => "create" \notin replay
      BY <2>3 DEF Next, vars, handler, Start, Choose, Skip, InFlight, Refuse, MarkInFlight, Execute, TimeOut,
                  ReceiveFailure, ReceiveResult, Adopt, Gate, Check, Propose, Look, Make, Prepare, Bind,
                  Work, Address, Expire
    <3>3. at'["create"] \in {"looking", "making"} =>
            at["create"] \in {"looking", "making"} \/ "create" \notin replay
      BY <2>3 DEF Next, vars, handler, Start, Choose, Skip, InFlight, Refuse, MarkInFlight, Execute, TimeOut,
                  ReceiveFailure, ReceiveResult, Adopt, Gate, Check, Propose, Look, Make, Prepare, Bind,
                  Work, Address, Expire, CallFails, Answer, Replayed, TypeOK
    <3>. QED
      BY <1>1, <2>1, <3>1, <3>2, <3>3 DEF OneServer, Budgeted, RunInv
  <2>. QED
    BY <2>2, <2>3
<1>3. CASE NewServer
  <2>1. /\ crashes' = crashes /\ replay' = replay /\ "create" \in replay
        /\ at'["create"] \notin {"looking", "making"}
    <3>1. servers' # servers
      BY <1>3, LenProperties DEF NewServer, TypeOK
    <3>. QED
      BY <1>3, <3>1 DEF NewServer, Make, Answer, TypeOK, Steps, RunInv, CreationPlaced
  <2>2. Cardinality(Own) <= crashes
    BY <1>3 DEF NewServer, RunInv, Budgeted
  <2>3. IsFiniteSet(Own') /\ Cardinality(Own') <= Cardinality(Own) + 1
    <3>1. /\ IsFiniteSet(Own \cup {Len(servers')})
          /\ \/ Cardinality(Own \cup {Len(servers')}) = Cardinality(Own)
             \/ Cardinality(Own \cup {Len(servers')}) = Cardinality(Own) + 1
      BY <1>1, FS_AddElement
    <3>. QED
      BY <1>1, <1>3, <3>1 DEF NewServer
  <2>4. Cardinality(Own') \in Nat
    BY <2>3, FS_CardinalityType
  <2>. QED
    BY <1>1, <2>1, <2>2, <2>3, <2>4 DEF OneServer, Budgeted
<1>. QED
  BY <1>2, <1>3, ServersStep

\* The run makes a server only unbound and beside none, and is bound to its last.
LEMMA NoneBesideStep == TypeOK /\ RunInv /\ [Next]_vars => NoneBeside'
<1> SUFFICES ASSUME TypeOK, RunInv, [Next]_vars PROVE NoneBeside'
  OBVIOUS
<1>1. CASE NewServer
  <2>1. binding' = 0
    BY <1>1 DEF NewServer, Make, RunInv, CreationSound
  <2>2. \A i \in 1..Len(servers') \ Own' : i \in 1..Len(servers) \ Own /\ servers'[i] = servers[i]
    BY <1>1 DEF NewServer
  <2>3. \A k \in Own : k \in 1..Len(servers) /\ servers'[k] = servers[k]
    BY <1>1 DEF NewServer, Own
  <2>4. \A i \in 1..Len(servers) \ Own : servers[i].account # on
    BY <1>1 DEF NewServer, RunInv, CreationSound
  <2>. QED
    BY <1>1, <2>1, <2>2, <2>3, <2>4 DEF NewServer, NoneBeside, RunInv
<1>2. CASE SameServers
  <2>1. \A k \in Own, i \in 1..Len(servers) \ Own : servers'[i].account # servers'[k].account
    BY <1>2 DEF SameServers, NoneBeside, RunInv, Own
  <2>2. CASE binding' = binding
    BY <1>2, <2>1, <2>2 DEF SameServers, NoneBeside, RunInv
  <2>3. CASE binding' # binding
    <3>1. binding' = made /\ at["create"] \in {"binding", "rebinding"}
      BY <2>3 DEF Next, vars, provider, Start, Choose, Skip, InFlight, Refuse, MarkInFlight, Execute, TimeOut,
                  ReceiveFailure, ReceiveResult, Adopt, Gate, Check, Propose, Look, Make, Prepare, Bind,
                  Work, Address, Expire, Crash
    <3>. QED
      BY <1>2, <2>1, <3>1 DEF SameServers, NoneBeside, RunInv, CreationSound
  <2>. QED
    BY <2>2, <2>3
<1>. QED
  BY <1>1, <1>2, ServersStep

\* Deletions are proposed for the server and the account on record.
LEMMA RollbackStep == TypeOK /\ RunInv /\ [Next]_vars => RollbackOnlyOwn'
<1> SUFFICES ASSUME TypeOK, RunInv, [Next]_vars, NEW x \in rollbacks'
             PROVE  servers'[x.nr].by = "run" /\ servers'[x.nr].account = x.account
  BY DEF RollbackOnlyOwn
<1>1. CASE x \in rollbacks
  <2>1. /\ x.nr \in 1..Len(servers)
        /\ servers[x.nr].by = "run" /\ servers[x.nr].account = x.account
    BY <1>1 DEF TypeOK, RunInv, RollbackOnlyOwn
  <2>. QED
    BY <2>1, ServersStep DEF SameServers, NewServer
<1>2. CASE x \notin rollbacks
  <2>1. Propose
    BY <1>2 DEF Next, vars, Start, Choose, Skip, InFlight, Refuse, MarkInFlight, Execute, TimeOut,
                ReceiveFailure, ReceiveResult, Adopt, Gate, Check, Look, Make, Prepare, Bind, Work,
                Address, Expire, Crash
  <2>2. x = [nr |-> slug, account |-> account] /\ servers' = servers
    BY <1>2, <2>1 DEF Propose, provider
  <2>3. slug \in Own
    BY <2>1 DEF Propose, RunInv, RequestPlaced, RecordSound
  <2>. QED
    BY <2>2, <2>3 DEF Own, RunInv, AccountRemembered
<1>. QED
  BY <1>1, <1>2

-----------------------------------------------------------------------------
(* The request, the creation and the record.                               *)

PlacedInv ==
  /\ RequestBound
  /\ RequestPlaced
  /\ CreationPlaced
  /\ FirstUnbound
  /\ AnswerSound
  /\ RecordSound

\* A creation that finds nothing has no binding and no server listed for the host; one it
\* finds comes after every server of the run's.
LEMMA LookFinds ==
  ASSUME TypeOK, RunInv, at["create"] = "looking", NEW found \in Listed, NEW known,
         known = IF binding # 0 /\ 0 \notin found THEN {binding} ELSE found
  PROVE  /\ known = {} => binding = 0 /\ \A i \in 1..Len(servers) \ Own : servers[i].account # on
         /\ \A m \in known \ {0} : servers[m].account = on => \A k \in Own : k <= m
<1>1. Len(servers) \in Nat /\ on = account
  BY LenProperties DEF TypeOK, RunInv, CreationPlaced
<1>2. found = {k \in 1..Len(servers) : servers[k].account = on /\ servers[k].by = "other"} \/ found = {0}
  BY DEF Listed
<1>3. ASSUME NEW i \in 1..Len(servers) \ Own PROVE servers[i].by = "other"
  <2>1. servers[i] \in ServerType
    BY ElementOfSeq DEF TypeOK, ServerType
  <2>. QED
    BY <2>1 DEF Own, ServerType
<1>4. ASSUME known = {} PROVE binding = 0 /\ \A i \in 1..Len(servers) \ Own : servers[i].account # on
  BY <1>2, <1>3, <1>4
<1>5. ASSUME NEW m \in known \ {0}, servers[m].account = on, NEW k \in Own PROVE k <= m
  <2>1. CASE binding # 0 /\ m = binding
    BY <2>1 DEF RunInv, NoneBeside
  <2>2. CASE m \in found
    <3>1. m \in 1..Len(servers) \ Own
      BY <1>2, <1>5, <2>2 DEF Own
    <3>2. servers[k].account = on
      BY <1>1 DEF RunInv, AccountRemembered
    <3>. QED
      BY <1>5, <3>1, <3>2 DEF RunInv, NoneBeside
  <2>. QED
    BY <1>5, <2>1, <2>2
<1>. QED
  BY <1>4, <1>5

\* The creation makes a server only unbound and beside none, and binds the run to its last.
LEMMA CreationStep == TypeOK /\ RunInv /\ [Next]_vars => CreationSound'
<1> SUFFICES ASSUME TypeOK, RunInv, [Next]_vars PROVE CreationSound'
  OBVIOUS
<1>1. CASE Look
  <2>1. /\ at["create"] = "looking" /\ servers' = servers /\ on' = on /\ binding' = binding
    BY <1>1 DEF Look, provider
  <2>2. PICK found \in Listed :
          LET known == IF binding # 0 /\ 0 \notin found THEN {binding} ELSE found
              usable == {k \in known \ {0} : servers[k].account = on /\ servers[k].ip} IN
          \/ known = {} /\ at' = [at EXCEPT !["create"] = "making"]
          \/ made' \in usable /\ at' = [at EXCEPT !["create"] = "rebinding"]
          \/ at' = [at EXCEPT !["create"] = "none"]
    BY <1>1 DEF Look, Answer
  <2> DEFINE known == IF binding # 0 /\ 0 \notin found THEN {binding} ELSE found
  <2>3. /\ known = {} => binding = 0 /\ \A i \in 1..Len(servers) \ Own : servers[i].account # on
        /\ \A m \in known \ {0} : servers[m].account = on => \A k \in Own : k <= m
    BY <2>1, LookFinds
  <2>4. Own' = Own
    BY <2>1 DEF Own
  <2>5. \/ known = {} /\ at'["create"] = "making"
        \/ (\A k \in Own : k <= made') /\ at'["create"] = "rebinding"
        \/ at'["create"] = "none"
    BY <2>2, <2>3 DEF TypeOK, Steps
  <2>. QED
    BY <2>1, <2>3, <2>4, <2>5 DEF CreationSound
<1>2. CASE NewServer
  <2>1. servers' # servers
    BY <1>2, LenProperties DEF NewServer, TypeOK
  <2>2. \/ at'["create"] = "preparing" /\ made' = Len(servers')
        \/ at'["create"] = "none"
    BY <1>2, <2>1 DEF NewServer, Make, Answer, TypeOK, Steps
  <2>3. \A k \in Own' : k <= Len(servers')
    BY <1>2 DEF NewServer, Own
  <2>4. Len(servers') \in Own'
    BY <1>2 DEF NewServer
  <2>. QED
    BY <2>2, <2>3, <2>4 DEF CreationSound
<1>3. CASE SameServers /\ ~ Look
  <2>1. \/ at'["create"] \notin {"making", "preparing", "binding", "rebinding"}
        \/ /\ made' = made /\ on' = on
           /\ \/ at'["create"] = at["create"] /\ binding' = binding
              \/ at["create"] = "preparing" /\ at'["create"] = "binding"
    <3>1. CASE Make
      <4>1. servers' # Append(servers, Server(on, "run"))
        <5>1. on \in Accounts
          BY <3>1 DEF Make, RunInv, CreationPlaced
        <5>. QED
          BY <1>3, <5>1, AppendKeeps DEF SameServers
      <4>. QED
        BY <3>1, <4>1 DEF Make, Answer, TypeOK, Steps
    <3>2. CASE ~ Make
      BY <1>3, <3>2 DEF Next, vars, handler, provider, Start, Choose, Skip, InFlight, Refuse, MarkInFlight,
           Execute, TimeOut, ReceiveFailure, ReceiveResult, Adopt, Gate, Check, Propose, Prepare, Bind, Work,
           Address, Expire, Crash, Answer, TypeOK, Steps
    <3>. QED
      BY <3>1, <3>2
  <2>2. /\ Own' = Own /\ Len(servers') = Len(servers)
        /\ \A i \in 1..Len(servers) : servers'[i].account = servers[i].account
    BY <1>3 DEF SameServers
  <2>. QED
    BY <2>1, <2>2 DEF CreationSound, RunInv
<1>. QED
  BY <1>1, <1>2, <1>3, ServersStep

\* Every step keeps the request, the creation and the record consistent: a request that
\* starts, a creation that looks, or makes a server, are the steps that need the run's
\* servers and account for it.
LEMMA PlacedStep == TypeOK /\ RunInv /\ [Next]_vars => PlacedInv'
<1> SUFFICES ASSUME TypeOK, RunInv, [Next]_vars PROVE PlacedInv'
  OBVIOUS
<1>1. RunOK /\ RequestOK /\ HandlerOK
  BY TypeParts
<1>2. ASSUME Make PROVE PlacedInv'
  <2>1. /\ UNCHANGED <<steps, account, recorded, slug, created, pc, cur, requested, replay, on>>
        /\ at["create"] = "making"
    BY <1>2 DEF Make, run
  <2>2. \/ at' = [at EXCEPT !["create"] = "preparing"] /\ UNCHANGED answer
        \/ /\ at' = [at EXCEPT !["create"] = "none"]
           /\ \/ answer' = IF pc = "waiting" /\ cur = "create" THEN "error" ELSE answer
              \/ /\ answer' = IF pc = "waiting" /\ cur = "create" THEN "payment" ELSE answer
                 /\ servers' = servers
    BY <1>2 DEF Make, Answer
  <2>3. requested = NoAccount => ~ Open
    BY <2>1 DEF RunInv, RequestBound
  <2>4. Own \subseteq Own' /\ (servers' = servers => Own' = Own)
    BY ServersStep DEF SameServers, NewServer, Own
  <2>5. RequestBound' /\ RequestPlaced'
    BY <2>1, <2>3 DEF RunInv, RequestBound, RequestPlaced, Open
  <2>6. CreationPlaced' /\ FirstUnbound'
    BY <1>1, <2>1, <2>2 DEF RunInv, CreationPlaced, FirstUnbound, HandlerOK, Steps
  <2>7. AnswerSound'
    BY <1>1, <2>1, <2>2, <2>4 DEF RunInv, AnswerSound, FirstUnbound, HandlerOK, Steps
  <2>8. RecordSound'
    BY <2>1, <2>4 DEF RunInv, RecordSound
  <2>. QED
    BY <2>5, <2>6, <2>7, <2>8 DEF PlacedInv
<1> USE <1>1, RunAssumption DEF run, request, handler, provider, Go, Leave, Steps, RunOK, RequestOK,
        HandlerOK, Open, RunAssumption, RunInv, PlacedInv, RequestBound, RequestPlaced, CreationPlaced,
        FirstUnbound, AnswerSound, RecordSound
<1>3. ASSUME NEW a \in Accounts \cup {NoAccount}, Start(a), Own' = Own PROVE PlacedInv'
  <2>1. account # NoAccount => requested' = account /\ account' = account
    BY <1>3 DEF Start
  <2>2. account = NoAccount => Own = {} /\ at["create"] = "none"
    BY UnboundEarly
  <2>3. requested' = account' /\ pc' = "calling" /\ cur' = "register" /\ pc = "idle"
        /\ UNCHANGED <<steps, recorded, slug, created, replay, at, on, made>>
    BY <1>3 DEF Start, Enter
  <2>. QED
    BY <1>3, <2>1, <2>2, <2>3
<1>4. ASSUME Look, Own' = Own PROVE PlacedInv'
  <2>1. UNCHANGED <<steps, account, recorded, slug, created, pc, cur, requested, replay, on>>
        /\ at["create"] = "looking"
    BY <1>4 DEF Look
  <2>2. \/ at' = [at EXCEPT !["create"] = "making"] /\ UNCHANGED answer
        \/ at' = [at EXCEPT !["create"] = "rebinding"] /\ UNCHANGED answer
        \/ Answer("create", "error") /\ UNCHANGED made
    BY <1>4 DEF Look
  <2>. QED
    BY <1>4, <2>1, <2>2 DEF Answer
<1>5. ASSUME Choose, Own' = Own PROVE PlacedInv'
  BY <1>5 DEF Choose, Fail, Released
<1>6. ASSUME Skip, Own' = Own PROVE PlacedInv'
  BY <1>6 DEF Skip, Enter, After
<1>7. ASSUME InFlight, Own' = Own PROVE PlacedInv'
  BY <1>7 DEF InFlight, Fail
<1>8. ASSUME NEW deep \in BOOLEAN, Refuse(deep), Own' = Own PROVE PlacedInv'
  BY <1>8 DEF Refuse, CallFails, NextAccount, MovesOn, Recoverable, Fail, Released
<1>9. ASSUME MarkInFlight, Own' = Own PROVE PlacedInv'
  BY <1>9 DEF MarkInFlight
<1>10. ASSUME Execute, Own' = Own PROVE PlacedInv'
  BY <1>10 DEF Execute, Replayed, CallFails, NextAccount, MovesOn, Recoverable, Fail, Released
<1>11. ASSUME TimeOut, Own' = Own PROVE PlacedInv'
  BY <1>11 DEF TimeOut, CallFails, NextAccount, MovesOn, Recoverable, Fail, Released
<1>12. ASSUME ReceiveFailure, Own' = Own PROVE PlacedInv'
  BY <1>12 DEF ReceiveFailure, CallFails, NextAccount, MovesOn, Recoverable, Fail, Released
<1>13. ASSUME ReceiveResult, Own' = Own PROVE PlacedInv'
  BY <1>13 DEF ReceiveResult, Enter, After
<1>14. ASSUME Adopt, Own' = Own PROVE PlacedInv'
  BY <1>14 DEF Adopt, Enter, Provenance
<1>15. ASSUME Gate, Own' = Own PROVE PlacedInv'
  BY <1>15 DEF Gate, Fail
<1>16. ASSUME Check, Own' = Own PROVE PlacedInv'
  BY <1>16 DEF Check, Fail
<1>17. ASSUME Propose, Own' = Own PROVE PlacedInv'
  BY <1>17 DEF Propose
<1>18. ASSUME Prepare, Own' = Own PROVE PlacedInv'
  BY <1>18 DEF Prepare, Answer
<1>19. ASSUME Bind, Own' = Own PROVE PlacedInv'
  BY <1>19 DEF Bind, Answer, CreationSound
<1>20. ASSUME NEW s \in Steps, NEW what \in {"ok", "error", "incomplete", "failed"}, Work(s, what), Own' = Own PROVE PlacedInv'
  BY <1>20 DEF Work, Answer
<1>21. ASSUME NEW s \in Steps, Expire(s), Own' = Own PROVE PlacedInv'
  BY <1>21 DEF Expire
<1>22. ASSUME Crash, Own' = Own PROVE PlacedInv'
  BY <1>22 DEF Crash
<1>23. ASSUME UNCHANGED vars, Own' = Own PROVE PlacedInv'
  BY <1>23 DEF vars
<1>24. ASSUME NEW k \in 1..Len(servers), Address(k), Own' = Own PROVE PlacedInv'
  BY <1>24 DEF Address
<1>25. Own' = Own \/ Make
  BY ServersStep DEF SameServers, NewServer
<1>. QED
  BY <1>2, <1>3, <1>4, <1>5, <1>6, <1>7, <1>8, <1>9, <1>10, <1>11, <1>12, <1>13, <1>14, <1>15, <1>16, <1>17, <1>18, <1>19, <1>20, <1>21, <1>22, <1>23, <1>24, <1>25 DEF Next

-----------------------------------------------------------------------------
(* Theorems.                                                               *)

\* The initial states satisfy the invariant.
LEMMA Initially == Init => TypeOK /\ RunInv
<1> SUFFICES ASSUME Init PROVE TypeOK /\ RunInv
  OBVIOUS
<1> USE DEF Init
<1>1. servers \in Seq(ServerType)
  <2>1. <<>> \in Seq(ServerType)
    BY EmptySeq
  <2>2. ASSUME NEW a \in Accounts PROVE <<Server(a, "other")>> \in Seq(ServerType)
    BY DEF Server, ServerType
  <2>. QED
    BY <2>1, <2>2
<1>2. Len(servers) \in Nat /\ MaxStarts \in Nat /\ MaxCrashes \in Nat
  BY <1>1, LenProperties, RunAssumption DEF RunAssumption
<1>3. Own = {}
  BY DEF Own, Server
<1>4. TypeOK
  <2>1. RunOK
    BY <1>2 DEF RunOK, NoResult
  <2>2. RequestOK
    BY DEF RequestOK, Steps
  <2>3. HandlerOK
    <3>1. 0 \in 0..Len(servers)
      BY <1>2
    <3>2. at \in [Steps -> {"none", "looking", "making", "preparing", "binding", "rebinding",
                            "working"}]
      OBVIOUS
    <3>. QED
      BY <3>1, <3>2 DEF HandlerOK
  <2>4. ProviderOK /\ PastOK
    BY <1>1, <1>2 DEF ProviderOK, PastOK
  <2>. QED
    BY <2>1, <2>2, <2>4, <2>3, TypeParts
<1>5. OneServer /\ NoneBeside /\ AccountRemembered /\ Budgeted
  BY <1>3, FS_EmptySet DEF OneServer, NoneBeside, AccountRemembered, Budgeted
<1>6. RollbackOnlyOwn
  BY DEF RollbackOnlyOwn
<1>7. PlacedInv /\ CreationSound
  BY DEF PlacedInv, RequestBound, RequestPlaced, CreationPlaced, CreationSound, FirstUnbound,
         AnswerSound, RecordSound, Open, NoResult, Steps
<1>. QED
  BY <1>4, <1>5, <1>6, <1>7 DEF RunInv, PlacedInv

\* The invariant of a run.
LEMMA Invariance == Spec => [](TypeOK /\ RunInv)
<1>1. Init => TypeOK /\ RunInv
  BY Initially
<1>2. TypeOK /\ RunInv /\ [Next]_vars => (TypeOK /\ RunInv)'
  BY TypeStep, AccountStep, BudgetStep, NoneBesideStep, CreationStep, RollbackStep, PlacedStep
     DEF RunInv, PlacedInv
<1>. QED
  BY <1>1, <1>2, PTL DEF Spec

\* Every variable keeps its type.
THEOREM TypeCorrect == Spec => []TypeOK
BY Invariance, PTL

\* runConfigureCompleteSmtp, the replay set of executePlanApprovedStep and the create handler: a
\* run creates one server at most and one more for each restart, however its creation is
\* refused, timed out, lost, resumed or moved to another account.
THEOREM OneServerHolds == Spec => []OneServer
BY Invariance, PTL DEF RunInv

\* resolveExistingServerForCreate: the run makes no server once it is bound to one, nor beside
\* one its account lists for the host.
THEOREM NoneBesideHolds == Spec => []NoneBeside
BY Invariance, PTL DEF RunInv

\* The account recorded before each create, and the failover: the account on record is always
\* the one the run's servers live in.
THEOREM AccountAlwaysRemembered == Spec => []AccountRemembered
BY Invariance, PTL DEF RunInv

\* submitRollbackProposal: a deletion is proposed only for the server the run created,
\* in the account it lives in.
THEOREM RollbackOnlyOwnHolds == Spec => []RollbackOnlyOwn
BY Invariance, PTL DEF RunInv
=============================================================================
