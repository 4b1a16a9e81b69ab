------------------------------- MODULE SmtpRun -------------------------------
(***************************************************************************)
(* One run of configure_complete_smtp under a signed plan                  *)
(* (routes/orchestrator-smtp.ts): its requests and resumes, the recorded   *)
(* state of its steps, the choice of a Webdock account and the failover to *)
(* another, the handler that creates the server, and the proposal to       *)
(* delete it when a later step fails.                                      *)
(*                                                                         *)
(* The run's lock admits one request at a time, so one position is kept.   *)
(* A handler goes on after the request that called it has given up.        *)
(* "register" stands for steps 1 to 3 and "provision" for 5 to 13.  The    *)
(* run names no server to reuse.  A server is its position in servers;     *)
(* 0 is no server.                                                         *)
(***************************************************************************)
EXTENDS Naturals, Sequences, FiniteSets

CONSTANTS Accounts,         \* write-capable Webdock accounts
          NoAccount,
          Faults,           \* what may go wrong
          MaxStarts, MaxCrashes

ASSUME RunAssumption ==
  /\ NoAccount \notin Accounts
  /\ Faults \subseteq {"refuse", "timeout", "unread", "lost", "preexisting"}
  /\ MaxStarts \in Nat /\ MaxCrashes \in Nat

VARIABLES steps, account,   \* the recorded run: its steps and its account,
          recorded,         \* what the create step answered,
          slug, created,    \* its server, and whether the run created it,
          mail,             \* and what the sending said of its authentication
          pc, cur,          \* the request's position and step
          requested,        \* the account it must use
          excluded,         \* accounts it will not try (again)
          declined,         \* whether its last result is a rejected payment
          answer,           \* what the handler it waits for has answered
          replay,           \* steps this process has executed
          at, on, made,     \* each handler's position; the creation's account and server
          servers, binding, \* the provider's servers for the host, and the run's binding
          rollbacks,        \* deletions proposed
          starts, crashes

run == <<steps, account, recorded, slug, created, mail>>
request == <<pc, cur, requested, excluded, declined, answer>>
handler == <<replay, at, on, made>>
provider == <<servers, binding>>
vars == <<run, request, handler, provider, rollbacks, starts, crashes>>

Steps == {"register", "create", "provision", "send"}
After(s) == CASE s = "register" -> "create" [] s = "create" -> "provision" [] OTHER -> "send"

NoResult == [how |-> "none", nr |-> 0]
Server(a, who) == [account |-> a, by |-> who, ip |-> who = "other"]

TypeOK ==
  /\ steps \in [Steps -> {"none", "live", "stale", "pending", "done"}]
  /\ account \in Accounts \cup {NoAccount} /\ requested \in Accounts \cup {NoAccount}
  /\ servers \in Seq([account : Accounts, by : {"run", "other"}, ip : BOOLEAN])
  /\ recorded \in [how : {"none", "created", "reused"}, nr : 0..Len(servers)]
  /\ slug \in 0..Len(servers) /\ created \in {"unknown", "yes", "no"}
  /\ mail \in {"none", "passed", "failed"}
  /\ pc \in {"idle", "choosing", "calling", "executing", "waiting", "adopting", "readopting",
             "gating", "checking", "proposing"}
  /\ cur \in Steps /\ excluded \subseteq Accounts /\ declined \in BOOLEAN
  /\ answer \in {"none", "ok", "created", "reused", "payment", "error", "incomplete", "failed"}
  /\ replay \subseteq Steps
  /\ at \in [Steps -> {"none", "looking", "making", "preparing", "binding", "rebinding",
                    "working"}]
  /\ on \in Accounts \cup {NoAccount} /\ made \in 0..Len(servers) /\ binding \in 0..Len(servers)
  /\ rollbacks \subseteq [nr : 1..Len(servers), account : Accounts]
  /\ starts \in 0..MaxStarts /\ crashes \in 0..MaxCrashes

Init ==
  /\ steps = [s \in Steps |-> "none"]
  /\ account = NoAccount /\ requested = NoAccount /\ on = NoAccount
  /\ recorded = NoResult /\ slug = 0 /\ created = "unknown" /\ mail = "none"
  /\ pc = "idle" /\ cur = "register" /\ excluded = {} /\ declined = FALSE /\ answer = "none"
  /\ replay = {} /\ at = [s \in Steps |-> "none"] /\ made = 0
  /\ servers \in {<<>>} \cup {<<Server(a, "other")>> : a \in {b \in Accounts : "preexisting" \in Faults}}
  /\ binding = 0 /\ rollbacks = {}
  /\ starts = 0 /\ crashes = 0

-----------------------------------------------------------------------------
(* How a request moves on and how it ends *)

Go(where) == pc' = where
Enter(s) ==
  /\ cur' = s
  /\ Go(CASE s = "create" -> "choosing" [] s = "send" -> "gating" [] OTHER -> "calling")

\* Nothing of a request outlives it.
Leave(where) ==
  /\ Go(where)
  /\ requested' = NoAccount /\ excluded' = {} /\ declined' = FALSE
  /\ UNCHANGED <<cur, answer>>

\* releaseRunStepLeaseOnFailure: a create in flight becomes pending.
Released == [steps EXCEPT !["create"] = IF @ \in {"live", "stale"} THEN "pending" ELSE @]

\* The catch of the run: only the create gives its lease back, and only what fails after
\* the server was waited for may propose to delete it.
Fail(recording, deep) ==
  /\ steps' = recording
  /\ Leave(IF deep /\ slug # 0 /\ created = "yes" THEN "proposing" ELSE "idle")

\* Mutant: a failed creation of any kind moves on to another account.
Recoverable_Any(payment) == TRUE
\* isRecoverablePaymentFailure looks at the last result pushed, which a refusal or a replay
\* leaves as it was.
Recoverable(payment) == payment

\* A rejected payment moves the create on to another account, unless this one is required.
MovesOn(payment) == cur = "create" /\ Recoverable(payment) /\ requested = NoAccount
NextAccount(payment) ==
  /\ MovesOn(payment)
  /\ excluded' = excluded \cup {account}
  /\ account' = NoAccount /\ steps' = Released /\ declined' = payment
  /\ Go("choosing") /\ UNCHANGED <<cur, requested, answer>>

\* A call of the current step fails.
CallFails(payment) ==
  \/ NextAccount(payment)
  \/ /\ ~MovesOn(payment)
     /\ Fail(IF cur = "create" THEN Released ELSE steps, cur \in {"provision", "send"})
     /\ UNCHANGED account

-----------------------------------------------------------------------------
(* The request *)

\* A request passes the checks of step 0; the recorded account overrides the one it names.
Start(a) ==
  /\ pc = "idle" /\ starts < MaxStarts
  /\ requested' = IF account # NoAccount THEN account ELSE a
  /\ account' = requested'
  /\ Enter("register") /\ answer' = "none"
  /\ starts' = starts + 1
  /\ UNCHANGED <<steps, recorded, slug, created, mail, excluded, declined, handler, provider, rollbacks, crashes>>

\* The account to create with, recorded before the create: the one required, or one the
\* governor picks and whose credentials work.
Choose ==
  LET candidates == IF requested # NoAccount THEN {requested} ELSE Accounts \ excluded IN
  /\ pc = "choosing"
  /\ \/ /\ \E a \in candidates : account' = a
        /\ Go("calling") /\ UNCHANGED <<steps, cur, requested, excluded, declined, answer>>
     \/ /\ "refuse" \in Faults /\ requested = NoAccount
        /\ \E a \in candidates : excluded' = excluded \cup {a}
        /\ UNCHANGED <<steps, account, pc, cur, requested, declined, answer>>
     \/ /\ candidates = {} \/ "refuse" \in Faults
        /\ Fail(Released, FALSE) /\ UNCHANGED account
     \/ /\ "refuse" \in Faults /\ requested # NoAccount
        /\ Fail(steps, FALSE) /\ UNCHANGED account
  /\ UNCHANGED <<recorded, slug, created, mail, handler, provider, rollbacks, starts, crashes>>

\* A step already done gives its recorded result again.
Skip ==
  /\ pc = "calling" /\ steps[cur] = "done"
  /\ CASE cur = "create" -> Go("readopting") /\ UNCHANGED cur
       [] cur = "send" -> Go("checking") /\ UNCHANGED cur
       [] OTHER -> Enter(After(cur))
  /\ UNCHANGED <<run, requested, excluded, declined, answer, handler, provider,
                 rollbacks, starts, crashes>>

\* A step in flight under a lease refuses the request, and keeps the lease.
InFlight ==
  /\ pc = "calling" /\ steps[cur] = "live"
  /\ Fail(steps, cur \in {"provision", "send"})
  /\ UNCHANGED <<account, recorded, slug, created, mail, handler, provider, rollbacks,
                 starts, crashes>>

\* The kill switch, the budget or the plan's scope refuses the step; a broken audit chain
\* or a server not seen running (deep is FALSE) ends the run outside of it.
Refuse(deep) ==
  /\ "refuse" \in Faults
  /\ pc = "executing" \/ (pc = "calling" /\ steps[cur] \notin {"live", "done"})
  /\ \/ deep /\ CallFails(declined)
     \/ ~deep /\ pc = "calling" /\ ~MovesOn(declined) /\ Fail(steps, FALSE) /\ UNCHANGED account
  /\ UNCHANGED <<recorded, slug, created, mail, handler, provider, rollbacks, starts, crashes>>

\* markRunStepInFlight
MarkInFlight ==
  /\ pc = "calling" /\ steps[cur] \notin {"live", "done"}
  /\ steps' = [steps EXCEPT ![cur] = "live"]
  /\ Go("executing")
  /\ UNCHANGED <<account, recorded, slug, created, mail, cur, requested, excluded, declined,
                 answer, handler, provider, rollbacks, starts, crashes>>

\* Mutant: executions are not remembered.
Replayed_No(s) == FALSE
\* The key of an execution is its step: the plan and its inputs are those of the run.
Replayed(s) == s \in replay

\* executePlanApprovedStep: a step this process has executed is refused, another is dispatched.
Execute ==
  /\ pc = "executing"
  /\ \/ /\ Replayed(cur) /\ CallFails(declined) /\ UNCHANGED handler
     \/ /\ ~Replayed(cur)
        /\ replay' = replay \cup {cur}
        /\ at' = [at EXCEPT ![cur] = IF cur = "create" THEN "looking" ELSE "working"]
        /\ on' = IF cur = "create" THEN account ELSE on
        /\ answer' = "none" /\ Go("waiting")
        /\ UNCHANGED <<steps, account, made, cur, requested, excluded, declined>>
  /\ UNCHANGED <<recorded, slug, created, mail, provider, rollbacks, starts, crashes>>

\* The dispatcher gives up; the handler does not.
TimeOut ==
  /\ "timeout" \in Faults /\ pc = "waiting" /\ answer = "none"
  /\ CallFails(FALSE)
  /\ UNCHANGED <<recorded, slug, created, mail, handler, provider, rollbacks, starts, crashes>>

\* The handler refused or failed.
ReceiveFailure ==
  /\ pc = "waiting" /\ answer \in {"payment", "error", "incomplete"}
  /\ CallFails(answer = "payment")
  /\ UNCHANGED <<recorded, slug, created, mail, handler, provider, rollbacks, starts, crashes>>

\* markRunStepDone, with the handler's result.
ReceiveResult ==
  /\ pc = "waiting" /\ answer \in {"ok", "created", "reused", "failed"}
  /\ steps' = [steps EXCEPT ![cur] = "done"]
  /\ recorded' = IF cur = "create" THEN [how |-> answer, nr |-> made] ELSE recorded
  /\ mail' = IF cur = "send" THEN IF answer = "ok" THEN "passed" ELSE "failed" ELSE mail
  /\ CASE cur = "create" -> Go("adopting") /\ UNCHANGED cur
       [] cur = "send" -> Go("checking") /\ UNCHANGED cur
       [] OTHER -> Enter(After(cur))
  /\ declined' = FALSE
  /\ UNCHANGED <<account, slug, created, requested, excluded, answer, handler, provider,
                 rollbacks, starts, crashes>>

\* Mutant: a server that was found counts as made by the run.
Provenance_Any(how) == "yes"
\* Mutant: the handler's own word is recorded.
Provenance_Raw(how) == how
\* classifyFreshStep4ServerProvenance
Provenance(how) == IF how = "created" THEN "yes" ELSE "no"

\* The server is recorded, and once only whether the run created it: read again from a
\* recorded result (readopting), a created server is one of unknown origin.
Adopt ==
  /\ pc \in {"adopting", "readopting"}
  /\ slug' = recorded.nr
  /\ created' = IF created = "unknown" /\ ~(pc = "readopting" /\ recorded.how = "created")
                THEN Provenance(recorded.how) ELSE created
  /\ Enter("provision")
  /\ UNCHANGED <<steps, account, recorded, mail, requested, excluded, declined, answer, handler,
                 provider, rollbacks, starts, crashes>>

\* verifySmokeAuthGate before the sending: when it fails the sending is to be done again.
Gate ==
  /\ pc = "gating"
  /\ \/ Go("calling") /\ UNCHANGED <<steps, mail, cur, requested, excluded, declined, answer>>
     \/ Fail([steps EXCEPT !["send"] = "none"], FALSE) /\ mail' = "none"
  /\ UNCHANGED <<account, recorded, slug, created, handler, provider, rollbacks, starts, crashes>>

\* evaluatePostSmokeAuthenticationOutcome: the run is completed, or its sending undone.
Check ==
  /\ pc = "checking"
  /\ \/ mail = "passed" /\ Leave("idle") /\ UNCHANGED <<steps, mail>>
     \/ mail = "failed" /\ mail' = "none" /\ Fail([steps EXCEPT !["send"] = "none"], TRUE)
  /\ UNCHANGED <<account, recorded, slug, created, handler, provider, rollbacks, starts, crashes>>

\* submitRollbackProposal, for the recorded server and account.
Propose ==
  /\ pc = "proposing"
  /\ rollbacks' = rollbacks \cup {[nr |-> slug, account |-> account]}
  /\ Go("idle")
  /\ UNCHANGED <<run, cur, requested, excluded, declined, answer, handler, provider,
                 starts, crashes>>

-----------------------------------------------------------------------------
(* The handlers *)

\* A handler ends; its answer reaches the request that still waits for it.
Answer(s, what) ==
  /\ at' = [at EXCEPT ![s] = "none"]
  /\ answer' = IF pc = "waiting" /\ cur = s THEN what ELSE answer

\* Mutant: a list that cannot be read counts as an empty one.
Listed_Open == {{k \in 1..Len(servers) : servers[k].account = on /\ servers[k].by = "other"}}
               \cup {k \in {{}} : "unread" \in Faults}
\* The servers the account lists for the host: they match by hostname or main domain, which a
\* creation leaves empty (it sends the host as the name) until step 8, when the create step is
\* recorded.  So the run's own server is never among them.  A list that cannot be read, or the
\* binding's server that cannot, blocks the creation (0).
Listed == {{k \in 1..Len(servers) : servers[k].account = on /\ servers[k].by = "other"}}
          \cup {k \in {{0}} : "unread" \in Faults}

\* resolveExistingServerForCreate: the run's binding, then the account's list.
Look ==
  /\ at["create"] = "looking"
  /\ \E found \in Listed :
       LET known == IF binding # 0 /\ 0 \notin found THEN {binding} ELSE found
           usable == {k \in known \ {0} : servers[k].account = on /\ servers[k].ip} IN
       \/ known = {} /\ at' = [at EXCEPT !["create"] = "making"] /\ UNCHANGED <<made, answer>>
       \/ /\ Cardinality(known) = 1 /\ usable = known
          /\ made' \in usable
          /\ at' = [at EXCEPT !["create"] = "rebinding"] /\ UNCHANGED answer
       \/ /\ known # {} /\ ~(Cardinality(known) = 1 /\ usable = known)
          /\ Answer("create", "error") /\ UNCHANGED made
  /\ UNCHANGED <<run, pc, cur, requested, excluded, declined, replay, on, provider,
                 rollbacks, starts, crashes>>

\* adapter.createServer: accepted (perhaps with its answer lost), the payment rejected, or failed.
Make ==
  /\ at["create"] = "making"
  /\ \/ /\ servers' = Append(servers, Server(on, "run"))
        /\ \/ /\ at' = [at EXCEPT !["create"] = "preparing"]
              /\ made' = Len(servers') /\ UNCHANGED answer
           \/ "lost" \in Faults /\ Answer("create", "error") /\ UNCHANGED made
     \/ Answer("create", "payment") /\ UNCHANGED <<servers, made>>
     \/ "lost" \in Faults /\ Answer("create", "error") /\ UNCHANGED <<servers, made>>
  /\ UNCHANGED <<run, pc, cur, requested, excluded, declined, replay, on, binding,
                 rollbacks, starts, crashes>>

\* The poll and the SSH access of the new server.
Prepare ==
  /\ at["create"] = "preparing"
  /\ \/ at' = [at EXCEPT !["create"] = "binding"] /\ UNCHANGED answer
     \/ "lost" \in Faults /\ Answer("create", "error")
  /\ UNCHANGED <<run, pc, cur, requested, excluded, declined, replay, on, made, provider,
                 rollbacks, starts, crashes>>

\* The run's binding, then the answer: a server created by this call, or one found.
Bind ==
  /\ \/ at["create"] = "binding" /\ Answer("create", "created")
     \/ at["create"] = "rebinding" /\ Answer("create", "reused")
  /\ binding' = made
  /\ UNCHANGED <<run, pc, cur, requested, excluded, declined, replay, on, made, servers, rollbacks, starts, crashes>>

\* The handlers of the other steps; the sending may be refused as retryable (its
\* authentication is incomplete) or be done and fail its authentication.
Work(s, what) ==
  /\ s # "create" /\ at[s] = "working"
  /\ what \in {"ok", "error"} \cup (IF s = "send" THEN {"incomplete", "failed"} ELSE {})
  /\ Answer(s, what)
  /\ UNCHANGED <<run, pc, cur, requested, excluded, declined, replay, on, made, provider,
                 rollbacks, starts, crashes>>

-----------------------------------------------------------------------------
(* Around the run *)

\* The provider gives a server its address.
Address(k) ==
  /\ ~servers[k].ip
  /\ servers' = [servers EXCEPT ![k].ip = TRUE]
  /\ UNCHANGED <<run, request, handler, binding, rollbacks, starts, crashes>>

\* A lease outlives every request that holds it.
Expire(s) ==
  /\ pc = "idle" /\ steps[s] = "live"
  /\ steps' = [steps EXCEPT ![s] = "stale"]
  /\ UNCHANGED <<account, recorded, slug, created, mail, request, handler, provider,
                 rollbacks, starts, crashes>>

\* The process dies, its handlers and its memory of what it executed with it.
Crash ==
  /\ crashes < MaxCrashes
  /\ crashes' = crashes + 1
  /\ Leave("idle")
  /\ replay' = {} /\ at' = [s \in Steps |-> "none"] /\ on' = NoAccount /\ made' = 0
  /\ UNCHANGED <<run, provider, rollbacks, starts>>

Next ==
  \/ \E a \in Accounts \cup {NoAccount} : Start(a)
  \/ Choose \/ Skip \/ InFlight \/ MarkInFlight \/ Execute \/ TimeOut
  \/ \E deep \in BOOLEAN : Refuse(deep)
  \/ ReceiveFailure \/ ReceiveResult \/ Adopt \/ Gate \/ Check \/ Propose
  \/ Look \/ Make \/ Prepare \/ Bind
  \/ \E s \in Steps, what \in {"ok", "error", "incomplete", "failed"} : Work(s, what)
  \/ \E k \in 1..Len(servers) : Address(k)
  \/ \E s \in Steps : Expire(s)
  \/ Crash

Spec == Init /\ [][Next]_vars

-----------------------------------------------------------------------------
Own == {k \in 1..Len(servers) : servers[k].by = "run"}

\* However its create is timed out, lost, refused, resumed or moved to another account, a run
\* creates one server at most, and one more for each restart: the restart forgets what was
\* executed, and a server whose answer was lost is not found again.
OneServer == Cardinality(Own) <= 1 + crashes

\* The run makes no server once it is bound to one, and none beside a server its account lists
\* for the host, whatever restarts and unreadable lists come between.
NoneBeside ==
  \A k \in Own : /\ binding # 0 => k <= binding
                 /\ \A i \in 1..Len(servers) \ Own : servers[i].account # servers[k].account

\* The run's record always names the account its servers live in, even one whose answer was
\* lost.
AccountRemembered == \A k \in Own : account = servers[k].account

\* A deletion is proposed only for a server the run created, in the account it lives in.
RollbackOnlyOwn ==
  \A x \in rollbacks : servers[x.nr].by = "run" /\ servers[x.nr].account = x.account
=============================================================================
