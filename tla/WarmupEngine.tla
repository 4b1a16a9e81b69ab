---------------------------- MODULE WarmupEngine ----------------------------
(***************************************************************************)
(* The warm-up engine on one day.  A daemon runs one tick after another:   *)
(* it plans the day of every active node (a slot per mail of the node's    *)
(* quota, and a seed mail with a placement test), drains the queue of      *)
(* sends through the gate of the send worker, and reads the tests whose    *)
(* results move the nodes between their states.  Each step is one query or *)
(* one call to the outside; a tick may die between any two.                *)
(*                                                                         *)
(* Nothing in the source admits a node: its state, readiness and day are   *)
(* set from outside.  What the temporal signals of the state machine say   *)
(* is free.                                                                *)
(***************************************************************************)
EXTENDS Naturals, Sequences, FiniteSets, FiniteSetsExt

CONSTANTS Nodes,            \* mailboxes, numbered in the order they were created
          Step, DailyLimit, \* the ramp: increaseByDay, and each node's dailyLimit
          SeedsEach,        \* mails of the quota that allow one seed
          MaxAttempts,      \* attempts before a send is dead-lettered
          Limit,            \* sends taken from the queue in a tick
          MaxDay, MaxMoves, MaxFaults

ASSUME EngineAssumption ==
  /\ Nodes \subseteq Nat /\ IsFiniteSet(Nodes)
  /\ DailyLimit \in [Nodes -> Nat]
  /\ {Step, SeedsEach, MaxAttempts, Limit, MaxDay} \subseteq Nat \ {0}
  /\ {MaxMoves, MaxFaults} \subseteq Nat

\* The seed mail of a node is its slot 0.
Slots == UNION {{n} \X (0..DailyLimit[n]) : n \in Nodes}

VARIABLES state, auth, day, \* of each node
          table,            \* the slots in warmup_sends, by age
          status, attempts, \* of each slot
          signalled,        \* slots with a bounce signal
          tests,            \* nodes whose seed has a placement test
          measured,         \* nodes whose test has a result
          pc,               \* the daemon's position in its tick
          snap,             \* node -> its quota when it was listed, 0 if it is not planned
          todo, slot,       \* nodes to plan, and the next slot of the first of them
          batch, outcome,   \* sends to process, and what became of the first
          pending, touched, \* tests to read, and nodes with new results
          decided,          \* the next state of the first of these
          mailed,           \* slot -> mails its transport took
          cut,              \* slot -> ticks that died between such a mail and its status
          moves, faults

vars == <<state, auth, day, table, status, attempts, signalled, tests, measured, pc,
          snap, todo, slot, batch, outcome, pending, touched, decided, mailed, cut,
          moves, faults>>

nodeVars == <<state, auth, day>>
sendVars == <<table, status, attempts, signalled>>
testVars == <<tests, measured>>
planVars == <<snap, todo, slot>>
drainVars == <<batch, outcome>>
readVars == <<pending, touched, decided>>
worldVars == <<mailed, cut>>
bounds == <<moves, faults>>

States == {"blocked", "fresh", "warm", "paused", "quarantined"}
Statuses == {"queued", "sent", "bounced", "failed", "dead_lettered"}
Evidence == {"regressed", "clean", "pause", "graduates", "rewarms"}

TypeOK ==
  /\ state \in [Nodes -> States]
  /\ auth \in [Nodes -> {"missing", "ready", "expired"}]
  /\ day \in [Nodes -> 0..MaxDay]
  /\ table \in Seq(Slots)
  /\ status \in [Slots -> Statuses \cup {"absent"}]
  /\ attempts \in [Slots -> 0..MaxAttempts]
  /\ signalled \subseteq Slots /\ tests \subseteq Nodes /\ measured \subseteq Nodes
  /\ pc \in {"idle", "plan", "test", "drain", "send", "mark", "signal", "read", "update"}
  /\ snap \in [Nodes -> Nat]
  /\ todo \subseteq Nodes /\ slot \in Nat \ {0}
  /\ batch \in Seq(Slots) /\ outcome \in Statuses
  /\ pending \subseteq Nodes /\ touched \subseteq Nodes
  /\ decided \in States
  /\ mailed \in [Slots -> Nat] /\ cut \in [Slots -> Nat]
  /\ moves \in 0..MaxMoves /\ faults \in 0..MaxFaults

\* A node is born blocked, without a contract.
Init ==
  /\ state = [n \in Nodes |-> "blocked"]
  /\ auth = [n \in Nodes |-> "missing"]
  /\ day = [n \in Nodes |-> 0]
  /\ table = <<>>
  /\ status = [s \in Slots |-> "absent"]
  /\ attempts = [s \in Slots |-> 0]
  /\ signalled = {} /\ tests = {} /\ measured = {}
  /\ pc = "idle"
  /\ snap = [n \in Nodes |-> 0]
  /\ todo = {} /\ slot = 1
  /\ batch = <<>> /\ outcome = "queued"
  /\ pending = {} /\ touched = {} /\ decided = "blocked"
  /\ mailed = [s \in Slots |-> 0] /\ cut = [s \in Slots |-> 0]
  /\ moves = 0 /\ faults = 0

At(step) == pc = step
Goto(step) == pc' = step
First(S) == Min(S)

-----------------------------------------------------------------------------
(* The gate and the ramp.                                                  *)

\* Mutant: a paused node is taken for a live one.
Able_Paused(n) == auth[n] = "ready" /\ state[n] \in {"fresh", "warm", "paused"}
Able(n) == auth[n] = "ready" /\ state[n] \in {"fresh", "warm"}

\* The other ceilings of the quota are not set by any caller.
Quota(n) == Min({day[n] * Step, DailyLimit[n]})
Seeds(quota) == IF quota >= SeedsEach THEN 1 ELSE 0

-----------------------------------------------------------------------------
(* planNodeDay.                                                            *)

Active == {n \in Nodes : state[n] \in {"fresh", "warm", "paused"}}

\* A listed node that cannot send is skipped: its day is not planned.
ListActive ==
  /\ At("idle")
  /\ todo' = {n \in Active : Able(n)}
  /\ snap' = [n \in Nodes |-> IF n \in todo' THEN Quota(n) ELSE 0]
  /\ slot' = 1
  /\ Goto("plan")
  /\ UNCHANGED <<nodeVars, sendVars, testVars, drainVars, readVars, worldVars, bounds>>

Planned(n) ==
  /\ todo' = todo \ {n}
  /\ snap' = [snap EXCEPT ![n] = 0]
  /\ slot' = 1

\* INSERT ... ON CONFLICT DO NOTHING
Absent(s) == status[s] = "absent"
Insert(s) ==
  IF Absent(s)
    THEN table' = Append(table, s) /\ status' = [status EXCEPT ![s] = "queued"]
    ELSE UNCHANGED <<table, status>>

\* Mutant: slots are numbered on from those the node has.
SlotKey_Fresh(n) == 
  <<n, Min({DailyLimit[n], 1 + Cardinality({i \in 1..DailyLimit[n] : ~Absent(<<n, i>>)})})>>
SlotKey(n) == <<n, slot>>

Enqueue ==
  /\ At("plan") /\ todo # {}
  /\ slot <= snap[First(todo)]
  /\ Insert(SlotKey(First(todo)))
  /\ slot' = slot + 1
  /\ UNCHANGED <<nodeVars, attempts, signalled, testVars, pc, snap, todo, drainVars,
                 readVars, worldVars, bounds>>

NeedsTest(s) == Absent(s)

EnqueueSeed ==
  /\ At("plan") /\ todo # {}
  /\ slot > snap[First(todo)]
  /\ LET n == First(todo)
         seed == <<n, 0>>
         some == Seeds(snap[n]) > 0 IN
       /\ IF some THEN Insert(seed) ELSE UNCHANGED <<table, status>>
       /\ IF some /\ NeedsTest(seed)
            THEN Goto("test") /\ UNCHANGED planVars
            ELSE Planned(n) /\ UNCHANGED pc
  /\ UNCHANGED <<nodeVars, attempts, signalled, testVars, drainVars, readVars, worldVars, bounds>>

CreateTest ==
  /\ At("test")
  /\ tests' = tests \cup {First(todo)}
  /\ Planned(First(todo))
  /\ Goto("plan")
  /\ UNCHANGED <<nodeVars, sendVars, measured, drainVars, readVars, worldVars, bounds>>

-----------------------------------------------------------------------------
(* processQueuedSends.                                                     *)

\* Mutant: a send that was tried is not listed again.
IsQueued_Untried(s) == status[s] = "queued" /\ attempts[s] = 0
IsQueued(s) == status[s] = "queued"
Queued ==  \* oldest first
  LET among[i \in 0..Len(table)] ==
        IF i = 0 THEN <<>>
        ELSE IF IsQueued(table[i]) THEN Append(among[i - 1], table[i]) ELSE among[i - 1]
  IN among[Len(table)]

ListQueued ==
  /\ At("plan") /\ todo = {}
  /\ batch' = SubSeq(Queued, 1, Min({Limit, Len(Queued)}))
  /\ Goto("drain")
  /\ UNCHANGED <<nodeVars, sendVars, testVars, planVars, outcome, readVars, worldVars, bounds>>

\* The node is read and the gate asked at once; a refused send stays queued.
Gate ==
  /\ At("drain") /\ batch # <<>>
  /\ IF Able(Head(batch)[1])
       THEN Goto("send") /\ UNCHANGED outcome
       ELSE Goto("mark") /\ outcome' = "queued"
  /\ UNCHANGED <<nodeVars, sendVars, testVars, planVars, batch, readVars, worldVars, bounds>>

Attempt(s) == attempts[s] + 1

\* Mutant: a transient failure counts as delivered.
Transient_Sent(s) == "sent"
Transient(s) == IF Attempt(s) >= MaxAttempts THEN "dead_lettered" ELSE "failed"

\* One mail is handed to the transport.  Mailed is what the transport answers as ok; one
\* that takes the mail and answers with an error counts as nothing mailed.
Deliver ==
  /\ At("send")
  /\ LET s == Head(batch) IN
       \/ outcome' = "sent" /\ mailed' = [mailed EXCEPT ![s] = @ + 1]
       \/ outcome' \in {"bounced", Transient(s)} /\ UNCHANGED mailed
  /\ Goto("mark")
  /\ UNCHANGED <<nodeVars, sendVars, testVars, planVars, batch, readVars, cut, bounds>>

\* Mutant: attempts are counted past their maximum.
Tried_Unbounded(s) == Attempt(s)
\* No caller tells attempts from the maximum on apart.
Tried(s) == Min({Attempt(s), MaxAttempts})

Mark ==
  /\ At("mark")
  /\ LET s == Head(batch) IN
       /\ status' = [status EXCEPT ![s] = outcome]
       /\ attempts' = [attempts EXCEPT ![s] = Tried(s)]
  /\ IF outcome = "bounced"
       THEN Goto("signal") /\ UNCHANGED batch
       ELSE Goto("drain") /\ batch' = Tail(batch)
  /\ outcome' = "queued"
  /\ UNCHANGED <<nodeVars, table, signalled, testVars, planVars, readVars, worldVars, bounds>>

Signal ==
  /\ At("signal")
  /\ signalled' = signalled \cup {Head(batch)}
  /\ batch' = Tail(batch)
  /\ Goto("drain")
  /\ UNCHANGED <<nodeVars, table, status, attempts, testVars, planVars, outcome, readVars,
                 worldVars, bounds>>

-----------------------------------------------------------------------------
(* reconcilePlacement and the state machine of a node.                     *)

ListPending ==
  /\ At("drain") /\ batch = <<>>
  /\ pending' = tests \ measured
  /\ touched' = {}
  /\ Goto("read")
  /\ UNCHANGED <<nodeVars, sendVars, testVars, planVars, drainVars, decided, worldVars, bounds>>

\* The mail is in a folder, or in none when the grace window has closed: both
\* are a result.  Else, and when IMAP fails, the test stays pending.
ReadTest ==
  /\ At("read") /\ pending # {}
  /\ LET n == First(pending) IN
       /\ \/ measured' = measured \cup {n} /\ touched' = touched \cup {n}
          \/ UNCHANGED <<measured, touched>>
       /\ pending' = pending \ {n}
  /\ UNCHANGED <<nodeVars, sendVars, tests, pc, planVars, drainVars, decided, worldVars, bounds>>

Live == {"fresh", "warm", "paused"}

NextNodeState(s, ready, evidence) ==
  LET regressed == s \in Live /\ "regressed" \in evidence
      pauses == s \in {"fresh", "warm"} /\ "pause" \in evidence IN
  CASE regressed -> "quarantined"
    [] ~regressed /\ ~ready -> "blocked"
    [] ~regressed /\ ready /\ pauses -> "paused"
    [] ready /\ s \notin Live /\ "clean" \in evidence -> "fresh"
    [] ready /\ ~regressed /\ s = "paused" /\ "rewarms" \in evidence -> "fresh"
    [] ready /\ ~regressed /\ ~pauses /\ s = "fresh" /\ "graduates" \in evidence -> "warm"
    [] OTHER -> s

\* The node is read; an expired contract leaves its authReady as it was.
Decide ==
  /\ At("read") /\ pending = {} /\ touched # {}
  /\ \E evidence \in SUBSET Evidence :
       LET n == First(touched) IN
         decided' = NextNodeState(state[n], auth[n] # "missing", evidence)
  /\ Goto("update")
  /\ UNCHANGED <<nodeVars, sendVars, testVars, planVars, drainVars, pending, touched,
                 worldVars, bounds>>

Update ==
  /\ At("update")
  /\ state' = [state EXCEPT ![First(touched)] = decided]
  /\ touched' = touched \ {First(touched)}
  /\ decided' = "blocked"
  /\ Goto("read")
  /\ UNCHANGED <<auth, day, sendVars, testVars, planVars, drainVars, pending, worldVars, bounds>>

\* The daemon waits and ticks again.
EndTick ==
  /\ At("read") /\ pending = {} /\ touched = {}
  /\ Goto("idle")
  /\ UNCHANGED <<nodeVars, sendVars, testVars, planVars, drainVars, readVars, worldVars, bounds>>

-----------------------------------------------------------------------------
(* A query that throws, or a kill, ends the tick where it is.              *)

Unmarked(s) == At("mark") /\ outcome = "sent" /\ Head(batch) = s

Abort ==
  /\ ~At("idle")
  /\ faults < MaxFaults
  /\ faults' = faults + 1
  /\ cut' = [s \in Slots |-> IF Unmarked(s) THEN cut[s] + 1 ELSE cut[s]]
  /\ Goto("idle")
  /\ snap' = [n \in Nodes |-> 0]
  /\ todo' = {} /\ slot' = 1
  /\ batch' = <<>> /\ outcome' = "queued"
  /\ pending' = {} /\ touched' = {} /\ decided' = "blocked"
  /\ UNCHANGED <<nodeVars, sendVars, testVars, mailed, moves>>

(* What is done to nodes from outside.                                     *)

Move == moves < MaxMoves /\ moves' = moves + 1

Admit(n) ==
  /\ state[n] = "blocked" /\ day[n] = 0
  /\ Move
  /\ state' = [state EXCEPT ![n] = "fresh"]
  /\ auth' = [auth EXCEPT ![n] = "ready"]
  /\ day' = [day EXCEPT ![n] = 1]
  /\ UNCHANGED <<sendVars, testVars, pc, planVars, drainVars, readVars, worldVars, faults>>

SetAuthReady(n, a) ==
  /\ day[n] > 0 /\ auth[n] # a
  /\ Move
  /\ auth' = [auth EXCEPT ![n] = a]
  /\ UNCHANGED <<state, day, sendVars, testVars, pc, planVars, drainVars, readVars, worldVars, faults>>

SetDayIndex(n) ==
  /\ day[n] \in 1..(MaxDay - 1)
  /\ Move
  /\ day' = [day EXCEPT ![n] = @ + 1]
  /\ UNCHANGED <<state, auth, sendVars, testVars, pc, planVars, drainVars, readVars, worldVars, faults>>

-----------------------------------------------------------------------------
Tick ==
  \/ ListActive \/ Enqueue \/ EnqueueSeed \/ CreateTest
  \/ ListQueued \/ Gate \/ Deliver \/ Mark \/ Signal
  \/ ListPending \/ ReadTest \/ Decide \/ Update \/ EndTick

Outside ==
  \E n \in Nodes :
    \/ Admit(n) \/ SetDayIndex(n)
    \/ \E a \in {"missing", "ready", "expired"} : SetAuthReady(n, a)

Next == Tick \/ Abort \/ Outside

Spec == Init /\ [][Next]_vars

\* The daemon's loop goes on: its calls return and its timer fires.
FairSpec == Spec /\ WF_vars(Tick)

-----------------------------------------------------------------------------
(* Properties.                                                             *)

\* Every mail the transport acknowledged is the one its slot records, is about to be
\* recorded, or was repeated after a tick that died just then: the table never
\* claims a mail that did not go out and never hides one that did.
MailAccounted == \A s \in Slots :
  mailed[s] = cut[s] + (IF status[s] = "sent" \/ Unmarked(s) THEN 1 ELSE 0)

MailsOf(n, count) == FoldSet(LAMBDA i, total : count[<<n, i>>] + total, 0, 0..DailyLimit[n])

\* However often a day is planned anew, by ticks that died or after its quota
\* rose, a node sends no more than its quota and its seed.
DayCapHolds == \A n \in Nodes :
  MailsOf(n, mailed) <= Quota(n) + Seeds(Quota(n)) + MailsOf(n, cut)

\* A node that the state machine has paused, quarantined or blocked is silent,
\* whatever of its mail was planned, listed or queued before.
SilentWhenHeld == [][\A s \in Slots :
  mailed'[s] > mailed[s] => state[s[1]] \in {"fresh", "warm"}]_vars

\* The queue of a node that can send from some time on is drained, also of the
\* sends that were refused before.
QueueSettles == \A n \in Nodes :
  (<>[]Able(n)) => <>[](\A s \in Slots : s[1] = n => status[s] # "queued")
=============================================================================
