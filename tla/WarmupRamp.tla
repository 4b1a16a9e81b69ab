----------------------------- MODULE WarmupRamp -----------------------------
(***************************************************************************)
(* The gateway's warm-up ramp: a list of growing batches of seed mail that *)
(* one domain sends at planned times.  The scheduler keeps timers in       *)
(* memory and the ramp in a JSON inventory whose updates are atomic.       *)
(*                                                                         *)
(* A batch in progress read the ramp before its SSH command and writes     *)
(* every batch of that reading back after it.  Pauses, resumes, other      *)
(* batches and restarts may fall in between.                               *)
(*                                                                         *)
(* Reading the ramp, rewriting the inventory and appending to the audit    *)
(* log may fail at any time.  In a request the caller sees the error; in a *)
(* batch past its reading it is an unhandled rejection, at which the       *)
(* gateway's process guard ends the process: it counts as a restart.       *)
(***************************************************************************)
EXTENDS Naturals, FiniteSets

CONSTANTS LastBatch,        \* batches are numbered from 0
          MaxActs,          \* pauses, resumes, restarts and failures considered
          MaxRuns           \* batches considered in progress at once

ASSUME RampAssumption == LastBatch \in Nat /\ MaxActs \in Nat /\ MaxRuns \in Nat \ {0}

Batches == 0..LastBatch
\* A timer is known by the round of scheduling that made it and by its batch.
Rounds == 1..(1 + MaxActs)
Timers == Rounds \X Batches
None == <<0, 0>>

VARIABLES state,            \* ramp.state ("absent": no record)
          batches,          \* ramp.batches[b].status
          mails,            \* times each batch was mailed
          rounds,           \* rounds of scheduling so far
          unserved,         \* batches that lost their timer to a failure
          live,             \* timers that will fire
          handle,           \* this.timers: the round of each batch's handle, or 0
          first,            \* this.timers: the handle kept under the ramp's own key
          pc, seen,         \* the run each timer started, the batches it read
          task, taken,      \* the start or resume in progress, the batches it read
          order,            \* what the ramp was last told: "run" or "pause"
          crossed,          \* a batch in progress met another, a pause or a resume
          acts, boots

vars == <<state, batches, mails, rounds, unserved, live, handle, first, pc, seen, task, taken,
          order, crossed, acts, boots>>

record == <<state, batches>>
timerVars == <<rounds, unserved, live, handle, first>>
runVars == <<pc, seen>>
taskVars == <<task, taken>>
pastVars == <<order, crossed>>
countVars == <<acts, boots>>

Statuses == [Batches -> {"pending", "sent", "failed"}]

TypeOK ==
  /\ state \in {"absent", "running", "paused", "auto_paused", "completed"}
  /\ batches \in Statuses
  /\ mails \in [Batches -> Nat]
  /\ rounds \in 0..(1 + MaxActs)
  /\ unserved \subseteq Batches
  /\ live \subseteq Timers
  /\ handle \in [Batches -> {0} \cup Rounds]
  /\ first \in Timers \cup {None}
  /\ pc \in [Timers -> {"none", "sending", "writing", "failing", "judging",
                        "clearing"}]
  /\ seen \in [Timers -> Statuses]
  /\ task \in {"none", "starting", "writing", "scheduling"}
  /\ taken \in Statuses
  /\ order \in {"run", "pause"}
  /\ crossed \in BOOLEAN
  /\ acts \in 0..MaxActs /\ boots \in 0..acts

AllPending == [b \in Batches |-> "pending"]

Init ==
  /\ state = "absent"
  /\ batches = AllPending
  /\ mails = [b \in Batches |-> 0]
  /\ rounds = 0
  /\ unserved = {}
  /\ live = {}
  /\ handle = [b \in Batches |-> 0]
  /\ first = None
  /\ pc = [t \in Timers |-> "none"]
  /\ seen = [t \in Timers |-> AllPending]
  /\ task = "none"
  /\ taken = AllPending
  /\ order = "run"
  /\ crossed = FALSE
  /\ acts = 0 /\ boots = 0

-----------------------------------------------------------------------------
(* The timers.                                                             *)

At(t, step) == pc[t] = step
Goto(t, step) == pc' = [pc EXCEPT ![t] = step]
PendingOf(bs) == {b \in Batches : bs[b] = "pending"}
Least(S) == CHOOSE b \in S : \A c \in S : b <= c

Act == acts < MaxActs /\ acts' = acts + 1
\* A failure leaves the batches of S without a timer.
Lose(S) == Act /\ unserved' = unserved \cup S

Busy == {t \in Timers : pc[t] # "none"}
End(t) == Goto(t, "none") /\ seen' = [seen EXCEPT ![t] = AllPending]

\* scheduleBatch for the batches of S, those of N being run without a handle: the
\* ramp's own key keeps the handle it has, which may be of a timer that fired.
Schedule(S, N) ==
  LET round == rounds + 1
  IN /\ rounds' = round
     /\ live' = live \cup ({round} \X (S \cup N))
     /\ handle' = [b \in Batches |-> IF b \in S THEN round ELSE handle[b]]
     /\ first' = IF first = None /\ S # {} THEN <<round, Least(S)>> ELSE first
     /\ unserved' = unserved \ (S \cup N)

\* Every handle of the ramp is cancelled and forgotten; a timer whose handle
\* was replaced stays live.
ClearAll ==
  /\ live' = live \ ({first} \cup {<<handle[b], b>> : b \in Batches})
  /\ handle' = [b \in Batches |-> 0]
  /\ first' = None

-----------------------------------------------------------------------------
(* runBatch.                                                               *)

\* Mutant: a batch looks at its own status only.
MayRun_Status(b) == batches[b] = "pending"
\* Mutant: a batch looks at the state of the ramp only.
MayRun_State(b) == state = "running"
MayRun(b) == state = "running" /\ batches[b] = "pending"

\* A timer fires, in the order of its round: the run before it may still be under way.
\* It drops the handle of its batch even if a later round put it there; its run reads
\* the ramp and goes on to its SSH command.  Nothing marks the batch as taken.  A run
\* that cannot read the ramp ends there.
Fire(t) ==
  /\ t \in live
  /\ Cardinality(Busy) < MaxRuns
  /\ \A u \in live : u[1] = t[1] => t[2] <= u[2]
  /\ live' = live \ {t}
  /\ handle' = [handle EXCEPT ![t[2]] = 0]
  /\ \/ /\ MayRun(t[2])
        /\ Goto(t, "sending")
        /\ seen' = [seen EXCEPT ![t] = batches]
        /\ crossed' = (crossed \/ Busy # {} \/ task = "writing")
        /\ UNCHANGED <<unserved, acts>>
     \/ /\ ~MayRun(t[2])
        /\ UNCHANGED <<unserved, pc, seen, crossed, acts>>
     \/ /\ MayRun(t[2])
        /\ Lose({t[2]})
        /\ UNCHANGED <<pc, seen, crossed>>
  /\ UNCHANGED <<record, mails, rounds, first, taskVars, order, boots>>

\* Mutant: the error of the command is swallowed.
Send_IgnoresErrors(t) ==
  /\ At(t, "sending")
  /\ Goto(t, "writing")
  /\ mails' = [mails EXCEPT ![t[2]] = @ + 1] \/ UNCHANGED mails
  /\ UNCHANGED <<record, timerVars, seen, taskVars, pastVars, countVars>>

\* The SSH command succeeds or throws; what a throwing command may have mailed is not
\* counted.
Send(t) ==
  /\ At(t, "sending")
  /\ \/ Goto(t, "writing") /\ mails' = [mails EXCEPT ![t[2]] = @ + 1]
     \/ Goto(t, "failing") /\ UNCHANGED mails
  /\ UNCHANGED <<record, timerVars, seen, taskVars, pastVars, countVars>>

\* Mutant: the status of a batch under way is written at its end.
Settled_Running(t, s) == [seen[t] EXCEPT ![t[2]] = "running"]
\* What the run knows of the batches, with its own settled as s.
Settled(t, s) == [seen[t] EXCEPT ![t[2]] = s]

\* Done, for all the run knows.
Done(t) == PendingOf(Settled(t, "sent")) = {}

Write(t) ==
  /\ At(t, "writing")
  /\ batches' = Settled(t, "sent")
  /\ state' = IF Done(t) THEN "completed" ELSE "running"
  /\ Goto(t, "judging")
  /\ UNCHANGED <<mails, timerVars, seen, taskVars, pastVars, countVars>>

\* pauseRamp as state s: only the timer under the ramp's own key is cancelled.
PauseAs(s) ==
  /\ state' = s
  /\ live' = live \ {first}
  /\ first' = None
  /\ order' = "pause"
  /\ UNCHANGED <<batches, mails, rounds, unserved, handle, taskVars, countVars>>

\* The totals or the external signals ask for a pause; else a run that is done
\* cancels what timers are left.
Judge(t) ==
  /\ At(t, "judging")
  /\ End(t)
  /\ \/ PauseAs("auto_paused") /\ crossed' = (crossed \/ Busy # {t} \/ task # "none")
     \/ /\ IF Done(t) THEN ClearAll ELSE UNCHANGED <<live, handle, first>>
        /\ UNCHANGED <<record, mails, rounds, unserved, taskVars, pastVars, countVars>>

\* handleBatchFailure: the ramp stops, then its timers are cancelled.
Fail(t) ==
  /\ At(t, "failing")
  /\ batches' = Settled(t, "failed")
  /\ state' = "auto_paused"
  /\ order' = "pause"
  /\ crossed' = (crossed \/ Busy # {t} \/ task # "none")
  /\ Goto(t, "clearing")
  /\ UNCHANGED <<mails, timerVars, seen, taskVars, countVars>>

Clear(t) ==
  /\ At(t, "clearing")
  /\ ClearAll
  /\ End(t)
  /\ UNCHANGED <<record, mails, rounds, unserved, taskVars, pastVars, countVars>>

-----------------------------------------------------------------------------
(* Operators and restarts.                                                 *)

\* startRamp writes the record ...
Start ==
  /\ state = "absent"
  /\ state' = "running"
  /\ task' = "starting"
  /\ UNCHANGED <<batches, mails, timerVars, runVars, taken, pastVars, countVars>>

LaterBatches == Batches \ {0}

\* ... and, its events written, runs batch 0, which has no handle, and schedules the
\* others; if an event is not written, the ramp stays running without a timer.
StartTimers ==
  /\ task = "starting"
  /\ task' = "none"
  /\ \/ Schedule(LaterBatches, {0}) /\ UNCHANGED acts
     \/ Lose(Batches) /\ UNCHANGED <<rounds, live, handle, first>>
  /\ UNCHANGED <<record, mails, runVars, taken, pastVars, boots>>

\* Whatever the state of the ramp, a completed one included.  The timer is cancelled
\* before the pause is written, which may fail.
Pause ==
  /\ state # "absent"
  /\ Act
  /\ live' = live \ {first}
  /\ first' = None
  /\ \/ /\ state' = "paused"
        /\ order' = "pause"
        /\ crossed' = (crossed \/ Busy # {} \/ task # "none")
        /\ UNCHANGED unserved
     \/ /\ unserved' = unserved \cup {t[2] : t \in live \cap {first}}
        /\ UNCHANGED <<state, pastVars>>
  /\ UNCHANGED <<batches, mails, rounds, handle, runVars, taskVars, boots>>

\* resumeRamp reads the ramp ...
ResumeRead ==
  /\ task = "none"
  /\ state \notin {"absent", "running"}
  /\ Act
  /\ taken' = batches
  /\ task' = "writing"
  /\ crossed' = (crossed \/ Busy # {})
  /\ UNCHANGED <<record, mails, timerVars, runVars, order, boots>>

\* ... writes its batches back with new times, which may fail ...
ResumeWrite ==
  /\ task = "writing"
  /\ \/ /\ task' = "scheduling"
        /\ batches' = taken
        /\ state' = "running"
        /\ order' = "run"
        /\ UNCHANGED <<taken, acts>>
     \/ /\ Act
        /\ task' = "none"
        /\ taken' = AllPending
        /\ UNCHANGED <<record, order>>
  /\ UNCHANGED <<mails, timerVars, runVars, crossed, boots>>

\* ... and, its events written, schedules those that are pending; if an event is not
\* written, the ramp is running and a second resume returns it as it is.
ResumeTimers ==
  /\ task = "scheduling"
  /\ task' = "none"
  /\ taken' = AllPending
  /\ \/ Schedule(PendingOf(taken), {}) /\ UNCHANGED acts
     \/ Lose(PendingOf(taken)) /\ UNCHANGED <<rounds, live, handle, first>>
  /\ UNCHANGED <<record, mails, runVars, pastVars, boots>>

\* Mutant: a restart leaves the ramp to the operator.
Rehydrated_None == {}
Rehydrated == IF state = "running" THEN PendingOf(batches) ELSE {}

\* The gateway restarts and resumeRampsOnBoot schedules what is pending, if it can read
\* the inventory.
Boot ==
  /\ Act
  /\ boots' = boots + 1
  /\ rounds' = rounds + 1
  /\ \E S \in {Rehydrated, {}} :
       /\ unserved' = Rehydrated \ S
       /\ live' = {rounds + 1} \X S
       /\ handle' = [b \in Batches |-> IF b \in S THEN rounds + 1 ELSE 0]
       /\ first' = IF S # {} THEN <<rounds + 1, Least(S)>> ELSE None
  /\ pc' = [t \in Timers |-> "none"]
  /\ seen' = [t \in Timers |-> AllPending]
  /\ task' = "none" /\ taken' = AllPending
  /\ UNCHANGED <<record, mails, pastVars>>

-----------------------------------------------------------------------------
RunStep(t) ==
  Fire(t) \/ Send(t) \/ Write(t) \/ Judge(t) \/ Fail(t) \/ Clear(t)
Step == (\E t \in Timers : RunStep(t)) \/ StartTimers \/ ResumeWrite \/ ResumeTimers

Next == Step \/ Start \/ Pause \/ ResumeRead \/ Boot

Spec == Init /\ [][Next]_vars

\* The gateway keeps running: timers fire, SSH commands end by their time-out and
\* requests go on.
FairSpec == Spec /\ WF_vars(Step)

-----------------------------------------------------------------------------
(* Properties.                                                             *)

\* What the record says was sent was mailed, however old the reading that a
\* run or a resume wrote back.
SentIsMailed == \A b \in Batches : batches[b] = "sent" => mails[b] >= 1

\* Timers left over by pauses, resumes and restarts do not mail a batch again:
\* as long as no batch in progress was met, only a restart, which may cut one
\* between its mail and its record, has it mailed twice.
MailedOnce == ~crossed => \A b \in Batches : mails[b] <= 1 + boots

\* A paused ramp, by an operator, a breaker or a failure, begins no batch until
\* it is resumed, as long as no batch in progress was met.
Begins == \E t \in Timers : pc[t] = "none" /\ pc'[t] = "sending"
PauseHonoured == [][Begins => order = "run" \/ crossed]_vars

\* A pause cancels the timers that are pending.
PauseStands == [][Begins => order = "run"]_vars

\* A running ramp gets to all of its batches but those whose timer a failure took, or
\* stops, also after pauses, resumes and restarts, as long as no batch in progress was
\* met.
RampSettles ==
  state = "running" /\ ~crossed ~>
    PendingOf(batches) \subseteq unserved \/ state # "running" \/ crossed
=============================================================================
