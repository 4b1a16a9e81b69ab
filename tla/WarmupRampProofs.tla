-------------------------- MODULE WarmupRampProofs ---------------------------
(***************************************************************************)
(* Proofs about the WarmupRamp: what the record claims was mailed, and     *)
(* that timers left over neither repeat a batch nor break a pause as long  *)
(* as no batch in progress is met, for any number of batches, of acts and  *)
(* of batches in progress at once.                                         *)
(***************************************************************************)
EXTENDS WarmupRamp, WellFoundedInduction, TLAPS

-----------------------------------------------------------------------------
(* The inductive invariants.                                               *)

\* Each round of scheduling belongs to the start, a resume or a restart.
RoundsCounted ==
  /\ rounds + (IF task = "none" THEN 0 ELSE 1) <= acts + (IF state = "absent" THEN 0 ELSE 1)
  /\ state = "absent" => task = "none"

\* Every reading of the batches that may be written back claims only what was mailed.
SentMailed(bs) == \A b \in Batches : bs[b] = "sent" => mails[b] >= 1
ReadingsMailed ==
  /\ SentMailed(batches) /\ SentMailed(taken)
  /\ \A t \in Timers : SentMailed(seen[t]) /\ (pc[t] = "writing" => mails[t[2]] >= 1)

\* A run of a batch that has still to be settled.
Unsettled(t) == pc[t] \in {"sending", "writing", "failing"}

\* Before any batch in progress is met: one run at a time, on the batches and the
\* order of now, and none beside a resume that will write its reading back.
Apart ==
  /\ \A t, u \in Busy : t = u
  /\ task = "writing" => Busy = {} /\ taken = batches
  /\ \A t \in Timers : Unsettled(t) =>
       seen[t] = batches /\ batches[t[2]] = "pending" /\ state = "running"
  /\ state = "running" => order = "run"
  /\ state = "absent" => order = "run" /\ Busy = {}

\* A pending batch has been mailed by runs that a restart cut, or that is not yet
\* recorded, only.
MailsExplained == \A b \in Batches :
  /\ mails[b] <= 1 + boots
  /\ batches[b] = "pending" /\ (\A t \in Timers : pc[t] = "writing" => t[2] # b) => mails[b] <= boots

QuietInv == ~ crossed => Apart /\ MailsExplained
RampInv == RoundsCounted /\ ReadingsMailed /\ QuietInv

-----------------------------------------------------------------------------
(* Type correctness.                                                       *)

\* scheduleBatch's first batch is one of those it is called for.
LEMMA LeastIn == ASSUME NEW S, S \subseteq Batches, S # {} PROVE Least(S) \in S
<1>1. S \subseteq Nat
  BY RampAssumption DEF RampAssumption, Batches
<1>2. PICK b \in S : \A c \in S : ~ (<<c, b>> \in OpToRel(<, Nat))
  BY <1>1, NatLessThanWellFounded, WFMin
<1>3. ASSUME NEW c \in S PROVE b <= c
  <2>1. c \in Nat /\ b \in Nat
    BY <1>1
  <2>2. ~ (c < b)
    BY <1>2, <2>1 DEF OpToRel
  <2>. QED
    BY <2>1, <2>2
<1>. QED
  BY <1>3 DEF Least

\* A round of scheduling that the acts leave room for has timers of its own.
LEMMA ScheduleTyped ==
  ASSUME TypeOK, NEW S, S \subseteq Batches, NEW N, N \subseteq Batches,
         Schedule(S, N), rounds + 1 \in Rounds
  PROVE  /\ rounds' \in 0..(1 + MaxActs) /\ unserved' \subseteq Batches
         /\ live' \subseteq Timers /\ handle' \in [Batches -> {0} \cup Rounds]
         /\ first' \in Timers \cup {None}
<1>1. S # {} => <<rounds + 1, Least(S)>> \in Timers
  BY LeastIn DEF Timers
<1>2. {rounds + 1} \X (S \cup N) \subseteq Timers
  BY DEF Timers
<1>3. rounds + 1 \in 0..(1 + MaxActs)
  BY RampAssumption DEF RampAssumption, Rounds
<1>. QED
  BY <1>1, <1>2, <1>3 DEF Schedule, TypeOK

\* What a run knows of the batches is a status for each of them.
LEMMA SettledTyped ==
  ASSUME TypeOK, NEW t \in Timers, NEW s \in {"sent", "failed"}
  PROVE  Settled(t, s) \in Statuses /\ t[1] \in Rounds /\ t[2] \in Batches
<1>1. t[1] \in Rounds /\ t[2] \in Batches
  BY DEF Timers
<1>2. seen[t] \in Statuses
  BY DEF TypeOK
<1>. QED
  BY <1>1, <1>2 DEF Settled, Statuses

\* Every step keeps every variable in its type; rounds stay within the acts.
LEMMA TypeStep == TypeOK /\ RoundsCounted /\ [Next]_vars => TypeOK' /\ RoundsCounted'
<1> SUFFICES ASSUME TypeOK, RoundsCounted, [Next]_vars
             PROVE  TypeOK' /\ RoundsCounted'
  OBVIOUS
<1>1. LastBatch \in Nat /\ MaxActs \in Nat
  BY RampAssumption DEF RampAssumption
<1>2. AllPending \in Statuses
  BY DEF AllPending, Statuses
<1>3. acts \in 0..MaxActs /\ rounds \in 0..(1 + MaxActs)
  BY DEF TypeOK
<1>4. task # "none" \/ acts < MaxActs => rounds + 1 \in Rounds
  BY <1>1, <1>3 DEF RoundsCounted, Rounds
<1> USE DEF record, timerVars, runVars, taskVars, pastVars, countVars
<1>5. boots \in 0..acts /\ (acts < MaxActs => boots \in 0..(acts + 1) /\ acts + 1 \in 0..MaxActs)
  BY <1>1, <1>3 DEF TypeOK
<1>6. ASSUME NEW t \in Timers, Fire(t) PROVE TypeOK' /\ RoundsCounted'
  <2>1. t[2] \in Batches
    BY DEF Timers
  <2>2. UNCHANGED <<record, mails, rounds, first, taskVars, order, boots>> /\ live' = live \ {t}
        /\ handle' = [handle EXCEPT ![t[2]] = 0]
    BY <1>6 DEF Fire
  <2>3. \/ UNCHANGED <<unserved, acts>>
        \/ acts < MaxActs /\ acts' = acts + 1 /\ unserved' = unserved \cup {t[2]}
    BY <1>6 DEF Fire, Lose, Act
  <2>4. acts' \in 0..MaxActs /\ boots' \in 0..acts' /\ unserved' \subseteq Batches
    BY <1>3, <1>5, <2>1, <2>2, <2>3 DEF TypeOK
  <2>5. \/ UNCHANGED <<pc, seen, crossed>>
        \/ Goto(t, "sending") /\ seen' = [seen EXCEPT ![t] = batches] /\ crossed' \in BOOLEAN
    BY <1>6 DEF Fire, TypeOK
  <2>6. /\ pc' \in [Timers -> {"none", "sending", "writing", "failing", "judging", "clearing"}]
        /\ seen' \in [Timers -> Statuses] /\ crossed' \in BOOLEAN
    BY <2>5 DEF Goto, TypeOK
  <2>7. TypeOK'
    BY <2>1, <2>2, <2>4, <2>6 DEF TypeOK
  <2>. QED
    BY <1>1, <1>3, <2>2, <2>3, <2>7 DEF RoundsCounted
<1>7. ASSUME NEW t \in Timers, Send(t) PROVE TypeOK' /\ RoundsCounted'
  <2>1. t[2] \in Batches
    BY DEF Timers
  <2>2. mails' \in [Batches -> Nat]
    BY <1>7, <2>1 DEF Send, TypeOK
  <2>. QED
    BY <1>7, <2>2 DEF Send, Goto, TypeOK, RoundsCounted
<1>8. ASSUME NEW t \in Timers, Write(t) PROVE TypeOK' /\ RoundsCounted'
  <2>1. Settled(t, "sent") \in Statuses
    BY SettledTyped
  <2>2. state' \in {"running", "completed"}
    BY <1>8 DEF Write
  <2>3. TypeOK'
    BY <1>8, <2>1, <2>2 DEF Write, Goto, TypeOK
  <2>4. UNCHANGED <<rounds, acts, task>>
    BY <1>8 DEF Write
  <2>. QED
    BY <1>3, <2>2, <2>3, <2>4, <1>1 DEF RoundsCounted
<1>9. ASSUME NEW t \in Timers, Judge(t) PROVE TypeOK' /\ RoundsCounted'
  <2>1. pc' = [pc EXCEPT ![t] = "none"] /\ seen' = [seen EXCEPT ![t] = AllPending]
    BY <1>9 DEF Judge, End, Goto
  <2>2. pc' \in [Timers -> {"none", "sending", "writing", "failing", "judging", "clearing"}]
        /\ seen' \in [Timers -> Statuses]
    BY <1>2, <2>1 DEF TypeOK
  <2>3. CASE PauseAs("auto_paused") /\ crossed' = (crossed \/ Busy # {t} \/ task # "none")
    <3>1. TypeOK'
      BY <1>9, <2>2, <2>3 DEF Judge, PauseAs, TypeOK
    <3>. QED
      BY <1>9, <2>3, <3>1, <1>1, <1>3 DEF Judge, PauseAs, RoundsCounted
  <2>4. CASE /\ IF Done(t) THEN ClearAll ELSE UNCHANGED <<live, handle, first>>
             /\ UNCHANGED <<record, mails, rounds, unserved, taskVars, pastVars, countVars>>
    <3>1. live' \subseteq Timers /\ handle' \in [Batches -> {0} \cup Rounds] /\ first' \in Timers \cup {None}
      BY <2>4 DEF ClearAll, TypeOK
    <3>2. TypeOK'
      BY <2>2, <2>4, <3>1 DEF TypeOK
    <3>. QED
      BY <2>4, <3>2 DEF RoundsCounted
  <2>. QED
    BY <1>9, <2>3, <2>4 DEF Judge
<1>10. ASSUME NEW t \in Timers, Fail(t) PROVE TypeOK' /\ RoundsCounted'
  <2>1. Settled(t, "failed") \in Statuses
    BY SettledTyped
  <2>2. TypeOK'
    BY <1>10, <2>1 DEF Fail, Goto, TypeOK
  <2>3. UNCHANGED <<rounds, acts, task>> /\ state' = "auto_paused"
    BY <1>10 DEF Fail
  <2>. QED
    BY <1>3, <2>2, <2>3, <1>1 DEF RoundsCounted
<1>11. ASSUME NEW t \in Timers, Clear(t) PROVE TypeOK' /\ RoundsCounted'
  BY <1>11, <1>2 DEF Clear, ClearAll, End, Goto, TypeOK, RoundsCounted
<1>12. CASE Start
  BY <1>12, <1>1, <1>3 DEF Start, TypeOK, RoundsCounted
<1>13. CASE StartTimers
  <2>1. task = "starting" /\ task' = "none" /\ UNCHANGED <<record, mails, runVars, taken, pastVars, boots>>
    BY <1>13 DEF StartTimers
  <2>2. rounds + 1 \in Rounds /\ LaterBatches \subseteq Batches /\ {0} \subseteq Batches
    BY <2>1, <1>4, <1>1 DEF LaterBatches, Batches
  <2>3. CASE Schedule(LaterBatches, {0}) /\ UNCHANGED acts
    <3>1. /\ rounds' \in 0..(1 + MaxActs) /\ unserved' \subseteq Batches
          /\ live' \subseteq Timers /\ handle' \in [Batches -> {0} \cup Rounds]
          /\ first' \in Timers \cup {None}
      BY <2>2, <2>3, ScheduleTyped
    <3>2. rounds' = rounds + 1
      BY <2>3 DEF Schedule
    <3>3. TypeOK'
      BY <2>1, <2>3, <3>1 DEF TypeOK
    <3>. QED
      BY <2>1, <2>3, <3>2, <3>3, <1>1, <1>3 DEF RoundsCounted
  <2>4. CASE Lose(Batches) /\ UNCHANGED <<rounds, live, handle, first>>
    <3>1. acts < MaxActs /\ acts' = acts + 1 /\ unserved' \subseteq Batches
      BY <2>4 DEF Lose, Act, TypeOK
    <3>2. acts' \in 0..MaxActs /\ boots' \in 0..acts'
      BY <1>5, <2>1, <3>1
    <3>3. TypeOK'
      BY <2>1, <2>4, <3>1, <3>2 DEF TypeOK
    <3>. QED
      BY <2>1, <2>4, <3>1, <3>3, <1>1, <1>3 DEF RoundsCounted
  <2>. QED
    BY <1>13, <2>3, <2>4 DEF StartTimers
<1>14. CASE Pause
  <2>1. /\ UNCHANGED <<batches, mails, rounds, handle, runVars, taskVars, boots>>
        /\ acts < MaxActs /\ acts' = acts + 1
        /\ live' \subseteq Timers /\ first' \in Timers \cup {None} /\ state # "absent"
    BY <1>14 DEF Pause, Act, TypeOK
  <2>2. /\ state' = "paused" \/ UNCHANGED state
        /\ order' \in {"run", "pause"} /\ crossed' \in BOOLEAN
    BY <1>14 DEF Pause, TypeOK
  <2>3. \A t \in live : t[2] \in Batches
    BY DEF TypeOK, Timers
  <2>4. unserved' \subseteq Batches
    BY <1>14, <2>3 DEF Pause, TypeOK
  <2>5. acts' \in 0..MaxActs /\ boots' \in 0..acts'
    BY <1>5, <2>1
  <2>6. TypeOK'
    BY <2>1, <2>2, <2>4, <2>5 DEF TypeOK
  <2>. QED
    BY <2>1, <2>2, <2>6, <1>1, <1>3 DEF RoundsCounted
<1>15. CASE ResumeRead
  BY <1>15, <1>1, <1>3 DEF ResumeRead, Act, TypeOK, RoundsCounted
<1>16. CASE ResumeWrite
  <2>1. UNCHANGED <<mails, timerVars, runVars, crossed, boots>> /\ task = "writing" /\ state # "absent"
    BY <1>16 DEF ResumeWrite, RoundsCounted
  <2>2. CASE /\ task' = "scheduling" /\ batches' = taken /\ state' = "running" /\ order' = "run"
             /\ UNCHANGED <<taken, acts>>
    BY <2>1, <2>2, <1>1, <1>3 DEF TypeOK, RoundsCounted
  <2>3. CASE Act /\ task' = "none" /\ taken' = AllPending /\ UNCHANGED <<record, order>>
    <3>1. acts < MaxActs /\ acts' = acts + 1
      BY <2>3 DEF Act
    <3>2. acts' \in 0..MaxActs /\ boots' \in 0..acts'
      BY <1>5, <2>1, <3>1
    <3>3. TypeOK'
      BY <1>2, <2>1, <2>3, <3>2 DEF TypeOK
    <3>. QED
      BY <2>1, <2>3, <3>1, <3>3, <1>1, <1>3 DEF RoundsCounted
  <2>. QED
    BY <1>16, <2>2, <2>3 DEF ResumeWrite
<1>17. CASE ResumeTimers
  <2>1. task = "scheduling" /\ task' = "none" /\ taken' = AllPending
        /\ UNCHANGED <<record, mails, runVars, pastVars, boots>>
    BY <1>17 DEF ResumeTimers
  <2>2. rounds + 1 \in Rounds /\ PendingOf(taken) \subseteq Batches
    BY <2>1, <1>4 DEF PendingOf
  <2>3. CASE Schedule(PendingOf(taken), {}) /\ UNCHANGED acts
    <3>1. /\ rounds' \in 0..(1 + MaxActs) /\ unserved' \subseteq Batches
          /\ live' \subseteq Timers /\ handle' \in [Batches -> {0} \cup Rounds]
          /\ first' \in Timers \cup {None}
      BY <2>2, <2>3, ScheduleTyped
    <3>2. rounds' = rounds + 1
      BY <2>3 DEF Schedule
    <3>3. TypeOK'
      BY <1>2, <2>1, <2>3, <3>1 DEF TypeOK
    <3>. QED
      BY <2>1, <2>3, <3>2, <3>3, <1>1, <1>3 DEF RoundsCounted
  <2>4. CASE Lose(PendingOf(taken)) /\ UNCHANGED <<rounds, live, handle, first>>
    <3>1. acts < MaxActs /\ acts' = acts + 1 /\ unserved' \subseteq Batches
      BY <2>2, <2>4 DEF Lose, Act, TypeOK
    <3>2. acts' \in 0..MaxActs /\ boots' \in 0..acts'
      BY <1>5, <2>1, <3>1
    <3>3. TypeOK'
      BY <1>2, <2>1, <2>4, <3>1, <3>2 DEF TypeOK
    <3>. QED
      BY <2>1, <2>4, <3>1, <3>3, <1>1, <1>3 DEF RoundsCounted
  <2>. QED
    BY <1>17, <2>3, <2>4 DEF ResumeTimers
<1>18. CASE Boot
  <2>1. rounds + 1 \in Rounds /\ rounds' = rounds + 1 /\ acts' = acts + 1 /\ acts < MaxActs
        /\ boots' = boots + 1 /\ UNCHANGED state /\ task' = "none"
    BY <1>18, <1>4 DEF Boot, Act
  <2>2. Rehydrated \subseteq Batches
    BY DEF Rehydrated, PendingOf
  <2>3. PICK S \in {Rehydrated, {}} :
           /\ unserved' = Rehydrated \ S /\ live' = {rounds + 1} \X S
           /\ handle' = [b \in Batches |-> IF b \in S THEN rounds + 1 ELSE 0]
           /\ first' = IF S # {} THEN <<rounds + 1, Least(S)>> ELSE None
    BY <1>18 DEF Boot
  <2>4. S \subseteq Batches /\ (S # {} => <<rounds + 1, Least(S)>> \in Timers)
    BY <2>1, <2>2, LeastIn DEF Timers
  <2>5. live' \subseteq Timers /\ unserved' \subseteq Batches
    BY <2>1, <2>2, <2>4, <2>3 DEF Timers
  <2>6. handle' \in [Batches -> {0} \cup Rounds] /\ first' \in Timers \cup {None}
    BY <2>1, <2>4, <2>3
  <2>7. rounds' \in 0..(1 + MaxActs) /\ acts' \in 0..MaxActs /\ boots' \in 0..acts'
    BY <2>1, <1>1, <1>3 DEF TypeOK, RoundsCounted
  <2>8. /\ pc' \in [Timers -> {"none", "sending", "writing", "failing", "judging", "clearing"}]
        /\ seen' \in [Timers -> Statuses] /\ taken' \in Statuses
        /\ UNCHANGED <<record, mails, pastVars>>
    BY <1>18, <1>2 DEF Boot
  <2>9. TypeOK'
    BY <2>1, <2>5, <2>6, <2>7, <2>8 DEF TypeOK
  <2>10. RoundsCounted'
    BY <2>1, <1>1, <1>3 DEF RoundsCounted
  <2>. QED
    BY <2>9, <2>10
<1>19. CASE UNCHANGED vars
  BY <1>19 DEF vars, TypeOK, RoundsCounted
<1>. QED
  BY <1>6, <1>7, <1>8, <1>9, <1>10, <1>11, <1>12, <1>13, <1>14, <1>15, <1>16, <1>17, <1>18, <1>19
     DEF Next, Step, RunStep

-----------------------------------------------------------------------------
(* What was mailed.                                                        *)

\* No reading of the batches that a run or a resume writes back claims more than was
\* mailed: a run settles its own batch as sent after its command, and mail is not unsent.
LEMMA ReadingsMailedStep == TypeOK /\ ReadingsMailed /\ [Next]_vars => ReadingsMailed'
<1> SUFFICES ASSUME TypeOK, ReadingsMailed, [Next]_vars
             PROVE  ReadingsMailed'
  OBVIOUS
<1> DEFINE Kept(bs) == \A b \in Batches : bs[b] = "sent" => mails'[b] >= 1
           KeptRuns == \A t \in Timers : Kept(seen'[t]) /\ (pc'[t] = "writing" => mails'[t[2]] >= 1)
<1>1. SUFFICES Kept(batches') /\ Kept(taken') /\ KeptRuns
  BY DEF ReadingsMailed, SentMailed
<1> USE DEF record, timerVars, runVars, taskVars, pastVars, countVars
<1>2. \A t \in Timers : t[2] \in Batches
  BY DEF Timers
<1>3. Kept(AllPending)
  BY DEF AllPending
<1>4. ASSUME UNCHANGED mails
      PROVE  Kept(batches) /\ Kept(taken)
             /\ \A t \in Timers : Kept(seen[t]) /\ (pc[t] = "writing" => mails'[t[2]] >= 1)
  BY <1>4 DEF ReadingsMailed, SentMailed
<1>5. ASSUME NEW t \in Timers, Fire(t) PROVE Kept(batches') /\ Kept(taken') /\ KeptRuns
  <2>1. UNCHANGED <<mails, batches, taken>>
    BY <1>5 DEF Fire
  <2>2. \/ UNCHANGED <<pc, seen>>
        \/ pc' = [pc EXCEPT ![t] = "sending"] /\ seen' = [seen EXCEPT ![t] = batches]
    BY <1>5 DEF Fire, Goto
  <2>. QED
    BY <2>1, <2>2, <1>4 DEF TypeOK
<1>6. ASSUME NEW t \in Timers, Send(t) PROVE Kept(batches') /\ Kept(taken') /\ KeptRuns
  <2>1. UNCHANGED <<batches, taken, seen>>
    BY <1>6 DEF Send
  <2>2. \/ pc' = [pc EXCEPT ![t] = "writing"] /\ mails' = [mails EXCEPT ![t[2]] = @ + 1]
        \/ pc' = [pc EXCEPT ![t] = "failing"] /\ UNCHANGED mails
    BY <1>6 DEF Send, Goto
  <2>3. CASE pc' = [pc EXCEPT ![t] = "writing"] /\ mails' = [mails EXCEPT ![t[2]] = @ + 1]
    <3>1. \A b \in Batches : mails[b] \in Nat /\ mails'[b] \in Nat /\ mails'[b] >= mails[b]
      BY <1>2, <2>3 DEF TypeOK
    <3>2. mails'[t[2]] >= 1
      BY <1>2, <2>3 DEF TypeOK
    <3>3. \A u \in Timers : pc'[u] = "writing" => u = t \/ pc[u] = "writing"
      BY <2>3 DEF TypeOK
    <3>4. ASSUME NEW bs, SentMailed(bs) PROVE Kept(bs)
      BY <3>1, <3>4 DEF SentMailed
    <3>5. ASSUME NEW u \in Timers, pc'[u] = "writing" PROVE mails'[u[2]] >= 1
      <4>1. CASE u = t
        BY <3>2, <4>1
      <4>2. CASE pc[u] = "writing"
        BY <3>1, <4>2, <1>2 DEF ReadingsMailed
      <4>. QED
        BY <3>3, <3>5, <4>1, <4>2
    <3>. HIDE DEF Kept
    <3>6. Kept(batches) /\ Kept(taken) /\ \A u \in Timers : Kept(seen[u])
      BY <3>4 DEF ReadingsMailed
    <3>. QED
      BY <2>1, <3>5, <3>6
  <2>4. CASE pc' = [pc EXCEPT ![t] = "failing"] /\ UNCHANGED mails
    BY <2>1, <2>4, <1>4 DEF TypeOK
  <2>. QED
    BY <2>2, <2>3, <2>4
<1>7. ASSUME NEW t \in Timers, Write(t) PROVE Kept(batches') /\ Kept(taken') /\ KeptRuns
  <2>1. UNCHANGED <<mails, taken, seen>> /\ pc[t] = "writing" /\ pc' = [pc EXCEPT ![t] = "judging"]
        /\ batches' = [seen[t] EXCEPT ![t[2]] = "sent"]
    BY <1>7 DEF Write, At, Goto, Settled
  <2>2. Kept(batches')
    BY <2>1, <1>2, <1>4 DEF TypeOK, Statuses
  <2>. QED
    BY <2>1, <2>2, <1>4 DEF TypeOK
<1>8. ASSUME NEW t \in Timers, Judge(t) \/ Clear(t) PROVE Kept(batches') /\ Kept(taken') /\ KeptRuns
  <2>1. UNCHANGED <<mails, batches, taken>>
    BY <1>8 DEF Judge, Clear, PauseAs
  <2>2. pc' = [pc EXCEPT ![t] = "none"] /\ seen' = [seen EXCEPT ![t] = AllPending]
    BY <1>8 DEF Judge, Clear, End, Goto
  <2>. QED
    BY <2>1, <2>2, <1>3, <1>4 DEF TypeOK
<1>9. ASSUME NEW t \in Timers, Fail(t) PROVE Kept(batches') /\ Kept(taken') /\ KeptRuns
  <2>1. UNCHANGED <<mails, taken, seen>> /\ pc' = [pc EXCEPT ![t] = "clearing"]
        /\ batches' = [seen[t] EXCEPT ![t[2]] = "failed"]
    BY <1>9 DEF Fail, Goto, Settled
  <2>2. Kept(batches')
    BY <2>1, <1>2, <1>4 DEF TypeOK, Statuses
  <2>. QED
    BY <2>1, <2>2, <1>4 DEF TypeOK
<1>10. CASE Start \/ StartTimers \/ Pause \/ UNCHANGED vars
  <2>1. UNCHANGED <<mails, batches, taken, seen, pc>>
    BY <1>10 DEF Start, StartTimers, Pause, vars
  <2>. QED
    BY <2>1, <1>4
<1>11. CASE ResumeRead
  BY <1>11, <1>4 DEF ResumeRead
<1>12. CASE ResumeWrite
  BY <1>12, <1>3, <1>4 DEF ResumeWrite
<1>13. CASE ResumeTimers
  BY <1>13, <1>3, <1>4 DEF ResumeTimers
<1>14. CASE Boot
  BY <1>14, <1>3, <1>4 DEF Boot
<1>. QED
  BY <1>5, <1>6, <1>7, <1>8, <1>9, <1>10, <1>11, <1>12, <1>13, <1>14 DEF Next, Step, RunStep

-----------------------------------------------------------------------------
(* Batches, pauses and resumes that do not meet.                           *)

\* A run of a batch under way, before any was met, is the only one and is on the
\* batches of now.
LEMMA OnlyRun ==
  ASSUME TypeOK, Apart, NEW t \in Timers, pc[t] # "none"
  PROVE  /\ Busy = {t} /\ task # "writing" /\ state # "absent" /\ t[2] \in Batches
         /\ \A u \in Timers : u # t => pc[u] = "none"
<1>1. t \in Busy /\ t[2] \in Batches
  BY DEF Busy, Timers
<1>2. \A u \in Busy : u = t
  BY <1>1 DEF Apart
<1>. QED
  BY <1>1, <1>2 DEF Apart, Busy

\* Timers left over are harmless as long as no batch in progress is met: a run is on
\* the batches of now, its batch is mailed once more than restarts cut it, and the ramp
\* is running only when it was told to.
LEMMA QuietStep == TypeOK /\ QuietInv /\ [Next]_vars => QuietInv'
<1> SUFFICES ASSUME TypeOK, QuietInv, [Next]_vars, ~ crossed'
             PROVE  Apart' /\ MailsExplained'
  BY DEF QuietInv
<1> USE DEF record, timerVars, runVars, taskVars, pastVars, countVars
<1>1. ~ crossed
  BY DEF Next, Step, RunStep, Fire, Send, Write, Judge, PauseAs, Fail, Clear, Start, StartTimers,
         Pause, ResumeRead, ResumeWrite, ResumeTimers, Boot, vars, TypeOK
<1>2. Apart /\ MailsExplained
  BY <1>1 DEF QuietInv
<1>3. \A b \in Batches : mails[b] \in Nat
  BY DEF TypeOK
<1>4. boots \in Nat
  BY DEF TypeOK
<1>5. ASSUME NEW t \in Timers, Fire(t) PROVE Apart' /\ MailsExplained'
  <2>1. UNCHANGED <<state, batches, mails, task, taken, order, boots>>
    BY <1>5 DEF Fire
  <2>2. CASE /\ MayRun(t[2])
             /\ Goto(t, "sending") /\ seen' = [seen EXCEPT ![t] = batches]
             /\ crossed' = (crossed \/ Busy # {} \/ task = "writing")
    <3>1. pc' = [pc EXCEPT ![t] = "sending"] /\ seen' = [seen EXCEPT ![t] = batches]
          /\ Busy = {} /\ task # "writing"
      BY <2>2 DEF Goto
    <3>2. state = "running" /\ batches[t[2]] = "pending"
      BY <2>2 DEF MayRun
    <3>3. \A u \in Timers : pc[u] = "none"
      BY <3>1 DEF Busy
    <3>4. pc'[t] = "sending" /\ seen'[t] = batches /\ \A u \in Timers : u # t => pc'[u] = "none"
      BY <3>1, <3>3 DEF TypeOK
    <3>5. Apart'
      BY <1>2, <2>1, <3>1, <3>2, <3>4 DEF Apart, Busy, Unsettled
    <3>6. MailsExplained'
      BY <1>2, <2>1, <3>3 DEF MailsExplained
    <3>. QED
      BY <3>5, <3>6
  <2>3. CASE UNCHANGED <<pc, seen>>
    BY <1>2, <2>1, <2>3 DEF Apart, Busy, Unsettled, MailsExplained
  <2>. QED
    BY <1>5, <2>2, <2>3 DEF Fire
<1>6. ASSUME NEW t \in Timers, Send(t) PROVE Apart' /\ MailsExplained'
  <2>1. UNCHANGED <<state, batches, seen, task, taken, order, boots>> /\ pc[t] = "sending"
    BY <1>6 DEF Send, At
  <2>2. /\ Busy = {t} /\ task # "writing" /\ state # "absent" /\ t[2] \in Batches
        /\ \A u \in Timers : u # t => pc[u] = "none"
    BY <1>2, <2>1, OnlyRun
  <2>3. \/ pc' = [pc EXCEPT ![t] = "writing"] /\ mails' = [mails EXCEPT ![t[2]] = @ + 1]
        \/ pc' = [pc EXCEPT ![t] = "failing"] /\ UNCHANGED mails
    BY <1>6 DEF Send, Goto
  <2>4. \A u \in Timers : u # t => pc'[u] = "none"
    BY <2>2, <2>3 DEF TypeOK
  <2>5. seen[t] = batches /\ batches[t[2]] = "pending" /\ state = "running"
    BY <1>2, <2>1 DEF Apart, Unsettled
  <2>6. Apart'
    BY <1>2, <2>1, <2>2, <2>4, <2>5 DEF Apart, Busy, Unsettled
  <2>7. \A b \in Batches : mails[b] <= 1 + boots /\ (batches[b] = "pending" => mails[b] <= boots)
    BY <1>2, <2>1, <2>2 DEF MailsExplained
  <2>8. CASE pc' = [pc EXCEPT ![t] = "writing"] /\ mails' = [mails EXCEPT ![t[2]] = @ + 1]
    <3>1. pc'[t] = "writing" /\ mails'[t[2]] = mails[t[2]] + 1
          /\ \A b \in Batches : b # t[2] => mails'[b] = mails[b]
      BY <2>2, <2>8 DEF TypeOK
    <3>2. mails[t[2]] <= boots
      BY <2>2, <2>5, <2>7
    <3>3. mails'[t[2]] <= 1 + boots
      BY <1>3, <1>4, <2>2, <3>1, <3>2
    <3>. QED
      BY <2>1, <2>6, <2>7, <3>1, <3>3 DEF MailsExplained
  <2>9. CASE pc' = [pc EXCEPT ![t] = "failing"] /\ UNCHANGED mails
    BY <2>1, <2>6, <2>7, <2>9 DEF MailsExplained
  <2>. QED
    BY <2>3, <2>8, <2>9
<1>7. ASSUME NEW t \in Timers, Write(t) PROVE Apart' /\ MailsExplained'
  <2>1. UNCHANGED <<mails, seen, task, taken, order, boots>> /\ pc[t] = "writing"
        /\ pc' = [pc EXCEPT ![t] = "judging"] /\ batches' = [seen[t] EXCEPT ![t[2]] = "sent"]
        /\ state' \in {"completed", "running"}
    BY <1>7 DEF Write, At, Goto, Settled
  <2>2. /\ Busy = {t} /\ task # "writing" /\ state # "absent" /\ t[2] \in Batches
        /\ \A u \in Timers : u # t => pc[u] = "none"
    BY <1>2, <2>1, OnlyRun
  <2>3. pc'[t] = "judging" /\ \A u \in Timers : u # t => pc'[u] = "none"
    BY <2>1, <2>2 DEF TypeOK
  <2>4. seen[t] = batches /\ order = "run"
    BY <1>2, <2>1 DEF Apart, Unsettled
  <2>5. Apart'
    BY <2>1, <2>2, <2>3, <2>4 DEF Apart, Busy, Unsettled
  <2>6. batches'[t[2]] = "sent" /\ \A b \in Batches : b # t[2] => batches'[b] = batches[b]
    BY <2>1, <2>2, <2>4 DEF TypeOK, Statuses
  <2>7. \A b \in Batches : batches'[b] = "pending" => b # t[2] /\ mails[b] <= boots
    BY <1>2, <2>2, <2>6 DEF MailsExplained
  <2>. QED
    BY <1>2, <2>1, <2>5, <2>7 DEF MailsExplained
<1>8. ASSUME NEW t \in Timers, Judge(t) \/ Clear(t) PROVE Apart' /\ MailsExplained'
  <2>1. UNCHANGED <<batches, mails, task, taken, boots>> /\ pc[t] \in {"judging", "clearing"}
        /\ pc' = [pc EXCEPT ![t] = "none"]
    BY <1>8 DEF Judge, Clear, PauseAs, End, At, Goto
  <2>2. /\ Busy = {t} /\ task # "writing" /\ state # "absent" /\ t[2] \in Batches
        /\ \A u \in Timers : u # t => pc[u] = "none"
    BY <1>2, <2>1, OnlyRun
  <2>3. \A u \in Timers : pc'[u] = "none"
    BY <2>1, <2>2 DEF TypeOK
  <2>4. state' = "auto_paused" \/ UNCHANGED <<state, order>>
    BY <1>8 DEF Judge, Clear, PauseAs
  <2>5. Apart'
    BY <1>2, <2>1, <2>2, <2>3, <2>4 DEF Apart, Busy, Unsettled
  <2>6. \A u \in Timers : pc[u] # "writing"
    BY <2>1, <2>2
  <2>. QED
    BY <1>2, <2>1, <2>5, <2>6 DEF MailsExplained
<1>9. ASSUME NEW t \in Timers, Fail(t) PROVE Apart' /\ MailsExplained'
  <2>1. UNCHANGED <<mails, seen, task, taken, boots>> /\ pc[t] = "failing"
        /\ pc' = [pc EXCEPT ![t] = "clearing"] /\ batches' = [seen[t] EXCEPT ![t[2]] = "failed"]
        /\ state' = "auto_paused"
    BY <1>9 DEF Fail, At, Goto, Settled
  <2>2. /\ Busy = {t} /\ task # "writing" /\ state # "absent" /\ t[2] \in Batches
        /\ \A u \in Timers : u # t => pc[u] = "none"
    BY <1>2, <2>1, OnlyRun
  <2>3. pc'[t] = "clearing" /\ \A u \in Timers : u # t => pc'[u] = "none"
    BY <2>1, <2>2 DEF TypeOK
  <2>4. seen[t] = batches
    BY <1>2, <2>1 DEF Apart, Unsettled
  <2>5. Apart'
    BY <2>1, <2>2, <2>3 DEF Apart, Busy, Unsettled
  <2>6. \A b \in Batches : batches'[b] = "pending" => batches[b] = "pending"
    BY <2>1, <2>2, <2>4 DEF TypeOK, Statuses
  <2>7. \A u \in Timers : pc[u] # "writing"
    BY <2>1, <2>2
  <2>. QED
    BY <1>2, <2>1, <2>5, <2>6, <2>7 DEF MailsExplained
<1>10. CASE Start \/ StartTimers \/ ResumeTimers \/ UNCHANGED vars
  <2>1. UNCHANGED <<batches, mails, pc, seen, order, boots>>
    BY <1>10 DEF Start, StartTimers, ResumeTimers, vars
  <2>2. \/ state = "absent" /\ state' = "running"
        \/ UNCHANGED state
    BY <1>10 DEF Start, StartTimers, ResumeTimers, vars
  <2>3. task' = "writing" => UNCHANGED <<task, taken>>
    BY <1>10 DEF Start, StartTimers, ResumeTimers, vars
  <2>. QED
    BY <1>2, <2>1, <2>2, <2>3 DEF Apart, Busy, Unsettled, MailsExplained
<1>11. CASE Pause
  <2>1. UNCHANGED <<batches, mails, pc, seen, task, taken, boots>>
    BY <1>11 DEF Pause
  <2>2. \/ state' = "paused" /\ Busy = {} /\ task = "none"
        \/ UNCHANGED <<state, order>>
    BY <1>11 DEF Pause
  <2>. QED
    BY <1>2, <2>1, <2>2 DEF Apart, Busy, Unsettled, MailsExplained
<1>12. CASE ResumeRead
  <2>1. UNCHANGED <<state, batches, mails, pc, seen, order, boots>> /\ taken' = batches /\ Busy = {}
    BY <1>12 DEF ResumeRead
  <2>. QED
    BY <1>2, <2>1 DEF Apart, Busy, Unsettled, MailsExplained
<1>13. CASE ResumeWrite
  <2>1. /\ UNCHANGED <<mails, pc, seen, boots>> /\ task = "writing" /\ task' # "writing"
        /\ \/ state' = "running" /\ order' = "run" /\ batches' = taken
           \/ UNCHANGED <<state, order, batches>>
    BY <1>13 DEF ResumeWrite
  <2>2. Busy = {} /\ taken = batches
    BY <1>2, <2>1 DEF Apart
  <2>. QED
    BY <1>2, <2>1, <2>2 DEF Apart, Busy, Unsettled, MailsExplained
<1>14. CASE Boot
  <2>1. UNCHANGED <<state, batches, mails, order>> /\ task' = "none" /\ boots' = boots + 1
        /\ \A t \in Timers : pc'[t] = "none"
    BY <1>14 DEF Boot
  <2>2. Apart'
    BY <1>2, <2>1 DEF Apart, Busy, Unsettled
  <2>3. \A b \in Batches : mails[b] <= boots' /\ mails[b] <= 1 + boots'
    BY <1>2, <1>3, <1>4, <2>1 DEF MailsExplained
  <2>. QED
    BY <2>1, <2>2, <2>3 DEF MailsExplained
<1>. QED
  BY <1>5, <1>6, <1>7, <1>8, <1>9, <1>10, <1>11, <1>12, <1>13, <1>14 DEF Next, Step, RunStep

-----------------------------------------------------------------------------
(* The theorems.                                                           *)

\* The gateway starts with no ramp, no timer and no mail.
LEMMA Initially == Init => TypeOK /\ RampInv
<1> SUFFICES ASSUME Init PROVE TypeOK /\ RampInv
  OBVIOUS
<1>1. LastBatch \in Nat /\ MaxActs \in Nat
  BY RampAssumption DEF RampAssumption
<1>2. TypeOK
  <2>1. AllPending \in Statuses
    BY DEF AllPending, Statuses
  <2>2. rounds \in 0..(1 + MaxActs) /\ acts \in 0..MaxActs /\ boots \in 0..acts
    BY <1>1 DEF Init
  <2>3. mails \in [Batches -> Nat] /\ handle \in [Batches -> {0} \cup Rounds]
    BY DEF Init
  <2>. QED
    BY <2>1, <2>2, <2>3 DEF Init, TypeOK
<1>3. RoundsCounted
  BY DEF Init, RoundsCounted
<1>4. ReadingsMailed
  BY DEF Init, ReadingsMailed, SentMailed, AllPending
<1>5. QuietInv
  BY DEF Init, QuietInv, Apart, Busy, Unsettled, MailsExplained
<1>. QED
  BY <1>2, <1>3, <1>4, <1>5 DEF RampInv

\* Every state of the ramp satisfies the inductive invariant.
LEMMA Invariance == Spec => [](TypeOK /\ RampInv)
<1>1. TypeOK /\ RampInv /\ [Next]_vars => (TypeOK /\ RampInv)'
  BY TypeStep, ReadingsMailedStep, QuietStep DEF RampInv
<1>. QED
  BY Initially, <1>1, PTL DEF Spec

\* Every variable keeps its type: the statuses, the rounds of timers, the handles.
THEOREM TypeCorrect == Spec => []TypeOK
BY Invariance, PTL

\* What the record says was sent was mailed, whatever pauses, resumes, restarts and
\* runs of the same batches wrote their old readings over each other's.
THEOREM SentIsMailedHolds == Spec => []SentIsMailed
<1>1. RampInv => SentIsMailed
  BY DEF RampInv, ReadingsMailed, SentMailed, SentIsMailed
<1>. QED
  BY Invariance, <1>1, PTL

\* As long as no batch in progress is met, a batch is mailed at most once more than
\* the gateway restarted, however many timers are left over for it.
THEOREM MailedOnceHolds == Spec => []MailedOnce
<1>1. RampInv => MailedOnce
  BY DEF RampInv, QuietInv, MailsExplained, MailedOnce
<1>. QED
  BY Invariance, <1>1, PTL

\* As long as no batch in progress is met, no batch begins between a pause, by whom
\* ever, and the resume after it.
THEOREM PauseHonouredHolds == Spec => PauseHonoured
<1>1. ASSUME TypeOK, RampInv, [Next]_vars, NEW t \in Timers, pc[t] = "none", pc'[t] = "sending"
      PROVE  order = "run" \/ crossed
  <2>1. PICK u \in Timers : Fire(u)
    BY <1>1 DEF Next, Step, RunStep, Send, Write, Judge, PauseAs, End, Fail, Clear, Start, StartTimers,
                Pause, ResumeRead, ResumeWrite, ResumeTimers, Boot, vars, Goto, TypeOK, runVars
  <2>2. state = "running"
    BY <1>1, <2>1 DEF Fire, MayRun
  <2>. QED
    BY <1>1, <2>2 DEF RampInv, QuietInv, Apart
<1>2. TypeOK /\ RampInv /\ [Next]_vars => [Begins => order = "run" \/ crossed]_vars
  BY <1>1 DEF Begins
<1>. QED
  BY <1>2, Invariance, PTL DEF PauseHonoured, Spec
=============================================================================
