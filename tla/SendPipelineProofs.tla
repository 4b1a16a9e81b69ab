------------------------- MODULE SendPipelineProofs --------------------------
(***************************************************************************)
(* Proofs about the SendPipeline: the daily limits, one send per job, and  *)
(* suppressed recipients, for any number of workers, jobs, nodes, feeds    *)
(* and recoveries.                                                         *)
(***************************************************************************)
EXTENDS SendPipeline, FiniteSetTheorems, TLAPS

-----------------------------------------------------------------------------
(* The inductive invariants.                                               *)

\* Where a worker has a job, where it has a node, where its send is paid for,
\* and where it can still send.
WithJob == {"checking", "choosing", "consuming", "assigning", "reading", "writing", "marking"}
WithNode == {"consuming", "assigning", "reading", "writing"}
Paid == {"assigning", "reading", "writing"}
BeforeSend == WithJob \ {"marking"}

WorkersPlaced == \A w \in Workers :
  /\ pc[w] \in WithJob => job[w] \in Jobs /\ claim[w] \in 1..claims
  /\ pc[w] \in WithNode => node[w] \in Nodes
  /\ pc[w] = "marking" => verdict[w] \in Final

\* The sends made and those that are paid for and about to be made.
SendOf(w) == [claim |-> claim[w], job |-> job[w], node |-> node[w]]
Funded == sends \cup {SendOf(w) : w \in {v \in Workers : pc[v] \in Paid}}
FundedBy(n) == {s \in Funded : s.node = n}

\* Each scope's counter covers every send it paid for, made or not.
Covered ==
  /\ IsFiniteSet(Funded)
  /\ \A n \in Nodes : Cardinality(FundedBy(n)) <= used[n]
  /\ Cardinality(Funded) <= used["campaign"]
  /\ \A s \in Scopes : used[s] <= Bound(s)

\* A claim belongs to one worker and pays for one send.
ClaimsApart ==
  /\ \A s \in sends : s.claim \in 1..claims
  /\ \A v, w \in Workers : pc[v] \in WithJob /\ pc[w] \in WithJob /\ claim[v] = claim[w] => v = w
  /\ \A s \in sends, w \in Workers : pc[w] \in BeforeSend => s.claim # claim[w]
  /\ \A s, t \in sends : s.claim = t.claim => s = t

\* A job no operator put back has been claimed once, by the claim on record.
Once(j, c) == j \notin requeued => status[j] \in {"processing"} \cup Final /\ startedAt[j] = c
ClaimedOnce ==
  /\ \A w \in Workers : pc[w] \in WithJob => Once(job[w], claim[w])
  /\ \A s \in sends : Once(s.job, s.claim)

\* What is kept is in the file, and in what any feed is about to write there.
ListCurrent ==
  /\ kept \subseteq suppressed
  /\ \A f \in Feeds : feed[f] = "writing" => kept \subseteq listRead[f] \cup {ComplaintOf[f]}

\* A claim made for a kept recipient gets no further than its check.
BarredStop ==
  /\ barred \subseteq 1..claims
  /\ \A w \in Workers : pc[w] \in WithJob /\ claim[w] \in barred =>
       RecipientOf[job[w]] \in kept /\ pc[w] \in {"checking", "marking"}
  /\ SuppressedNotSent

-----------------------------------------------------------------------------
(* Type correctness.                                                       *)

\* Every step keeps every variable in its type.
LEMMA TypeStep == TypeOK /\ WorkersPlaced /\ [Next]_vars => TypeOK'
<1> SUFFICES ASSUME TypeOK, WorkersPlaced, [Next]_vars
             PROVE  TypeOK'
  OBVIOUS
<1> USE DEF TypeOK, At, Goto, Resolve, Final, queueVars, workVars, feedVars, pastVars
<1>0. MaxClaims \in Nat /\ MaxDeaths \in Nat /\ Nobody \notin Jobs
  BY PipelineAssumption DEF PipelineAssumption
<1>1. ASSUME NEW j \in Jobs, Admit(j) \/ Enqueue(j) PROVE TypeOK'
  BY <1>1 DEF Admit, Enqueue
<1>2. CASE Toggle
  BY <1>2 DEF Toggle
<1>3. ASSUME NEW w \in Workers, Start(w) \/ NoJob(w) PROVE TypeOK'
  BY <1>3 DEF Start, NoJob
<1>4. ASSUME NEW w \in Workers, Claim(w) PROVE TypeOK'
  <2>1. PICK j \in Jobs :
          /\ status' = [status EXCEPT ![j] = "processing"]
          /\ startedAt' = [startedAt EXCEPT ![j] = claims + 1]
          /\ job' = [job EXCEPT ![w] = j]
          /\ barred' \subseteq barred \cup {claims + 1}
    BY <1>4 DEF Claim, Claimable, Queued
  <2>2. claims + 1 \in Runs /\ claims + 1 \in 0..MaxClaims
    BY <1>0, <1>4 DEF Claim, Runs
  <2>3. status' \in [Jobs -> {"absent", "admitted", "queued", "processing"} \cup Final]
        /\ startedAt' \in [Jobs -> 0..MaxClaims] /\ job' \in [Workers -> Jobs \cup {Nobody}]
        /\ barred' \subseteq Runs
    BY <2>1, <2>2
  <2>4. claims' \in 0..MaxClaims /\ claim' \in [Workers -> 0..MaxClaims]
    BY <1>4, <2>2 DEF Claim
  <2>. QED
    BY <1>4, <2>3, <2>4 DEF Claim
<1>5. ASSUME NEW w \in Workers, CheckPolicy(w) PROVE TypeOK'
  BY <1>5 DEF CheckPolicy
<1>6. ASSUME NEW w \in Workers, ChooseNode(w) PROVE TypeOK'
  <2>1. node' \in [Workers -> Nodes \cup {Nobody}]
    BY <1>6 DEF ChooseNode
  <2>2. verdict' \in [Workers -> Final \cup {"none"}]
        /\ (Goto(w, "marking") \/ Goto(w, "consuming"))
    BY <1>6 DEF ChooseNode
  <2>. QED
    BY <1>6, <2>1, <2>2 DEF ChooseNode
<1>7. ASSUME NEW w \in Workers, Consume(w) PROVE TypeOK'
  <2>1. used' \in [Scopes -> Nat]
    BY <1>7 DEF Consume
  <2>. QED
    BY <1>7, <2>1 DEF Consume
<1>8. ASSUME NEW w \in Workers, Assign(w) PROVE TypeOK'
  BY <1>8 DEF Assign
<1>9. ASSUME NEW w \in Workers, ReadResults(w) PROVE TypeOK'
  BY <1>9 DEF ReadResults
<1>10. ASSUME NEW w \in Workers, WriteResults(w) PROVE TypeOK'
  <2>1. job[w] \in Jobs /\ claim[w] \in Runs /\ node[w] \in Nodes
    BY <1>0, <1>10 DEF WriteResults, WorkersPlaced, WithJob, WithNode, Runs
  <2>2. results' \subseteq Runs /\ sends' \subseteq [claim : Runs, job : Jobs, node : Nodes]
    BY <1>10, <2>1 DEF WriteResults
  <2>. QED
    BY <1>10, <2>2 DEF WriteResults
<1>11. ASSUME NEW w \in Workers, Mark(w) PROVE TypeOK'
  <2>1. 0 \in 0..MaxClaims
    BY <1>0
  <2>. QED
    BY <1>11, <2>1 DEF Mark, End, WorkersPlaced
<1>12. ASSUME NEW w \in Workers, Die(w) PROVE TypeOK'
  <2>1. deaths' \in 0..MaxDeaths /\ 0 \in 0..MaxClaims
    BY <1>0, <1>12 DEF Die, End
  <2>. QED
    BY <1>12, <2>1 DEF Die, End
<1>13. ASSUME NEW t \in Runs, NEW action \in Recoveries, Recover(t, action) PROVE TypeOK'
  <2>1. Stuck(t) \subseteq Jobs
    BY DEF Stuck
  <2>2. status' \in [Jobs -> {"absent", "admitted", "queued", "processing"} \cup Final]
        /\ sender' \in [Jobs -> Nodes \cup {Nobody}]
    BY <1>13 DEF Recover
  <2>3. startedAt' \in [Jobs -> 0..MaxClaims] /\ requeued' \subseteq Jobs
    BY <1>0, <1>13, <2>1 DEF Recover
  <2>. QED
    BY <1>13, <2>2, <2>3 DEF Recover
<1>14. ASSUME NEW f \in Feeds, ReadList(f) \/ WriteList(f) PROVE TypeOK'
  BY <1>14 DEF ReadList, WriteList, Acknowledge, Recipients
<1>15. CASE UNCHANGED vars
  BY <1>15 DEF vars
<1>. QED
  BY <1>1, <1>2, <1>3, <1>4, <1>5, <1>6, <1>7, <1>8, <1>9, <1>10, <1>11, <1>12, <1>13, <1>14,
     <1>15 DEF Next

-----------------------------------------------------------------------------
(* What a step changes.                                                    *)

WorkerStep(w) ==
  \/ Start(w) \/ Claim(w) \/ NoJob(w) \/ CheckPolicy(w) \/ ChooseNode(w) \/ Consume(w)
  \/ Assign(w) \/ ReadResults(w) \/ WriteResults(w) \/ Mark(w) \/ Die(w)
Still(w) == /\ pc'[w] = pc[w] /\ job'[w] = job[w] /\ claim'[w] = claim[w]
            /\ node'[w] = node[w] /\ verdict'[w] = verdict[w]

\* A worker's step leaves the other workers where they are.
LEMMA OthersStill ==
  ASSUME TypeOK, NEW w \in Workers, WorkerStep(w), NEW v \in Workers, v # w
  PROVE  Still(v)
<1> USE DEF TypeOK, Still, At, Goto, Resolve, workVars
<1>1. CASE Start(w)
  BY <1>1 DEF Start
<1>2. CASE Claim(w)
  BY <1>2 DEF Claim
<1>3. CASE NoJob(w)
  BY <1>3 DEF NoJob
<1>4. CASE CheckPolicy(w)
  BY <1>4 DEF CheckPolicy
<1>5. CASE ChooseNode(w)
  BY <1>5 DEF ChooseNode
<1>6. CASE Consume(w)
  BY <1>6 DEF Consume
<1>7. CASE Assign(w)
  BY <1>7 DEF Assign
<1>8. CASE ReadResults(w)
  BY <1>8 DEF ReadResults
<1>9. CASE WriteResults(w)
  BY <1>9 DEF WriteResults
<1>10. CASE Mark(w)
  BY <1>10 DEF Mark, End
<1>11. CASE Die(w)
  BY <1>11 DEF Die, End
<1>. QED
  BY <1>1, <1>2, <1>3, <1>4, <1>5, <1>6, <1>7, <1>8, <1>9, <1>10, <1>11 DEF WorkerStep

\* Each worker takes one step of its own, or stays where it is.
LEMMA StepOrStill ==
  ASSUME TypeOK, [Next]_vars, NEW v \in Workers
  PROVE  WorkerStep(v) \/ Still(v)
<1> USE DEF Still, workVars
<1>1. ASSUME NEW w \in Workers, WorkerStep(w) PROVE WorkerStep(v) \/ Still(v)
  BY <1>1, OthersStill
<1>2. ASSUME NEW j \in Jobs, Admit(j) \/ Enqueue(j) PROVE Still(v)
  BY <1>2 DEF Admit, Enqueue
<1>3. CASE Toggle
  BY <1>3 DEF Toggle
<1>4. ASSUME NEW t \in Runs, NEW action \in Recoveries, Recover(t, action) PROVE Still(v)
  BY <1>4 DEF Recover
<1>5. ASSUME NEW f \in Feeds, ReadList(f) \/ WriteList(f) PROVE Still(v)
  BY <1>5 DEF ReadList, WriteList
<1>6. CASE UNCHANGED vars
  BY <1>6 DEF vars
<1>. QED
  BY <1>1, <1>2, <1>3, <1>4, <1>5, <1>6 DEF Next, WorkerStep

\* A step claims a job, writes a result, or leaves claims and sends as they are
\* and takes no worker back to where it had its job or its send before it.
Quiet ==
  /\ UNCHANGED <<claims, barred, sends>>
  /\ \A w \in Workers : /\ pc'[w] \in WithJob => pc[w] \in WithJob /\ claim'[w] = claim[w]
                        /\ pc'[w] \in BeforeSend => pc[w] \in BeforeSend
LEMMA ClaimSendOrQuiet ==
  ASSUME TypeOK, [Next]_vars
  PROVE  (\E w \in Workers : Claim(w) \/ WriteResults(w)) \/ Quiet
<1> USE DEF TypeOK, Quiet, At, Goto, Resolve, workVars, pastVars, WithJob, BeforeSend
<1>1. ASSUME NEW w \in Workers, WorkerStep(w), ~ Claim(w), ~ WriteResults(w) PROVE Quiet
  <2>1. CASE Start(w)
    BY <2>1 DEF Start
  <2>2. CASE NoJob(w)
    BY <2>2 DEF NoJob
  <2>3. CASE CheckPolicy(w)
    BY <2>3 DEF CheckPolicy
  <2>4. CASE ChooseNode(w)
    BY <2>4 DEF ChooseNode
  <2>5. CASE Consume(w)
    BY <2>5 DEF Consume
  <2>6. CASE Assign(w)
    BY <2>6 DEF Assign
  <2>7. CASE ReadResults(w)
    BY <2>7 DEF ReadResults
  <2>8. CASE Mark(w)
    BY <2>8 DEF Mark, End
  <2>9. CASE Die(w)
    BY <2>9 DEF Die, End
  <2>. QED
    BY <1>1, <2>1, <2>2, <2>3, <2>4, <2>5, <2>6, <2>7, <2>8, <2>9 DEF WorkerStep
<1>2. ASSUME NEW j \in Jobs, Admit(j) \/ Enqueue(j) PROVE Quiet
  BY <1>2 DEF Admit, Enqueue
<1>3. CASE Toggle
  BY <1>3 DEF Toggle
<1>4. ASSUME NEW t \in Runs, NEW action \in Recoveries, Recover(t, action) PROVE Quiet
  BY <1>4 DEF Recover
<1>5. ASSUME NEW f \in Feeds, ReadList(f) \/ WriteList(f) PROVE Quiet
  BY <1>5 DEF ReadList, WriteList
<1>6. CASE UNCHANGED vars
  BY <1>6 DEF vars
<1>. QED
  BY <1>1, <1>2, <1>3, <1>4, <1>5, <1>6 DEF Next, WorkerStep

\* Only a claim gives a worker a job.
LEMMA StepKeepsJob ==
  ASSUME TypeOK, NEW w \in Workers, WorkerStep(w), ~ Claim(w), pc'[w] \in WithJob
  PROVE  pc[w] \in WithJob /\ job'[w] = job[w] /\ claim'[w] = claim[w]
<1> USE DEF TypeOK, At, Goto, Resolve, workVars, WithJob
<1>1. CASE Start(w) \/ NoJob(w) \/ Mark(w) \/ Die(w)
  BY <1>1 DEF Start, NoJob, Mark, Die, End
<1>2. CASE CheckPolicy(w)
  BY <1>2 DEF CheckPolicy
<1>3. CASE ChooseNode(w)
  BY <1>3 DEF ChooseNode
<1>4. CASE Consume(w)
  BY <1>4 DEF Consume
<1>5. CASE Assign(w) \/ ReadResults(w) \/ WriteResults(w)
  BY <1>5 DEF Assign, ReadResults, WriteResults
<1>. QED
  BY <1>1, <1>2, <1>3, <1>4, <1>5 DEF WorkerStep

\* A worker that has a job has a claim, one with a node has a registered node, and
\* one about to mark has a status to mark with.
LEMMA WorkersPlacedStep == TypeOK /\ WorkersPlaced /\ [Next]_vars => WorkersPlaced'
<1> SUFFICES ASSUME TypeOK, WorkersPlaced, [Next]_vars, NEW w \in Workers
             PROVE  /\ pc'[w] \in WithJob => job'[w] \in Jobs /\ claim'[w] \in 1..claims'
                    /\ pc'[w] \in WithNode => node'[w] \in Nodes
                    /\ pc'[w] = "marking" => verdict'[w] \in Final
  BY DEF WorkersPlaced
<1> USE DEF TypeOK, At, Goto, Resolve, workVars, pastVars, WithJob, WithNode, Final
<1>1. claims' \in Nat /\ claims <= claims'
  BY ClaimSendOrQuiet DEF Quiet, Claim, WriteResults
<1>2. CASE Still(w)
  BY <1>1, <1>2 DEF Still, WorkersPlaced
<1>3. CASE Claim(w)
  <2>1. job'[w] \in Jobs /\ claim'[w] = claims + 1 /\ claims' = claims + 1 /\ pc'[w] = "checking"
    BY <1>3 DEF Claim, Claimable, Queued
  <2>. QED
    BY <2>1
<1>4. CASE CheckPolicy(w)
  BY <1>1, <1>4 DEF CheckPolicy, WorkersPlaced
<1>5. CASE ChooseNode(w)
  <2>1. /\ job'[w] = job[w] /\ claim'[w] = claim[w] /\ pc[w] = "choosing"
        /\ \/ pc'[w] = "marking" /\ verdict'[w] = "failed"
           \/ pc'[w] = "consuming" /\ node'[w] \in Nodes
    BY <1>5 DEF ChooseNode
  <2>. QED
    BY <1>1, <2>1 DEF WorkersPlaced
<1>6. CASE Consume(w)
  BY <1>1, <1>6 DEF Consume, WorkersPlaced
<1>7. CASE Assign(w) \/ ReadResults(w)
  BY <1>1, <1>7 DEF Assign, ReadResults, WorkersPlaced
<1>8. CASE WriteResults(w)
  BY <1>1, <1>8 DEF WriteResults, WorkersPlaced
<1>9. CASE Start(w) \/ NoJob(w) \/ Mark(w) \/ Die(w)
  BY <1>9 DEF Start, NoJob, Mark, Die, End
<1>. QED
  BY StepOrStill, <1>2, <1>3, <1>4, <1>5, <1>6, <1>7, <1>8, <1>9 DEF WorkerStep

-----------------------------------------------------------------------------
(* The daily limits.                                                       *)

\* Fewer sends, paid for or made, leave the counters covering them.
LEMMA CoveredShrinks ==
  ASSUME TypeOK, Covered, Funded' \subseteq Funded, used' = used
  PROVE  Covered'
<1>1. \A n : FundedBy(n)' \subseteq FundedBy(n) /\ FundedBy(n) \subseteq Funded
  BY DEF FundedBy
<1>2. IsFiniteSet(Funded') /\ Cardinality(Funded') <= Cardinality(Funded)
  BY FS_Subset DEF Covered
<1>3. ASSUME NEW n \in Nodes PROVE Cardinality(FundedBy(n)') <= Cardinality(FundedBy(n))
                                  /\ Cardinality(FundedBy(n)') \in Nat
                                  /\ Cardinality(FundedBy(n)) \in Nat
  <2>1. IsFiniteSet(FundedBy(n))
    BY <1>1, FS_Subset DEF Covered
  <2>2. IsFiniteSet(FundedBy(n)')
    BY <1>1, <2>1, FS_Subset
  <2>. QED
    BY <1>1, <2>1, <2>2, FS_Subset, FS_CardinalityType
<1>4. Cardinality(Funded') \in Nat /\ Cardinality(Funded) \in Nat
  BY <1>2, FS_CardinalityType DEF Covered
<1>. QED
  <2>1. used["campaign"] \in Nat /\ \A n \in Nodes : used[n] \in Nat
    BY DEF TypeOK, Scopes
  <2>2. \A n \in Nodes : Cardinality(FundedBy(n)') <= used'[n]
    BY <1>3, <2>1 DEF Covered
  <2>3. Cardinality(Funded') <= used'["campaign"]
    BY <1>2, <1>4, <2>1 DEF Covered
  <2>. QED
    BY <1>2, <2>2, <2>3 DEF Covered, Bound

\* A step pays for at most one more send, and only with its counters; every other
\* step makes one that was paid for, forgets one, or does neither.
LEMMA CoveredStep == TypeOK /\ WorkersPlaced /\ Covered /\ [Next]_vars => Covered'
<1> SUFFICES ASSUME TypeOK, WorkersPlaced, Covered, [Next]_vars
             PROVE  Covered'
  OBVIOUS
<1> USE DEF TypeOK, At, Goto, Resolve, workVars, pastVars, Paid
<1>1. ASSUME NEW w \in Workers, Consume(w) PROVE Covered'
  <2> DEFINE new == SendOf(w)
             all == Funded \cup {new}
  <2>1. /\ UNCHANGED <<sends, job, claim, node>> /\ pc[w] = "consuming"
        /\ \A v \in Workers : v # w => pc'[v] = pc[v]
    BY <1>1 DEF Consume
  <2>2. node[w] \in Nodes /\ new.node = node[w]
    BY <2>1 DEF WorkersPlaced, WithNode, SendOf
  <2>3. \A v : SendOf(v)' = SendOf(v)
    BY <2>1 DEF SendOf
  <2>4. CASE used' = used /\ pc'[w] = "marking"
    <3>1. Funded' \subseteq Funded
      BY <2>1, <2>3, <2>4 DEF Funded
    <3>. QED
      BY <2>4, <3>1, CoveredShrinks
  <2>5. CASE /\ \A s \in {node[w], "campaign"} : used[s] + 1 <= Bound(s)
             /\ used' = [s \in Scopes |-> IF s \in {node[w], "campaign"} THEN used[s] + 1 ELSE used[s]]
    <3>1. Funded' \subseteq all
      BY <2>1, <2>3 DEF Funded
    <3>2. IsFiniteSet(all) /\ Cardinality(all) <= Cardinality(Funded) + 1
      <4>1. Cardinality(all) = Cardinality(Funded) \/ Cardinality(all) = Cardinality(Funded) + 1
        BY FS_AddElement DEF Covered
      <4>2. IsFiniteSet(all)
        BY FS_AddElement DEF Covered
      <4>3. Cardinality(Funded) \in Nat
        BY FS_CardinalityType DEF Covered
      <4>. QED
        BY <4>1, <4>2, <4>3
    <3>3. IsFiniteSet(Funded') /\ Cardinality(Funded') <= Cardinality(all)
      BY <3>1, <3>2, FS_Subset
    <3>4. Cardinality(Funded') \in Nat /\ Cardinality(Funded) \in Nat /\ Cardinality(all) \in Nat
      BY <3>2, <3>3, FS_CardinalityType DEF Covered
    <3>5. \A s \in Scopes : used[s] \in Nat
      OBVIOUS
    <3>6. Cardinality(Funded') <= used'["campaign"]
      <4>1. used'["campaign"] = used["campaign"] + 1 /\ used["campaign"] \in Nat
        BY <2>5, <3>5 DEF Scopes
      <4>. QED
        BY <3>2, <3>3, <3>4, <4>1 DEF Covered
    <3>7. ASSUME NEW n \in Nodes PROVE Cardinality(FundedBy(n)') <= used'[n]
      <4>1. IsFiniteSet(FundedBy(n)) /\ FundedBy(n) \subseteq Funded
        BY FS_Subset DEF Covered, FundedBy
      <4>2. Cardinality(FundedBy(n)) \in Nat /\ Cardinality(FundedBy(n)) <= used[n] /\ used[n] \in Nat
        BY <3>5, <4>1, FS_CardinalityType DEF Covered, Scopes
      <4>3. CASE n = node[w]
        <5>1. FundedBy(n)' \subseteq FundedBy(n) \cup {new}
          BY <3>1 DEF FundedBy
        <5>2. /\ IsFiniteSet(FundedBy(n) \cup {new})
              /\ \/ Cardinality(FundedBy(n) \cup {new}) = Cardinality(FundedBy(n))
                 \/ Cardinality(FundedBy(n) \cup {new}) = Cardinality(FundedBy(n)) + 1
          BY <4>1, FS_AddElement
        <5>3. Cardinality(FundedBy(n)') <= Cardinality(FundedBy(n) \cup {new})
              /\ Cardinality(FundedBy(n)') \in Nat
          BY <5>1, <5>2, FS_Subset, FS_CardinalityType
        <5>4. used'[n] = used[n] + 1
          BY <2>2, <2>5, <4>3 DEF Scopes
        <5>. QED
          BY <4>2, <5>2, <5>3, <5>4
      <4>4. CASE n # node[w]
        <5>1. FundedBy(n)' \subseteq FundedBy(n)
          BY <2>2, <3>1, <4>4 DEF FundedBy
        <5>2. Cardinality(FundedBy(n)') <= Cardinality(FundedBy(n)) /\ Cardinality(FundedBy(n)') \in Nat
          BY <4>1, <5>1, FS_Subset, FS_CardinalityType
        <5>3. used'[n] = used[n]
          BY <2>5, <4>4, PipelineAssumption DEF Scopes, PipelineAssumption
        <5>. QED
          BY <4>2, <5>2, <5>3
      <4>. QED
        BY <4>3, <4>4
    <3>8. \A s \in Scopes : used'[s] <= Bound(s)
      BY <2>5 DEF Covered
    <3>. QED
      BY <3>3, <3>6, <3>7, <3>8 DEF Covered, Bound
  <2>. QED
    BY <1>1, <2>1, <2>4, <2>5 DEF Consume, Spent
<1>2. ASSUME \A w \in Workers : ~ Consume(w) PROVE used' = used
  BY <1>2 DEF Next, Admit, Enqueue, Toggle, Start, Claim, NoJob, CheckPolicy, ChooseNode, Assign,
              ReadResults, WriteResults, Mark, Die, End, Recover, ReadList, WriteList, vars
<1>3. ASSUME \A w \in Workers : ~ Consume(w) PROVE Funded' \subseteq Funded
  <2>1. ASSUME NEW w \in Workers, pc'[w] \in Paid
        PROVE  /\ pc[w] \in Paid /\ SendOf(w)' = SendOf(w)
    <3>1. CASE Still(w)
      BY <2>1, <3>1 DEF Still, SendOf
    <3>2. CASE Assign(w) \/ ReadResults(w)
      BY <3>2 DEF Assign, ReadResults, SendOf
    <3>3. CASE Start(w) \/ Claim(w) \/ NoJob(w) \/ CheckPolicy(w) \/ WriteResults(w) \/ Mark(w) \/ Die(w)
      BY <2>1, <3>3 DEF Start, Claim, NoJob, CheckPolicy, WriteResults, Mark, Die, End
    <3>4. CASE ChooseNode(w)
      BY <2>1, <3>4 DEF ChooseNode
    <3>. QED
      BY <1>3, <3>1, <3>2, <3>3, <3>4, StepOrStill DEF WorkerStep
  <2>2. ASSUME NEW s \in sends' PROVE s \in Funded
    <3>1. CASE s \in sends
      BY <3>1 DEF Funded
    <3>2. CASE s \notin sends
      <4>1. PICK w \in Workers : WriteResults(w)
        BY <3>2, <2>2, ClaimSendOrQuiet DEF Quiet, Claim
      <4>2. s = SendOf(w) /\ pc[w] = "writing"
        BY <3>2, <2>2, <4>1 DEF WriteResults, SendOf
      <4>. QED
        BY <4>2 DEF Funded
    <3>. QED
      BY <3>1, <3>2
  <2>. QED
    BY <2>1, <2>2 DEF Funded
<1>. QED
  BY <1>1, <1>2, <1>3, CoveredShrinks

-----------------------------------------------------------------------------
(* One send per job.                                                       *)

\* Claims stay apart: a new one has a number no worker and no send has had.
LEMMA ClaimsApartStep == TypeOK /\ WorkersPlaced /\ ClaimsApart /\ [Next]_vars => ClaimsApart'
<1> SUFFICES ASSUME TypeOK, WorkersPlaced, ClaimsApart, [Next]_vars
             PROVE  ClaimsApart'
  OBVIOUS
<1> USE DEF TypeOK, At, Goto, Resolve, workVars, pastVars, WithJob, BeforeSend
<1>1. ASSUME NEW w \in Workers, Claim(w) PROVE ClaimsApart'
  <2>1. /\ claims' = claims + 1 /\ sends' = sends /\ claim'[w] = claims + 1
        /\ \A v \in Workers : v # w => pc'[v] = pc[v] /\ claim'[v] = claim[v]
    BY <1>1 DEF Claim
  <2>2. \A v \in Workers : pc[v] \in WithJob => claim[v] <= claims /\ claim[v] \in Nat
    BY DEF WorkersPlaced
  <2>3. \A s \in sends : s.claim \in Nat /\ s.claim <= claims
    BY DEF ClaimsApart
  <2>4. \A s \in sends : s.claim \in 1..claims'
    BY <2>1 DEF ClaimsApart
  <2>5. ASSUME NEW v \in Workers, NEW x \in Workers, pc'[v] \in WithJob, pc'[x] \in WithJob,
               claim'[v] = claim'[x]
        PROVE  v = x
    BY <2>1, <2>2, <2>5 DEF ClaimsApart
  <2>6. \A s \in sends, v \in Workers : pc'[v] \in BeforeSend => s.claim # claim'[v]
    BY <2>1, <2>3 DEF ClaimsApart
  <2>. QED
    BY <2>1, <2>4, <2>5, <2>6 DEF ClaimsApart
<1>2. ASSUME NEW w \in Workers, WriteResults(w) PROVE ClaimsApart'
  <2>1. /\ sends' = sends \cup {SendOf(w)} /\ pc[w] = "writing" /\ pc'[w] = "marking"
        /\ claim' = claim /\ claims' = claims
        /\ \A v \in Workers : v # w => pc'[v] = pc[v]
    BY <1>2 DEF WriteResults, SendOf
  <2>2. SendOf(w).claim = claim[w] /\ claim[w] \in 1..claims
    BY <2>1 DEF SendOf, WorkersPlaced
  <2>. QED
    BY <2>1, <2>2 DEF ClaimsApart
<1>3. CASE Quiet
  <2> HIDE DEF WithJob, BeforeSend, TypeOK
  <2>1. \A v \in Workers : pc'[v] \in WithJob => claim'[v] = claim[v]
    BY <1>3 DEF Quiet
  <2>2. sends' = sends /\ claims' = claims
    BY <1>3 DEF Quiet
  <2>3. \A v \in Workers : /\ pc'[v] \in WithJob => pc[v] \in WithJob
                           /\ pc'[v] \in BeforeSend => pc[v] \in BeforeSend
    BY <1>3 DEF Quiet
  <2>4. BeforeSend \subseteq WithJob
    BY DEF BeforeSend
  <2>. QED
    BY <2>1, <2>2, <2>3, <2>4 DEF ClaimsApart
<1>. QED
  BY <1>1, <1>2, <1>3, ClaimSendOrQuiet

\* Only a claim takes a job out of the queue, and only an operator puts one back.
LEMMA OnceStep ==
  ASSUME TypeOK, WorkersPlaced, [Next]_vars, NEW j \in Jobs, NEW c, Once(j, c)
  PROVE  Once(j, c)'
<1> USE DEF TypeOK, At, Goto, Final, queueVars, pastVars, Once
<1>1. ASSUME NEW i \in Jobs, Admit(i) \/ Enqueue(i) PROVE Once(j, c)'
  BY <1>1 DEF Admit, Enqueue
<1>2. ASSUME NEW w \in Workers, Claim(w) PROVE Once(j, c)'
  BY <1>2 DEF Claim, Claimable, Queued
<1>3. ASSUME NEW w \in Workers, Mark(w) PROVE Once(j, c)'
  BY <1>3 DEF Mark, End, WorkersPlaced, WithJob
<1>4. ASSUME NEW w \in Workers, WorkerStep(w), ~ Claim(w), ~ Mark(w) PROVE Once(j, c)'
  <2>1. UNCHANGED <<status, startedAt, requeued>>
    BY <1>4 DEF WorkerStep, Start, NoJob, CheckPolicy, ChooseNode, Consume, Assign, ReadResults,
                WriteResults, Die, End
  <2>. QED
    BY <2>1
<1>5. ASSUME NEW t \in Runs, NEW action \in Recoveries, Recover(t, action) PROVE Once(j, c)'
  BY <1>5 DEF Recover, Stuck
<1>6. CASE UNCHANGED <<status, startedAt, requeued>>
  BY <1>6
<1>7. CASE Toggle \/ UNCHANGED vars \/ \E f \in Feeds : ReadList(f) \/ WriteList(f)
  BY <1>6, <1>7 DEF Toggle, ReadList, WriteList, vars
<1>. QED
  BY <1>1, <1>2, <1>3, <1>4, <1>5, <1>7 DEF Next, WorkerStep

\* A job that no operator put back is claimed once.
LEMMA ClaimedOnceStep == TypeOK /\ WorkersPlaced /\ ClaimedOnce /\ [Next]_vars => ClaimedOnce'
<1> SUFFICES ASSUME TypeOK, WorkersPlaced, ClaimedOnce, [Next]_vars
             PROVE  ClaimedOnce'
  OBVIOUS
<1> USE DEF TypeOK, At, Goto, Resolve, WithJob
<1>1. ASSUME NEW w \in Workers, pc'[w] \in WithJob PROVE Once(job[w], claim[w])' 
  <2>1. CASE Claim(w)
    <3>1. PICK i \in Jobs :
            /\ status' = [status EXCEPT ![i] = "processing"]
            /\ startedAt' = [startedAt EXCEPT ![i] = claims + 1]
            /\ job'[w] = i /\ claim'[w] = claims + 1
      BY <2>1 DEF Claim, Claimable, Queued
    <3>. QED
      BY <3>1 DEF Once
  <2>2. CASE ~ Claim(w)
    <3>1. pc[w] \in WithJob /\ job'[w] = job[w] /\ claim'[w] = claim[w]
      BY <1>1, <2>2, StepOrStill, StepKeepsJob DEF Still
    <3>2. Once(job[w], claim[w]) /\ job[w] \in Jobs
      BY <3>1 DEF ClaimedOnce, WorkersPlaced
    <3>. QED
      BY <3>1, <3>2, OnceStep DEF Once
  <2>. QED
    BY <2>1, <2>2
<1>2. ASSUME NEW s \in sends' PROVE Once(s.job, s.claim)'
  <2>1. CASE s \in sends
    BY <2>1, OnceStep DEF ClaimedOnce
  <2>2. CASE s \notin sends
    <3>1. PICK w \in Workers : WriteResults(w)
      BY <2>2, ClaimSendOrQuiet DEF Quiet, Claim
    <3>2. s.job = job[w] /\ s.claim = claim[w] /\ pc[w] \in WithJob
      BY <2>2, <3>1 DEF WriteResults
    <3>. QED
      BY <3>2, OnceStep DEF ClaimedOnce, WorkersPlaced
  <2>. QED
    BY <2>1, <2>2
<1>. QED
  BY <1>1, <1>2 DEF ClaimedOnce

-----------------------------------------------------------------------------
(* Suppressed recipients.                                                  *)

\* No feed undoes what is kept: a recipient is kept only if every feed about to write has it.
LEMMA ListCurrentStep == TypeOK /\ ListCurrent /\ [Next]_vars => ListCurrent'
<1> SUFFICES ASSUME TypeOK, ListCurrent, [Next]_vars
             PROVE  ListCurrent'
  OBVIOUS
<1> USE DEF TypeOK, feedVars
<1>1. ASSUME NEW f \in Feeds, ReadList(f) PROVE ListCurrent'
  <2>1. CASE ComplaintOf[f] \in suppressed
    <3>1. feed' = [feed EXCEPT ![f] = "done"] /\ listRead' = listRead /\ suppressed' = suppressed
          /\ Acknowledge(f)
      BY <1>1, <2>1 DEF ReadList
    <3>. QED
      BY <2>1, <3>1 DEF ListCurrent, Acknowledge
  <2>2. CASE ComplaintOf[f] \notin suppressed
    <3>1. feed' = [feed EXCEPT ![f] = "writing"] /\ listRead' = [listRead EXCEPT ![f] = suppressed]
          /\ suppressed' = suppressed /\ kept' = kept
      BY <1>1, <2>2 DEF ReadList
    <3>. QED
      BY <3>1 DEF ListCurrent
  <2>. QED
    BY <2>1, <2>2
<1>2. ASSUME NEW f \in Feeds, WriteList(f) PROVE ListCurrent'
  <2>1. /\ suppressed' = listRead[f] \cup {ComplaintOf[f]} /\ Acknowledge(f)
        /\ feed[f] = "writing" /\ feed'[f] = "done"
        /\ \A g \in Feeds : g # f => feed'[g] = feed[g] /\ listRead'[g] = listRead[g]
    BY <1>2 DEF WriteList
  <2>2. kept \subseteq suppressed'
    BY <2>1 DEF ListCurrent
  <2>. QED
    BY <2>1, <2>2 DEF ListCurrent, Acknowledge
<1>3. CASE UNCHANGED feedVars
  BY <1>3 DEF ListCurrent
<1>4. UNCHANGED feedVars \/ \E f \in Feeds : ReadList(f) \/ WriteList(f)
  BY DEF Next, Admit, Enqueue, Toggle, Start, Claim, NoJob, CheckPolicy, ChooseNode, Consume, Assign,
         ReadResults, WriteResults, Mark, Die, End, Recover, vars
<1>. QED
  BY <1>1, <1>2, <1>3, <1>4

\* A claim made after the acknowledgement gets no further than its check.
LEMMA BarredStopStep ==
  TypeOK /\ WorkersPlaced /\ ClaimsApart /\ ListCurrent /\ BarredStop /\ [Next]_vars => BarredStop'
<1> SUFFICES ASSUME TypeOK, WorkersPlaced, ClaimsApart, ListCurrent, BarredStop, [Next]_vars
             PROVE  BarredStop'
  OBVIOUS
<1> USE DEF TypeOK, At, Goto, Resolve, workVars, pastVars, feedVars, WithJob
<1>1. kept \subseteq kept'
  BY DEF Next, Admit, Enqueue, Toggle, Start, Claim, NoJob, CheckPolicy, ChooseNode, Consume, Assign,
         ReadResults, WriteResults, Mark, Die, End, Recover, ReadList, WriteList, Acknowledge, vars
<1>2. ASSUME NEW w \in Workers, Claim(w) PROVE BarredStop'
  <2>1. PICK j \in Jobs :
          /\ job'[w] = j /\ claim'[w] = claims + 1 /\ pc'[w] = "checking" /\ sends' = sends
          /\ barred' = IF RecipientOf[j] \in kept THEN barred \cup {claims + 1} ELSE barred
          /\ claims' = claims + 1
    BY <1>2 DEF Claim, Claimable, Queued
  <2>2. \A v \in Workers : v # w => pc'[v] = pc[v] /\ claim'[v] = claim[v] /\ job'[v] = job[v]
    BY <1>2 DEF Claim
  <2>3. \A v \in Workers : pc[v] \in WithJob => claim[v] <= claims /\ claim[v] \in Nat
    BY DEF WorkersPlaced
  <2>4. \A s \in sends : s.claim \in Nat /\ s.claim <= claims /\ s.claim \notin barred
    BY DEF ClaimsApart, BarredStop, SuppressedNotSent
  <2>5. claims + 1 \notin barred
    BY DEF BarredStop
  <2>6. ASSUME NEW v \in Workers, pc'[v] \in WithJob, claim'[v] \in barred'
        PROVE  RecipientOf[job'[v]] \in kept' /\ pc'[v] \in {"checking", "marking"}
    <3>1. CASE v = w
      BY <1>1, <2>1, <2>5, <2>6, <3>1
    <3>2. CASE v # w
      <4>1. pc[v] \in WithJob /\ claim[v] \in barred
        BY <2>1, <2>2, <2>3, <2>6, <3>2
      <4>. QED
        BY <1>1, <2>2, <3>2, <4>1 DEF BarredStop
    <3>. QED
      BY <3>1, <3>2
  <2>7. barred' \subseteq 1..claims'
    BY <2>1 DEF BarredStop
  <2>8. \A s \in sends' : s.claim \notin barred'
    BY <2>1, <2>4
  <2>. QED
    BY <2>6, <2>7, <2>8 DEF BarredStop, SuppressedNotSent
<1>3. ASSUME \A w \in Workers : ~ Claim(w) PROVE BarredStop'
  <2>1. barred' = barred /\ claims' = claims
    BY <1>3, ClaimSendOrQuiet DEF Quiet, WriteResults
  <2>2. ASSUME NEW v \in Workers, pc'[v] \in WithJob, claim'[v] \in barred
        PROVE  RecipientOf[job'[v]] \in kept' /\ pc'[v] \in {"checking", "marking"}
    <3>1. pc[v] \in WithJob /\ job'[v] = job[v] /\ claim'[v] = claim[v]
      BY <1>3, <2>2, StepOrStill, StepKeepsJob DEF Still
    <3>2. RecipientOf[job[v]] \in kept /\ pc[v] \in {"checking", "marking"}
      BY <2>2, <3>1 DEF BarredStop
    <3>3. RecipientOf[job[v]] \in suppressed
      BY <3>2 DEF ListCurrent
    <3>4. pc'[v] \in {"checking", "marking"}
      <4>1. CASE Still(v)
        BY <3>2, <4>1 DEF Still
      <4>2. CASE CheckPolicy(v)
        BY <3>1, <3>3, <4>2 DEF CheckPolicy
      <4>3. CASE Start(v) \/ NoJob(v) \/ Mark(v) \/ Die(v)
        BY <2>2, <4>3 DEF Start, NoJob, Mark, Die, End
      <4>4. CASE ChooseNode(v) \/ Consume(v) \/ Assign(v) \/ ReadResults(v) \/ WriteResults(v)
        BY <3>2, <4>4 DEF ChooseNode, Consume, Assign, ReadResults, WriteResults
      <4>. QED
        BY <1>3, <4>1, <4>2, <4>3, <4>4, StepOrStill DEF WorkerStep
    <3>. QED
      BY <1>1, <3>1, <3>2, <3>4
  <2>3. ASSUME NEW s \in sends' PROVE s.claim \notin barred
    <3>1. CASE s \in sends
      BY <3>1 DEF BarredStop, SuppressedNotSent
    <3>2. CASE s \notin sends
      <4>1. PICK w \in Workers : WriteResults(w)
        BY <1>3, <2>3, <3>2, ClaimSendOrQuiet DEF Quiet
      <4>2. s.claim = claim[w] /\ pc[w] = "writing"
        BY <2>3, <3>2, <4>1 DEF WriteResults
      <4>. QED
        BY <4>2 DEF BarredStop
    <3>. QED
      BY <3>1, <3>2
  <2>. QED
    BY <2>1, <2>2, <2>3 DEF BarredStop, SuppressedNotSent
<1>. QED
  BY <1>2, <1>3

-----------------------------------------------------------------------------
(* Theorems.                                                               *)

SafeInv == TypeOK /\ WorkersPlaced /\ Covered /\ ClaimsApart /\ ClaimedOnce
FeedInv == ListCurrent /\ BarredStop

\* The initial states satisfy every invariant.
LEMMA Initially == Init => SafeInv /\ FeedInv
<1> SUFFICES ASSUME Init PROVE SafeInv /\ FeedInv
  OBVIOUS
<1> USE DEF Init
<1>1. TypeOK
  <2>1. 0 \in 0..MaxClaims /\ 0 \in 0..MaxDeaths
    BY PipelineAssumption DEF PipelineAssumption
  <2>2. status \in [Jobs -> {"absent", "admitted", "queued", "processing"} \cup Final]
        /\ pc \in [Workers -> {"idle", "claiming", "checking", "choosing", "consuming",
                              "assigning", "reading", "writing", "marking"}]
        /\ feed \in [Feeds -> {"idle", "writing", "done"}]
    OBVIOUS
  <2>3. /\ startedAt \in [Jobs -> 0..MaxClaims] /\ claim \in [Workers -> 0..MaxClaims]
        /\ used \in [Scopes -> Nat]
    BY <2>1, PipelineAssumption DEF PipelineAssumption
  <2>. QED
    BY <2>1, <2>2, <2>3 DEF TypeOK
<1>2. WorkersPlaced /\ ClaimsApart /\ ClaimedOnce
  BY DEF WorkersPlaced, ClaimsApart, ClaimedOnce, WithJob, WithNode, BeforeSend
<1>3. Covered
  <2>1. Funded = {} /\ \A n : FundedBy(n) = {}
    BY DEF Funded, FundedBy, Paid
  <2>2. IsFiniteSet(Funded) /\ Cardinality(Funded) = 0 /\ \A n : Cardinality(FundedBy(n)) = 0
    BY <2>1, FS_EmptySet
  <2>3. \A s \in Scopes : used[s] <= Bound(s)
    OBVIOUS
  <2>4. \A s \in Scopes : used[s] \in Nat
    BY PipelineAssumption DEF PipelineAssumption
  <2>. QED
    BY <2>2, <2>3, <2>4 DEF Covered, Scopes
<1>4. FeedInv
  BY DEF FeedInv, ListCurrent, BarredStop, SuppressedNotSent, WithJob
<1>. QED
  BY <1>1, <1>2, <1>3, <1>4 DEF SafeInv

\* The invariants that need nothing of the feeds.
LEMMA Invariance == Spec => []SafeInv
<1>1. Init => SafeInv
  BY Initially
<1>2. SafeInv /\ [Next]_vars => SafeInv'
  BY TypeStep, WorkersPlacedStep, CoveredStep, ClaimsApartStep, ClaimedOnceStep DEF SafeInv
<1>. QED
  BY <1>1, <1>2, PTL DEF Spec

\* Every variable keeps its type.
THEOREM TypeCorrect == Spec => []TypeOK
BY Invariance, PTL DEF SafeInv

\* consumeMany in the rate-limit store and the worker's order of steps: no node and
\* no campaign sends more than its daily limit, however many workers race or die.
THEOREM QuotaAlwaysHolds == Spec => []QuotaHolds
<1>1. SafeInv => QuotaHolds
  <2> SUFFICES ASSUME SafeInv PROVE QuotaHolds
    OBVIOUS
  <2>1. sends \subseteq Funded /\ IsFiniteSet(Funded) /\ \A s \in Scopes : used[s] \in Nat
    BY DEF SafeInv, Covered, Funded, TypeOK
  <2>2. Cardinality(sends) <= used["campaign"]
    <3>1. Cardinality(sends) <= Cardinality(Funded) /\ Cardinality(sends) \in Nat
          /\ Cardinality(Funded) \in Nat
      BY <2>1, FS_Subset, FS_CardinalityType
    <3>. QED
      BY <2>1, <3>1 DEF SafeInv, Covered, Scopes
  <2>3. ASSUME NEW n \in Nodes PROVE Cardinality({s \in sends : s.node = n}) <= used[n]
    <3>1. {s \in sends : s.node = n} \subseteq FundedBy(n) /\ FundedBy(n) \subseteq Funded
      BY <2>1 DEF FundedBy
    <3>2. IsFiniteSet(FundedBy(n))
      BY <2>1, <3>1, FS_Subset
    <3>3. Cardinality({s \in sends : s.node = n}) <= Cardinality(FundedBy(n))
          /\ IsFiniteSet({s \in sends : s.node = n})
      BY <3>1, <3>2, FS_Subset
    <3>4. Cardinality({s \in sends : s.node = n}) \in Nat /\ Cardinality(FundedBy(n)) \in Nat
      BY <3>2, <3>3, FS_CardinalityType
    <3>. QED
      BY <2>1, <3>3, <3>4 DEF SafeInv, Covered, Scopes
  <2>. QED
    BY <2>2, <2>3 DEF SafeInv, Covered, QuotaHolds
<1>. QED
  BY <1>1, Invariance, PTL

\* claimNextQueued, the recovery of stuck jobs and the marks: a job no operator put
\* back in the queue is sent at most once, whatever workers race, die or are declared
\* stuck while they run.
THEOREM SentOnceHolds == Spec => []SentOnce
<1>1. SafeInv => SentOnce
  BY DEF SafeInv, ClaimedOnce, ClaimsApart, Once, SentOnce
<1>. QED
  BY <1>1, Invariance, PTL

\* processSendJob's second policy check and the suppression list's unlocked read and rewrite:
\* nothing is sent on a claim made after its recipient's suppression was acknowledged, unless
\* another feed had by then read the list without the recipient and was still to write it.
THEOREM SuppressedNotSentHolds == Spec => []SuppressedNotSent
<1>1. Init => SafeInv /\ FeedInv
  BY Initially
<1>2. SafeInv /\ FeedInv /\ [Next]_vars => FeedInv'
  BY ListCurrentStep, BarredStopStep DEF SafeInv, FeedInv
<1>3. FeedInv => SuppressedNotSent
  BY DEF FeedInv, BarredStop
<1>. QED
  BY <1>1, <1>2, <1>3, Invariance, PTL DEF Spec
=============================================================================
