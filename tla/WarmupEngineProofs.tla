------------------------- MODULE WarmupEngineProofs -------------------------
(***************************************************************************)
(* Proofs about the WarmupEngine: what its table says of the mails that    *)
(* went out, the cap on a node's day and the silence of a node that is     *)
(* held, for any nodes and limits, ticks that die and moves from outside.  *)
(***************************************************************************)
EXTENDS WarmupEngine, FiniteSetTheorems, SequenceTheorems, WellFoundedInduction, TLAPS

-----------------------------------------------------------------------------
(* The inductive invariant.                                                *)

\* A position in the tick has what its step takes.
Positioned ==
  /\ pc = "test" => todo # {}
  /\ pc \in {"send", "mark", "signal"} => batch # <<>>
  /\ pc = "update" => touched # {}

\* A day is planned within the quota it had when the node was listed, or a later one.
PlansWithin == \A n \in Nodes : snap[n] <= Quota(n)

\* The slots of a node are those that its quota allows.
Allowed(s) == IF s[2] = 0 THEN Seeds(Quota(s[1])) > 0 ELSE s[2] <= Quota(s[1])
SlotsAllowed == \A s \in Slots : status[s] # "absent" => Allowed(s)

\* A slot has one row in the table.
RowsApart ==
  /\ \A i \in 1..Len(table) : status[table[i]] # "absent"
  /\ \A i, j \in 1..Len(table) : table[i] = table[j] => i = j

\* The sends of a batch are queued until they are marked.
BatchQueued ==
  /\ \A i \in 1..Len(batch) : status[batch[i]] = "queued" \/ (i = 1 /\ pc = "signal")
  /\ \A i, j \in 1..Len(batch) : batch[i] = batch[j] => i = j

\* The gate let through what is about to be sent.
GatePassed == pc = "send" => state[Head(batch)[1]] \in {"fresh", "warm"}

EngineInv ==
  /\ Positioned /\ PlansWithin /\ SlotsAllowed
  /\ RowsApart /\ BatchQueued /\ GatePassed /\ MailAccounted

-----------------------------------------------------------------------------
(* Slots, quotas and the queue.                                            *)

\* A slot is a node and a number within its daily limit.
LEMMA SlotsAre ==
  /\ \A s \in Slots : s[1] \in Nodes /\ s[2] \in 0..DailyLimit[s[1]] /\ s = <<s[1], s[2]>>
  /\ \A n \in Nodes : \A i \in 0..DailyLimit[n] : <<n, i>> \in Slots
BY DEF Slots

\* A set of numbers has a least one.
LEMMA MinIn == ASSUME NEW S, S \subseteq Nat, S # {} PROVE Min(S) \in S /\ \A y \in S : Min(S) <= y
<1>1. PICK x \in S : \A y \in S : ~ (<<y, x>> \in OpToRel(<, Nat))
  BY NatLessThanWellFounded, WFMin
<1>2. ASSUME NEW y \in S PROVE x <= y
  <2>1. x \in Nat /\ y \in Nat
    OBVIOUS
  <2>2. ~ (y < x)
    BY <1>1, <2>1 DEF OpToRel
  <2>. QED
    BY <2>1, <2>2
<1>. QED
  BY <1>2 DEF Min

\* The first of some nodes is one of them.
LEMMA FirstIn == ASSUME NEW S, S \subseteq Nodes, S # {} PROVE First(S) \in S
BY MinIn, EngineAssumption DEF First, EngineAssumption

\* The smaller of two numbers.
LEMMA MinOfTwo ==
  ASSUME NEW a \in Nat, NEW b \in Nat
  PROVE  Min({a, b}) \in Nat /\ Min({a, b}) <= a /\ Min({a, b}) <= b /\ Min({a, b}) \in {a, b}
BY MinIn

\* A quota is within the daily limit, and grows with the day.
LEMMA QuotaBounds ==
  ASSUME TypeOK, NEW n \in Nodes
  PROVE  /\ Quota(n) \in Nat /\ Quota(n) <= DailyLimit[n]
         /\ day'[n] \in Nat /\ day'[n] >= day[n] => Quota(n) <= Quota(n)' /\ Quota(n)' \in Nat
<1>1. day[n] \in Nat /\ Step \in Nat /\ DailyLimit[n] \in Nat
  BY EngineAssumption DEF EngineAssumption, TypeOK
<1>2. day[n] * Step \in Nat
  BY <1>1
<1>3. Quota(n) \in Nat /\ Quota(n) <= DailyLimit[n] /\ Quota(n) <= day[n] * Step
  BY <1>1, <1>2, MinOfTwo DEF Quota
<1>4. ASSUME day'[n] \in Nat, day'[n] >= day[n] PROVE Quota(n) <= Quota(n)' /\ Quota(n)' \in Nat
  <2>1. day'[n] * Step \in Nat /\ day[n] * Step <= day'[n] * Step
    <3> DEFINE k == day'[n] - day[n]
    <3>1. k \in Nat /\ day'[n] = day[n] + k
      BY <1>1, <1>4
    <3> HIDE DEF k
    <3>2. (day[n] + k) * Step = day[n] * Step + k * Step
      BY <1>1, <3>1
    <3>3. k * Step \in Nat
      BY <1>1, <3>1
    <3>. QED
      BY <1>2, <3>1, <3>2, <3>3
  <2> DEFINE q == Min({day'[n] * Step, DailyLimit[n]})
  <2>2. q \in {day'[n] * Step, DailyLimit[n]} /\ q \in Nat
    BY <1>1, <2>1, MinOfTwo
  <2>3. Quota(n)' = q
    BY DEF Quota
  <2>. QED
    BY <1>1, <1>2, <1>3, <2>1, <2>2, <2>3
<1>. QED
  BY <1>3, <1>4

\* f finds the queued slots among the first rows of the table.
Among(f, n) ==
  f = [i \in 0..n |-> IF i = 0 THEN <<>>
                      ELSE IF IsQueued(table[i]) THEN Append(f[i - 1], table[i]) ELSE f[i - 1]]

\* listQueued's rows can be found among any first rows of the table.
LEMMA AmongExists == ASSUME NEW n \in Nat PROVE \E f : Among(f, n)
<1> DEFINE Bad == {m \in Nat : ~ \E f : Among(f, m)}
<1>1. SUFFICES ASSUME Bad # {} PROVE FALSE
  OBVIOUS
<1>2. Bad \subseteq Nat
  OBVIOUS
<1> HIDE DEF Bad
<1>3. Min(Bad) \in Bad /\ \A y \in Bad : Min(Bad) <= y
  BY <1>1, <1>2, MinIn
<1>4. PICK m \in Bad : \A y \in Bad : m <= y
  BY <1>3
<1>5. m \in Nat
  BY <1>2
<1>6. CASE m = 0
  <2>1. Among([i \in 0..0 |-> <<>>], 0)
    BY DEF Among
  <2>. QED
    BY <1>4, <1>6, <2>1 DEF Bad
<1>7. CASE m # 0
  <2>1. m - 1 \in Nat /\ m - 1 \notin Bad
    BY <1>4, <1>5, <1>7
  <2>2. PICK g : Among(g, m - 1)
    BY <2>1 DEF Bad
  <2> DEFINE last == IF IsQueued(table[m]) THEN Append(g[m - 1], table[m]) ELSE g[m - 1]
             h == [i \in 0..m |-> IF i = m THEN last ELSE g[i]]
  <2>3. \A i \in 0..(m - 1) :
          g[i] = IF i = 0 THEN <<>>
                 ELSE IF IsQueued(table[i]) THEN Append(g[i - 1], table[i]) ELSE g[i - 1]
    BY <2>2 DEF Among
  <2>4. h[m] = last /\ \A i \in 0..(m - 1) : h[i] = g[i]
    BY <1>5
  <2>5. \A i \in 0..m : i = m \/ i \in 0..(m - 1)
    BY <1>5
  <2>6. \A i \in 0..m : i # 0 => i - 1 \in 0..(m - 1)
    BY <1>5
  <2> HIDE DEF h, last
  <2>7. \A i \in 0..m :
          h[i] = IF i = 0 THEN <<>>
                 ELSE IF IsQueued(table[i]) THEN Append(h[i - 1], table[i]) ELSE h[i - 1]
    <3>1. h[m] = IF IsQueued(table[m]) THEN Append(h[m - 1], table[m]) ELSE h[m - 1]
      BY <1>5, <1>7, <2>4, <2>6 DEF last
    <3>2. ASSUME NEW i \in 0..(m - 1)
          PROVE  h[i] = IF i = 0 THEN <<>>
                        ELSE IF IsQueued(table[i]) THEN Append(h[i - 1], table[i]) ELSE h[i - 1]
      <4>1. i # 0 => i - 1 \in 0..(m - 1)
        BY <1>5
      <4>. QED
        BY <2>3, <2>4, <4>1
    <3>. QED
      BY <1>7, <2>5, <3>1, <3>2
  <2>8. Among(h, m)
    <3>1. h = [i \in 0..m |-> h[i]]
      BY DEF h
    <3>. QED
      BY <2>7, <3>1 DEF Among
  <2>. QED
    BY <1>4, <2>8 DEF Bad
<1>. QED
  BY <1>6, <1>7

\* listQueued yields queued sends of the table, each once.
LEMMA QueueSound ==
  ASSUME table \in Seq(Slots), RowsApart
  PROVE  /\ Queued \in Seq(Slots)
         /\ \A i \in 1..Len(Queued) : status[Queued[i]] = "queued"
         /\ \A i, j \in 1..Len(Queued) : Queued[i] = Queued[j] => i = j
<1> DEFINE n == Len(table)
           f == CHOOSE g : Among(g, n)
           Sound(i) ==
             /\ f[i] \in Seq(Slots)
             /\ \A j \in 1..Len(f[i]) : status[f[i][j]] = "queued" /\ \E k \in 1..i : f[i][j] = table[k]
             /\ \A j, k \in 1..Len(f[i]) : f[i][j] = f[i][k] => j = k
<1>1. n \in Nat
  BY LenProperties
<1>2. Among(f, n)
  BY <1>1, AmongExists
<1>3. Queued = f[n]
  BY DEF Queued, Among
<1>4. \A i \in 0..n :
        f[i] = IF i = 0 THEN <<>> ELSE IF IsQueued(table[i]) THEN Append(f[i - 1], table[i]) ELSE f[i - 1]
  BY <1>2 DEF Among
<1> HIDE DEF f
<1>5. ASSUME NEW i \in 1..n, Sound(i - 1) PROVE Sound(i)
  <2>1. i \in 0..n /\ i # 0 /\ table[i] \in Slots
    BY <1>1, ElementOfSeq
  <2>2. f[i] = IF IsQueued(table[i]) THEN Append(f[i - 1], table[i]) ELSE f[i - 1]
    BY <1>4, <2>1
  <2>3. CASE ~ IsQueued(table[i])
    BY <1>1, <1>5, <2>2, <2>3
  <2>4. CASE IsQueued(table[i])
    <3> DEFINE q == f[i - 1]
               t == f[i]
    <3>1. q \in Seq(Slots) /\ Len(q) \in Nat
      BY <1>5, LenProperties
    <3>2. t = Append(q, table[i])
      BY <2>2, <2>4
    <3>3. \A j \in 1..Len(q) : status[q[j]] = "queued" /\ \E k \in 1..(i - 1) : q[j] = table[k]
      BY <1>5
    <3>4. \A j, k \in 1..Len(q) : q[j] = q[k] => j = k
      BY <1>5
    <3> HIDE DEF q, t
    <3>5. /\ t \in Seq(Slots) /\ Len(t) = Len(q) + 1 /\ t[Len(q) + 1] = table[i]
          /\ \A j \in 1..Len(q) : t[j] = q[j]
      BY <2>1, <3>1, <3>2, AppendProperties
    <3>6. \A j \in 1..Len(t) : j \in 1..Len(q) \/ j = Len(q) + 1
      BY <3>1, <3>5
    <3>7. \A j \in 1..Len(q) : q[j] # table[i]
      BY <1>1, <3>3 DEF RowsApart
    <3>8. \A j \in 1..Len(t) : status[t[j]] = "queued" /\ \E k \in 1..i : t[j] = table[k]
      BY <1>1, <2>4, <3>3, <3>5, <3>6 DEF IsQueued
    <3>9. \A j, k \in 1..Len(t) : t[j] = t[k] => j = k
      BY <3>4, <3>5, <3>6, <3>7
    <3>. QED
      BY <3>5, <3>8, <3>9 DEF t
  <2>. QED
    BY <2>3, <2>4
<1>6. Sound(0)
  <2>1. f[0] = <<>>
    BY <1>1, <1>4
  <2>2. f[0] \in Seq(Slots) /\ 1..Len(f[0]) = {}
    BY <2>1, EmptySeq
  <2>. QED
    BY <2>2
<1> DEFINE Bad == {i \in 0..n : ~ Sound(i)}
<1>7. SUFFICES Bad = {}
  <2>1. Sound(n)
    BY <1>1, <1>7
  <2>. QED
    BY <1>3, <2>1
<1> HIDE DEF Sound
<1>8. SUFFICES ASSUME Bad # {} PROVE FALSE
  OBVIOUS
<1>9. Bad \subseteq Nat
  BY <1>1
<1> HIDE DEF Bad
<1>10. Min(Bad) \in Bad /\ \A y \in Bad : Min(Bad) <= y
  BY <1>8, <1>9, MinIn
<1>11. PICK i \in Bad : \A y \in Bad : i <= y
  BY <1>10
<1>12. i \in 0..n /\ ~ Sound(i)
  BY <1>11 DEF Bad
<1>13. i \in 1..n /\ i - 1 \in 0..n
  BY <1>1, <1>6, <1>12
<1>14. Sound(i - 1)
  BY <1>11, <1>13 DEF Bad
<1>. QED
  BY <1>5, <1>12, <1>13, <1>14

-----------------------------------------------------------------------------
(* Type correctness.                                                       *)

Positions == {"idle", "plan", "test", "drain", "send", "mark", "signal", "read", "update"}
NodesTyped ==
  /\ state \in [Nodes -> States] /\ auth \in [Nodes -> {"missing", "ready", "expired"}]
  /\ day \in [Nodes -> 0..MaxDay]
SendsTyped ==
  /\ table \in Seq(Slots) /\ status \in [Slots -> Statuses \cup {"absent"}]
  /\ attempts \in [Slots -> 0..MaxAttempts] /\ signalled \subseteq Slots
TestsTyped == tests \subseteq Nodes /\ measured \subseteq Nodes
PlanTyped == snap \in [Nodes -> Nat] /\ todo \subseteq Nodes /\ slot \in Nat \ {0}
DrainTyped == batch \in Seq(Slots) /\ outcome \in Statuses
ReadTyped == pending \subseteq Nodes /\ touched \subseteq Nodes /\ decided \in States
WorldTyped == mailed \in [Slots -> Nat] /\ cut \in [Slots -> Nat]
BoundsTyped == moves \in 0..MaxMoves /\ faults \in 0..MaxFaults
Typed ==
  /\ NodesTyped /\ SendsTyped /\ TestsTyped /\ pc \in Positions /\ PlanTyped
  /\ DrainTyped /\ ReadTyped /\ WorldTyped /\ BoundsTyped

\* The parts of TypeOK.
LEMMA TypeParts == (TypeOK <=> Typed) /\ (TypeOK' <=> Typed')
BY DEF TypeOK, Typed, NodesTyped, SendsTyped, TestsTyped, PlanTyped, DrainTyped, ReadTyped, WorldTyped,
       BoundsTyped, Positions

\* What a step leaves alone keeps its type.
LEMMA PartsKept ==
  ASSUME Typed
  PROVE  /\ UNCHANGED nodeVars => NodesTyped'
         /\ UNCHANGED sendVars => SendsTyped'
         /\ UNCHANGED testVars => TestsTyped'
         /\ UNCHANGED planVars => PlanTyped'
         /\ UNCHANGED drainVars => DrainTyped'
         /\ UNCHANGED readVars => ReadTyped'
         /\ UNCHANGED worldVars => WorldTyped'
         /\ UNCHANGED bounds => BoundsTyped'
BY DEF Typed, NodesTyped, SendsTyped, TestsTyped, PlanTyped, DrainTyped, ReadTyped, WorldTyped, BoundsTyped,
       nodeVars, sendVars, testVars, planVars, drainVars, readVars, worldVars, bounds

\* The first send of a batch, and the others.
LEMMA BatchSplit ==
  ASSUME TypeOK, batch # <<>>
  PROVE  /\ Head(batch) \in Slots /\ Head(batch) = batch[1] /\ 1 \in 1..Len(batch)
         /\ Tail(batch) \in Seq(Slots)
         /\ \A i \in 1..Len(Tail(batch)) : i + 1 \in 1..Len(batch) /\ Tail(batch)[i] = batch[i + 1]
<1>1. batch \in Seq(Slots) /\ Len(batch) \in Nat \ {0}
  BY EmptySeq DEF TypeOK
<1>2. /\ Head(batch) \in Slots /\ Tail(batch) \in Seq(Slots) /\ Len(Tail(batch)) = Len(batch) - 1
      /\ \A i \in 1..Len(Tail(batch)) : Tail(batch)[i] = batch[i + 1]
  BY <1>1, HeadTailProperties
<1>3. Head(batch) = batch[1]
  BY <1>1
<1>. QED
  BY <1>1, <1>2, <1>3

\* A mail may be inserted once its slot is the node's: the table has it then.
LEMMA InsertTyped ==
  ASSUME TypeOK, NEW s \in Slots, Insert(s), UNCHANGED <<attempts, signalled>>
  PROVE  SendsTyped'
<1>1. SendsTyped
  BY TypeParts DEF Typed
<1>2. Append(table, s) \in Seq(Slots)
  BY <1>1, AppendProperties DEF SendsTyped
<1>3. table' \in Seq(Slots)
  BY <1>1, <1>2 DEF Insert, SendsTyped
<1>4. status' \in [Slots -> Statuses \cup {"absent"}]
  BY <1>1 DEF Insert, SendsTyped, Statuses
<1>. QED
  BY <1>1, <1>3, <1>4 DEF SendsTyped

\* The sends that a tick takes from the queue: queued, each once.
LEMMA BatchListed ==
  ASSUME TypeOK, EngineInv, ListQueued
  PROVE  /\ batch' \in Seq(Slots)
         /\ \A i \in 1..Len(batch') : status[batch'[i]] = "queued"
         /\ \A i, j \in 1..Len(batch') : batch'[i] = batch'[j] => i = j
<1> DEFINE q == Queued
           m == Min({Limit, Len(q)})
<1>1. /\ q \in Seq(Slots)
      /\ \A i \in 1..Len(q) : status[q[i]] = "queued"
      /\ \A i, j \in 1..Len(q) : q[i] = q[j] => i = j
  BY QueueSound DEF TypeOK, EngineInv
<1>2. batch' = SubSeq(q, 1, m)
  BY DEF ListQueued
<1> HIDE DEF q
<1>3. Len(q) \in Nat /\ \A i \in 1..Len(q) : q[i] \in Slots
  BY <1>1, LenProperties, ElementOfSeq
<1>4. m \in Nat /\ m <= Len(q)
  BY <1>3, MinOfTwo, EngineAssumption DEF EngineAssumption
<1> HIDE DEF m
<1>5. /\ batch' \in Seq(Slots) /\ Len(batch') = m
      /\ \A i \in 1..m : batch'[i] = q[i]
  <2>1. \A i \in 1..m : q[i] \in Slots
    BY <1>3, <1>4
  <2>2. /\ SubSeq(q, 1, m) \in Seq(Slots)
        /\ Len(SubSeq(q, 1, m)) = IF 1 <= m THEN m - 1 + 1 ELSE 0
        /\ \A i \in 1..(m - 1 + 1) : SubSeq(q, 1, m)[i] = q[1 + i - 1]
    BY <1>4, <2>1, SubSeqProperties
  <2>. QED
    BY <1>2, <1>4, <2>2
<1>. QED
  BY <1>1, <1>3, <1>4, <1>5

\* The state machine moves a node to one of the states.
LEMMA NextTyped ==
  ASSUME NEW s \in States, NEW ready \in BOOLEAN, NEW evidence
  PROVE  NextNodeState(s, ready, evidence) \in States
BY DEF NextNodeState, States, Live

\* A step takes typed states to typed states.
LEMMA TypeStep == TypeOK /\ EngineInv /\ [Next]_vars => TypeOK'
<1> SUFFICES ASSUME TypeOK, EngineInv, [Next]_vars PROVE Typed'
  BY TypeParts
<1>1. Typed
  BY TypeParts
<1>2. /\ \A n \in Nodes : DailyLimit[n] \in Nat
      /\ Nodes \subseteq Nat
      /\ {Step, SeedsEach, MaxAttempts, Limit, MaxDay} \subseteq Nat \ {0}
      /\ {MaxMoves, MaxFaults} \subseteq Nat
  BY EngineAssumption DEF EngineAssumption
<1> USE PartsKept DEF At, Goto, Positions
<1>3. ASSUME ListActive PROVE Typed'
  <2>1. todo' \subseteq Nodes
    BY <1>3 DEF ListActive, Active
  <2>2. snap' \in [Nodes -> Nat]
    BY <1>3, QuotaBounds DEF ListActive
  <2>3. PlanTyped'
    BY <1>3, <2>1, <2>2 DEF ListActive, PlanTyped
  <2>. QED
    BY <1>1, <1>3, <2>3 DEF ListActive, Typed
<1>4. ASSUME Enqueue PROVE Typed'
  <2> DEFINE n == First(todo)
  <2>1. n \in Nodes
    BY <1>1, <1>4, FirstIn DEF Enqueue, Typed, PlanTyped
  <2>2. slot \in Nat \ {0} /\ snap[n] \in Nat /\ slot <= snap[n] /\ snap[n] <= DailyLimit[n]
    <3>1. slot \in Nat \ {0} /\ snap[n] \in Nat /\ slot <= snap[n]
      BY <1>1, <1>4, <2>1 DEF Enqueue, Typed, PlanTyped
    <3>2. snap[n] <= Quota(n)
      BY <2>1 DEF EngineInv, PlansWithin
    <3>3. Quota(n) \in Nat /\ Quota(n) <= DailyLimit[n]
      BY <2>1, QuotaBounds
    <3>4. DailyLimit[n] \in Nat
      BY <1>2, <2>1
    <3> HIDE DEF n
    <3>5. snap[n] <= DailyLimit[n]
      BY <3>1, <3>2, <3>3, <3>4
    <3>. QED
      BY <3>1, <3>5
  <2>3. <<n, slot>> \in Slots
    BY <1>2, <2>1, <2>2, SlotsAre
  <2> HIDE DEF n
  <2>4. SendsTyped'
    BY <1>4, <2>3, InsertTyped DEF Enqueue, SlotKey, n
  <2>5. PlanTyped'
    BY <1>1, <1>4 DEF Enqueue, Typed, PlanTyped
  <2>. QED
    BY <1>1, <1>4, <2>4, <2>5 DEF Enqueue, Typed
<1>5. ASSUME NEW n \in Nodes, Planned(n) PROVE PlanTyped'
  BY <1>1, <1>5 DEF Planned, Typed, PlanTyped
<1>6. ASSUME EnqueueSeed PROVE Typed'
  <2>1. First(todo) \in Nodes
    BY <1>1, <1>6, FirstIn DEF EnqueueSeed, Typed, PlanTyped
  <2>2. <<First(todo), 0>> \in Slots
    BY <1>2, <2>1, SlotsAre
  <2>3. SendsTyped'
    <3>1. UNCHANGED <<attempts, signalled>>
      BY <1>6 DEF EnqueueSeed
    <3>2. Insert(<<First(todo), 0>>) \/ UNCHANGED <<table, status>>
      BY <1>6 DEF EnqueueSeed
    <3>3. Insert(<<First(todo), 0>>) => SendsTyped'
      BY <2>2, <3>1, InsertTyped
    <3>. QED
      BY <1>1, <3>1, <3>2, <3>3 DEF Typed, sendVars
  <2>4. PlanTyped' /\ pc' \in Positions
    BY <1>1, <1>5, <1>6, <2>1 DEF EnqueueSeed, Typed
  <2>. QED
    BY <1>1, <1>6, <2>3, <2>4 DEF EnqueueSeed, Typed
<1>7. ASSUME CreateTest PROVE Typed'
  <2>1. First(todo) \in Nodes
    BY <1>1, <1>7, FirstIn DEF CreateTest, Typed, PlanTyped, EngineInv, Positioned
  <2>2. TestsTyped'
    BY <1>1, <1>7, <2>1 DEF CreateTest, Typed, TestsTyped
  <2>3. PlanTyped'
    BY <1>5, <1>7, <2>1 DEF CreateTest
  <2>. QED
    BY <1>1, <1>7, <2>2, <2>3 DEF CreateTest, Typed
<1>8. ASSUME ListQueued PROVE Typed'
  <2>1. batch' \in Seq(Slots)
    BY <1>8, BatchListed DEF ListQueued
  <2>. QED
    BY <1>1, <1>8, <2>1 DEF ListQueued, Typed, DrainTyped
<1>9. ASSUME Gate PROVE Typed'
  BY <1>1, <1>9 DEF Gate, Typed, DrainTyped, Statuses
<1>10. ASSUME Deliver PROVE Typed'
  <2>1. Head(batch) \in Slots
    BY <1>10, BatchSplit DEF Deliver, EngineInv, Positioned
  <2>2. WorldTyped'
    BY <1>1, <1>10, <2>1 DEF Deliver, Typed, WorldTyped
  <2>3. outcome' \in Statuses
    BY <1>10 DEF Deliver, Transient, Statuses
  <2>. QED
    BY <1>1, <1>10, <2>2, <2>3 DEF Deliver, Typed, DrainTyped
<1>11. ASSUME Mark PROVE Typed'
  <2> DEFINE h == Head(batch)
  <2>1. h \in Slots /\ Tail(batch) \in Seq(Slots)
    BY <1>11, BatchSplit DEF Mark, EngineInv, Positioned
  <2>2. Tried(h) \in 0..MaxAttempts
    <3>1. Attempt(h) \in Nat
      BY <1>1, <1>2, <2>1 DEF Attempt, Typed, SendsTyped
    <3>. QED
      BY <1>2, <3>1, MinOfTwo DEF Tried
  <2>3. SendsTyped'
    <3> HIDE DEF h
    <3>. QED
      BY <1>1, <1>11, <2>1, <2>2 DEF Mark, Typed, SendsTyped, DrainTyped, h
  <2>4. DrainTyped' /\ pc' \in Positions
    BY <1>1, <1>11, <2>1 DEF Mark, Typed, DrainTyped, Statuses
  <2>. QED
    BY <1>1, <1>11, <2>3, <2>4 DEF Mark, Typed
<1>12. ASSUME Signal PROVE Typed'
  <2>1. Head(batch) \in Slots /\ Tail(batch) \in Seq(Slots)
    BY <1>12, BatchSplit DEF Signal, EngineInv, Positioned
  <2>2. SendsTyped' /\ DrainTyped'
    BY <1>1, <1>12, <2>1 DEF Signal, Typed, SendsTyped, DrainTyped
  <2>. QED
    BY <1>1, <1>12, <2>2 DEF Signal, Typed
<1>13. ASSUME ListPending PROVE Typed'
  BY <1>1, <1>13 DEF ListPending, Typed, ReadTyped, TestsTyped
<1>14. ASSUME ReadTest PROVE Typed'
  <2>1. First(pending) \in Nodes
    BY <1>1, <1>14, FirstIn DEF ReadTest, Typed, ReadTyped
  <2>2. TestsTyped' /\ ReadTyped'
    BY <1>1, <1>14, <2>1 DEF ReadTest, Typed, TestsTyped, ReadTyped
  <2>. QED
    BY <1>1, <1>14, <2>2 DEF ReadTest, Typed
<1>15. ASSUME Decide PROVE Typed'
  <2>1. First(touched) \in Nodes
    BY <1>1, <1>15, FirstIn DEF Decide, Typed, ReadTyped
  <2>2. \A s \in States, ready \in BOOLEAN : \A evidence : NextNodeState(s, ready, evidence) \in States
    BY NextTyped
  <2>3. decided' \in States
    BY <1>1, <1>15, <2>1, <2>2 DEF Decide, Typed, NodesTyped
  <2>. QED
    BY <1>1, <1>15, <2>3 DEF Decide, Typed, ReadTyped
<1>16. ASSUME Update PROVE Typed'
  <2>1. First(touched) \in Nodes
    BY <1>1, <1>16, FirstIn DEF Update, Typed, ReadTyped, EngineInv, Positioned
  <2>2. NodesTyped' /\ ReadTyped'
    BY <1>1, <1>16, <2>1 DEF Update, Typed, NodesTyped, ReadTyped, States
  <2>. QED
    BY <1>1, <1>16, <2>2 DEF Update, Typed
<1>17. ASSUME EndTick PROVE Typed'
  BY <1>1, <1>17 DEF EndTick, Typed
<1>18. ASSUME Abort PROVE Typed'
  <2>1. WorldTyped'
    BY <1>1, <1>18 DEF Abort, Typed, WorldTyped
  <2>2. PlanTyped' /\ ReadTyped'
    BY <1>1, <1>18 DEF Abort, Typed, PlanTyped, ReadTyped, States
  <2>3. DrainTyped'
    BY <1>18, EmptySeq DEF Abort, DrainTyped, Statuses
  <2>4. BoundsTyped'
    BY <1>1, <1>2, <1>18 DEF Abort, Typed, BoundsTyped
  <2>. QED
    BY <1>1, <1>18, <2>1, <2>2, <2>3, <2>4 DEF Abort, Typed
<1>19. ASSUME NEW n \in Nodes, NEW a \in {"missing", "ready", "expired"},
              Admit(n) \/ SetDayIndex(n) \/ SetAuthReady(n, a)
       PROVE  Typed'
  <2>1. BoundsTyped'
    BY <1>1, <1>2, <1>19 DEF Admit, SetDayIndex, SetAuthReady, Move, Typed, BoundsTyped
  <2>2. state' \in [Nodes -> States] /\ auth' \in [Nodes -> {"missing", "ready", "expired"}]
    BY <1>1, <1>19 DEF Admit, SetDayIndex, SetAuthReady, Typed, NodesTyped, States
  <2>3. day' \in [Nodes -> 0..MaxDay]
    <3>1. CASE SetDayIndex(n)
      <4>1. day[n] + 1 \in 0..MaxDay
        BY <1>2, <3>1 DEF SetDayIndex
      <4>. QED
        BY <1>1, <3>1, <4>1 DEF SetDayIndex, Typed, NodesTyped
    <3>2. CASE Admit(n)
      BY <1>1, <1>2, <3>2 DEF Admit, Typed, NodesTyped
    <3>. QED
      BY <1>1, <1>19, <3>1, <3>2 DEF SetAuthReady, Typed, NodesTyped
  <2>. QED
    BY <1>1, <1>19, <2>1, <2>2, <2>3 DEF Admit, SetDayIndex, SetAuthReady, Typed, NodesTyped
<1>20. CASE UNCHANGED vars
  BY <1>1, <1>20 DEF vars, nodeVars, sendVars, testVars, planVars, drainVars, readVars, worldVars, bounds, Typed
<1>. QED
  BY <1>3, <1>4, <1>6, <1>7, <1>8, <1>9, <1>10, <1>11, <1>12, <1>13, <1>14, <1>15, <1>16, <1>17, <1>18,
     <1>19, <1>20 DEF Next, Tick, Outside

-----------------------------------------------------------------------------
(* The steps keep the invariant.                                           *)

\* The daemon's place in its tick has what the next step takes.
LEMMA PositionStep == TypeOK /\ EngineInv /\ [Next]_vars => Positioned'
<1> SUFFICES ASSUME TypeOK, EngineInv, [Next]_vars PROVE Positioned'
  OBVIOUS
<1>1. Positioned
  BY DEF EngineInv
<1> USE DEF At, Goto, Positioned
<1>2. ASSUME pc' \in {"idle", "plan", "drain", "read"} PROVE Positioned'
  BY <1>2
<1>3. ASSUME UNCHANGED <<pc, todo, batch, touched>> PROVE Positioned'
  BY <1>1, <1>3
<1>4. CASE Enqueue
  BY <1>2, <1>4 DEF Enqueue
<1>5. CASE EnqueueSeed
  BY <1>5 DEF EnqueueSeed, planVars
<1>6. CASE Gate
  BY <1>6 DEF Gate
<1>7. CASE Deliver
  BY <1>1, <1>7 DEF Deliver, drainVars
<1>8. CASE Mark
  BY <1>1, <1>8 DEF Mark
<1>9. CASE Decide
  BY <1>9 DEF Decide
<1>10. CASE ListActive \/ CreateTest \/ ListQueued \/ Signal \/ ListPending \/ Update \/ EndTick \/ Abort
  BY <1>2, <1>10 DEF ListActive, CreateTest, ListQueued, Signal, ListPending, Update, EndTick, Abort
<1>11. CASE ReadTest
  BY <1>2, <1>11 DEF ReadTest
<1>12. CASE Outside
  BY <1>3, <1>12 DEF Outside, Admit, SetDayIndex, SetAuthReady, planVars, drainVars, readVars
<1>13. CASE UNCHANGED vars
  BY <1>3, <1>13 DEF vars
<1>. QED
  BY <1>4, <1>5, <1>6, <1>7, <1>8, <1>9, <1>10, <1>11, <1>12, <1>13 DEF Next, Tick

\* No step sets a node's day back.
LEMMA DayGrows == TypeOK /\ [Next]_vars => \A n \in Nodes : day'[n] \in Nat /\ day'[n] >= day[n]
<1> SUFFICES ASSUME TypeOK, [Next]_vars, NEW n \in Nodes PROVE day'[n] \in Nat /\ day'[n] >= day[n]
  OBVIOUS
<1>1. day \in [Nodes -> Nat]
  BY DEF TypeOK
<1>2. CASE UNCHANGED day
  BY <1>1, <1>2
<1>3. ASSUME NEW m \in Nodes, Admit(m) \/ SetDayIndex(m) PROVE day'[n] \in Nat /\ day'[n] >= day[n]
  BY <1>1, <1>3 DEF Admit, SetDayIndex
<1>4. UNCHANGED day \/ \E m \in Nodes : Admit(m) \/ SetDayIndex(m)
  BY DEF Next, Tick, Outside, SetAuthReady, vars, nodeVars, ListActive, Enqueue, EnqueueSeed, CreateTest,
     ListQueued, Gate, Deliver, Mark, Signal, ListPending, ReadTest, Decide, Update, EndTick, Abort
<1>. QED
  BY <1>2, <1>3, <1>4

\* A node is planned within a quota that does not shrink.
LEMMA PlansStep == TypeOK /\ EngineInv /\ [Next]_vars => PlansWithin'
<1> SUFFICES ASSUME TypeOK, EngineInv, [Next]_vars, NEW n \in Nodes PROVE snap'[n] <= Quota(n)'
  BY DEF PlansWithin
<1>1. /\ Quota(n) \in Nat /\ Quota(n)' \in Nat /\ Quota(n) <= Quota(n)'
      /\ snap \in [Nodes -> Nat] /\ snap[n] <= Quota(n)
  BY QuotaBounds, DayGrows DEF TypeOK, EngineInv, PlansWithin
<1>2. snap'[n] \in {snap[n], 0, Quota(n)}
  <2>1. CASE UNCHANGED snap
    BY <2>1
  <2>2. CASE ListActive \/ Abort
    BY <2>2 DEF ListActive, Abort
  <2>3. ASSUME NEW m, Planned(m) PROVE snap'[n] \in {snap[n], 0, Quota(n)}
    BY <1>1, <2>3 DEF Planned
  <2>4. UNCHANGED snap \/ ListActive \/ Abort \/ Planned(First(todo))
    BY DEF Next, Tick, Outside, Admit, SetDayIndex, SetAuthReady, vars, planVars, Enqueue, EnqueueSeed,
       CreateTest, ListQueued, Gate, Deliver, Mark, Signal, ListPending, ReadTest, Decide, Update, EndTick
  <2>. QED
    BY <2>1, <2>2, <2>3, <2>4
<1>. QED
  BY <1>1, <1>2

\* What is inserted: the row of a slot that had none, which the quota allows.
LEMMA InsertStep ==
  ASSUME TypeOK, EngineInv, Enqueue \/ EnqueueSeed
  PROVE  UNCHANGED <<table, status>> \/ \E s \in Slots : Allowed(s) /\ Insert(s)
<1>1. /\ todo \subseteq Nodes /\ snap \in [Nodes -> Nat] /\ slot \in Nat \ {0}
      /\ \A n \in Nodes : DailyLimit[n] \in Nat
      /\ SeedsEach \in Nat
  BY EngineAssumption DEF TypeOK, EngineAssumption
<1>2. PICK n \in Nodes : n = First(todo)
  BY <1>1, FirstIn DEF Enqueue, EnqueueSeed
<1>3. /\ snap[n] \in Nat /\ snap[n] <= Quota(n)
      /\ Quota(n) \in Nat /\ Quota(n) <= DailyLimit[n]
  BY <1>1, <1>2, QuotaBounds DEF EngineInv, PlansWithin
<1>4. CASE Enqueue
  <2>1. slot <= Quota(n) /\ slot \in 0..DailyLimit[n]
    <3>1. slot <= snap[n]
      BY <1>2, <1>4 DEF Enqueue
    <3>2. DailyLimit[n] \in Nat
      BY <1>1
    <3>. QED
      BY <1>1, <1>3, <3>1, <3>2
  <2>2. <<n, slot>> \in Slots
    BY <2>1, SlotsAre
  <2>3. Allowed(<<n, slot>>)
    BY <1>1, <2>1 DEF Allowed
  <2>. QED
    BY <1>2, <1>4, <2>2, <2>3 DEF Enqueue, SlotKey
<1>5. CASE EnqueueSeed
  <2>1. <<n, 0>> \in Slots
    BY <1>1, SlotsAre
  <2>2. ASSUME Seeds(snap[n]) > 0 PROVE Allowed(<<n, 0>>)
    <3>1. SeedsEach <= snap[n]
      BY <1>1, <1>3, <2>2 DEF Seeds
    <3>2. Seeds(Quota(n)) = 1
      BY <1>1, <1>3, <3>1 DEF Seeds
    <3>. QED
      BY <3>2 DEF Allowed
  <2>3. UNCHANGED <<table, status>> \/ (Seeds(snap[n]) > 0 /\ Insert(<<n, 0>>))
    BY <1>2, <1>5 DEF EnqueueSeed
  <2>. QED
    BY <2>1, <2>2, <2>3
<1>. QED
  BY <1>4, <1>5

\* Only the marking of the first send of a batch changes the status of a row.
LEMMA RowsChange ==
  ASSUME TypeOK, EngineInv, [Next]_vars
  PROVE  \/ UNCHANGED <<table, status>>
         \/ \E s \in Slots : Allowed(s) /\ Insert(s)
         \/ Mark
BY InsertStep DEF Next, Tick, Outside, Admit, SetDayIndex, SetAuthReady, vars, sendVars, ListActive, CreateTest,
   ListQueued, Gate, Deliver, Signal, ListPending, ReadTest, Decide, Update, EndTick, Abort

\* The marked send is one of the table's that was queued, and it is not unmade.
LEMMA MarkedHead ==
  ASSUME TypeOK, EngineInv, Mark
  PROVE  /\ Head(batch) \in Slots /\ status[Head(batch)] = "queued"
         /\ status' = [status EXCEPT ![Head(batch)] = outcome] /\ outcome # "absent"
         /\ UNCHANGED table
<1>1. batch # <<>> /\ pc = "mark"
  BY DEF EngineInv, Positioned, Mark, At
<1>2. Head(batch) \in Slots /\ Head(batch) = batch[1] /\ 1 \in 1..Len(batch)
  BY <1>1, BatchSplit
<1>3. status[Head(batch)] = "queued"
  BY <1>1, <1>2 DEF EngineInv, BatchQueued
<1>. QED
  BY <1>2, <1>3 DEF Mark, TypeOK, Statuses

\* The slots of the table stay within the quotas, which do not shrink.
LEMMA AllowedStep == TypeOK /\ EngineInv /\ [Next]_vars => SlotsAllowed'
<1> SUFFICES ASSUME TypeOK, EngineInv, [Next]_vars, NEW s \in Slots, status'[s] # "absent"
             PROVE  Allowed(s)'
  BY DEF SlotsAllowed
<1>1. PICK n \in Nodes : n = s[1]
  BY SlotsAre
<1>2. s[2] \in Nat /\ SeedsEach \in Nat
  BY SlotsAre, <1>1, EngineAssumption DEF EngineAssumption
<1>3. Quota(n) \in Nat /\ Quota(n)' \in Nat /\ Quota(n) <= Quota(n)'
  BY QuotaBounds, DayGrows
<1>4. Allowed(s) => Allowed(s)'
  <2>1. Allowed(s) <=> IF s[2] = 0 THEN Seeds(Quota(n)) > 0 ELSE s[2] <= Quota(n)
    BY <1>1 DEF Allowed
  <2>2. Allowed(s)' <=> IF s[2] = 0 THEN Seeds(Quota(n)') > 0 ELSE s[2] <= Quota(n)'
    BY <1>1 DEF Allowed, Seeds
  <2>3. Seeds(Quota(n)) > 0 => Seeds(Quota(n)') > 0
    BY <1>2, <1>3 DEF Seeds
  <2>. QED
    BY <1>2, <1>3, <2>1, <2>2, <2>3
<1>5. status[s] # "absent" \/ Allowed(s)
  <2>1. ASSUME NEW t \in Slots, Allowed(t), Insert(t) PROVE status[s] # "absent" \/ Allowed(s)
    <3>1. s = t \/ status'[s] = status[s]
      BY <2>1 DEF Insert, TypeOK
    <3>. QED
      BY <2>1, <3>1
  <2>2. ASSUME Mark PROVE status[s] # "absent"
    BY <2>2, MarkedHead DEF TypeOK
  <2>. QED
    BY <2>1, <2>2, RowsChange
<1>. QED
  BY <1>4, <1>5 DEF EngineInv, SlotsAllowed

\* A slot is inserted when it has no row.
LEMMA RowsStep == TypeOK /\ EngineInv /\ [Next]_vars => RowsApart'
<1> SUFFICES ASSUME TypeOK, EngineInv, [Next]_vars PROVE RowsApart'
  OBVIOUS
<1>1. /\ table \in Seq(Slots) /\ status \in [Slots -> Statuses \cup {"absent"}]
      /\ Len(table) \in Nat /\ \A i \in 1..Len(table) : table[i] \in Slots
      /\ RowsApart
  BY LenProperties, ElementOfSeq DEF TypeOK, EngineInv
<1>2. ASSUME UNCHANGED table, \A s \in Slots : status[s] # "absent" => status'[s] # "absent" PROVE RowsApart'
  BY <1>1, <1>2 DEF RowsApart
<1>3. ASSUME NEW s \in Slots, Insert(s) PROVE RowsApart'
  <2>1. CASE Absent(s)
    <3>1. table' = Append(table, s) /\ status' = [status EXCEPT ![s] = "queued"] /\ status[s] = "absent"
      BY <1>3, <2>1 DEF Insert, Absent
    <3>2. /\ Len(table') = Len(table) + 1 /\ table'[Len(table) + 1] = s
          /\ \A i \in 1..Len(table) : table'[i] = table[i]
      BY <1>1, <3>1, AppendProperties
    <3>3. \A i \in 1..Len(table') : i \in 1..Len(table) \/ i = Len(table) + 1
      BY <1>1, <3>2
    <3>4. \A i \in 1..Len(table) : table[i] # s
      BY <1>1, <3>1 DEF RowsApart
    <3>5. \A i \in 1..Len(table') : status'[table'[i]] # "absent"
      BY <1>1, <3>1, <3>2, <3>3 DEF RowsApart
    <3>6. \A i, j \in 1..Len(table') : table'[i] = table'[j] => i = j
      BY <1>1, <3>2, <3>3, <3>4 DEF RowsApart
    <3>. QED
      BY <3>5, <3>6 DEF RowsApart
  <2>. QED
    BY <1>2, <1>3, <2>1 DEF Insert
<1>4. ASSUME Mark PROVE RowsApart'
  BY <1>1, <1>2, <1>4, MarkedHead
<1>. QED
  BY <1>2, <1>3, <1>4, RowsChange

\* Sends leave the queue only as the first of the batch.
LEMMA BatchStep == TypeOK /\ EngineInv /\ [Next]_vars => BatchQueued'
<1> SUFFICES ASSUME TypeOK, EngineInv, [Next]_vars PROVE BatchQueued'
  OBVIOUS
<1>1. /\ batch \in Seq(Slots) /\ status \in [Slots -> Statuses \cup {"absent"}]
      /\ \A i \in 1..Len(batch) : batch[i] \in Slots
      /\ BatchQueued /\ Positioned
  BY ElementOfSeq DEF TypeOK, EngineInv
<1>2. ASSUME batch' = <<>> PROVE BatchQueued'
  BY <1>2 DEF BatchQueued
<1>3. ASSUME UNCHANGED batch, \A t \in Slots : status[t] = "queued" => status'[t] = "queued",
             UNCHANGED pc \/ pc # "signal"
      PROVE  BatchQueued'
  BY <1>1, <1>3 DEF BatchQueued
<1>4. ASSUME batch # <<>>, batch' = Tail(batch),
             \A t \in Slots : t # Head(batch) /\ status[t] = "queued" => status'[t] = "queued"
      PROVE  BatchQueued'
  <2>1. /\ Head(batch) = batch[1] /\ 1 \in 1..Len(batch) /\ batch' \in Seq(Slots)
        /\ \A i \in 1..Len(batch') : i + 1 \in 1..Len(batch) /\ batch'[i] = batch[i + 1]
    BY <1>4, BatchSplit
  <2>2. \A i \in 1..Len(batch') : i \in Nat \ {0} /\ i + 1 # 1
    OBVIOUS
  <2>3. \A i \in 1..Len(batch') : status'[batch'[i]] = "queued"
    BY <1>1, <1>4, <2>1, <2>2 DEF BatchQueued
  <2>4. ASSUME NEW i \in 1..Len(batch'), NEW j \in 1..Len(batch'), batch'[i] = batch'[j] PROVE i = j
    <3>1. i + 1 \in 1..Len(batch) /\ j + 1 \in 1..Len(batch) /\ batch[i + 1] = batch[j + 1]
      BY <2>1, <2>4
    <3>2. i + 1 = j + 1
      BY <1>1, <3>1 DEF BatchQueued
    <3>. QED
      BY <3>2
  <2>. QED
    BY <2>3, <2>4 DEF BatchQueued
<1>5. CASE ListQueued
  <2>1. UNCHANGED status
    BY <1>5 DEF ListQueued, sendVars
  <2>. QED
    BY <1>5, <2>1, BatchListed DEF BatchQueued
<1>6. CASE Mark
  <2>1. batch # <<>>
    BY <1>1, <1>6 DEF Mark, At, Positioned
  <2>2. /\ Head(batch) \in Slots /\ Head(batch) = batch[1]
        /\ status' = [status EXCEPT ![Head(batch)] = outcome]
    BY <1>6, <2>1, MarkedHead, BatchSplit
  <2>3. \A t \in Slots : t # Head(batch) => status'[t] = status[t]
    BY <1>1, <2>2
  <2>4. CASE batch' = Tail(batch)
    BY <1>4, <2>1, <2>3, <2>4
  <2>5. CASE UNCHANGED batch /\ pc' = "signal"
    <3>1. \A i \in 1..Len(batch) : i # 1 => batch[i] # Head(batch)
      BY <1>1, <2>1, <2>2, BatchSplit DEF BatchQueued
    <3>2. \A i \in 1..Len(batch) : i # 1 => status'[batch[i]] = "queued"
      BY <1>1, <2>3, <3>1 DEF BatchQueued
    <3>. QED
      BY <1>1, <2>5, <3>2 DEF BatchQueued
  <2>. QED
    BY <1>6, <2>4, <2>5 DEF Mark, Goto
<1>7. CASE Signal
  BY <1>1, <1>4, <1>7 DEF Signal, At, Positioned
<1>8. CASE Enqueue \/ EnqueueSeed
  <2>1. UNCHANGED batch /\ pc # "signal"
    BY <1>8 DEF Enqueue, EnqueueSeed, drainVars, At
  <2>2. ASSUME NEW s \in Slots, Insert(s) PROVE \A t \in Slots : status[t] = "queued" => status'[t] = "queued"
    BY <1>1, <2>2 DEF Insert
  <2>. QED
    BY <1>3, <1>8, <2>1, <2>2, InsertStep
<1>9. CASE Abort
  BY <1>2, <1>9 DEF Abort
<1>10. CASE Outside
  BY <1>3, <1>10 DEF Outside, Admit, SetDayIndex, SetAuthReady, sendVars, drainVars
<1>11. CASE UNCHANGED vars
  BY <1>3, <1>11 DEF vars
<1>12. ASSUME ListActive \/ CreateTest \/ Gate \/ Deliver \/ ListPending \/ ReadTest \/ Decide \/ Update \/ EndTick
       PROVE  BatchQueued'
  <2>1. UNCHANGED <<batch, status>> /\ pc # "signal"
    BY <1>12 DEF ListActive, CreateTest, Gate, Deliver, ListPending, ReadTest, Decide, Update, EndTick, At,
       sendVars, drainVars
  <2>. QED
    BY <1>3, <2>1
<1>. QED
  BY <1>5, <1>6, <1>7, <1>8, <1>9, <1>10, <1>11, <1>12 DEF Next, Tick

\* Nothing takes the node of a send that the gate let through out of its state before the
\* delivery.
LEMMA GateStep == TypeOK /\ EngineInv /\ [Next]_vars => GatePassed'
<1> SUFFICES ASSUME TypeOK, EngineInv, [Next]_vars, pc' = "send"
             PROVE  state'[Head(batch')[1]] \in {"fresh", "warm"}
  BY DEF GatePassed
<1>1. GatePassed /\ state \in [Nodes -> States]
  BY DEF EngineInv, TypeOK
<1>2. CASE Gate
  <2>1. UNCHANGED <<state, batch>>
    BY <1>2 DEF Gate, nodeVars
  <2>2. Able(Head(batch)[1])
    BY <1>2 DEF Gate, Goto
  <2>. QED
    BY <2>1, <2>2 DEF Able
<1>3. ASSUME UNCHANGED <<pc, batch>>, UNCHANGED state \/ \E n \in Nodes : state' = [state EXCEPT ![n] = "fresh"]
      PROVE  state'[Head(batch')[1]] \in {"fresh", "warm"}
  <2>1. state[Head(batch)[1]] \in {"fresh", "warm"}
    BY <1>1, <1>3 DEF GatePassed
  <2> DEFINE n == Head(batch)[1]
  <2>2. Head(batch') = Head(batch)
    BY <1>3
  <2>3. n \in Nodes
    BY <1>3, BatchSplit, SlotsAre DEF EngineInv, Positioned
  <2> HIDE DEF n
  <2>4. state'[n] \in {"fresh", "warm"}
    BY <1>1, <1>3, <2>1, <2>3 DEF n
  <2>. QED
    BY <2>2, <2>4 DEF n
<1>4. CASE Outside
  <2>1. UNCHANGED <<pc, batch>>
    BY <1>4 DEF Outside, Admit, SetDayIndex, SetAuthReady, drainVars
  <2>2. UNCHANGED state \/ \E n \in Nodes : state' = [state EXCEPT ![n] = "fresh"]
    BY <1>4 DEF Outside, Admit, SetDayIndex, SetAuthReady
  <2>. QED
    BY <1>3, <2>1, <2>2
<1>5. CASE UNCHANGED vars
  BY <1>3, <1>5 DEF vars
<1>6. ~ (ListActive \/ Enqueue \/ EnqueueSeed \/ CreateTest \/ ListQueued \/ Deliver \/ Mark \/ Signal
         \/ ListPending \/ ReadTest \/ Decide \/ Update \/ EndTick \/ Abort)
  BY DEF ListActive, Enqueue, EnqueueSeed, CreateTest, ListQueued, Deliver, Mark, Signal, ListPending, ReadTest,
     Decide, Update, EndTick, Abort, At, Goto
<1>. QED
  BY <1>2, <1>4, <1>5, <1>6 DEF Next, Tick

\* A mail goes out for a queued slot, which is marked next or cut.
LEMMA AccountStep == TypeOK /\ EngineInv /\ [Next]_vars => MailAccounted'
<1> SUFFICES ASSUME TypeOK, EngineInv, [Next]_vars PROVE MailAccounted'
  OBVIOUS
<1>1. /\ status \in [Slots -> Statuses \cup {"absent"}]
      /\ mailed \in [Slots -> Nat] /\ cut \in [Slots -> Nat]
      /\ BatchQueued /\ Positioned /\ MailAccounted
  BY DEF TypeOK, EngineInv
<1>2. ASSUME UNCHANGED worldVars,
             \A s \in Slots : (status'[s] = "sent" \/ Unmarked(s)') <=> (status[s] = "sent" \/ Unmarked(s))
      PROVE  MailAccounted'
  BY <1>1, <1>2 DEF MailAccounted, worldVars
<1>3. ASSUME pc # "mark", pc' # "mark", UNCHANGED worldVars,
             \A s \in Slots : status'[s] = "sent" <=> status[s] = "sent"
      PROVE  MailAccounted'
  BY <1>2, <1>3 DEF Unmarked, At
<1>4. ASSUME pc \in {"send", "mark"}
      PROVE  /\ Head(batch) \in Slots /\ status[Head(batch)] = "queued"
             /\ \A s \in Slots : Unmarked(s) <=> (pc = "mark" /\ outcome = "sent" /\ s = Head(batch))
  <2>1. batch # <<>>
    BY <1>1, <1>4 DEF Positioned
  <2>2. Head(batch) \in Slots /\ Head(batch) = batch[1] /\ 1 \in 1..Len(batch)
    BY <2>1, BatchSplit
  <2>3. status[Head(batch)] = "queued"
    BY <1>1, <1>4, <2>2 DEF BatchQueued
  <2>. QED
    BY <2>2, <2>3 DEF Unmarked, At
<1>5. CASE Deliver
  <2>1. pc = "send" /\ pc' = "mark" /\ UNCHANGED <<batch, status, cut>>
    BY <1>5 DEF Deliver, At, Goto, sendVars
  <2> DEFINE h == Head(batch)
  <2>2. h \in Slots /\ status[h] = "queued"
    BY <1>4, <2>1
  <2>3. \A s \in Slots : Unmarked(s)' <=> (outcome' = "sent" /\ s = h)
    BY <2>1 DEF Unmarked, At
  <2>4. \/ outcome' = "sent" /\ mailed' = [mailed EXCEPT ![h] = @ + 1]
        \/ outcome' # "sent" /\ UNCHANGED mailed
    BY <1>5 DEF Deliver, Transient
  <2>5. \A s \in Slots : mailed[s] = cut[s] + (IF status[s] = "sent" THEN 1 ELSE 0)
    BY <1>1, <2>1 DEF MailAccounted, Unmarked, At
  <2> HIDE DEF h
  <2>6. ASSUME NEW s \in Slots
        PROVE  mailed'[s] = cut'[s] + (IF status'[s] = "sent" \/ Unmarked(s)' THEN 1 ELSE 0)
    <3>1. mailed[s] \in Nat /\ cut[s] \in Nat /\ cut'[s] = cut[s] /\ status'[s] = status[s]
      BY <1>1, <2>1
    <3>2. CASE s = h /\ outcome' = "sent"
      BY <1>1, <2>2, <2>3, <2>4, <2>5, <3>1, <3>2
    <3>3. CASE ~ (s = h /\ outcome' = "sent")
      <4>1. mailed'[s] = mailed[s] /\ ~ Unmarked(s)'
        BY <1>1, <2>3, <2>4, <3>3
      <4>. QED
        BY <2>5, <3>1, <4>1
    <3>. QED
      BY <3>2, <3>3
  <2>. QED
    BY <2>6 DEF MailAccounted
<1>6. CASE Mark
  <2>1. pc = "mark" /\ pc' # "mark" /\ UNCHANGED worldVars
    BY <1>6 DEF Mark, At, Goto
  <2>2. status' = [status EXCEPT ![Head(batch)] = outcome]
    BY <1>6 DEF Mark
  <2>3. \A s \in Slots : ~ Unmarked(s)'
    BY <2>1 DEF Unmarked, At
  <2>4. \A s \in Slots : status'[s] = "sent" <=> status[s] = "sent" \/ Unmarked(s)
    BY <1>1, <1>4, <2>1, <2>2
  <2>. QED
    BY <1>2, <2>1, <2>3, <2>4
<1>7. CASE Abort
  <2>1. /\ cut' = [s \in Slots |-> IF Unmarked(s) THEN cut[s] + 1 ELSE cut[s]]
        /\ UNCHANGED <<status, mailed>> /\ pc' = "idle"
    BY <1>7 DEF Abort, Goto, sendVars
  <2>2. \A s \in Slots : Unmarked(s) => status[s] = "queued"
    <3>1. ASSUME NEW s \in Slots, Unmarked(s) PROVE status[s] = "queued"
      <4>1. pc = "mark"
        BY <3>1 DEF Unmarked, At
      <4>. QED
        BY <1>4, <3>1, <4>1
    <3>. QED
      BY <3>1
  <2>3. \A s \in Slots : ~ Unmarked(s)'
    BY <2>1 DEF Unmarked, At
  <2>4. ASSUME NEW s \in Slots
        PROVE  mailed'[s] = cut'[s] + (IF status'[s] = "sent" \/ Unmarked(s)' THEN 1 ELSE 0)
    <3>1. mailed[s] = cut[s] + (IF status[s] = "sent" \/ Unmarked(s) THEN 1 ELSE 0) /\ cut[s] \in Nat
      BY <1>1 DEF MailAccounted
    <3>2. cut'[s] = IF Unmarked(s) THEN cut[s] + 1 ELSE cut[s]
      BY <2>1
    <3>3. mailed'[s] = mailed[s] /\ status'[s] = status[s]
      BY <2>1
    <3>. QED
      BY <2>2, <2>3, <3>1, <3>2, <3>3
  <2>. QED
    BY <2>4 DEF MailAccounted
<1>8. CASE Gate
  <2>1. pc = "drain" /\ (pc' = "mark" => outcome' = "queued") /\ UNCHANGED <<status, worldVars>>
    BY <1>8 DEF Gate, At, Goto, sendVars
  <2>. QED
    BY <1>2, <2>1 DEF Unmarked, At
<1>9. CASE Enqueue \/ EnqueueSeed
  <2>1. pc = "plan" /\ pc' # "mark" /\ UNCHANGED worldVars
    BY <1>9 DEF Enqueue, EnqueueSeed, At, Goto
  <2>2. ASSUME NEW t \in Slots, Insert(t) PROVE \A s \in Slots : status'[s] = "sent" <=> status[s] = "sent"
    BY <1>1, <2>2 DEF Insert, Absent
  <2>. QED
    BY <1>3, <1>9, <2>1, <2>2, InsertStep
<1>10. CASE Outside
  <2>1. UNCHANGED <<pc, status, batch, outcome, worldVars>>
    BY <1>10 DEF Outside, Admit, SetDayIndex, SetAuthReady, sendVars, drainVars
  <2>. QED
    BY <1>2, <2>1 DEF Unmarked, At
<1>11. CASE UNCHANGED vars
  BY <1>2, <1>11 DEF vars, worldVars, Unmarked, At
<1>12. ASSUME ListActive \/ CreateTest \/ ListQueued \/ Signal \/ ListPending \/ ReadTest \/ Decide \/ Update \/ EndTick
       PROVE  MailAccounted'
  <2>1. pc # "mark" /\ pc' # "mark" /\ UNCHANGED <<status, worldVars>>
    BY <1>12 DEF ListActive, CreateTest, ListQueued, Signal, ListPending, ReadTest, Decide, Update, EndTick, At,
       Goto, sendVars
  <2>. QED
    BY <1>3, <2>1
<1>. QED
  BY <1>5, <1>6, <1>7, <1>8, <1>9, <1>10, <1>11, <1>12 DEF Next, Tick

\* A daemon that has not ticked: no node is admitted and nothing is planned.
LEMMA Initially == Init => TypeOK /\ EngineInv
<1> SUFFICES ASSUME Init PROVE TypeOK /\ EngineInv
  OBVIOUS
<1>1. {MaxDay, MaxMoves, MaxFaults, MaxAttempts} \subseteq Nat /\ \A n \in Nodes : DailyLimit[n] \in Nat
  BY EngineAssumption DEF EngineAssumption
<1>2. table \in Seq(Slots) /\ batch \in Seq(Slots) /\ 1..Len(table) = {} /\ 1..Len(batch) = {}
  BY EmptySeq DEF Init
<1>3. NodesTyped /\ TestsTyped /\ PlanTyped /\ ReadTyped
  BY <1>1 DEF Init, NodesTyped, TestsTyped, PlanTyped, ReadTyped, States
<1>4. SendsTyped /\ DrainTyped /\ WorldTyped /\ BoundsTyped
  BY <1>1, <1>2 DEF Init, SendsTyped, DrainTyped, WorldTyped, BoundsTyped, Statuses
<1>5. TypeOK
  BY <1>3, <1>4, TypeParts DEF Init, Typed, Positions
<1>6. PlansWithin
  <2>1. \A n \in Nodes : Quota(n) \in Nat
    BY <1>5, QuotaBounds
  <2>. QED
    BY <2>1 DEF Init, PlansWithin
<1>7. Positioned /\ SlotsAllowed /\ GatePassed
  BY DEF Init, Positioned, SlotsAllowed, GatePassed
<1>8. RowsApart /\ BatchQueued
  BY <1>2 DEF RowsApart, BatchQueued
<1>9. MailAccounted
  BY DEF Init, MailAccounted, Unmarked, At
<1>. QED
  BY <1>5, <1>6, <1>7, <1>8, <1>9 DEF EngineInv

\* Every state of the engine satisfies the inductive invariant.
LEMMA Invariance == Spec => [](TypeOK /\ EngineInv)
<1>1. TypeOK /\ EngineInv /\ [Next]_vars => (TypeOK /\ EngineInv)'
  BY TypeStep, PositionStep, PlansStep, AllowedStep, RowsStep, BatchStep, GateStep, AccountStep DEF EngineInv
<1>. QED
  BY Initially, <1>1, PTL DEF Spec

-----------------------------------------------------------------------------
(* Sums of mails.                                                          *)

Mails(n, count, S) == FoldSet(LAMBDA i, total : count[<<n, i>>] + total, 0, S)
Pick(S) == CHOOSE i \in S : TRUE
\* g sums the counts of node n over each set of slot numbers in S.
Sums(g, n, count, S) ==
  g = [s \in SUBSET S |-> IF s = {} THEN 0 ELSE count[<<n, Pick(s)>>] + g[s \ {Pick(s)}]]

\* Of a family of finite sets one is smallest: no other is a part of it.
LEMMA SmallestSet ==
  ASSUME NEW S, IsFiniteSet(S), NEW T, T \subseteq SUBSET S, T # {}
  PROVE  \E s \in T : \A u \in SUBSET s : u # s => u \notin T
<1>1. IsWellFoundedOn(StrictSubsetOrdering(S), SUBSET S)
  BY FS_StrictSubsetOrderingWellFounded, FS_FiniteSubsetsOfFinite
<1> DEFINE R == StrictSubsetOrdering(S)
<1>2. PICK s \in T : \A u \in T : <<u, s>> \notin R
  <2> HIDE DEF R
  <2>. QED
    BY <1>1, WFMin DEF R
<1>3. ASSUME NEW u \in SUBSET s, u # s, u \in T PROVE FALSE
  BY <1>2, <1>3 DEF StrictSubsetOrdering
<1>. QED
  BY <1>3

\* What was summed does not depend on the set it is summed within.
LEMMA SumsAgree ==
  ASSUME NEW n, NEW count, NEW S, NEW T, NEW g, NEW h, Sums(g, n, count, S), Sums(h, n, count, T),
         NEW U, IsFiniteSet(U), U \subseteq S, U \subseteq T
  PROVE  g[U] = h[U]
<1> DEFINE Bad == {s \in SUBSET U : g[s] # h[s]}
<1>1. SUFFICES ASSUME Bad # {} PROVE FALSE
  BY <1>1
<1> HIDE DEF Bad
<1>2. PICK s \in Bad : \A u \in SUBSET s : u # s => u \notin Bad
  <2>1. Bad \subseteq SUBSET U
    BY DEF Bad
  <2>. QED
    BY <1>1, <2>1, SmallestSet
<1>3. s \in SUBSET S /\ s \in SUBSET T /\ s \in SUBSET U
  BY <1>2 DEF Bad
<1>4. g[s] = (IF s = {} THEN 0 ELSE count[<<n, Pick(s)>>] + g[s \ {Pick(s)}])
  BY <1>3 DEF Sums
<1>5. h[s] = (IF s = {} THEN 0 ELSE count[<<n, Pick(s)>>] + h[s \ {Pick(s)}])
  BY <1>3 DEF Sums
<1>6. s # {} => g[s \ {Pick(s)}] = h[s \ {Pick(s)}]
  <2>1. s # {} => Pick(s) \in s
    BY DEF Pick
  <2>2. s # {} => s \ {Pick(s)} \in SUBSET s /\ s \ {Pick(s)} # s
    BY <2>1
  <2>3. s # {} => s \ {Pick(s)} \in SUBSET U /\ s \ {Pick(s)} \notin Bad
    BY <1>2, <1>3, <2>2
  <2>. QED
    BY <2>3 DEF Bad
<1>7. g[s] = h[s]
  BY <1>4, <1>5, <1>6
<1>. QED
  BY <1>2, <1>7 DEF Bad

\* The mails of a finite set of slots can be summed.
LEMMA SumsExist ==
  ASSUME NEW n, NEW count, NEW S, IsFiniteSet(S)
  PROVE  \E g : Sums(g, n, count, S)
<1> DEFINE Bad == {s \in SUBSET S : ~ \E g : Sums(g, n, count, s)}
<1>1. SUFFICES ASSUME Bad # {} PROVE FALSE
  BY <1>1
<1> HIDE DEF Bad
<1>2. PICK s \in Bad : \A u \in SUBSET s : u # s => u \notin Bad
  <2>1. Bad \subseteq SUBSET S
    BY DEF Bad
  <2>. QED
    BY <1>1, <2>1, SmallestSet
<1>3. s \in SUBSET S /\ IsFiniteSet(s)
  BY <1>2, FS_Subset DEF Bad
<1> DEFINE Part(u) == CHOOSE g : Sums(g, n, count, u)
           Rest(u) == u \ {Pick(u)}
<1>4. ASSUME NEW u \in SUBSET s, u # s PROVE Sums(Part(u), n, count, u)
  <2>1. \E g : Sums(g, n, count, u)
    BY <1>2, <1>3, <1>4 DEF Bad
  <2>. QED
    BY <2>1
<1>5. ASSUME NEW u \in SUBSET s, u # {} PROVE Rest(u) \in SUBSET s /\ Rest(u) # s /\ Rest(u) # u
  <2>1. Pick(u) \in u
    BY <1>5 DEF Pick
  <2>. QED
    BY <2>1
<1> HIDE DEF Part
<1>6. ASSUME NEW u \in SUBSET s, u # s
      PROVE  Part(u)[u] = (IF u = {} THEN 0 ELSE count[<<n, Pick(u)>>] + Part(Rest(u))[Rest(u)])
  <2>1. Sums(Part(u), n, count, u)
    BY <1>4, <1>6
  <2>2. Part(u)[u] = (IF u = {} THEN 0 ELSE count[<<n, Pick(u)>>] + Part(u)[Rest(u)])
    BY <2>1 DEF Sums
  <2>3. CASE u # {}
    <3>1. Sums(Part(Rest(u)), n, count, Rest(u)) /\ Rest(u) \subseteq u
      BY <1>4, <1>5, <2>3
    <3>2. IsFiniteSet(Rest(u))
      BY <1>3, <1>5, <2>3, FS_Subset
    <3>3. Part(u)[Rest(u)] = Part(Rest(u))[Rest(u)]
      <4> HIDE DEF Rest
      <4>. QED
        BY <2>1, <3>1, <3>2, SumsAgree
    <3>. QED
      BY <2>2, <3>3
  <2>. QED
    BY <2>2, <2>3
<1> DEFINE h == [u \in SUBSET s |-> IF u = {} THEN 0 ELSE count[<<n, Pick(u)>>] + Part(Rest(u))[Rest(u)]]
<1>7. ASSUME NEW u \in SUBSET s, u # s PROVE h[u] = Part(u)[u]
  BY <1>6, <1>7
<1>8. ASSUME NEW u \in SUBSET s, u # {} PROVE h[Rest(u)] = Part(Rest(u))[Rest(u)]
  BY <1>5, <1>7, <1>8
<1>9. Sums(h, n, count, s)
  BY <1>8 DEF Sums
<1>. QED
  BY <1>2, <1>9 DEF Bad

\* The sum of a set is the mails of one slot and the sum of the others.
LEMMA MailsRest ==
  ASSUME NEW n, NEW count, NEW S, IsFiniteSet(S)
  PROVE  Mails(n, count, S) = (IF S = {} THEN 0 ELSE count[<<n, Pick(S)>>] + Mails(n, count, S \ {Pick(S)}))
<1> DEFINE g(T) == CHOOSE f : Sums(f, n, count, T)
<1>1. \A T : Mails(n, count, T) = g(T)[T]
  BY DEF Mails, FoldSet, MapThenFoldSet, Sums, Pick
<1>2. Sums(g(S), n, count, S)
  BY SumsExist
<1>3. g(S)[S] = (IF S = {} THEN 0 ELSE count[<<n, Pick(S)>>] + g(S)[S \ {Pick(S)}])
  BY <1>2 DEF Sums
<1>4. CASE S # {}
  <2> DEFINE R == S \ {Pick(S)}
  <2>1. IsFiniteSet(R) /\ R \subseteq S
    BY FS_Subset
  <2>2. Sums(g(R), n, count, R)
    BY <2>1, SumsExist
  <2> HIDE DEF R, g
  <2>3. g(S)[R] = g(R)[R]
    BY <1>2, <2>1, <2>2, SumsAgree
  <2>. QED
    BY <1>1, <1>3, <2>3 DEF R
<1>. QED
  BY <1>1, <1>3, <1>4

\* Of a node's slots in S, those of B have one more in a than in c.
OneMore(n, a, c, B, S) ==
  \A i \in S : c[<<n, i>>] \in Nat /\ a[<<n, i>>] = c[<<n, i>>] + (IF i \in B THEN 1 ELSE 0)

\* Counts that differ by one where B says so have sums that differ by the size of B.
LEMMA MailsOnce ==
  ASSUME NEW n, NEW a, NEW c, NEW B, NEW S, IsFiniteSet(S), OneMore(n, a, c, B, S)
  PROVE  Mails(n, c, S) \in Nat /\ Mails(n, a, S) = Mails(n, c, S) + Cardinality(S \cap B)
<1> DEFINE Right(s) == /\ Mails(n, c, s) \in Nat
                       /\ Mails(n, a, s) = Mails(n, c, s) + Cardinality(s \cap B)
           Bad == {s \in SUBSET S : ~ Right(s)}
<1>1. SUFFICES ASSUME Bad # {} PROVE FALSE
  OBVIOUS
<1>2. Bad \subseteq SUBSET S
  OBVIOUS
<1> HIDE DEF Bad, Right
<1>3. PICK s \in Bad : \A u \in SUBSET s : u # s => u \notin Bad
  BY <1>1, <1>2, SmallestSet
<1>4. s \in SUBSET S /\ IsFiniteSet(s) /\ ~ Right(s)
  BY <1>2, <1>3, FS_Subset DEF Bad
<1>5. /\ Mails(n, a, s) = (IF s = {} THEN 0 ELSE a[<<n, Pick(s)>>] + Mails(n, a, s \ {Pick(s)}))
      /\ Mails(n, c, s) = (IF s = {} THEN 0 ELSE c[<<n, Pick(s)>>] + Mails(n, c, s \ {Pick(s)}))
  BY <1>4, MailsRest
<1>6. CASE s = {}
  <2>1. s \cap B = {}
    BY <1>6
  <2>2. Cardinality(s \cap B) = 0
    BY <2>1, FS_EmptySet
  <2>. QED
    BY <1>4, <1>5, <1>6, <2>2 DEF Right
<1>7. CASE s # {}
  <2>1. PICK x : x = Pick(s)
    OBVIOUS
  <2>2. x \in s
    BY <1>7, <2>1 DEF Pick
  <2> DEFINE r == s \ {x}
             R == r \cap B
  <2>3. Right(r)
    <3>1. r \in SUBSET s /\ r # s
      BY <2>2
    <3>2. r \in SUBSET S /\ r \notin Bad
      BY <1>3, <1>4, <3>1
    <3>. QED
      BY <3>2 DEF Bad
  <2>4. IsFiniteSet(R) /\ x \notin R
    BY <1>4, FS_Subset
  <2>5. s \cap B = IF x \in B THEN R \cup {x} ELSE R
    BY <2>2
  <2>6. Cardinality(R) \in Nat /\ Cardinality(s \cap B) = Cardinality(R) + (IF x \in B THEN 1 ELSE 0)
    <3> HIDE DEF R
    <3>1. Cardinality(R) \in Nat
      BY <2>4, FS_CardinalityType
    <3>2. x \in B => Cardinality(s \cap B) = Cardinality(R) + 1
      <4>1. Cardinality(R \cup {x}) = Cardinality(R) + 1
        BY <2>4, FS_AddElement
      <4>. QED
        BY <2>5, <4>1
    <3>3. x \notin B => Cardinality(s \cap B) = Cardinality(R)
      BY <2>5
    <3>. QED
      BY <3>1, <3>2, <3>3
  <2>7. /\ Mails(n, a, s) = a[<<n, x>>] + Mails(n, a, r) /\ Mails(n, c, s) = c[<<n, x>>] + Mails(n, c, r)
        /\ Mails(n, c, r) \in Nat /\ Mails(n, a, r) = Mails(n, c, r) + Cardinality(R)
    BY <1>5, <1>7, <2>1, <2>3 DEF Right
  <2>8. c[<<n, x>>] \in Nat /\ a[<<n, x>>] = c[<<n, x>>] + (IF x \in B THEN 1 ELSE 0)
    BY <1>4, <2>2 DEF OneMore
  <2> HIDE DEF r, R
  <2>9. /\ Mails(n, c, s) \in Nat
        /\ Mails(n, a, s) = Mails(n, c, s) + (Cardinality(R) + (IF x \in B THEN 1 ELSE 0))
    BY <2>6, <2>7, <2>8
  <2>. QED
    BY <1>4, <2>6, <2>9 DEF Right
<1>. QED
  BY <1>6, <1>7

\* The slots that a quota allows are no more than the quota and its seed.
LEMMA SlotsCounted ==
  ASSUME NEW q \in Nat, NEW B, B \subseteq Nat, \A i \in B : IF i = 0 THEN Seeds(q) > 0 ELSE i <= q
  PROVE  Cardinality(B) \in Nat /\ Cardinality(B) <= q + Seeds(q)
<1>1. IsFiniteSet(1..q) /\ Cardinality(1..q) = q
  BY FS_Interval
<1>2. IsFiniteSet((1..q) \cup {0}) /\ Cardinality((1..q) \cup {0}) = q + 1
  <2>1. 0 \notin 1..q
    OBVIOUS
  <2> DEFINE I == 1..q
  <2>2. IsFiniteSet(I \cup {0}) /\ Cardinality(I \cup {0}) = Cardinality(I) + 1
    <3> HIDE DEF I
    <3>1. 0 \notin I
      BY <2>1 DEF I
    <3>2. IsFiniteSet(I)
      BY <1>1 DEF I
    <3>. QED
      BY <3>1, <3>2, FS_AddElement
  <2>. QED
    BY <1>1, <2>2
<1>3. Seeds(q) \in {0, 1}
  BY DEF Seeds
<1>4. CASE Seeds(q) = 0
  <2>1. B \subseteq 1..q
    BY <1>4
  <2>2. IsFiniteSet(B) /\ Cardinality(B) <= Cardinality(1..q)
    BY <1>1, <2>1, FS_Subset
  <2>. QED
    BY <1>1, <1>4, <2>2, FS_CardinalityType
<1>5. CASE Seeds(q) = 1
  <2>1. B \subseteq (1..q) \cup {0}
    OBVIOUS
  <2>2. IsFiniteSet(B) /\ Cardinality(B) <= Cardinality((1..q) \cup {0})
    BY <1>2, <2>1, FS_Subset
  <2>. QED
    BY <1>2, <1>5, <2>2, FS_CardinalityType
<1>. QED
  BY <1>3, <1>4, <1>5

-----------------------------------------------------------------------------
(* The theorems.                                                           *)

\* The engine's rows, batches and counts have the values its steps give them.
THEOREM TypeCorrect == Spec => []TypeOK
BY Invariance, PTL

\* Every mail that the transport acknowledged is recorded by its slot, about to be, or cut: the
\* table claims no mail that did not go out and hides none that did.
THEOREM MailAccountedHolds == Spec => []MailAccounted
<1>1. EngineInv => MailAccounted
  BY DEF EngineInv
<1>. QED
  BY <1>1, Invariance, PTL

\* A node sends no more on a day than its quota and its seed, however often the day is
\* planned, but for the mails of ticks that died before recording them.
THEOREM DayCapAlwaysHolds == Spec => []DayCapHolds
<1>1. ASSUME TypeOK, EngineInv, NEW n \in Nodes
      PROVE  MailsOf(n, mailed) <= Quota(n) + Seeds(Quota(n)) + MailsOf(n, cut)
  <2> DEFINE S == 0..DailyLimit[n]
             B == {i \in S : status[<<n, i>>] = "sent" \/ Unmarked(<<n, i>>)}
  <2>1. DailyLimit[n] \in Nat /\ Quota(n) \in Nat
    BY <1>1, EngineAssumption, QuotaBounds DEF EngineAssumption
  <2>2. IsFiniteSet(S)
    BY <2>1, FS_Interval
  <2>3. \A i \in S : <<n, i>> \in Slots
    BY SlotsAre
  <2>4. \A i \in S : /\ cut[<<n, i>>] \in Nat
                     /\ mailed[<<n, i>>] = cut[<<n, i>>] + (IF i \in B THEN 1 ELSE 0)
    BY <1>1, <2>3 DEF EngineInv, MailAccounted, TypeOK
  <2>5. ASSUME NEW i \in B PROVE IF i = 0 THEN Seeds(Quota(n)) > 0 ELSE i <= Quota(n)
    <3>1. status[<<n, i>>] # "absent"
      <4>1. CASE Unmarked(<<n, i>>)
        <5>1. batch # <<>> /\ pc = "mark" /\ Head(batch) = <<n, i>>
          BY <1>1, <4>1 DEF Unmarked, At, EngineInv, Positioned
        <5>2. Head(batch) = batch[1] /\ 1 \in 1..Len(batch)
          BY <1>1, <5>1, BatchSplit
        <5>3. status[batch[1]] = "queued"
          BY <1>1, <5>1, <5>2 DEF EngineInv, BatchQueued
        <5>. QED
          BY <5>1, <5>2, <5>3
      <4>. QED
        BY <4>1
    <3>2. Allowed(<<n, i>>)
      BY <1>1, <2>3, <3>1 DEF EngineInv, SlotsAllowed
    <3>. QED
      BY <3>2 DEF Allowed
  <2>6. S \cap B = B /\ B \subseteq Nat
    BY <2>1
  <2>7. /\ MailsOf(n, mailed) = Mails(n, mailed, S) /\ MailsOf(n, cut) = Mails(n, cut, S)
    BY DEF MailsOf, Mails, FoldSet, MapThenFoldSet
  <2> HIDE DEF S, B
  <2>8. Mails(n, cut, S) \in Nat /\ Mails(n, mailed, S) = Mails(n, cut, S) + Cardinality(B)
    <3>1. Mails(n, cut, S) \in Nat /\ Mails(n, mailed, S) = Mails(n, cut, S) + Cardinality(S \cap B)
      <4>1. PICK a, c : a = mailed /\ c = cut
        OBVIOUS
      <4>2. OneMore(n, a, c, B, S)
        BY <2>4, <4>1 DEF OneMore
      <4>3. Mails(n, c, S) \in Nat /\ Mails(n, a, S) = Mails(n, c, S) + Cardinality(S \cap B)
        BY <2>2, <4>2, MailsOnce
      <4>. QED
        BY <4>1, <4>3
    <3>. QED
      BY <2>6, <3>1
  <2>9. Cardinality(B) \in Nat /\ Cardinality(B) <= Quota(n) + Seeds(Quota(n))
    BY <2>1, <2>5, <2>6, SlotsCounted
  <2>10. Seeds(Quota(n)) \in Nat
    BY DEF Seeds
  <2>. QED
    BY <2>1, <2>7, <2>8, <2>9, <2>10
<1>2. TypeOK /\ EngineInv => DayCapHolds
  BY <1>1 DEF DayCapHolds
<1>. QED
  BY <1>2, Invariance, PTL

\* A node that is paused, quarantined or blocked sends nothing, whatever was planned,
\* listed or queued for it before.
THEOREM SilentWhenHeldHolds == Spec => SilentWhenHeld
<1>1. ASSUME TypeOK, EngineInv, [Next]_vars, NEW s \in Slots, mailed'[s] > mailed[s]
      PROVE  state[s[1]] \in {"fresh", "warm"}
  <2>1. mailed[s] \in Nat /\ mailed \in [Slots -> Nat]
    BY <1>1 DEF TypeOK
  <2>2. ~ UNCHANGED mailed
    BY <1>1, <2>1
  <2>3. Deliver
    BY <1>1, <2>2 DEF Next, Tick, Outside, Admit, SetDayIndex, SetAuthReady, vars, worldVars, ListActive, Enqueue,
       EnqueueSeed, CreateTest, ListQueued, Gate, Mark, Signal, ListPending, ReadTest, Decide, Update, EndTick, Abort
  <2>4. mailed' = [mailed EXCEPT ![Head(batch)] = @ + 1] /\ pc = "send"
    BY <2>2, <2>3 DEF Deliver, At
  <2>5. s = Head(batch)
    BY <1>1, <2>1, <2>4
  <2>. QED
    BY <1>1, <2>4, <2>5 DEF EngineInv, GatePassed
<1>2. TypeOK /\ EngineInv /\ [Next]_vars =>
        [\A s \in Slots : mailed'[s] > mailed[s] => state[s[1]] \in {"fresh", "warm"}]_vars
  BY <1>1
<1>. QED
  BY <1>2, Invariance, PTL DEF SilentWhenHeld, Spec
=============================================================================
