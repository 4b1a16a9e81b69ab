--------------------------- MODULE LocalFileProofs ---------------------------
(***************************************************************************)
(* Proofs about LocalFile: for any number of callers and processes, and    *)
(* any number of kills and full disks, the file stays a durable list of    *)
(* the calls that were acknowledged.                                       *)
(***************************************************************************)
EXTENDS LocalFile, TLAPS

-----------------------------------------------------------------------------
(* The inductive invariant.                                                *)

\* A call past the lock file owns it, and the mutex of its process.
LockHeld == \A c \in Clients : Inside(c) => lock = c /\ OwnsMutex(c)

\* What a call has read is what it writes behind, and is not torn before it
\* appends.
ReadingIsFresh == \A c \in Clients :
  /\ pc[c] \in {"writing", "appending"} => seen[c] = lines
  /\ pc[c] = "writing" => ~torn

\* Calls are numbered in order, and no two have one number.
Numbered ==
  /\ \A c \in Clients : op[c] <= calls
  /\ \A c, d \in Clients : op[c] = op[d] /\ op[c] # 0 => c = d
  /\ \A i \in DOMAIN lines : lines[i].op <= calls

InFile(o) == \E i \in DOMAIN lines : lines[i].op = o

\* A call is in the file once it has taken effect, and not before.
Effects == \A c \in Clients :
  /\ pc[c] \in {"queued", "reading", "writing", "appending"} => op[c] # 0 /\ ~InFile(op[c])
  /\ pc[c] \in {"writing", "appending"} => ~done[c]
  /\ pc[c] = "releasing" /\ done[c] => op[c] # 0 /\ InFile(op[c])

FileInv ==
  /\ TypeOK
  /\ LockHeld
  /\ LockRemoved
  /\ ReadingIsFresh
  /\ Numbered
  /\ Effects
  /\ ChainLinked

-----------------------------------------------------------------------------
(* Facts about sequences.                                                  *)

\* Waiting callers stand behind the owner of the mutex.
LEMMA HeadStays ==
  ASSUME NEW S, NEW s \in Seq(S), NEW e \in S, s # <<>>
  PROVE  Append(s, e) \in Seq(S) /\ Append(s, e) # <<>> /\ Head(Append(s, e)) = Head(s)
OBVIOUS

\* An entry appended to a file joins the numbers of those before it.
LEMMA NumbersAppend ==
  ASSUME NEW s \in Seq(Entries), NEW e \in Entries
  PROVE  [i \in DOMAIN Append(s, e) |-> Append(s, e)[i].op]
           = Append([i \in DOMAIN s |-> s[i].op], e.op)
<1> DEFINE t == Append(s, e)
           n == [i \in DOMAIN s |-> s[i].op]
           m == [i \in DOMAIN t |-> t[i].op]
<1>1. /\ t \in Seq(Entries) /\ Len(t) = Len(s) + 1 /\ DOMAIN t = 1..(Len(s) + 1)
      /\ DOMAIN s = 1..Len(s) /\ Len(s) \in Nat
      /\ \A i \in 1..Len(s) : t[i] = s[i]
      /\ t[Len(s) + 1] = e
  OBVIOUS
<1>2. \A i \in 1..Len(s) : s[i].op \in Ops
  <2>1. \A i \in 1..Len(s) : s[i] \in Entries
    OBVIOUS
  <2> QED BY <2>1 DEF Entries
<1>3. n \in Seq(Ops) /\ Len(n) = Len(s) /\ \A i \in 1..Len(s) : n[i] = s[i].op
  BY <1>1, <1>2
<1>4. /\ Append(n, e.op) \in Seq(Ops) /\ Len(Append(n, e.op)) = Len(s) + 1
      /\ \A i \in 1..Len(s) : Append(n, e.op)[i] = s[i].op
      /\ Append(n, e.op)[Len(s) + 1] = e.op
  BY <1>1, <1>3 DEF Entries
<1>5. m \in Seq(Ops) /\ Len(m) = Len(s) + 1 /\ \A i \in 1..(Len(s) + 1) : m[i] = t[i].op
  <2>1. \A i \in 1..(Len(s) + 1) : t[i].op \in Ops
    BY <1>1, <1>2 DEF Entries
  <2> QED BY <1>1, <2>1
<1>6. \A i \in 1..(Len(s) + 1) : m[i] = Append(n, e.op)[i]
  <2> SUFFICES ASSUME NEW i \in 1..(Len(s) + 1) PROVE m[i] = Append(n, e.op)[i]
    OBVIOUS
  <2>1. CASE i = Len(s) + 1 BY <2>1, <1>1, <1>4, <1>5
  <2>2. CASE i \in 1..Len(s) BY <2>2, <1>1, <1>4, <1>5
  <2> QED BY <1>1, <2>1, <2>2
<1> QED BY <1>1, <1>4, <1>5, <1>6

-----------------------------------------------------------------------------
(* The invariant holds initially, and every step keeps it.                 *)

\* A process is in the domain of the mutexes.
LEMMA InProcesses == \A c \in Clients : ProcessOf[c] \in Processes
BY FileAssumption DEF Processes

\* The program starts with no call and an empty file.
LEMMA InitInv == Init => FileInv
<1> SUFFICES ASSUME Init PROVE FileInv
  OBVIOUS
<1>1. TypeOK
  <2>1. <<>> \in Seq(Entries) /\ <<>> \in Seq(Clients)
    OBVIOUS
  <2>2. 0 \in 0..MaxCalls /\ 0 \in 0..MaxFaults
    BY FileAssumption
  <2> QED BY <2>1, <2>2 DEF Init, TypeOK
<1> QED BY <1>1, FileAssumption DEF Init, FileInv, LockHeld, LockRemoved, ReadingIsFresh, Numbered, Effects,
                  ChainLinked, Inside, InFile

\* A call leaves the mutex it owns, and the next in line has it.
LEMMA LeaveTyped ==
  ASSUME TypeOK, NEW c \in Clients, OwnsMutex(c), LeaveMutex(c)
  PROVE  queue' \in [Processes -> Seq(Clients)]
BY InProcesses DEF TypeOK, OwnsMutex, LeaveMutex, Mine

\* What a call would write is an entry.
LEMMA EntryTyped ==
  ASSUME FileInv, NEW c \in Clients, pc[c] \in {"writing", "appending"}
  PROVE  Entry(c) \in Entries /\ Entry(c).op = op[c] /\ Entry(c).prev = Prev(seen[c])
<1>1. op[c] \in Ops
  BY DEF FileInv, Effects, TypeOK
<1>2. Prev(seen[c]) \in {0} \cup Ops
  <2>1. CASE seen[c] = <<>> BY <2>1 DEF Prev
  <2>2. CASE seen[c] # <<>>
    <3>1. seen[c] \in Seq(Entries) BY DEF FileInv, TypeOK
    <3>2. Len(seen[c]) \in 1..Len(seen[c]) BY <2>2, <3>1
    <3>3. seen[c][Len(seen[c])] \in Entries BY <3>1, <3>2
    <3> QED BY <2>2, <3>3 DEF Prev, Entries
  <2> QED BY <2>1, <2>2
<1> QED BY <1>1, <1>2 DEF Entry, Entries

\* Every step keeps every variable in its type.
LEMMA TypeStep == FileInv /\ [Next]_vars => TypeOK'
<1> SUFFICES ASSUME FileInv, [Next]_vars
             PROVE  TypeOK'
  OBVIOUS
<1>a. TypeOK BY DEF FileInv
<1> USE FileAssumption, InProcesses DEF Goto, At, Fault
<1>1. ASSUME NEW c \in Clients, Call(c) PROVE TypeOK'
  <2>1. queue' \in [Processes -> Seq(Clients)]
    BY <1>1, <1>a DEF Call, TypeOK
  <2>2. calls + 1 \in Ops
    BY <1>1, <1>a DEF Call, TypeOK, Ops
  <2> QED BY <1>1, <1>a, <2>1, <2>2 DEF Call, TypeOK, file, ledger, Ops
<1>2. ASSUME NEW c \in Clients, Acquire(c) PROVE TypeOK'
  BY <1>2, <1>a DEF Acquire, TypeOK, file, ledger, callVars
<1>3. ASSUME NEW c \in Clients, AcquireFull(c) PROVE TypeOK'
  <2>1. queue' \in [Processes -> Seq(Clients)]
    BY <1>3, <1>a, LeaveTyped DEF AcquireFull
  <2> QED BY <1>3, <1>a, <2>1 DEF AcquireFull, TypeOK, file, ledger, callVars
<1>4. ASSUME NEW c \in Clients, TimeOut(c) PROVE TypeOK'
  <2>1. queue' \in [Processes -> Seq(Clients)]
    BY <1>4, <1>a, LeaveTyped DEF TimeOut
  <2> QED BY <1>4, <1>a, <2>1 DEF TimeOut, TypeOK, file, ledger, callVars
<1>5. ASSUME NEW c \in Clients, Read(c) PROVE TypeOK'
  <2>1. seen' \in [Clients -> Seq(Entries)]
    BY <1>5, <1>a DEF Read, TypeOK
  <2>2. pc' \in [Clients -> {"idle", "queued", "reading", "writing", "appending", "releasing"}]
    BY <1>5, <1>a DEF Read, TypeOK
  <2>3. done' \in [Clients -> BOOLEAN]
    BY <1>5, <1>a DEF Read, TypeOK
  <2> QED BY <1>5, <1>a, <2>1, <2>2, <2>3 DEF Read, TypeOK, file, ledger
<1>6. ASSUME NEW c \in Clients, Replace(c) PROVE TypeOK'
  <2>1. Entry(c) \in Entries BY <1>6, EntryTyped DEF Replace
  <2>2. lines' \in Seq(Entries) BY <1>6, <1>a, <2>1 DEF Replace, TypeOK
  <2> QED BY <1>6, <1>a, <2>2 DEF Replace, TypeOK, ledger
<1>7. ASSUME NEW c \in Clients, BeginAppend(c) PROVE TypeOK'
  BY <1>7, <1>a DEF BeginAppend, TypeOK, ledger, callVars
<1>8. ASSUME NEW c \in Clients, EndAppend(c) PROVE TypeOK'
  <2>1. Entry(c) \in Entries BY <1>8, EntryTyped DEF EndAppend
  <2>2. lines' \in Seq(Entries) BY <1>8, <1>a, <2>1 DEF EndAppend, TypeOK
  <2> QED BY <1>8, <1>a, <2>2 DEF EndAppend, TypeOK, ledger
<1>9. ASSUME NEW c \in Clients, Full(c) PROVE TypeOK'
  BY <1>9, <1>a DEF Full, TypeOK, file, ledger, callVars
<1>10. ASSUME NEW c \in Clients, Release(c) PROVE TypeOK'
  <2>1. OwnsMutex(c) BY <1>10 DEF Release, FileInv, LockHeld, Inside
  <2>2. queue' \in [Processes -> Seq(Clients)]
    BY <1>10, <1>a, <2>1, LeaveTyped DEF Release
  <2>3. acked' \subseteq Ops
    BY <1>10, <1>a DEF Release, Answered, FileInv, Effects, TypeOK
  <2> QED BY <1>10, <1>a, <2>2, <2>3 DEF Release, Released, TypeOK, file, callVars
<1>11. ASSUME NEW p \in Processes, Kill(p) PROVE TypeOK'
  <2>1. queue' \in [Processes -> Seq(Clients)]
    BY <1>11, <1>a DEF Kill, TypeOK
  <2>2. left' \in BOOLEAN
    BY <1>11, <1>a DEF Kill, TypeOK
  <2> QED BY <1>11, <1>a, <2>1, <2>2 DEF Kill, TypeOK, file, callVars
<1>12. CASE UNCHANGED vars
  BY <1>12, <1>a DEF vars, TypeOK, file, ledger, callVars
<1> QED BY <1>1, <1>2, <1>3, <1>4, <1>5, <1>6, <1>7, <1>8, <1>9, <1>10, <1>11, <1>12
        DEF Next, Step

\* One call at a time is past the lock file.
LEMMA Alone ==
  ASSUME FileInv, NEW c \in Clients, NEW d \in Clients, Inside(c), Inside(d)
  PROVE  c = d
BY DEF FileInv, LockHeld

\* A call comes to own the lock file as it creates it, and gives up the mutex only as it
\* leaves.
LEMMA LockStep == FileInv /\ [Next]_vars => LockHeld'
<1> SUFFICES ASSUME FileInv, [Next]_vars, NEW d \in Clients, Inside(d)'
             PROVE  (lock = d /\ OwnsMutex(d))'
  BY DEF LockHeld
<1>a. TypeOK /\ LockHeld BY DEF FileInv
<1> USE FileAssumption, InProcesses DEF Goto, At, OwnsMutex, Mine, Inside
<1>1. ASSUME NEW c \in Clients, Call(c) PROVE (lock = d /\ OwnsMutex(d))'
  <2>1. c # d /\ Inside(d) BY <1>1, <1>a DEF Call, TypeOK
  <2>2. lock = d /\ Mine(d) # <<>> /\ Head(Mine(d)) = d BY <2>1, <1>a DEF LockHeld
  <2>3. CASE ProcessOf[d] = ProcessOf[c]
    <3>1. Mine(d) \in Seq(Clients) BY <1>a DEF TypeOK
    <3>2. Mine(d)' = Append(Mine(d), c) BY <1>1, <1>a, <2>3 DEF Call, TypeOK
    <3> QED BY <1>1, <2>2, <3>1, <3>2, HeadStays DEF Call
  <2>4. CASE ProcessOf[d] # ProcessOf[c]
    <3>1. Mine(d)' = Mine(d) BY <1>1, <1>a, <2>4 DEF Call, TypeOK
    <3> QED BY <1>1, <2>2, <3>1 DEF Call
  <2> QED BY <2>3, <2>4
<1>2. ASSUME NEW c \in Clients, Acquire(c) PROVE (lock = d /\ OwnsMutex(d))'
  BY <1>2, <1>a DEF Acquire, Free, TypeOK, LockHeld
<1>3. ASSUME NEW c \in Clients, AcquireFull(c) PROVE (lock = d /\ OwnsMutex(d))'
  BY <1>3, <1>a DEF AcquireFull, Free, TypeOK, LockHeld
<1>4. ASSUME NEW c \in Clients, TimeOut(c) PROVE (lock = d /\ OwnsMutex(d))'
  <2>1. c # d /\ Inside(d) BY <1>4, <1>a DEF TimeOut, TypeOK
  <2>2. ProcessOf[d] # ProcessOf[c] BY <1>4, <1>a, <2>1 DEF TimeOut, LockHeld
  <2>3. Mine(d)' = Mine(d) BY <1>4, <1>a, <2>2 DEF TimeOut, TypeOK, LeaveMutex
  <2> QED BY <1>4, <1>a, <2>1, <2>3 DEF TimeOut, LockHeld
<1>5. ASSUME NEW c \in Clients, Read(c) \/ Replace(c) \/ BeginAppend(c) \/ EndAppend(c) \/ Full(c)
      PROVE  (lock = d /\ OwnsMutex(d))'
  <2>1. Inside(d) BY <1>5, <1>a DEF Read, Replace, BeginAppend, EndAppend, Full, TypeOK
  <2>2. UNCHANGED <<lock, queue>> BY <1>5 DEF Read, Replace, BeginAppend, EndAppend, Full
  <2> QED BY <1>a, <2>1, <2>2 DEF LockHeld
<1>6. ASSUME NEW c \in Clients, Release(c) PROVE (lock = d /\ OwnsMutex(d))'
  <2>1. c # d /\ Inside(d) BY <1>6, <1>a DEF Release, TypeOK
  <2>2. Inside(c) BY <1>6 DEF Release
  <2> QED BY <2>1, <2>2, Alone
<1>7. ASSUME NEW p \in Processes, Kill(p) PROVE (lock = d /\ OwnsMutex(d))'
  <2>1. ProcessOf[d] # p /\ Inside(d) BY <1>7, <1>a DEF Kill, TypeOK
  <2> QED BY <1>7, <1>a, <2>1 DEF Kill, LockHeld, TypeOK
<1>8. CASE UNCHANGED vars
  BY <1>8, <1>a DEF vars, LockHeld
<1> QED BY <1>1, <1>2, <1>3, <1>4, <1>5, <1>6, <1>7, <1>8 DEF Next, Step

\* A lock file is removed by its call, or was left by a fault.
LEMMA RemovedStep == FileInv /\ [Next]_vars => LockRemoved'
<1> SUFFICES ASSUME FileInv, [Next]_vars
             PROVE  LockRemoved'
  OBVIOUS
<1>a. TypeOK /\ LockHeld /\ LockRemoved BY DEF FileInv
<1> USE FileAssumption DEF Goto, At, LockRemoved, Inside
<1>1. ASSUME NEW c \in Clients, Call(c) \/ TimeOut(c) PROVE LockRemoved'
  BY <1>1, <1>a DEF Call, TimeOut, TypeOK, ledger
<1>2. ASSUME NEW c \in Clients, Acquire(c) PROVE LockRemoved'
  BY <1>2, <1>a DEF Acquire, TypeOK
<1>3. ASSUME NEW c \in Clients, AcquireFull(c) PROVE LockRemoved'
  BY <1>3 DEF AcquireFull
<1>4. ASSUME NEW c \in Clients, Read(c) \/ Replace(c) \/ BeginAppend(c) \/ EndAppend(c) \/ Full(c)
      PROVE  LockRemoved'
  <2>1. UNCHANGED <<lock, left>>
    BY <1>4 DEF Read, Replace, BeginAppend, EndAppend, Full, ledger
  <2>2. \A d \in Clients : Inside(d) => Inside(d)'
    BY <1>4, <1>a DEF Read, Replace, BeginAppend, EndAppend, Full, TypeOK
  <2>3. lock \in Clients \cup {Nobody} BY <1>a DEF TypeOK
  <2> QED BY <1>a, <2>1, <2>2, <2>3
<1>5. ASSUME NEW c \in Clients, Release(c) PROVE LockRemoved'
  BY <1>5 DEF Release, Released
<1>6. ASSUME NEW p \in Processes, Kill(p) PROVE LockRemoved'
  <2>1. lock \in Clients \cup {Nobody} BY <1>a DEF TypeOK
  <2> QED BY <1>6, <1>a, <2>1 DEF Kill, TypeOK
<1>7. CASE UNCHANGED vars
  BY <1>7, <1>a DEF vars, ledger
<1> QED BY <1>1, <1>2, <1>3, <1>4, <1>5, <1>6, <1>7 DEF Next, Step

\* Only a call that has the lock file changes the file, and it reads before it writes.
LEMMA ReadingStep == FileInv /\ [Next]_vars => ReadingIsFresh'
<1> SUFFICES ASSUME FileInv, [Next]_vars, NEW d \in Clients
             PROVE  /\ pc[d]' \in {"writing", "appending"} => seen[d]' = lines'
                    /\ pc[d]' = "writing" => ~torn'
  BY DEF ReadingIsFresh
<1> DEFINE Fresh == /\ pc[d] \in {"writing", "appending"} => seen[d] = lines
                    /\ pc[d] = "writing" => ~torn
<1> SUFFICES Fresh'
  OBVIOUS
<1>a. TypeOK /\ Fresh BY DEF FileInv, ReadingIsFresh
<1> USE FileAssumption DEF Goto, At
<1>1. ASSUME NEW c \in Clients, Call(c) \/ Acquire(c) \/ AcquireFull(c) \/ TimeOut(c) \/ Release(c)
      PROVE  Fresh'
  <2>1. UNCHANGED <<lines, torn, seen>>
    BY <1>1 DEF Call, Acquire, AcquireFull, TimeOut, Release, file, callVars
  <2>2. pc[d]' \in {"writing", "appending"} => pc[d]' = pc[d]
    BY <1>1, <1>a DEF Call, Acquire, AcquireFull, TimeOut, Release, TypeOK
  <2> QED BY <1>a, <2>1, <2>2
<1>2. ASSUME NEW c \in Clients, Full(c) PROVE Fresh'
  <2>1. UNCHANGED <<lines, torn, seen>> BY <1>2 DEF Full, file, callVars
  <2>2. pc[d]' \in {"writing", "appending"} => pc[d]' = pc[d]
    BY <1>2, <1>a DEF Full, TypeOK
  <2> QED BY <1>a, <2>1, <2>2
<1>3. ASSUME NEW c \in Clients, Read(c) PROVE Fresh'
  <2>1. CASE c = d BY <1>3, <1>a, <2>1 DEF Read, Readable, TypeOK, file
  <2>2. CASE c # d
    <3>1. UNCHANGED <<lines, torn>> /\ pc[d]' = pc[d] /\ seen[d]' = seen[d]
      BY <1>3, <1>a, <2>2 DEF Read, TypeOK, file
    <3> QED BY <1>a, <3>1
  <2> QED BY <2>1, <2>2
<1>4. ASSUME NEW c \in Clients, Replace(c) \/ BeginAppend(c) \/ EndAppend(c) PROVE Fresh'
  <2>1. Inside(c) BY <1>4 DEF Replace, BeginAppend, EndAppend, Inside
  <2>2. CASE c = d
    <3>1. CASE Replace(c) \/ EndAppend(c)
      BY <3>1, <1>a, <2>2 DEF Replace, EndAppend, TypeOK
    <3>2. CASE BeginAppend(c)
      BY <3>2, <1>a, <2>2 DEF BeginAppend, TypeOK, callVars
    <3> QED BY <1>4, <3>1, <3>2
  <2>3. CASE c # d
    <3>1. ~Inside(d) BY <2>1, <2>3, Alone
    <3>2. pc[d]' = pc[d] BY <1>4, <1>a, <2>3 DEF Replace, BeginAppend, EndAppend, TypeOK
    <3> QED BY <3>1, <3>2 DEF Inside
  <2> QED BY <2>2, <2>3
<1>5. ASSUME NEW p \in Processes, Kill(p) PROVE Fresh'
  <2>1. UNCHANGED <<lines, torn, seen>> BY <1>5 DEF Kill, file, callVars
  <2>2. pc[d]' \in {"writing", "appending"} => pc[d]' = pc[d]
    BY <1>5, <1>a DEF Kill, TypeOK
  <2> QED BY <1>a, <2>1, <2>2
<1>6. CASE UNCHANGED vars
  BY <1>6, <1>a DEF vars, file, callVars
<1> QED BY <1>1, <1>2, <1>3, <1>4, <1>5, <1>6 DEF Next, Step

\* What a write adds to the file.
LEMMA Written ==
  ASSUME FileInv, NEW c \in Clients, Replace(c) \/ EndAppend(c)
  PROVE  /\ pc[c] \in {"writing", "appending"}
         /\ Entry(c) \in Entries /\ Entry(c).op = op[c] /\ Entry(c).prev = Prev(lines)
         /\ lines' = Append(lines, Entry(c))
<1>1. pc[c] \in {"writing", "appending"} BY DEF Replace, EndAppend, At
<1>2. seen[c] = lines BY <1>1 DEF FileInv, ReadingIsFresh
<1>3. lines' = Append(lines, Entry(c)) BY <1>2 DEF Replace, EndAppend
<1> QED BY <1>1, <1>2, <1>3, EntryTyped

\* The places of a file with an entry appended.
LEMMA Places ==
  ASSUME NEW s \in Seq(Entries), NEW e \in Entries
  PROVE  /\ DOMAIN Append(s, e) = 1..(Len(s) + 1) /\ DOMAIN s = 1..Len(s) /\ Len(s) \in Nat
         /\ \A i \in 1..Len(s) : Append(s, e)[i] = s[i]
         /\ Append(s, e)[Len(s) + 1] = e
OBVIOUS

\* A writer links its event to the last one there is.
LEMMA ChainStep == FileInv /\ [Next]_vars => ChainLinked'
<1> SUFFICES ASSUME FileInv, [Next]_vars
             PROVE  ChainLinked'
  OBVIOUS
<1>a. TypeOK /\ ChainLinked BY DEF FileInv
<1>1. ASSUME NEW c \in Clients, Replace(c) \/ EndAppend(c) PROVE ChainLinked'
  <2>1. lines \in Seq(Entries) BY <1>a DEF TypeOK
  <2>2. lines' = Append(lines, Entry(c)) /\ Entry(c) \in Entries /\ Entry(c).prev = Prev(lines)
    BY <1>1, Written
  <2> SUFFICES ASSUME NEW i \in DOMAIN lines'
               PROVE  lines'[i].prev = IF i = 1 THEN 0 ELSE lines'[i - 1].op
    BY DEF ChainLinked
  <2>3. i \in 1..(Len(lines) + 1) /\ Len(lines) \in Nat BY <2>1, <2>2, Places
  <2>4. CASE i \in 1..Len(lines)
    <3>1. lines'[i] = lines[i] BY <2>1, <2>2, <2>4, Places
    <3>2. i # 1 => lines'[i - 1] = lines[i - 1] BY <2>1, <2>2, <2>3, <2>4, Places
    <3>3. lines[i].prev = IF i = 1 THEN 0 ELSE lines[i - 1].op
      BY <1>a, <2>1, <2>2, <2>4, Places DEF ChainLinked
    <3> QED BY <3>1, <3>2, <3>3
  <2>5. CASE i = Len(lines) + 1
    <3>1. lines'[i].prev = Prev(lines) BY <2>1, <2>2, <2>5, Places
    <3>2. CASE lines = <<>> BY <2>5, <3>1, <3>2 DEF Prev
    <3>3. CASE lines # <<>>
      <4>1. Len(lines) \in 1..Len(lines) /\ i - 1 = Len(lines) /\ i # 1
        BY <2>1, <2>3, <2>5, <3>3
      <4>2. lines'[i - 1] = lines[Len(lines)] BY <2>1, <2>2, <4>1, Places
      <4> QED BY <3>1, <3>3, <4>1, <4>2 DEF Prev
    <3> QED BY <3>2, <3>3
  <2> QED BY <2>3, <2>4, <2>5
<1>2. CASE UNCHANGED lines BY <1>2, <1>a DEF ChainLinked
<1>3. \/ UNCHANGED lines
      \/ \E c \in Clients : Replace(c) \/ EndAppend(c)
  BY DEF Next, Step, Call, Acquire, AcquireFull, TimeOut, Read, BeginAppend, Full, Release,
         Kill, vars, file
<1> QED BY <1>1, <1>2, <1>3

\* The calls of a file with an entry appended.
LEMMA CallsAppend ==
  ASSUME NEW s \in Seq(Entries), NEW e \in Entries, NEW o
  PROVE  (\E i \in DOMAIN Append(s, e) : Append(s, e)[i].op = o)
           <=> (\E i \in DOMAIN s : s[i].op = o) \/ e.op = o
<1>1. ASSUME NEW i \in DOMAIN Append(s, e), Append(s, e)[i].op = o
      PROVE  (\E j \in DOMAIN s : s[j].op = o) \/ e.op = o
  <2>1. CASE i \in 1..Len(s) BY <1>1, <2>1, Places
  <2>2. CASE i = Len(s) + 1 BY <1>1, <2>2, Places
  <2>3. i \in 1..(Len(s) + 1) /\ Len(s) \in Nat BY <1>1, Places
  <2> QED BY <2>1, <2>2, <2>3
<1>2. ASSUME NEW i \in DOMAIN s, s[i].op = o
      PROVE  \E j \in DOMAIN Append(s, e) : Append(s, e)[j].op = o
  <2>1. i \in 1..Len(s) /\ Len(s) \in Nat BY <1>2, Places
  <2>2. i \in DOMAIN Append(s, e) /\ Append(s, e)[i] = s[i] BY <2>1, Places
  <2> QED BY <1>2, <2>2
<1>3. ASSUME e.op = o
      PROVE  \E j \in DOMAIN Append(s, e) : Append(s, e)[j].op = o
  <2>1. Len(s) + 1 \in DOMAIN Append(s, e) /\ Append(s, e)[Len(s) + 1] = e BY Places
  <2> QED BY <1>3, <2>1
<1> QED BY <1>1, <1>2, <1>3

\* A new call takes a number nobody has, and a write adds its own.
LEMMA NumberedStep == FileInv /\ [Next]_vars => Numbered'
<1> SUFFICES ASSUME FileInv, [Next]_vars
             PROVE  Numbered'
  OBVIOUS
<1>a. TypeOK /\ Numbered /\ calls \in Nat /\ \A c \in Clients : op[c] \in Nat
  BY FileAssumption DEF FileInv, TypeOK, Ops
<1>1. ASSUME NEW c \in Clients, Call(c) PROVE Numbered'
  <2>1. calls' = calls + 1 /\ op' = [op EXCEPT ![c] = calls + 1] /\ lines' = lines
    BY <1>1 DEF Call, file
  <2>2. op[c]' = calls + 1 /\ \A d \in Clients \ {c} : op[d]' = op[d] /\ op[d] <= calls
    BY <1>a, <2>1 DEF TypeOK, Numbered
  <2>3. \A d \in Clients : op[d]' <= calls'
    BY <1>a, <2>1, <2>2
  <2>4. \A d, e \in Clients : op[d]' = op[e]' /\ op[d]' # 0 => d = e
    BY <1>a, <2>2 DEF Numbered
  <2>5. \A i \in DOMAIN lines : lines[i].op \in Nat
    <3>1. \A i \in DOMAIN lines : lines[i] \in Entries BY <1>a DEF TypeOK
    <3> QED BY <3>1 DEF Entries, Ops
  <2>6. \A i \in DOMAIN lines' : lines'[i].op <= calls'
    BY <1>a, <2>1, <2>5 DEF Numbered
  <2> QED BY <2>3, <2>4, <2>6 DEF Numbered
<1>2. ASSUME NEW c \in Clients, Replace(c) \/ EndAppend(c) PROVE Numbered'
  <2>1. UNCHANGED <<op, calls>> BY <1>2 DEF Replace, EndAppend
  <2>2. lines' = Append(lines, Entry(c)) /\ Entry(c) \in Entries /\ Entry(c).op = op[c]
        /\ lines \in Seq(Entries)
    BY <1>2, <1>a, Written DEF TypeOK
  <2>3. \A i \in DOMAIN lines' : lines'[i].op <= calls
    <3> SUFFICES ASSUME NEW i \in DOMAIN lines' PROVE lines'[i].op <= calls
      OBVIOUS
    <3>1. lines'[i].op = op[c] \/ \E j \in DOMAIN lines : lines[j].op = lines'[i].op
      BY <2>2, CallsAppend
    <3> QED BY <3>1, <1>a DEF Numbered
  <2> QED BY <1>a, <2>1, <2>3 DEF Numbered
<1>3. CASE UNCHANGED <<op, calls, lines>> BY <1>3, <1>a DEF Numbered
<1>4. \/ UNCHANGED <<op, calls, lines>>
      \/ \E c \in Clients : Call(c) \/ Replace(c) \/ EndAppend(c)
  BY DEF Next, Step, Acquire, AcquireFull, TimeOut, Read, BeginAppend, Full, Release,
         Kill, vars, file, callVars
<1> QED BY <1>1, <1>2, <1>3, <1>4

\* A call adds its own number and no other's.
LEMMA EffectsStep == FileInv /\ [Next]_vars => Effects'
<1> DEFINE Effect(d) ==
      /\ pc[d] \in {"queued", "reading", "writing", "appending"} => op[d] # 0 /\ ~InFile(op[d])
      /\ pc[d] \in {"writing", "appending"} => ~done[d]
      /\ pc[d] = "releasing" /\ done[d] => op[d] # 0 /\ InFile(op[d])
<1> SUFFICES ASSUME FileInv, [Next]_vars, NEW d \in Clients
             PROVE  Effect(d)'
  BY DEF Effects
<1>a. TypeOK /\ Numbered /\ Effect(d) BY DEF FileInv, Effects
<1> USE FileAssumption DEF Goto, At
<1>1. ASSUME NEW c \in Clients, Call(c) PROVE Effect(d)'
  <2>1. lines' = lines BY <1>1 DEF Call, file
  <2>2. CASE c = d
    <3>1. pc[d]' = "queued" /\ op[d]' = calls + 1 BY <1>1, <1>a, <2>2 DEF Call, TypeOK
    <3>2. calls \in Nat BY <1>a DEF TypeOK
    <3>3. ~InFile(calls + 1)
      <4>1. \A i \in DOMAIN lines : lines[i] \in Entries BY <1>a DEF TypeOK
      <4>2. \A i \in DOMAIN lines : lines[i].op \in Nat BY <4>1 DEF Entries, Ops
      <4> QED BY <1>a, <3>2, <4>2 DEF Numbered, InFile
    <3> QED BY <2>1, <3>1, <3>2, <3>3 DEF InFile
  <2>3. CASE c # d
    <3>1. pc[d]' = pc[d] /\ op[d]' = op[d] /\ done[d]' = done[d]
      BY <1>1, <1>a, <2>3 DEF Call, TypeOK
    <3> QED BY <1>a, <2>1, <3>1 DEF InFile
  <2> QED BY <2>2, <2>3
<1>2. ASSUME NEW c \in Clients, Acquire(c) \/ AcquireFull(c) \/ TimeOut(c) \/ BeginAppend(c)
                                  \/ Full(c) \/ Release(c)
      PROVE  Effect(d)'
  <2>1. UNCHANGED <<lines, op, done>>
    BY <1>2 DEF Acquire, AcquireFull, TimeOut, BeginAppend, Full, Release, file, callVars
  <2>2. \/ pc[d]' = pc[d]
        \/ pc[d] = "queued" /\ pc[d]' = "reading"
        \/ pc[d]' = "idle"
        \/ pc[d] = "writing" /\ pc[d]' = "appending"
        \/ pc[d] \in {"writing", "appending"} /\ pc[d]' = "releasing"
    BY <1>2, <1>a DEF Acquire, AcquireFull, TimeOut, BeginAppend, Full, Release, TypeOK
  <2> QED BY <1>a, <2>1, <2>2 DEF InFile
<1>3. ASSUME NEW c \in Clients, Read(c) PROVE Effect(d)'
  <2>1. UNCHANGED <<lines, op>> BY <1>3 DEF Read, file
  <2>2. CASE c = d
    <3>1. pc[d] = "reading" /\ ~done[d]' /\ pc[d]' \in {"writing", "releasing"}
      BY <1>3, <1>a, <2>2 DEF Read, TypeOK
    <3> QED BY <1>a, <2>1, <3>1 DEF InFile
  <2>3. CASE c # d
    <3>1. pc[d]' = pc[d] /\ done[d]' = done[d] BY <1>3, <1>a, <2>3 DEF Read, TypeOK
    <3> QED BY <1>a, <2>1, <3>1 DEF InFile
  <2> QED BY <2>2, <2>3
<1>4. ASSUME NEW c \in Clients, Replace(c) \/ EndAppend(c) PROVE Effect(d)'
  <2>1. op' = op BY <1>4 DEF Replace, EndAppend
  <2>2. lines' = Append(lines, Entry(c)) /\ Entry(c) \in Entries /\ Entry(c).op = op[c]
        /\ lines \in Seq(Entries) /\ pc[c] \in {"writing", "appending"}
    BY <1>4, <1>a, Written DEF TypeOK
  <2>3. \A o : InFile(o)' <=> InFile(o) \/ op[c] = o
    BY <2>2, CallsAppend DEF InFile
  <2>4. op[c] # 0 BY <2>2 DEF FileInv, Effects
  <2>5. CASE c = d
    <3>1. pc[d]' = "releasing" /\ done[d]' BY <1>4, <1>a, <2>5 DEF Replace, EndAppend, TypeOK
    <3> QED BY <2>1, <2>3, <2>4, <2>5, <3>1
  <2>6. CASE c # d
    <3>1. pc[d]' = pc[d] /\ done[d]' = done[d]
      BY <1>4, <1>a, <2>6 DEF Replace, EndAppend, TypeOK
    <3>2. op[d] # op[c] BY <1>a, <2>4, <2>6 DEF Numbered
    <3>3. InFile(op[d])' <=> InFile(op[d]) BY <2>1, <2>3, <3>2
    <3> QED BY <1>a, <2>1, <3>1, <3>3
  <2> QED BY <2>5, <2>6
<1>5. ASSUME NEW p \in Processes, Kill(p) PROVE Effect(d)'
  <2>1. UNCHANGED <<lines, op, done>> BY <1>5 DEF Kill, file, callVars
  <2>2. pc[d]' = pc[d] \/ pc[d]' = "idle" BY <1>5, <1>a DEF Kill, TypeOK
  <2> QED BY <1>a, <2>1, <2>2 DEF InFile
<1>6. CASE UNCHANGED vars
  BY <1>6, <1>a DEF vars, file, callVars, InFile
<1> QED BY <1>1, <1>2, <1>3, <1>4, <1>5, <1>6 DEF Next, Step

\* The invariant holds in every state of the program.
LEMMA Invariance == Spec => []FileInv
<1>1. FileInv /\ [Next]_vars => FileInv'
  BY TypeStep, LockStep, RemovedStep, ReadingStep, NumberedStep, EffectsStep, ChainStep
     DEF FileInv
<1> QED BY InitInv, <1>1, PTL DEF Spec

-----------------------------------------------------------------------------
(* Theorems.                                                               *)

\* Every variable keeps its type, whatever calls, kills and full disks
\* (json-file-store.ts, local-file-audit-log.ts).
THEOREM TypeCorrect == Spec => []TypeOK
BY Invariance, PTL DEF FileInv

\* The mutex and the lock file of withFileLock together let one call at a time at
\* the file, whatever processes the calls run in and however they end.
THEOREM MutualExclusion == Spec => []Exclusive
<1>1. FileInv => Exclusive
  BY Alone DEF Exclusive
<1> QED BY Invariance, <1>1, PTL

\* acquireFileLock and withFileLock leave no lock file behind but for a kill or a disk
\* too full for the lock file itself.
THEOREM LocksRemoved == Spec => []LockRemoved
BY Invariance, PTL DEF FileInv

\* The log of local-file-audit-log.ts is one chain from its first event, whichever
\* processes append to it and however their appends end.
THEOREM LogIsChained == Spec => []ChainLinked
BY Invariance, PTL DEF FileInv

\* readLastHashFromDisk throws on a line that was cut, so nothing is ever written
\* behind one.
THEOREM CutLogStops == Spec => TornStops
<1>1. FileInv /\ [Next]_vars => [Cut => Cut' /\ lines' = lines]_vars
  <2> SUFFICES ASSUME FileInv, Next, Cut
               PROVE  Cut' /\ lines' = lines
    OBVIOUS
  <2>a. TypeOK /\ torn /\ \A d \in Clients : pc[d] \notin {"writing", "appending"}
    BY DEF FileInv, ReadingIsFresh, Cut
  <2>1. UNCHANGED file
    BY <2>a DEF Next, Step, Call, Acquire, AcquireFull, TimeOut, Read, Replace, BeginAppend,
                EndAppend, Full, Release, Kill, At
  <2>2. \A d \in Clients : pc[d]' # "appending"
    <3>1. ASSUME NEW c \in Clients, NEW d \in Clients, Call(c) \/ Step(c) \/ AcquireFull(c) \/ Full(c)
          PROVE  pc[d]' # "appending"
      BY <2>a, <3>1 DEF Step, Call, Acquire, AcquireFull, TimeOut, Read, Replace, BeginAppend,
                        EndAppend, Full, Release, At, Goto, TypeOK
    <3>2. ASSUME NEW p \in Processes, NEW d \in Clients, Kill(p)
          PROVE  pc[d]' # "appending"
      BY <2>a, <3>2 DEF Kill, TypeOK
    <3> QED BY <3>1, <3>2 DEF Next
  <2> QED BY <2>a, <2>1, <2>2 DEF Cut, file
<1> QED BY Invariance, <1>1, PTL DEF Spec, TornStops

-----------------------------------------------------------------------------
(* The refinement.                                                         *)

Numbers == [i \in DOMAIN lines |-> lines[i].op]

\* The abstract list holds the calls that are in the file.
LEMMA HeldIsInFile == \A o : o \in Stored!Held(Numbers) <=> InFile(o)
BY DEF Stored!Held, Numbers, InFile

\* A file of the local store is a durable list: its calls are added one at a time, each
\* once, and none is acknowledged that is not there or ever lost.
THEOREM ImplementsDurableList == Spec => StoredSpec
<1>1. Init => Stored!Init
  BY DEF Init, Stored!Init
<1>2. FileInv /\ [Next]_vars => [Stored!Next]_<<Numbers, acked>>
  <2> SUFFICES ASSUME FileInv, [Next]_vars
               PROVE  [Stored!Next]_<<Numbers, acked>>
    OBVIOUS
  <2>1. ASSUME NEW c \in Clients, Replace(c) \/ EndAppend(c)
        PROVE  Stored!Next
    <3>1. lines' = Append(lines, Entry(c)) /\ Entry(c) \in Entries /\ Entry(c).op = op[c]
          /\ lines \in Seq(Entries) /\ pc[c] \in {"writing", "appending"}
      BY <2>1, Written DEF FileInv, TypeOK
    <3>2. Numbers' = Append(Numbers, op[c]) BY <3>1, NumbersAppend DEF Numbers
    <3>3. op[c] \in Ops /\ op[c] \notin Stored!Held(Numbers)
      BY <3>1, HeldIsInFile DEF FileInv, Effects, TypeOK
    <3>4. acked' = acked BY <2>1 DEF Replace, EndAppend, ledger
    <3>5. \E o \in Ops : Stored!Add(o)
      BY <3>2, <3>3, <3>4 DEF Stored!Add, Numbers
    <3> QED BY <3>5 DEF Stored!Next
  <2>2. ASSUME NEW c \in Clients, Release(c)
        PROVE  [Stored!Next]_<<Numbers, acked>>
    <3>1. lines' = lines /\ acked' = acked \cup Answered(c) /\ pc[c] = "releasing"
      BY <2>2 DEF Release, file, At
    <3>2. Numbers' = Numbers BY <3>1 DEF Numbers
    <3>3. CASE done[c]
      <4>1. op[c] \in Ops /\ op[c] \in Stored!Held(Numbers)
        BY <3>1, <3>3, HeldIsInFile DEF FileInv, Effects, TypeOK
      <4>2. \E o \in Ops : Stored!Acknowledge(o)
        BY <3>1, <3>2, <3>3, <4>1 DEF Stored!Acknowledge, Answered, Numbers
      <4> QED BY <4>2 DEF Stored!Next
    <3>4. CASE ~done[c] BY <3>1, <3>2, <3>4 DEF Answered
    <3> QED BY <3>3, <3>4
  <2>3. CASE UNCHANGED <<lines, acked>> BY <2>3 DEF Numbers
  <2>4. \/ UNCHANGED <<lines, acked>>
        \/ \E c \in Clients : Replace(c) \/ EndAppend(c) \/ Release(c)
    BY DEF Next, Step, Call, Acquire, AcquireFull, TimeOut, Read, BeginAppend, Full, Kill,
           vars, file, ledger
  <2> QED BY <2>1, <2>2, <2>3, <2>4
<1> QED BY Invariance, <1>1, <1>2, PTL DEF Spec, StoredSpec, Stored!Spec, Numbers
=============================================================================
