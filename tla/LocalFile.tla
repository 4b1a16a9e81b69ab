------------------------------ MODULE LocalFile -----------------------------
(***************************************************************************)
(* One file of the local store, shared by the gateway and the workers: a   *)
(* JSON document that transactions read and replace, or the audit log, to  *)
(* which events chained by hash are appended.  Within a process a mutex    *)
(* queues the calls on the file; between processes a lock file excludes    *)
(* them, polled for ten seconds.                                           *)
(*                                                                         *)
(* A process may be killed at any point and leaves its lock file behind;   *)
(* the disk may be full, which tears the line that is being appended.      *)
(***************************************************************************)
EXTENDS Naturals, Sequences

CONSTANTS Clients,          \* callers, each with one call at a time
          ProcessOf,        \* client -> the process it runs in
          Nobody,           \* no client
          MaxCalls,         \* calls considered
          MaxFaults         \* kills and full disks considered

Processes == {ProcessOf[c] : c \in Clients}
Ops == 1..MaxCalls

ASSUME FileAssumption ==
  /\ DOMAIN ProcessOf = Clients
  /\ Nobody \notin Clients
  /\ MaxCalls \in Nat /\ MaxFaults \in Nat

VARIABLES kind,             \* "document" or "log"
          lines,            \* the entries of the file
          torn,             \* whether a piece of a line follows them
          lock,             \* the client that created the lock file, or Nobody
          queue,            \* process -> calls waiting on its mutex, the first owns it
          pc, op,           \* each client's position and call
          seen,             \* the entries it read
          done,             \* whether its call has taken effect
          acked,            \* calls that were answered with success
          left,             \* whether a lock file was left behind by a fault
          calls, faults

vars == <<kind, lines, torn, lock, queue, pc, op, seen, done, acked, left, calls, faults>>

file == <<lines, torn>>
callVars == <<op, seen, done>>
ledger == <<acked, left>>

\* An entry names its operation and, in the log, its predecessor's hash.
Entries == [op : Ops, prev : {0} \cup Ops]

TypeOK ==
  /\ kind \in {"document", "log"}
  /\ lines \in Seq(Entries)
  /\ torn \in BOOLEAN
  /\ lock \in Clients \cup {Nobody}
  /\ queue \in [Processes -> Seq(Clients)]
  /\ pc \in [Clients -> {"idle", "queued", "reading", "writing", "appending", "releasing"}]
  /\ op \in [Clients -> {0} \cup Ops]
  /\ seen \in [Clients -> Seq(Entries)]
  /\ done \in [Clients -> BOOLEAN]
  /\ acked \subseteq Ops /\ left \in BOOLEAN
  /\ calls \in 0..MaxCalls /\ faults \in 0..MaxFaults

Init ==
  /\ kind \in {"document", "log"}
  /\ lines = <<>> /\ torn = FALSE
  /\ lock = Nobody
  /\ queue = [p \in Processes |-> <<>>]
  /\ pc = [c \in Clients |-> "idle"]
  /\ op = [c \in Clients |-> 0]
  /\ seen = [c \in Clients |-> <<>>]
  /\ done = [c \in Clients |-> FALSE]
  /\ acked = {} /\ left = FALSE
  /\ calls = 0 /\ faults = 0

-----------------------------------------------------------------------------
(* The mutex and the lock file.                                            *)

At(c, step) == pc[c] = step
Goto(c, step) == pc' = [pc EXCEPT ![c] = step]
Inside(c) == pc[c] \in {"reading", "writing", "appending", "releasing"}
Mine(c) == queue[ProcessOf[c]]
OwnsMutex(c) == Mine(c) # <<>> /\ Head(Mine(c)) = c
LeaveMutex(c) == queue' = [queue EXCEPT ![ProcessOf[c]] = Tail(@)]
Fault == faults < MaxFaults /\ faults' = faults + 1

Call(c) ==
  /\ At(c, "idle")
  /\ calls < MaxCalls
  /\ calls' = calls + 1
  /\ op' = [op EXCEPT ![c] = calls + 1]
  /\ queue' = [queue EXCEPT ![ProcessOf[c]] = Append(@, c)]
  /\ Goto(c, "queued")
  /\ UNCHANGED <<kind, file, lock, seen, done, ledger, faults>>

\* Mutant: the lock file is opened whether or not it exists.
Free_Always == TRUE
Free == lock = Nobody

Acquire(c) ==
  /\ At(c, "queued") /\ OwnsMutex(c)
  /\ Free
  /\ lock' = c
  /\ Goto(c, "reading")
  /\ UNCHANGED <<kind, file, queue, callVars, ledger, calls, faults>>

\* The lock file is created but its process id cannot be written: the call
\* throws and the lock file stays.
AcquireFull(c) ==
  /\ At(c, "queued") /\ OwnsMutex(c)
  /\ Free
  /\ Fault
  /\ lock' = c
  /\ left' = TRUE
  /\ LeaveMutex(c)
  /\ Goto(c, "idle")
  /\ UNCHANGED <<kind, file, callVars, acked, calls>>

\* Mutant: the poll goes on for as long as it takes.
Expired_Never == FALSE
Expired == lock # Nobody

\* Ten seconds have passed: the call throws.
TimeOut(c) ==
  /\ At(c, "queued") /\ OwnsMutex(c)
  /\ Expired
  /\ LeaveMutex(c)
  /\ Goto(c, "idle")
  /\ UNCHANGED <<kind, file, lock, callVars, ledger, calls, faults>>

-----------------------------------------------------------------------------
(* A call that holds the lock.                                             *)

\* Mutant: lines that cannot be parsed are skipped.
Readable_Skips == TRUE
\* The log's last line is parsed for its hash, and throws if it is torn.
Readable == ~torn

Read(c) ==
  /\ At(c, "reading")
  /\ done' = [done EXCEPT ![c] = FALSE]
  /\ IF Readable
       THEN seen' = [seen EXCEPT ![c] = lines] /\ Goto(c, "writing")
       ELSE Goto(c, "releasing") /\ UNCHANGED seen
  /\ UNCHANGED <<kind, file, lock, queue, op, ledger, calls, faults>>

\* Mutant: every append starts a chain of its own.
Prev_Genesis(s) == 0
Prev(s) == IF s = <<>> THEN 0 ELSE s[Len(s)].op

\* Mutant: an event that comes without an identity gets none.
Entry_NoId(c) == [op |-> 0, prev |-> Prev(seen[c])]
Entry(c) == [op |-> op[c], prev |-> Prev(seen[c])]

\* writeFile to a temporary file and rename: all or nothing.
Replace(c) ==
  /\ At(c, "writing") /\ kind = "document"
  /\ lines' = Append(seen[c], Entry(c))
  /\ done' = [done EXCEPT ![c] = TRUE]
  /\ Goto(c, "releasing")
  /\ UNCHANGED <<kind, torn, lock, queue, op, seen, ledger, calls, faults>>

\* appendFile: a piece of the line is there before the whole is.
BeginAppend(c) ==
  /\ At(c, "writing") /\ kind = "log"
  /\ torn' = TRUE
  /\ Goto(c, "appending")
  /\ UNCHANGED <<kind, lines, lock, queue, callVars, ledger, calls, faults>>

EndAppend(c) ==
  /\ At(c, "appending")
  /\ lines' = Append(lines, Entry(c))
  /\ torn' = FALSE
  /\ done' = [done EXCEPT ![c] = TRUE]
  /\ Goto(c, "releasing")
  /\ UNCHANGED <<kind, lock, queue, op, seen, ledger, calls, faults>>

\* The write throws: a document is as before, a log keeps the piece.
Full(c) ==
  /\ pc[c] \in {"writing", "appending"}
  /\ Fault
  /\ Goto(c, "releasing")
  /\ UNCHANGED <<kind, file, lock, queue, callVars, ledger, calls>>

\* Mutant: the lock file is removed after a success only.
Released_OnSuccess(c) == IF done[c] THEN Nobody ELSE lock
Released(c) == Nobody

Answered(c) == IF done[c] THEN {op[c]} ELSE {}

\* The lock file is removed and the call returns or throws.
Release(c) ==
  /\ At(c, "releasing")
  /\ lock' = Released(c)
  /\ acked' = acked \cup Answered(c)
  /\ LeaveMutex(c)
  /\ Goto(c, "idle")
  /\ UNCHANGED <<kind, file, callVars, left, calls, faults>>

\* restart-gateway.sh kills with -9: calls and mutexes are gone, files stay.
Kill(p) ==
  /\ Fault
  /\ pc' = [c \in Clients |-> IF ProcessOf[c] = p THEN "idle" ELSE pc[c]]
  /\ queue' = [queue EXCEPT ![p] = <<>>]
  /\ left' = (left \/ \E c \in Clients : ProcessOf[c] = p /\ Inside(c))
  /\ UNCHANGED <<kind, file, lock, callVars, acked, calls>>

-----------------------------------------------------------------------------
Step(c) ==
  \/ Acquire(c) \/ TimeOut(c) \/ Read(c) \/ Replace(c) \/ BeginAppend(c)
  \/ EndAppend(c) \/ Release(c)

Next ==
  \/ \E c \in Clients : Call(c) \/ Step(c) \/ AcquireFull(c) \/ Full(c)
  \/ \E p \in Processes : Kill(p)

Spec == Init /\ [][Next]_vars

\* A process that lives runs its callbacks and its timers.
FairSpec == Spec /\ \A c \in Clients : WF_vars(Step(c))

-----------------------------------------------------------------------------
(* Properties.                                                             *)

\* One call at a time reads and writes the file, across processes, however
\* calls time out, throw or are killed.
Exclusive == \A c, d \in Clients : Inside(c) /\ Inside(d) => c = d

\* A lock file without a call inside it was left by a kill or by a disk too full
\* to write it: a call that throws later, at whatever step, removes its own.
LockRemoved == lock # Nobody => Inside(lock) \/ left

\* Every event of the log carries the hash of the one before it, whichever
\* processes append and fail.
ChainLinked == \A i \in DOMAIN lines :
  lines[i].prev = IF i = 1 THEN 0 ELSE lines[i - 1].op

Cut == torn /\ \A c \in Clients : pc[c] # "appending"

\* A log whose last line was cut takes no more events: its appends fail rather
\* than go on behind a line no reader can parse.
TornStops == [][Cut => Cut' /\ lines' = lines]_vars

\* The file is a durable list of the calls that were acknowledged.
Stored == INSTANCE DurableList WITH entries <- [i \in DOMAIN lines |-> lines[i].op]
StoredSpec == Stored!Spec

\* Every call ends, also when a lock file was left behind.
CallEnds == \A c \in Clients : pc[c] # "idle" ~> pc[c] = "idle"
=============================================================================
