------------------------- MODULE ApprovalGateProofs -------------------------
(***************************************************************************)
(* Proofs about the ApprovalGate: what an operator's signature guarantees  *)
(* holds for any number of proposals, requests and restarts.               *)
(***************************************************************************)
EXTENDS ApprovalGate, TLAPS

-----------------------------------------------------------------------------
(* The inductive invariant: what the audit log must hold for a request to  *)
(* stand where it stands.                                                  *)

\* Where a sign request is once it has issued its token,
AfterVerified == {"signing", "approving", "planning", "publishing", "published",
                  "rereading", "aborting", "gating", "invoking", "waiting",
                  "recording", "polling", "reporting"}
\* once oc.proposal.signed is written,
AfterSigned == AfterVerified \ {"signing"}
\* and once oc.artifact.approved is written.
AfterApproved == AfterSigned \ {"approving"}
\* Where it can be when its handler has been dispatched.
AfterDispatch == {"waiting", "recording", "polling", "reporting", "done", "orphaned",
                  "unreported"}

OnTime == \A r \in Signers :
  pc[r] \in AfterVerified \cup {"verifying"} => fresh[r]

Recorded == \A r \in Signers :
  /\ pc[r] \in AfterSigned => Event("signed", goal[r], r) \in audit
  /\ pc[r] \in AfterApproved => Event("approved", goal[r], r) \in audit

RejectionRecorded == \A r \in Rejecters :
  pc[r] = "withdrawing" => Event("rejected", goal[r], r) \in audit

Entitled(r) ==
  /\ fresh[r]
  /\ Event("signed", goal[r], r) \in audit
  /\ Event("approved", goal[r], r) \in audit

HandlersEntitled == \A r \in Signers :
  /\ handler[r] \in {"invoked", "authorised"} => Entitled(r)
  /\ handler[r] # "none" => pc[r] \in AfterDispatch

MutatedEntitled == \A r \in mutated : Entitled(r) /\ handler[r] = "finished"

SafeInv ==
  /\ OnTime
  /\ Recorded
  /\ RejectionRecorded
  /\ HandlersEntitled
  /\ MutatedEntitled
  /\ CanvasBackedByAudit

-----------------------------------------------------------------------------
(* Type correctness.                                                       *)

\* Every step keeps every variable in its type.
LEMMA TypeStep == TypeOK /\ [Next]_vars => TypeOK'
<1> SUFFICES ASSUME TypeOK, [Next]_vars
             PROVE  TypeOK'
  OBVIOUS
<1> USE DEF TypeOK, Requests, Statuses, Steps, Events, Decisions, Event, At, Goto,
            SetStatus, Log, requestVars, dispatchVars, storeVars, worldVars
<1>1. ASSUME NEW p \in Proposals, Submit(p) PROVE TypeOK'
  BY <1>1 DEF Submit, Pruned
<1>2. ASSUME NEW p \in Proposals, Lapse(p) PROVE TypeOK'
  BY <1>2 DEF Lapse
<1>3. ASSUME NEW p \in Proposals, CanvasDecide(p) PROVE TypeOK'
  BY <1>3 DEF CanvasDecide
<1>4. CASE Prune
  BY <1>4 DEF Prune, Pruned
<1>5. CASE Toggle
  BY <1>5 DEF Toggle
<1>6. CASE Crash
  <2>1. artifact' \in [Proposals -> Decisions]
    BY <1>6 DEF Crash, Undecided
  <2>2. crashes' \in 0..MaxCrashes
    BY <1>6, GateAssumption DEF Crash, GateAssumption
  <2>. QED
    BY <1>6, <2>1, <2>2 DEF Crash
<1>7. ASSUME NEW r \in Requests, Arrive(r) PROVE TypeOK'
  BY <1>7 DEF Arrive
<1>8. ASSUME NEW r \in Requests, Refuse(r) PROVE TypeOK'
  BY <1>8 DEF Refuse
<1>9. ASSUME NEW r \in Requests, Check(r) PROVE TypeOK'
  BY <1>9 DEF Check
<1>10. ASSUME NEW r \in Requests, Throw(r) PROVE TypeOK'
  BY <1>10 DEF Throw
<1>11. ASSUME NEW r \in Requests, Verified(r) PROVE TypeOK'
  BY <1>11 DEF Verified
<1>12. ASSUME NEW r \in Signers, AppendExpired(r) PROVE TypeOK'
  BY <1>12 DEF AppendExpired, Append
<1>13. ASSUME NEW r \in Signers, AppendSigned(r) PROVE TypeOK'
  BY <1>13 DEF AppendSigned, Append
<1>14. ASSUME NEW r \in Signers, AppendApproved(r) PROVE TypeOK'
  <2>1. planApproval' \in [Proposals -> Signers \cup {Nobody}]
    BY <1>14 DEF AppendApproved
  <2>2. pc' \in [Requests -> Steps]
    <3>1. Goto(r, "planning") \/ Goto(r, "publishing")
      BY <1>14 DEF AppendApproved
    <3>. QED
      BY <3>1
  <2>3. audit' \subseteq Events
    BY <1>14 DEF AppendApproved
  <2>. QED
    BY <1>14, <2>1, <2>2, <2>3 DEF AppendApproved
<1>15. ASSUME NEW r \in Signers, AppendPlan(r) PROVE TypeOK'
  BY <1>15 DEF AppendPlan, Append
<1>16. ASSUME NEW r \in Signers, Publish(r) PROVE TypeOK'
  BY <1>16 DEF Publish
<1>17. ASSUME NEW r \in Signers, MarkSigned(r) PROVE TypeOK'
  BY <1>17 DEF MarkSigned
<1>18. ASSUME NEW r \in Signers, Reread(r) PROVE TypeOK'
  BY <1>18 DEF Reread
<1>19. ASSUME NEW r \in Signers, AppendAborted(r) PROVE TypeOK'
  BY <1>19 DEF AppendAborted, Append
<1>20. ASSUME NEW r \in Signers, Gate(r) PROVE TypeOK'
  <2>1. PICK result \in {"failed", "stopped", "none"} :
          IF result = "none"
            THEN Goto(r, "invoking") /\ UNCHANGED <<handler, outcome>>
            ELSE /\ outcome' = [outcome EXCEPT ![r] = result]
                 /\ handler' = [handler EXCEPT ![r] = "finished"]
                 /\ Goto(r, "waiting")
    BY <1>20 DEF Gate
  <2>2. outcome' \in [Signers -> {"none", "ok", "failed", "stopped"}]
    BY <2>1
  <2>3. handler' \in [Signers -> {"none", "invoked", "authorised", "finished"}]
    BY <2>1
  <2>4. pc' \in [Requests -> Steps]
    BY <2>1
  <2>. QED
    BY <1>20, <2>2, <2>3, <2>4 DEF Gate
<1>21. ASSUME NEW r \in Signers, Invoke(r) PROVE TypeOK'
  BY <1>21 DEF Invoke
<1>22. ASSUME NEW r \in Signers, Answer(r) PROVE TypeOK'
  BY <1>22 DEF Answer, FinalStatus
<1>23. ASSUME NEW r \in Signers, TimeOut(r) PROVE TypeOK'
  BY <1>23 DEF TimeOut
<1>24. ASSUME NEW r \in Signers, AppendExecuting(r) PROVE TypeOK'
  BY <1>24 DEF AppendExecuting, Append
<1>25. ASSUME NEW r \in Signers, Settle(r) PROVE TypeOK'
  BY <1>25 DEF Settle, FinalStatus
<1>26. ASSUME NEW r \in Signers, Report(r) PROVE TypeOK'
  BY <1>26 DEF Report, Append
<1>27. ASSUME NEW r \in Signers, Authorise(r) PROVE TypeOK'
  BY <1>27 DEF Authorise
<1>28. ASSUME NEW r \in Signers, Mutate(r) PROVE TypeOK'
  BY <1>28 DEF Mutate, Finish
<1>29. ASSUME NEW r \in Signers, Decline(r) PROVE TypeOK'
  BY <1>29 DEF Decline, Finish
<1>30. ASSUME NEW r \in Rejecters, AppendRejected(r) PROVE TypeOK'
  BY <1>30 DEF AppendRejected
<1>31. ASSUME NEW r \in Rejecters, Withdraw(r) PROVE TypeOK'
  BY <1>31 DEF Withdraw
<1>32. ASSUME NEW r \in Rejecters, Withdrawn(r) PROVE TypeOK'
  BY <1>32 DEF Withdrawn
<1>33. CASE UNCHANGED vars
  BY <1>33 DEF vars
<1>. QED
  BY <1>1, <1>2, <1>3, <1>4, <1>5, <1>6, <1>7, <1>8, <1>9, <1>10, <1>11, <1>12, <1>13, <1>14, <1>15, <1>16, <1>17, <1>18, <1>19, <1>20, <1>21, <1>22, <1>23, <1>24, <1>25, <1>26, <1>27, <1>28, <1>29, <1>30, <1>31, <1>32, <1>33
  DEF Next, RequestStep, SignStep, HandlerStep, RejectStep

\* Every variable stays in its type, whatever the proposals, the requests and
\* the number of restarts.
THEOREM TypeCorrect == Spec => []TypeOK
<1>1. ASSUME Init PROVE TypeOK
  <2>1. artifact \in [Proposals -> Decisions]
    BY <1>1 DEF Init, Decisions, Undecided
  <2>2. crashes \in 0..MaxCrashes
    BY <1>1, GateAssumption DEF Init, GateAssumption
  <2>. QED
    BY <1>1, <2>1, <2>2 DEF Init, TypeOK, Statuses, Steps
<1>. QED
  BY <1>1, TypeStep, PTL DEF Spec
-----------------------------------------------------------------------------
(* The record behind every mutation.                                       *)

\* A step only adds to the audit log, and a request keeps its proposal.
LEMMA Frame == [Next]_vars => audit \subseteq audit' /\ goal' = goal
<1> SUFFICES ASSUME [Next]_vars PROVE audit \subseteq audit' /\ goal' = goal
  OBVIOUS
<1> USE DEF Log, requestVars, worldVars
<1>1. ASSUME NEW p \in Proposals, Submit(p) PROVE audit \subseteq audit' /\ goal' = goal
  BY <1>1 DEF Submit
<1>2. ASSUME NEW p \in Proposals, Lapse(p) PROVE audit \subseteq audit' /\ goal' = goal
  BY <1>2 DEF Lapse
<1>3. ASSUME NEW p \in Proposals, CanvasDecide(p) PROVE audit \subseteq audit' /\ goal' = goal
  BY <1>3 DEF CanvasDecide
<1>4. CASE Prune
  BY <1>4 DEF Prune
<1>5. CASE Toggle
  BY <1>5 DEF Toggle
<1>6. CASE Crash
  BY <1>6 DEF Crash, Undecided
<1>7. ASSUME NEW r \in Requests, Arrive(r) PROVE audit \subseteq audit' /\ goal' = goal
  BY <1>7 DEF Arrive
<1>8. ASSUME NEW r \in Requests, Refuse(r) PROVE audit \subseteq audit' /\ goal' = goal
  BY <1>8 DEF Refuse
<1>9. ASSUME NEW r \in Requests, Check(r) PROVE audit \subseteq audit' /\ goal' = goal
  BY <1>9 DEF Check
<1>10. ASSUME NEW r \in Requests, Throw(r) PROVE audit \subseteq audit' /\ goal' = goal
  BY <1>10 DEF Throw
<1>11. ASSUME NEW r \in Requests, Verified(r) PROVE audit \subseteq audit' /\ goal' = goal
  BY <1>11 DEF Verified
<1>12. ASSUME NEW r \in Signers, AppendExpired(r) PROVE audit \subseteq audit' /\ goal' = goal
  BY <1>12 DEF AppendExpired, Append
<1>13. ASSUME NEW r \in Signers, AppendSigned(r) PROVE audit \subseteq audit' /\ goal' = goal
  BY <1>13 DEF AppendSigned, Append
<1>14. ASSUME NEW r \in Signers, AppendApproved(r) PROVE audit \subseteq audit' /\ goal' = goal
  BY <1>14 DEF AppendApproved
<1>15. ASSUME NEW r \in Signers, AppendPlan(r) PROVE audit \subseteq audit' /\ goal' = goal
  BY <1>15 DEF AppendPlan, Append
<1>16. ASSUME NEW r \in Signers, Publish(r) PROVE audit \subseteq audit' /\ goal' = goal
  BY <1>16 DEF Publish
<1>17. ASSUME NEW r \in Signers, MarkSigned(r) PROVE audit \subseteq audit' /\ goal' = goal
  BY <1>17 DEF MarkSigned
<1>18. ASSUME NEW r \in Signers, Reread(r) PROVE audit \subseteq audit' /\ goal' = goal
  BY <1>18 DEF Reread
<1>19. ASSUME NEW r \in Signers, AppendAborted(r) PROVE audit \subseteq audit' /\ goal' = goal
  BY <1>19 DEF AppendAborted, Append
<1>20. ASSUME NEW r \in Signers, Gate(r) PROVE audit \subseteq audit' /\ goal' = goal
  BY <1>20 DEF Gate
<1>21. ASSUME NEW r \in Signers, Invoke(r) PROVE audit \subseteq audit' /\ goal' = goal
  BY <1>21 DEF Invoke
<1>22. ASSUME NEW r \in Signers, Answer(r) PROVE audit \subseteq audit' /\ goal' = goal
  BY <1>22 DEF Answer
<1>23. ASSUME NEW r \in Signers, TimeOut(r) PROVE audit \subseteq audit' /\ goal' = goal
  BY <1>23 DEF TimeOut
<1>24. ASSUME NEW r \in Signers, AppendExecuting(r) PROVE audit \subseteq audit' /\ goal' = goal
  BY <1>24 DEF AppendExecuting, Append
<1>25. ASSUME NEW r \in Signers, Settle(r) PROVE audit \subseteq audit' /\ goal' = goal
  BY <1>25 DEF Settle
<1>26. ASSUME NEW r \in Signers, Report(r) PROVE audit \subseteq audit' /\ goal' = goal
  BY <1>26 DEF Report, Append
<1>27. ASSUME NEW r \in Signers, Authorise(r) PROVE audit \subseteq audit' /\ goal' = goal
  BY <1>27 DEF Authorise
<1>28. ASSUME NEW r \in Signers, Mutate(r) PROVE audit \subseteq audit' /\ goal' = goal
  BY <1>28 DEF Mutate, Finish
<1>29. ASSUME NEW r \in Signers, Decline(r) PROVE audit \subseteq audit' /\ goal' = goal
  BY <1>29 DEF Decline, Finish
<1>30. ASSUME NEW r \in Rejecters, AppendRejected(r) PROVE audit \subseteq audit' /\ goal' = goal
  BY <1>30 DEF AppendRejected
<1>31. ASSUME NEW r \in Rejecters, Withdraw(r) PROVE audit \subseteq audit' /\ goal' = goal
  BY <1>31 DEF Withdraw
<1>32. ASSUME NEW r \in Rejecters, Withdrawn(r) PROVE audit \subseteq audit' /\ goal' = goal
  BY <1>32 DEF Withdrawn
<1>33. CASE UNCHANGED vars
  BY <1>33 DEF vars
<1>. QED
  BY <1>1, <1>2, <1>3, <1>4, <1>5, <1>6, <1>7, <1>8, <1>9, <1>10, <1>11, <1>12, <1>13, <1>14, <1>15, <1>16, <1>17, <1>18, <1>19, <1>20, <1>21, <1>22, <1>23, <1>24, <1>25, <1>26, <1>27, <1>28, <1>29, <1>30, <1>31, <1>32, <1>33
  DEF Next, RequestStep, SignStep, HandlerStep, RejectStep

\* The invariant survives every step.
LEMMA SafeStep == TypeOK /\ SafeInv /\ [Next]_vars => SafeInv'
<1> SUFFICES ASSUME TypeOK, SafeInv, [Next]_vars
             PROVE  SafeInv'
  OBVIOUS
<1> USE GateAssumption, Frame
<1> USE DEF GateAssumption, TypeOK, Requests, SafeInv, OnTime, Recorded, RejectionRecorded,
            Entitled, HandlersEntitled, MutatedEntitled, CanvasBackedByAudit,
            AfterVerified, AfterSigned, AfterApproved, AfterDispatch,
            At, Goto, SetStatus, Log, requestVars, dispatchVars, storeVars, worldVars
<1>1. ASSUME NEW p \in Proposals, Submit(p) PROVE SafeInv'
  BY <1>1 DEF Submit
<1>2. ASSUME NEW p \in Proposals, Lapse(p) PROVE SafeInv'
  BY <1>2 DEF Lapse
<1>3. ASSUME NEW p \in Proposals, CanvasDecide(p) PROVE SafeInv'
  BY <1>3 DEF CanvasDecide
<1>4. CASE Prune
  BY <1>4 DEF Prune
<1>5. CASE Toggle
  BY <1>5 DEF Toggle
<1>6. CASE Crash
  BY <1>6 DEF Crash, Undecided
<1>7. ASSUME NEW r \in Requests, Arrive(r) PROVE SafeInv'
  BY <1>7 DEF Arrive
<1>8. ASSUME NEW r \in Requests, Refuse(r) PROVE SafeInv'
  BY <1>8 DEF Refuse
<1>9. ASSUME NEW r \in Requests, Check(r) PROVE SafeInv'
  BY <1>9 DEF Check
<1>10. ASSUME NEW r \in Requests, Throw(r) PROVE SafeInv'
  BY <1>10 DEF Throw
<1>11. ASSUME NEW r \in Requests, Verified(r) PROVE SafeInv'
  BY <1>11 DEF Verified
<1>12. ASSUME NEW r \in Signers, AppendExpired(r) PROVE SafeInv'
  BY <1>12 DEF AppendExpired, Append
<1>13. ASSUME NEW r \in Signers, AppendSigned(r) PROVE SafeInv'
  BY <1>13 DEF AppendSigned, Append
<1>14. ASSUME NEW r \in Signers, AppendApproved(r) PROVE SafeInv'
  BY <1>14 DEF AppendApproved
<1>15. ASSUME NEW r \in Signers, AppendPlan(r) PROVE SafeInv'
  BY <1>15 DEF AppendPlan, Append
<1>16. ASSUME NEW r \in Signers, Publish(r) PROVE SafeInv'
  BY <1>16 DEF Publish
<1>17. ASSUME NEW r \in Signers, MarkSigned(r) PROVE SafeInv'
  BY <1>17 DEF MarkSigned
<1>18. ASSUME NEW r \in Signers, Reread(r) PROVE SafeInv'
  BY <1>18 DEF Reread
<1>19. ASSUME NEW r \in Signers, AppendAborted(r) PROVE SafeInv'
  BY <1>19 DEF AppendAborted, Append
<1>20. ASSUME NEW r \in Signers, Gate(r) PROVE SafeInv'
  BY <1>20 DEF Gate
<1>21. ASSUME NEW r \in Signers, Invoke(r) PROVE SafeInv'
  BY <1>21 DEF Invoke
<1>22. ASSUME NEW r \in Signers, Answer(r) PROVE SafeInv'
  BY <1>22 DEF Answer
<1>23. ASSUME NEW r \in Signers, TimeOut(r) PROVE SafeInv'
  BY <1>23 DEF TimeOut
<1>24. ASSUME NEW r \in Signers, AppendExecuting(r) PROVE SafeInv'
  BY <1>24 DEF AppendExecuting, Append
<1>25. ASSUME NEW r \in Signers, Settle(r) PROVE SafeInv'
  BY <1>25 DEF Settle
<1>26. ASSUME NEW r \in Signers, Report(r) PROVE SafeInv'
  BY <1>26 DEF Report, Append
<1>27. ASSUME NEW r \in Signers, Authorise(r) PROVE SafeInv'
  BY <1>27 DEF Authorise
<1>28. ASSUME NEW r \in Signers, Mutate(r) PROVE SafeInv'
  BY <1>28 DEF Mutate, Finish
<1>29. ASSUME NEW r \in Signers, Decline(r) PROVE SafeInv'
  BY <1>29 DEF Decline, Finish
<1>30. ASSUME NEW r \in Rejecters, AppendRejected(r) PROVE SafeInv'
  BY <1>30 DEF AppendRejected
<1>31. ASSUME NEW r \in Rejecters, Withdraw(r) PROVE SafeInv'
  BY <1>31 DEF Withdraw
<1>32. ASSUME NEW r \in Rejecters, Withdrawn(r) PROVE SafeInv'
  BY <1>32 DEF Withdrawn
<1>33. CASE UNCHANGED vars
  BY <1>33 DEF vars
<1>. QED
  BY <1>1, <1>2, <1>3, <1>4, <1>5, <1>6, <1>7, <1>8, <1>9, <1>10, <1>11, <1>12, <1>13, <1>14, <1>15, <1>16, <1>17, <1>18, <1>19, <1>20, <1>21, <1>22, <1>23, <1>24, <1>25, <1>26, <1>27, <1>28, <1>29, <1>30, <1>31, <1>32, <1>33
  DEF Next, RequestStep, SignStep, HandlerStep, RejectStep

\* The invariant holds at start and for ever.
LEMMA Safe == Spec => []SafeInv
<1>1. Init => SafeInv
  BY GateAssumption DEF Init, GateAssumption, Requests, SafeInv, OnTime, Recorded,
     RejectionRecorded, HandlersEntitled, MutatedEntitled, CanvasBackedByAudit,
     AfterVerified, AfterSigned, AfterApproved, Undecided
<1>. QED
  BY <1>1, SafeStep, TypeCorrect, PTL DEF Spec

\* Whatever races, faults and restarts happen, a handler that changed the
\* outside world was dispatched by a signature made within the proposal's TTL
\* whose oc.proposal.signed and oc.artifact.approved events are in the log.
THEOREM MutationsAuthorised == Spec => []MutationAuthorised
<1>1. SafeInv => MutationAuthorised
  BY DEF SafeInv, MutatedEntitled, Entitled, MutationAuthorised
<1>. QED
  BY <1>1, Safe, PTL

\* A decision shown on the canvas in a request's name was logged first.
THEOREM CanvasBacked == Spec => []CanvasBackedByAudit
<1>1. SafeInv => CanvasBackedByAudit
  BY DEF SafeInv
<1>. QED
  BY <1>1, Safe, PTL

-----------------------------------------------------------------------------
(* What pends and what is decided.                                         *)

\* A request gives its proposal a status that is not pending: one that pended, or, past its
\* checks and with its own decision on record, any.
Decides(r, s) ==
  /\ \/ status[goal[r]] = "pending"
     \/ InProgress(r) /\ OnRecord(r)'
  /\ s # "pending"
  /\ SetStatus(goal[r], s)

\* The ways a step may change the store of proposals: none, a pruning, a submission, a
\* decision, a restart.  The TTL is never given back.
StoreChanges ==
  \/ UNCHANGED status
  \/ status' = Pruned
  \/ \E p \in Proposals :
       status[p] = "absent" /\ ~Duplicate(p) /\ status' = [Pruned EXCEPT ![p] = "pending"]
  \/ \E r \in Requests, s \in Statuses : Decides(r, s)
  \/ \A p \in Proposals : status'[p] = (IF status[p] = "absent" THEN "absent" ELSE "lost")

\* Every step changes the store in one of these ways.
LEMMA StoreStep == TypeOK /\ SafeInv /\ [Next]_vars => StoreChanges /\ lapsed \subseteq lapsed'
<1> SUFFICES ASSUME TypeOK, SafeInv, [Next]_vars
             PROVE  StoreChanges /\ lapsed \subseteq lapsed'
  OBVIOUS
<1> USE DEF requestVars, dispatchVars, storeVars, worldVars, Requests
<1>1. ASSUME NEW p \in Proposals, Submit(p) PROVE StoreChanges /\ lapsed \subseteq lapsed'
  BY <1>1 DEF Submit, StoreChanges
<1>2. ASSUME NEW p \in Proposals, Lapse(p) \/ CanvasDecide(p)
      PROVE  UNCHANGED status /\ lapsed \subseteq lapsed'
  BY <1>2 DEF Lapse, CanvasDecide
<1>3. CASE Prune
  BY <1>3 DEF Prune, StoreChanges
<1>4. CASE Toggle
  BY <1>4 DEF Toggle, StoreChanges
<1>5. CASE Crash
  BY <1>5 DEF Crash, StoreChanges
<1>6. ASSUME NEW r \in Requests, Arrive(r) \/ Refuse(r) \/ Throw(r) \/ Verified(r)
      PROVE  UNCHANGED <<status, lapsed>>
  BY <1>6 DEF Arrive, Refuse, Throw, Verified
<1>7. ASSUME NEW r \in Requests, Check(r) PROVE StoreChanges /\ UNCHANGED lapsed
  <2>1. UNCHANGED status \/ Decides(r, "expired")
    BY <1>7 DEF Check, Decides
  <2>. QED
    BY <1>7, <2>1 DEF Check, StoreChanges, Statuses
<1>8. ASSUME NEW r \in Signers,
             \/ AppendExpired(r) \/ AppendSigned(r) \/ AppendApproved(r) \/ AppendPlan(r)
             \/ Publish(r) \/ AppendAborted(r) \/ Gate(r) \/ Invoke(r) \/ AppendExecuting(r)
             \/ Report(r) \/ HandlerStep(r)
      PROVE  UNCHANGED <<status, lapsed>>
  BY <1>8 DEF AppendExpired, AppendSigned, AppendApproved, AppendPlan, Publish, AppendAborted, Gate,
              Invoke, AppendExecuting, Report, Append, HandlerStep, Authorise, Mutate, Decline, Finish
<1>9. ASSUME NEW r \in Signers, MarkSigned(r) \/ Reread(r) \/ Answer(r) \/ TimeOut(r) \/ Settle(r)
      PROVE  StoreChanges /\ UNCHANGED lapsed
  <2>1. InProgress(r) /\ OnRecord(r)'
    <3>1. pc[r] \in AfterApproved
      BY <1>9 DEF MarkSigned, Reread, Answer, TimeOut, Settle, At, AfterApproved, AfterSigned,
                  AfterVerified
    <3>2. Entitled(r)
      BY <3>1 DEF SafeInv, OnTime, Recorded, Entitled, AfterApproved, AfterSigned
    <3>3. UNCHANGED <<fresh, goal, audit>>
      BY <1>9 DEF MarkSigned, Reread, Answer, TimeOut, Settle
    <3>. QED
      BY <3>1, <3>2, <3>3 DEF Entitled, OnRecord, InProgress, AfterApproved, AfterSigned,
                              AfterVerified
  <2>2. UNCHANGED status \/ \E s \in {"signed", "execution_failed", "executing", "executed"} :
          SetStatus(goal[r], s)
    BY <1>9 DEF MarkSigned, Reread, Answer, TimeOut, Settle, FinalStatus
  <2>3. UNCHANGED status \/ \E s \in Statuses : Decides(r, s)
    BY <2>1, <2>2 DEF Decides, Statuses
  <2>. QED
    BY <1>9, <2>3 DEF MarkSigned, Reread, Answer, TimeOut, Settle, StoreChanges
<1>10. ASSUME NEW r \in Rejecters, AppendRejected(r) PROVE StoreChanges /\ UNCHANGED lapsed
  <2>1. InProgress(r) /\ OnRecord(r)'
    <3>1. r \notin Signers
      BY GateAssumption DEF GateAssumption
    <3>. QED
      BY <1>10, <3>1 DEF AppendRejected, At, InProgress, OnRecord, Log
  <2>2. Decides(r, "rejected")
    BY <1>10, <2>1 DEF AppendRejected, Decides
  <2>. QED
    BY <1>10, <2>2 DEF AppendRejected, StoreChanges, Statuses
<1>11. ASSUME NEW r \in Rejecters, Withdraw(r) \/ Withdrawn(r) PROVE UNCHANGED <<status, lapsed>>
  BY <1>11 DEF Withdraw, Withdrawn
<1>12. CASE UNCHANGED vars
  BY <1>12 DEF vars, StoreChanges
<1>13. UNCHANGED status => StoreChanges
  BY DEF StoreChanges
<1>. QED
  BY <1>1, <1>2, <1>3, <1>4, <1>5, <1>6, <1>7, <1>8, <1>9, <1>10, <1>11, <1>12, <1>13
     DEF Next, RequestStep, SignStep, RejectStep

\* However submissions, prunings, lapses and decisions interleave, the agent has at most one
\* live pending proposal for one category and target.
THEOREM OnePendingHolds == Spec => []OnePendingPerHash
<1> DEFINE Live(p) == status[p] = "pending" /\ p \notin lapsed
           OneLive == \A p, q \in Proposals : Live(p) /\ Live(q) /\ HashOf[p] = HashOf[q] => p = q
<1>1. OneLive <=> OnePendingPerHash
  BY DEF OnePendingPerHash
<1>2. Init => OneLive
  BY DEF Init
<1>3. TypeOK /\ SafeInv /\ OneLive /\ [Next]_vars => OneLive'
  <2> SUFFICES ASSUME TypeOK, SafeInv, OneLive, [Next]_vars, NEW p \in Proposals, NEW q \in Proposals,
                      Live(p)', Live(q)', HashOf[p] = HashOf[q]
               PROVE  p = q
    OBVIOUS
  <2>1. StoreChanges /\ p \notin lapsed /\ q \notin lapsed
    BY StoreStep
  <2>2. ASSUME Live(p), Live(q) PROVE p = q
    BY <2>2
  <2>3. CASE UNCHANGED status \/ status' = Pruned
    BY <2>1, <2>2, <2>3 DEF Pruned
  <2>4. ASSUME NEW x \in Proposals, ~Duplicate(x), status' = [Pruned EXCEPT ![x] = "pending"]
        PROVE  p = q
    <3>1. \A y \in Proposals : y # x /\ status'[y] = "pending" => status[y] = "pending"
      BY <2>4 DEF Pruned
    <3>2. CASE p # x /\ q # x
      BY <2>1, <2>2, <3>1, <3>2
    <3>3. CASE p = x /\ q # x
      BY <2>1, <2>4, <3>1, <3>3 DEF Duplicate
    <3>4. CASE p # x /\ q = x
      BY <2>1, <2>4, <3>1, <3>4 DEF Duplicate
    <3>. QED
      BY <3>2, <3>3, <3>4
  <2>5. ASSUME NEW r \in Requests, NEW s \in Statuses, Decides(r, s) PROVE p = q
    <3>1. \A y \in Proposals : status'[y] = "pending" => status[y] = "pending"
      BY <2>5 DEF Decides, SetStatus, TypeOK
    <3>. QED
      BY <2>1, <2>2, <3>1
  <2>6. CASE \A y \in Proposals : status'[y] = (IF status[y] = "absent" THEN "absent" ELSE "lost")
    BY <2>6
  <2>. QED
    BY <2>1, <2>3, <2>4, <2>5, <2>6 DEF StoreChanges
<1>. QED
  BY <1>1, <1>2, <1>3, TypeCorrect, Safe, PTL DEF Spec

\* A proposal that was rejected, expired or executed stays so until a restart forgets it, or
\* until a request still in progress, whose own decision the log holds by then, overrules it.
THEOREM DecisionsStand == Spec => DecisionStands
<1> DEFINE Decided(p) == status[p] \in {"rejected", "expired", "executed", "execution_failed"}
           Overruled(p) == \E r \in Requests : goal[r] = p /\ InProgress(r) /\ OnRecord(r)'
<1>1. ASSUME TypeOK, SafeInv, [Next]_vars, NEW p \in Proposals, Decided(p)
      PROVE  status'[p] \in {status[p], "lost"} \/ Overruled(p)
  <2>1. StoreChanges
    BY <1>1, StoreStep
  <2>2. CASE UNCHANGED status \/ status' = Pruned
    BY <1>1, <2>2 DEF Pruned
  <2>3. ASSUME NEW x \in Proposals, status[x] = "absent", status' = [Pruned EXCEPT ![x] = "pending"]
        PROVE  status'[p] = status[p]
    BY <1>1, <2>3 DEF Pruned
  <2>4. ASSUME NEW r \in Requests, NEW s \in Statuses, Decides(r, s)
        PROVE  status'[p] = status[p] \/ Overruled(p)
    <3>1. CASE goal[r] = p
      BY <1>1, <2>4, <3>1 DEF Decides
    <3>2. CASE goal[r] # p
      BY <1>1, <2>4, <3>2 DEF Decides, SetStatus, TypeOK
    <3>. QED
      BY <3>1, <3>2
  <2>5. CASE \A y \in Proposals : status'[y] = (IF status[y] = "absent" THEN "absent" ELSE "lost")
    BY <1>1, <2>5
  <2>. QED
    BY <2>1, <2>2, <2>3, <2>4, <2>5 DEF StoreChanges
<1>2. TypeOK /\ SafeInv /\ [Next]_vars
      => [\A p \in Proposals :
            status[p] \in {"rejected", "expired", "executed", "execution_failed"} =>
              \/ status'[p] \in {status[p], "lost"}
              \/ \E r \in Requests : goal[r] = p /\ InProgress(r) /\ OnRecord(r)']_vars
  BY <1>1
<1>. QED
  BY <1>2, TypeCorrect, Safe, PTL DEF Spec, DecisionStands
=============================================================================
