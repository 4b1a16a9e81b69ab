---------------------------- MODULE ApprovalGate ----------------------------
(***************************************************************************)
(* The ApprovalGate of the gateway: an agent submits proposals, operators  *)
(* sign or reject them over HTTP, and a signature dispatches a skill       *)
(* handler that may change the outside world.                              *)
(*                                                                         *)
(* The proposals live in an array of the gateway process; the audit log,   *)
(* the canvas journal and the kill switch are files.  A request is a       *)
(* process that yields at each await, so an action below is the code       *)
(* between two awaits of one request.                                      *)
(***************************************************************************)
EXTENDS Naturals, FiniteSets

CONSTANTS Proposals,        \* proposal ids an agent may submit
          HashOf,           \* proposal -> category|targetRef digest
          PlanProposals,    \* configure_complete_smtp with plan autonomy on
          Signers,          \* POST .../sign requests
          Rejecters,        \* POST .../reject requests
          Nobody,           \* no request
          AuditFaults,      \* may an await on one of the files throw?
          MaxCrashes        \* gateway restarts considered

Requests == Signers \cup Rejecters

ASSUME GateAssumption ==
  /\ Signers \cap Rejecters = {}
  /\ Nobody \notin Requests
  /\ DOMAIN HashOf = Proposals
  /\ PlanProposals \subseteq Proposals
  /\ AuditFaults \in BOOLEAN
  /\ MaxCrashes \in Nat

VARIABLES status,           \* proposal.status ("absent": not in the store)
          lapsed,           \* proposals whose expiresAt has passed
          planApproval,     \* signature held in proposal.planApproval
          artifact,         \* canvas artifact of the proposal
          audit,            \* events requests wrote to the append-only audit log
          killSwitch,       \* enabled flag of the kill-switch file
          pc,               \* where each request stands
          goal,             \* the proposal each request is about
          fresh,            \* was the proposal unexpired at the request's `now`?
          handler,          \* the skill handler a signature dispatched
          outcome,          \* what the dispatch resolved to
          mutated,          \* signatures whose handler changed the outside world
          crashes

vars == <<status, lapsed, planApproval, artifact, audit, killSwitch, pc, goal,
          fresh, handler, outcome, mutated, crashes>>

requestVars == <<pc, goal, fresh>>
dispatchVars == <<handler, outcome, mutated>>
storeVars == <<status, planApproval>>
worldVars == <<lapsed, killSwitch, crashes>>

Statuses == {"absent", "pending", "expired", "rejected", "signed", "executing",
             "executed", "execution_failed", "lost"}
Steps == {"idle", "admitted", "expiring", "verifying", "signing", "approving",
          "planning", "publishing", "published", "rereading", "aborting",
          "gating", "invoking", "waiting", "recording", "polling",
          "reporting", "rejecting", "withdrawing", "withdrawn", "done",
          "orphaned", "unreported"}
Event(what, p, r) == [action |-> what, proposal |-> p, by |-> r]
Events == [action : {"expired", "signed", "approved", "plan", "aborted", "executing",
                     "executed", "rejected"},
           proposal : Proposals, by : Requests]
Decisions == [approval : {"none", "approved", "rejected"},
              by : Requests \cup {Nobody}]
Undecided == [approval |-> "none", by |-> Nobody]

TypeOK ==
  /\ status \in [Proposals -> Statuses]
  /\ lapsed \subseteq Proposals
  /\ planApproval \in [Proposals -> Signers \cup {Nobody}]
  /\ artifact \in [Proposals -> Decisions]
  /\ audit \subseteq Events
  /\ killSwitch \in BOOLEAN
  /\ pc \in [Requests -> Steps]
  /\ goal \in [Requests -> Proposals]
  /\ fresh \in [Requests -> BOOLEAN]
  /\ handler \in [Signers -> {"none", "invoked", "authorised", "finished"}]
  /\ outcome \in [Signers -> {"none", "ok", "failed", "stopped"}]
  /\ mutated \subseteq Signers
  /\ crashes \in 0..MaxCrashes

Init ==
  /\ status = [p \in Proposals |-> "absent"]
  /\ lapsed = {}
  /\ planApproval = [p \in Proposals |-> Nobody]
  /\ artifact = [p \in Proposals |-> Undecided]
  /\ audit = {}
  /\ killSwitch = FALSE
  /\ pc = [r \in Requests |-> "idle"]
  /\ goal \in [Requests -> Proposals]
  /\ fresh = [r \in Requests |-> FALSE]
  /\ handler = [r \in Signers |-> "none"]
  /\ outcome = [r \in Signers |-> "none"]
  /\ mutated = {}
  /\ crashes = 0

-----------------------------------------------------------------------------
(* Helpers.                                                                *)

At(r, step) == pc[r] = step
Goto(r, step) == pc' = [pc EXCEPT ![r] = step]
SetStatus(p, s) == status' = [status EXCEPT ![p] = s]

Log(what, r) == audit' = audit \cup {Event(what, goal[r], r)}

\* Mutant: the TTL overrules a decision.
Pruned_Decided == [p \in Proposals |-> IF status[p] # "absent" /\ p \in lapsed
                                       THEN "expired" ELSE status[p]]

\* pruneExpiredProposals: pending proposals past their TTL become expired.
Pruned == [p \in Proposals |-> IF status[p] = "pending" /\ p \in lapsed
                               THEN "expired" ELSE status[p]]

\* Mutant: duplicates are looked up by id.
Duplicate_ById(p) == status[p] = "pending" /\ p \notin lapsed

\* findPendingProposalByHash: an unexpired pending proposal with p's hash.
Duplicate(p) == \E q \in Proposals :
  status[q] = "pending" /\ q \notin lapsed /\ HashOf[q] = HashOf[p]

-----------------------------------------------------------------------------
(* The agent and the clock.                                                *)

\* POST /v1/agent/proposals: prune, then store p unless a duplicate pends.
Submit(p) ==
  /\ status[p] = "absent"
  /\ status' = IF Duplicate(p) THEN Pruned ELSE [Pruned EXCEPT ![p] = "pending"]
  /\ UNCHANGED <<planApproval, artifact, audit, requestVars, dispatchVars, worldVars>>

\* The canvas prompt and a refused submission prune without storing anything.
Prune ==
  /\ Pruned # status
  /\ status' = Pruned
  /\ UNCHANGED <<planApproval, artifact, audit, requestVars, dispatchVars, worldVars>>

\* proposalTtlMs passes for p.
Lapse(p) ==
  /\ status[p] # "absent" /\ p \notin lapsed
  /\ lapsed' = lapsed \cup {p}
  /\ UNCHANGED <<storeVars, artifact, audit, killSwitch, crashes, requestVars, dispatchVars>>

\* The operator arms or releases the kill switch.
Toggle ==
  /\ killSwitch' = ~killSwitch
  /\ UNCHANGED <<storeVars, lapsed, artifact, audit, crashes, requestVars, dispatchVars>>

-----------------------------------------------------------------------------
(* Steps a sign and a reject request share.                                *)

\* The handler takes `now`, reads the kill switch (423) and awaits the body.
Arrive(r) ==
  /\ At(r, "idle")
  /\ fresh' = [fresh EXCEPT ![r] = goal[r] \notin lapsed]
  /\ Goto(r, IF killSwitch THEN "done" ELSE "admitted")
  /\ UNCHANGED <<storeVars, artifact, audit, goal, dispatchVars, worldVars>>

\* 400, 401, 404, 409, 422 or 503: a refusal that leaves no trace.
Refuse(r) ==
  /\ pc[r] \in {"admitted", "verifying"}
  /\ Goto(r, "done")
  /\ UNCHANGED <<storeVars, artifact, audit, goal, fresh, dispatchVars, worldVars>>

\* Mutant: the TTL is not looked at.
Check_NoExpiry(r) ==
  /\ At(r, "admitted")
  /\ status[goal[r]] = "pending"
  /\ Goto(r, "verifying")
  /\ UNCHANGED <<storeVars, artifact, audit, goal, fresh, dispatchVars, worldVars>>

\* Find the proposal, see it pending, start verifying the audit chain.  A
\* stale `now` makes a sign request mark the proposal expired instead.
Check(r) ==
  /\ At(r, "admitted")
  /\ status[goal[r]] = "pending"
  /\ IF r \in Signers /\ ~fresh[r]
       THEN SetStatus(goal[r], "expired") /\ Goto(r, "expiring")
       ELSE UNCHANGED status /\ Goto(r, "verifying")
  /\ UNCHANGED <<planApproval, artifact, audit, goal, fresh, dispatchVars, worldVars>>

\* An await on the audit log, the canvas journal or the kill-switch file throws:
\* the request ends with a 500 and whatever it already did stays.  A signature
\* that ends between its "signed" and its result is orphaned, since nothing will
\* take the result; one that has a result but cannot log it is unreported.
Throw(r) ==
  /\ AuditFaults
  /\ \/ /\ pc[r] \in {"expiring", "verifying", "signing", "approving", "planning",
                       "published", "rejecting", "withdrawn"}
        /\ Goto(r, "done")
     \/ /\ pc[r] \in {"rereading", "gating", "recording"}
        /\ Goto(r, "orphaned")
     \/ /\ pc[r] \in {"aborting", "reporting"}
        /\ Goto(r, "unreported")
  /\ UNCHANGED <<storeVars, artifact, audit, goal, fresh, dispatchVars, worldVars>>

-----------------------------------------------------------------------------
(* handleProposalSign after the checks.                                    *)

\* A sign step that only appends an audit event and moves on.
Append(r, from, what, to) ==
  /\ At(r, from)
  /\ Log(what, r)
  /\ Goto(r, to)
  /\ UNCHANGED <<storeVars, artifact, goal, fresh, dispatchVars, worldVars>>

AppendExpired(r) == Append(r, "expiring", "expired", "done")

\* The chain verified: bind the action and issue the approval token.
Verified(r) ==
  /\ At(r, "verifying")
  /\ Goto(r, IF r \in Signers THEN "signing" ELSE "rejecting")
  /\ UNCHANGED <<storeVars, artifact, audit, goal, fresh, dispatchVars, worldVars>>

\* Mutant: the canvas is told before oc.artifact.approved is written.
AppendSigned_Publishes(r) == Append(r, "signing", "signed", "publishing")
AppendSigned(r) == Append(r, "signing", "signed", "approving")

\* oc.artifact.approved is written; a plan is attached to the proposal.
AppendApproved(r) ==
  /\ At(r, "approving")
  /\ Log("approved", r)
  /\ IF goal[r] \in PlanProposals
       THEN /\ planApproval' = [planApproval EXCEPT ![goal[r]] = r]
            /\ Goto(r, "planning")
       ELSE UNCHANGED planApproval /\ Goto(r, "publishing")
  /\ UNCHANGED <<status, artifact, goal, fresh, dispatchVars, worldVars>>

AppendPlan(r) == Append(r, "planning", "plan", "publishing")

\* The canvas artifact shows this signature as its approval; the journal of
\* the canvas is written before the request goes on.
Publish(r) ==
  /\ At(r, "publishing")
  /\ artifact' = [artifact EXCEPT ![goal[r]] = [approval |-> "approved", by |-> r]]
  /\ Goto(r, "published")
  /\ UNCHANGED <<storeVars, audit, goal, fresh, dispatchVars, worldVars>>

MarkSigned(r) ==
  /\ At(r, "published")
  /\ SetStatus(goal[r], "signed")
  /\ Goto(r, "rereading")
  /\ UNCHANGED <<planApproval, artifact, audit, goal, fresh, dispatchVars, worldVars>>

\* The kill switch is read again before the dispatch.
Reread(r) ==
  /\ At(r, "rereading")
  /\ IF killSwitch
       THEN SetStatus(goal[r], "execution_failed") /\ Goto(r, "aborting")
       ELSE UNCHANGED status /\ Goto(r, "gating")
  /\ UNCHANGED <<planApproval, artifact, audit, goal, fresh, dispatchVars, worldVars>>

AppendAborted(r) == Append(r, "aborting", "aborted", "done")

\* dispatchSkillHandler: an unknown skill or bad params fail at once; then the
\* kill switch is read a third time (423).
Gate(r) ==
  /\ At(r, "gating")
  /\ \E result \in {"failed"} \cup (IF killSwitch THEN {"stopped"} ELSE {"none"}) :
       IF result = "none"
         THEN Goto(r, "invoking") /\ UNCHANGED <<handler, outcome>>
         ELSE /\ outcome' = [outcome EXCEPT ![r] = result]
              /\ handler' = [handler EXCEPT ![r] = "finished"]
              /\ Goto(r, "waiting")
  /\ UNCHANGED <<storeVars, artifact, audit, goal, fresh, mutated, worldVars>>

Invoke(r) ==
  /\ At(r, "invoking")
  /\ handler' = [handler EXCEPT ![r] = "invoked"]
  /\ Goto(r, "waiting")
  /\ UNCHANGED <<storeVars, artifact, audit, goal, fresh, outcome, mutated, worldVars>>

\* Mutant: the dispatcher's own word is stored.
FinalStatus_Raw(r) == outcome[r]
FinalStatus(r) == IF outcome[r] = "ok" THEN "executed" ELSE "execution_failed"

\* The dispatch resolved within the window: the proposal takes its result.
Answer(r) ==
  /\ At(r, "waiting") /\ handler[r] = "finished"
  /\ SetStatus(goal[r], FinalStatus(r))
  /\ Goto(r, "reporting")
  /\ UNCHANGED <<planApproval, artifact, audit, goal, fresh, dispatchVars, worldVars>>

\* 60 s passed first: the request will answer 202 and leave the handler running.
TimeOut(r) ==
  /\ At(r, "waiting") /\ handler[r] # "finished"
  /\ SetStatus(goal[r], "executing")
  /\ Goto(r, "recording")
  /\ UNCHANGED <<planApproval, artifact, audit, goal, fresh, dispatchVars, worldVars>>

\* Mutant: nobody waits for the late result.
AppendExecuting_Forgets(r) == Append(r, "recording", "executing", "done")

\* Only after this event is written is the continuation on `settled` attached.
AppendExecuting(r) == Append(r, "recording", "executing", "polling")

\* Mutant: the late result changes the proposal and is not logged.
Settle_Silent(r) ==
  /\ At(r, "polling") /\ handler[r] = "finished"
  /\ SetStatus(goal[r], FinalStatus(r))
  /\ Goto(r, "done")
  /\ UNCHANGED <<planApproval, artifact, audit, goal, fresh, dispatchVars, worldVars>>

\* finalizeTimedOutDispatch: the late result overwrites the status.
Settle(r) ==
  /\ At(r, "polling") /\ handler[r] = "finished"
  /\ SetStatus(goal[r], FinalStatus(r))
  /\ Goto(r, "reporting")
  /\ UNCHANGED <<planApproval, artifact, audit, goal, fresh, dispatchVars, worldVars>>

\* oc.proposal.executed, or oc.proposal.aborted when the handler said 423.
Report(r) ==
  Append(r, "reporting", IF outcome[r] = "stopped" THEN "aborted" ELSE "executed", "done")

-----------------------------------------------------------------------------
(* The skill handler, running on its own once invoked.                     *)

\* findRecentApproval: the audit log holds the approval of this token and the
\* canvas artifact shows the same signature as approved.
Approved(r) ==
  /\ Event("approved", goal[r], r) \in audit
  /\ artifact[goal[r]] = [approval |-> "approved", by |-> r]

Authorise(r) ==
  /\ handler[r] = "invoked"
  /\ Approved(r)
  /\ handler' = [handler EXCEPT ![r] = "authorised"]
  /\ UNCHANGED <<storeVars, artifact, audit, requestVars, outcome, mutated, worldVars>>

Finish(r, result) ==
  /\ handler' = [handler EXCEPT ![r] = "finished"]
  /\ outcome' = [outcome EXCEPT ![r] = result]
  /\ UNCHANGED <<storeVars, artifact, audit, requestVars, worldVars>>

\* The provider is called; the answer may still report a failure.
Mutate(r) ==
  /\ handler[r] = "authorised"
  /\ mutated' = mutated \cup {r}
  /\ \E result \in {"ok", "failed", "stopped"} : Finish(r, result)

\* The approval is missing, or a blocker or a kill-switch read stops it first.
Decline(r) ==
  /\ handler[r] \in {"invoked", "authorised"}
  /\ \E result \in {"failed", "stopped"} : Finish(r, result)
  /\ UNCHANGED mutated

-----------------------------------------------------------------------------
(* handleProposalReject after the checks.                                  *)

AppendRejected(r) ==
  /\ At(r, "rejecting")
  /\ Log("rejected", r)
  /\ SetStatus(goal[r], "rejected")
  /\ Goto(r, "withdrawing")
  /\ UNCHANGED <<planApproval, artifact, goal, fresh, dispatchVars, worldVars>>

Withdraw(r) ==
  /\ At(r, "withdrawing")
  /\ artifact' = [artifact EXCEPT ![goal[r]] = [approval |-> "rejected", by |-> r]]
  /\ Goto(r, "withdrawn")
  /\ UNCHANGED <<storeVars, audit, goal, fresh, dispatchVars, worldVars>>

\* The canvas journal holds the withdrawal; the request answers 200.
Withdrawn(r) ==
  /\ At(r, "withdrawn")
  /\ Goto(r, "done")
  /\ UNCHANGED <<storeVars, artifact, audit, goal, fresh, dispatchVars, worldVars>>

-----------------------------------------------------------------------------
\* An operator approves or rejects the artifact on the canvas itself; the
\* decision names no signature, so it satisfies no handler.
CanvasDecide(p) ==
  /\ artifact[p].approval # "none"
  /\ \E d \in {"approved", "rejected"} :
       artifact' = [artifact EXCEPT ![p] = [approval |-> d, by |-> Nobody]]
  /\ UNCHANGED <<storeVars, audit, requestVars, dispatchVars, worldVars>>

\* A canvas decision whose journal lines were still being written.
Unsaved(p) == \E r \in Requests : goal[r] = p /\ pc[r] \in {"published", "withdrawn"}

\* The gateway restarts: proposals, requests and handlers are gone; the audit
\* log, the saved part of the canvas and the kill-switch file survive.
Crash ==
  /\ crashes < MaxCrashes
  /\ crashes' = crashes + 1
  /\ status' = [p \in Proposals |-> IF status[p] = "absent" THEN "absent" ELSE "lost"]
  /\ planApproval' = [p \in Proposals |-> Nobody]
  /\ pc' = [r \in Requests |-> IF pc[r] = "idle" THEN "idle" ELSE "done"]
  /\ handler' = [r \in Signers |-> IF handler[r] = "none" THEN "none" ELSE "finished"]
  /\ \E torn \in SUBSET {p \in Proposals : Unsaved(p)} :
       artifact' = [p \in Proposals |-> IF p \in torn THEN Undecided ELSE artifact[p]]
  /\ UNCHANGED <<lapsed, audit, killSwitch, goal, fresh, outcome, mutated>>

RequestStep(r) ==
  \/ Refuse(r) \/ Check(r) \/ Throw(r) \/ Verified(r)

SignStep(r) ==
  \/ AppendExpired(r) \/ AppendSigned(r) \/ AppendApproved(r) \/ AppendPlan(r)
  \/ Publish(r) \/ MarkSigned(r) \/ Reread(r) \/ AppendAborted(r)
  \/ Gate(r) \/ Invoke(r) \/ Answer(r) \/ TimeOut(r) \/ AppendExecuting(r)
  \/ Settle(r) \/ Report(r)

HandlerStep(r) == Authorise(r) \/ Mutate(r) \/ Decline(r)

RejectStep(r) == AppendRejected(r) \/ Withdraw(r) \/ Withdrawn(r)

Next ==
  \/ \E p \in Proposals : Submit(p) \/ Lapse(p) \/ CanvasDecide(p)
  \/ Prune \/ Toggle \/ Crash
  \/ \E r \in Requests : Arrive(r) \/ RequestStep(r)
  \/ \E r \in Signers : SignStep(r) \/ HandlerStep(r)
  \/ \E r \in Rejecters : RejectStep(r)

Spec == Init /\ [][Next]_vars

\* Node resumes every awaiting request, and provider calls have timeouts.
Fairness ==
  /\ \A r \in Requests : WF_vars(RequestStep(r))
  /\ \A r \in Signers : WF_vars(SignStep(r)) /\ WF_vars(HandlerStep(r))
  /\ \A r \in Rejecters : WF_vars(RejectStep(r))

FairSpec == Spec /\ Fairness

-----------------------------------------------------------------------------
(* Properties.                                                             *)

\* Every change to the outside world traces to a signature whose request was
\* made before the proposal's TTL ran out and whose two approval events are in
\* the audit log, crash or no crash.
MutationAuthorised == \A r \in mutated :
  /\ fresh[r]
  /\ {Event("signed", goal[r], r), Event("approved", goal[r], r)} \subseteq audit

\* What the canvas shows as signed or rejected by a request is on record.
CanvasBackedByAudit == \A p \in Proposals :
  artifact[p].by # Nobody => Event(artifact[p].approval, p, artifact[p].by) \in audit

\* The agent never has two live pending proposals with one category|targetRef.
OnePendingPerHash == \A p, q \in Proposals :
  /\ {status[p], status[q]} = {"pending"} /\ {p, q} \cap lapsed = {}
  /\ HashOf[p] = HashOf[q]
  => p = q

\* What a request decided is on record, a signature having been made in time.
OnRecord(r) ==
  IF r \in Signers
    THEN /\ fresh[r]
         /\ {Event("signed", goal[r], r), Event("approved", goal[r], r)} \subseteq audit
    ELSE Event("rejected", goal[r], r) \in audit

\* A decided proposal keeps its decision until a restart forgets it, unless a request of the
\* same proposal that is still in progress overrules it; and such a request has its own
\* decision in the audit log by then, so the log never shows fewer decisions than were made.
InProgress(r) == pc[r] \notin {"idle", "admitted", "done", "orphaned", "unreported"}
DecisionStands ==
  [][\A p \in Proposals :
       status[p] \in {"rejected", "expired", "executed", "execution_failed"} =>
         \/ status'[p] \in {status[p], "lost"}
         \/ \E r \in Requests : goal[r] = p /\ InProgress(r) /\ OnRecord(r)']_vars

\* A signed proposal does not stay signed or executing for ever, also when several signatures
\* of it time out and answer late, unless a file failed under a signature of it between
\* "signed" and the moment its result has a continuation.
Unsettled(p) == status[p] \in {"signed", "executing"}
Orphaned(p) == \E r \in Signers : goal[r] = p /\ At(r, "orphaned")
SignedSettles == \A p \in Proposals : Unsettled(p) ~> ~Unsettled(p) \/ Orphaned(p)

\* Every change to the outside world ends in the audit log with what became of it, however
\* late its handler answers, unless a file failed under the request after it was signed.
Reported(r) == \E what \in {"executed", "aborted"} : Event(what, goal[r], r) \in audit
MutationReported == \A r \in Signers :
  r \in mutated ~> Reported(r) \/ pc[r] \in {"orphaned", "unreported"}

\* At most one signature of a proposal changes the outside world.
MutatedOnce == \A r, s \in mutated : goal[r] = goal[s] => r = s
=============================================================================
