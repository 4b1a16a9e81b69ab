# A TLA+ verification project for Delivrix

Delivrix operates a fleet of SMTP senders. A gateway (TypeScript, one Node.js
process) lets an agent, OpenClaw, propose actions that an operator signs;
it buys domains and servers, configures them as mail senders, keeps their
status, accepts send requests and queues them; worker processes send. Almost
all of its state is JSON files rewritten under a lock file, plus arrays and
sets in the gateway's memory. This directory models the parts where order,
failure and concurrency decide whether the system is right.

## 1. Inventory

| Part | State | Operations | Talks to | What is hard |
|---|---|---|---|---|
| Approval gate (`proposals-sign.ts`, `proposals-reject.ts`, `skill-dispatcher.ts`) | proposals in memory, audit log, canvas decisions, kill switch | submit, prune, sign, reject, dispatch, late settlement | every skill handler, audit log, canvas | two requests on one proposal, time-outs, audit failures, restarts |
| Send pipeline (`packages/queue`, `apps/worker`, rate limits, suppression list) | jobs, quota counters, results, suppressed recipients | accept, claim, check, consume, assign, send, complete, recover | sender nodes, kill switch, complaint feeds | worker death, requeue of a slow worker's job, limits, late suppression |
| Sender-node registry (`sender-node-*.ts`, `ip-reputation.ts`) | one status per node | register, pause/quarantine/…, retire, reconcile health, reconcile reputation | send results, operators | decisions on stale lists, whole-file writes, rules that undo each other |
| Domain purchase (`domains-purchase.ts`, `domains-namecheap-purchase.ts`) | inventory entries of both registrars, month's spend lock | register, poll, reconcile; buy | Route53, Namecheap | money: lost answers, crashes, write failures, races for the cap, one inventory for two routes |
| SMTP orchestrator (`orchestrator-smtp.ts`, `webdock-servers.ts`) | run-state file, bindings, replay set in memory | start, resume, execute a step, choose an account, fail over, propose a deletion | approval gate, Webdock, every provisioning skill | time-outs with a handler still at work, restarts, failover, provenance |
| Warm-up ramp (`warmup-ramp.ts`) | a ramp in the inventory, timers in memory | start, run a batch, pause, resume, restart | SSH, approval gate | pauses during a batch, timers left over, overdue batches, readings written back late |
| Warm-up engine (`apps/warmup-engine`) | PostgreSQL rows: nodes, sends, signals, tests | plan a day, drain the queue, place, move nodes between states | mail transport, seed mailboxes | a tick that dies between a mail and its status, nodes that change under a plan |
| JSON store and audit log (`packages/local-store`) | a file and its lock file | transaction, append | every store of the system | two processes, kills, a full disk, torn lines |
| Approval tokens | nonces in memory | issue, list, clean up | gate, orchestrator | expiry |
| Plan approvals | plan scopes in the log | look up | gate, orchestrator | plans of aborted proposals still found |
| DNS routes and their watchdog | zones at the provider, snapshots | upsert, wait, roll back | Route53, IONOS | a restore over a later upsert |
| Provider adapters, breaker, governor | failures per key | fetch, retry, probe | providers | formatting; one step in the models |
| Canvas, chat, agents, panel, reports, scripts | views | read, stream, render | gateway | little state of their own |

`PROJECT.json` lists every component with its status, and under `hazards` what
is hard to test, at the line where it bites. What makes each modelled part
correct:

* gate: nothing changes the outside world without a timely signature on record;
  what the canvas shows is in the log; a decision is overruled only by one that is on
  record itself; a signed proposal settles and a change to the outside world is
  reported, unless a file fails under the signature;
* pipeline: quotas are never exceeded; a job is sent once unless an operator
  requeued it; nothing is sent to a recipient known as suppressed when it was
  claimed, unless another feed was about to write over that suppression;
* registry: quarantine and retirement yield to nothing but the operator's proper
  action or a registration, and a reconciliation quarantines every node complained
  about, but for nodes that another request changed meanwhile;
* purchase: what is reserved stays under the cap; what the provider accepted
  stays counted and is not asked for again, unless two requests raced for the entry;
* orchestrator: a run creates one server at most, and one more for each restart;
  it makes none beside one it is bound to or finds, remembers where they are, and
  proposes to delete only what it created;
* ramp: what the record says was sent was mailed, once; a paused ramp is silent;
  a running one gets to all its batches but those whose timer a failure took;
* engine: the table accounts for every mail the transport acknowledged; a node keeps to its day's quota and
  is silent while it is held; the queue of a node that can send is drained;
* files: one caller at a time; what was acknowledged is there and stays; the log
  is one chain; nobody waits for ever.

## 2. Modules

    ApprovalGate          <- MCApprovalGate, ApprovalGateProofs
    DurableList           abstract: operations added once, then acknowledged
      ^ refined by
    LocalFile             <- MCLocalFile, LocalFileProofs
    SendPipeline          <- MCSendPipeline, SendPipelineProofs
    SenderNodes           <- MCSenderNodes, SenderNodesProofs
    DomainPurchase        <- MCDomainPurchase, DomainPurchaseProofs
    SmtpRun               <- MCSmtpRun, SmtpRunProofs
    WarmupRamp            <- WarmupRampProofs
    WarmupEngine          <- MCWarmupEngine, WarmupEngineProofs

An action is the code between two awaits of one request, worker or handler;
code without an await between two statements is one action. Node runs one
callback at a time, so nothing finer can interleave within the gateway; workers
are separate processes and interleave at file operations. LocalFile shows that an
update of a file under its lock is atomic for those that use the lock, and the
other modules take it as one step; a read outside the lock is a step of its own.

**ApprovalGate.** `status`, `planApproval` are the proposal objects in memory;
`artifact` the canvas; `audit` the events written; `pc`, `goal`, `fresh` a
request's position, its proposal and whether the proposal was unexpired at the
request's single reading of the clock; `handler`, `outcome`, `mutated` the
dispatched skill. A signature goes through expiry check, chain verification,
`signed` and `approved` events, plan approval, canvas decision, second reading
of the kill switch, dispatch (the dispatcher reads it a third time), the wait of
the dispatch window and the settlement of a late answer. A file that fails under a
request ends it where it is (`Throw`): before it marked the proposal it is simply
`done`; after that it is `orphaned`, if nothing is left to settle the proposal, or
`unreported`, if only the report of what was done is missing. `Crash` loses the
memory and keeps log, canvas and the mutations made.

**SendPipeline.** Jobs go from `queued` through `processing` to a final status;
each worker run claims one job, applies the policy (kill switch, suppression),
picks a node, consumes all its quota scopes or none, assigns, records the
result and marks the job. A claim is numbered so that two workers with one job
(after a requeue) can be told apart. Recoveries fail or requeue a job of a worker
that is dead or only slow. Complaint feeds read and rewrite the suppression list
without a lock around the pair and so lose one another's entries. `kept` remembers
the recipients acknowledged while no other feed was about to write a list without
them, `barred` the claims made for them.

**SenderNodes.** `NextStatus`, `AllowedFrom` are the manual-control table;
`HealthStatus` and `ReputationStatus` the two recommendation functions, over
evidence reduced to whether a node was complained about, bounced or is well. A request reads
the list, decides, and applies its plans one by one, each with the unlocked read
and the whole-file write of `upsert`; requests overlap. A registration writes whatever
status it names, over an existing node too, as the route checks neither. `since` remembers,
for each request, the nodes whose status others changed since it began: only those may
it put back.

**DomainPurchase.** `entry` is the inventory, `ops` Route53's operations, `bought`
what Namecheap sold, `lock` the month's spend lock (leaked when the process dies
holding it). A request at Route53 checks the provider's list, looks at the entry,
reconciles an open purchase or takes the lock, sums the spend, reserves, calls,
marks the answer and polls. One at Namecheap (`Order`, `List`, `Sum`, `Buy`, `Note`)
lists its own domains, sums its own spend and buys, with neither lock nor
reservation; both routes replace the domain's entry in one inventory. Requests for one
domain may overlap. An audit that fails after Route53 accepted is taken for the
provider's error, and the operation's id is lost (`Err`). `raced` remembers the domains for which a request went
on to buy, or wrote an old answer over the entry, while another was engaged in them. The gates
that only refuse (naming, approval, price, contact, orphan guard) are one refusal.

**SmtpRun.** `steps`, `account`, `recorded`, `slug`, `created`, `mail` are the
run-state file; `pc`, `cur`, `requested`, `excluded`, `declined` the one request
the run's lock admits; `replay` is `planStepExecutions`, lost at a restart; `at`, `on`,
`made` the handlers, which outlive the request that gave up on them. Steps 1-3
are `register` and 5-13 `provision`: they share one protocol (lease, replay,
execution, record), and only step 4, step 14 and "6 or later" are told apart by
the catch of the run. A step in flight is `live` or, when its 45-minute lease
has passed, `stale`; a request never outlasts the lease it took, since a
dispatch is bounded by a time-out of minutes.

**WarmupRamp.** `state` and `batches` are the ramp's record, written in one step
each; `live` the timers that will fire, each made by a round of scheduling;
`handle` and `first` the two keys of the scheduler's map of handles, the batch's
and the ramp's own; `pc` and `seen` a batch in progress and the batches it read
before its SSH command, all of which it writes back after it. A pause cancels the
handle under the ramp's own key, a failure or a completion all of them; a resume
reads, writes and schedules in three steps. After an outage the timers of a
restart may all be overdue at once. Batches overlap, those of one round included: the fast
schedule has them 120 s apart, the time-out of the SSH command. Each read of the ramp,
write of the inventory and append of an event may throw: past the write of `running` no
timer is then made (`StartTimers`, `ResumeTimers`), a batch that cannot read the ramp is dropped
(`Fire`), a restart that cannot read the inventory schedules nothing (`Boot`); `unserved`
has the batches that lost their timer so, until a round of scheduling gives them a new one.
A batch that throws after its SSH command is a rejection nobody handles, which ends the
process, so it counts as a restart. `crossed` remembers that a batch in progress
met another batch, a pause or a resume.

**LocalFile.** `lines` and `torn` are the file, either a document that is replaced by a
rename or a log that is appended to; `lock` is the lock file, `queue` the mutex of
each process, `seen` what a caller has read. A caller waits ten seconds for a lock
file and then throws. `Kill` ends the callers of one process wherever they are and
leaves the lock file; a full disk ends one caller, which leaves the lock file only if
it was just then created. `DurableList` is what its users rely on.

**WarmupEngine.** `table`, `status`, `attempts` are the rows of `warmup_sends`, one
slot per mail of a node's quota and slot 0 for its seed; `snap`, `todo`, `batch`,
`pending`, `touched` what the tick of the daemon holds in memory. A tick plans each
active node, drains the queue through the gate, and reads placement tests,
whose results move nodes by `NextNodeState`; it may die between any two steps.
Admission, readiness and the day of a node change from outside at any moment.

## 3. Runs

| Run | Question | Bounds |
|---|---|---|
| `gate_race` | two signatures of one proposal with kill switch, expiry, time-outs and failing files; does a signed proposal settle, and is a mutation reported? | 1 proposal, 2 signers |
| `gate_faults` | duplicate proposals, every file may fail, a restart; are mutations authorised, and do decisions stand? | 2 proposals of one hash, 1 signer, 1 rejecter, 1 restart |
| `gate_twice` (violation) | is a proposal's handler run once? | 1 proposal, 2 signers, 1 rejecter |
| `pipeline_quota` | quotas, single sending and suppression before a claim | 2 jobs, 2 workers, 2 nodes, 2 feeds, 2 claims, 1 death, sends made earlier in the day |
| `nodes_overlap` | how far do overlapping requests break the status rules? | 2 nodes, 2 requests side by side |
| `purchase_month` | cap, accounting and repetition of purchases | 2 domains, 2 registrars, 2 requests at once (for one domain too), 3 in all, 1 crash, failing writes and audits |
| `purchase_again` (violation) | does the month's real spend stay under the cap? | 2 domains, 3 requests in turn |
| `smtp_run` | its servers, their account, their deletion | 2 accounts, 4 requests, 2 restarts, every fault |
| `ramp_batches` | record, repetition, pause and progress of a ramp | 3 batches, 2 at once, 2 of pause, resume, restart and failure |
| `ramp_pause` (violation) | does a pause hold? | 3 batches, 1 pause |
| `store_calls` | locks, chain, torn logs, progress; refinement of DurableList | 3 callers in 2 processes, 4 calls, 2 kills or full disks |
| `warmup_day` | mails, quotas, held nodes and progress on one day | 2 nodes with 2 and 1 mails, 2 attempts, 4 moves from outside, 1 tick that dies |

The bounds are named constants of the modules (`MaxCrashes`, `MaxClaims`,
`MaxDeaths`, `MaxRequests`, `MaxStarts`, `MaxActs`, `MaxRuns`, `MaxCalls`, `MaxFaults`,
`MaxMoves`, `MaxDay`). Two of each actor are enough for every race, as each race
is between a pair; LocalFile has two callers in one process and one in another,
for the mutex and the lock file. Two claims let a job be requeued and claimed again beside its first worker, or
two jobs meet at a limit; the counters may start part-used (`Init`), as earlier in the day.
Two requests on the registry are one pair that overlaps. Three purchases let two race
for one domain, or for the last of the month, and a third come after them; four requests and two
restarts let a run fail, be resumed in the same process (refused as a replay),
and after a restart, twice. The quota of each pipeline node is one and the
campaign's two, so the limits are met. A node of the engine grows from one
mail a day to two and to its seed while its plan is in progress (`SeedsEach` 2);
its queue fits in a tick (`Limit` 6), which the hazard list says is needed. Two acts let a
pause be followed by a resume or a restart with timers left over, and three batches
let one be sent, one be in progress and one pend. `CHECK_DEADLOCK FALSE` is set
where the bounded system stops when its requests are used up; the engine's daemon
never stops, and `warmup_day` checks that.

**Fairness.** `FairSpec` of ApprovalGate has weak fairness on the steps of a
request and of a handler: an awaited promise is resumed by the event loop, and
file operations and provider calls end by answer, error or time-out.
No fairness is assumed of operators, expiry or the kill switch. WarmupRamp's
has it on the gateway's steps together (timers fire, SSH commands end by their
time-out), LocalFile's on each caller's (a process that lives runs its callbacks
and its timers; a killed one has no call left), WarmupEngine's on the tick (its
queries return and its timer fires). None is assumed of what comes from outside.

**What the violations show.** Two signatures of one proposal overlap between the
`pending` check and the assignment of `signed`, and the handler runs twice. A domain
bought this month and asked for again is rewritten at cost 0, so the spend
forgets it. A pause during a batch's SSH command is overwritten by the `running`
the batch writes after it, and the timers the pause left alone go on.

**What the properties exempt.** The code does lose things, and a property that said otherwise
would be false. Each property leaves out exactly what a named piece of history says may be
lost, and what is left out is a hazard at its line:

* a restart forgets proposals, and a decision on one may be overruled by a request already past the
  pending check whose own decision is on record (`DecisionStands`);
* a signature under which a file failed after the proposal was marked settles nothing
  (`orphaned`) or reports nothing (`unreported`): nothing in the code retries either;
* of two complaint feeds that overlap, the later writer drops the other's entry (`kept`);
* of two registry requests that overlap, one may put back what the other changed (`since`). The
  properties hold for every other node, and a registration is the only way to
  activate one beside an operator's reactivation. The route stores any string as the
  status; the model has those of `SenderNodeStatus`;
* of two purchases of one domain that both pass the check before either reserves, both call
  the provider, and an answer settled late overwrites a newer purchase (`raced`);
* an unreadable inventory makes the cap fail open, so `read` is not among the faults of
  `purchase_month`. `BudgetHolds` is about Route53's cap: Namecheap's, summed with no
  lock and no reservation, is exceeded by two requests;
* a server whose creation was answered to nobody is not found again. A creation sends the
  host as the server's *name* only (`webdock-real-adapter.ts:412`), a later one looks for its
  `hostname` or `mainDomain` (`webdock-servers.ts:1114`), which step 8 sets. So `Listed` has
  only servers made otherwise; the replay set keeps one process from asking twice, and each restart may cost
  one server more: `OneServer` is `Cardinality(Own) <= 1 + crashes`. Such a server is also never proposed for
  deletion. It lives in the account on record (`AccountRemembered`), where an operator
  can find it;
* the ramp's properties but `SentIsMailed` hold as long as no batch in progress was met
  (`crossed`), the condition `ramp_pause` shows to be needed, and a batch whose timer a
  failure took stays pending in a running ramp until a restart (`unserved`): a
  resume returns such a ramp as it is.

## 4. Proofs

Each core module has its theorems in a module of its own, `...Proofs`. They hold for every value of the
constants that the module's assumption allows: any sets of nodes, workers, proposals
or domains, any limits, any bounds on faults and restarts. The assumptions say
that the constants have their types, that markers such as `Nobody` are not
also nodes, and that a set which is summed or counted is finite; the engine's also
that its numbers are positive, as the configuration's defaults are. The runs evaluate each.

| Module | Every variable's type | Safety of the runs | Under a condition |
|---|---|---|---|
| `ApprovalGateProofs` | `TypeCorrect` | `MutationsAuthorised`, `CanvasBacked`, `OnePendingHolds`, `DecisionsStand` | |
| `SendPipelineProofs` | `TypeCorrect` | `QuotaAlwaysHolds`, `SentOnceHolds`, `SuppressedNotSentHolds` | |
| `SenderNodesProofs` | `TypeCorrect` | `ReconcileQuarantinesHolds`, `RestoredByOperatorHolds`, `RetirementStandsHolds` | |
| `DomainPurchaseProofs` | `TypeCorrect` | | `LiveIsCountedHolds`, `NotRegisteredTwiceHolds`, `BudgetAlwaysHolds` (`Readable`) |
| `SmtpRunProofs` | `TypeCorrect` | `OneServerHolds`, `NoneBesideHolds`, `AccountAlwaysRemembered`, `RollbackOnlyOwnHolds` | |
| `WarmupRampProofs` | `TypeCorrect` | `SentIsMailedHolds`, `MailedOnceHolds`, `PauseHonouredHolds` | |
| `WarmupEngineProofs` | `TypeCorrect` | `MailAccountedHolds`, `DayCapAlwaysHolds`, `SilentWhenHeldHolds` | |
| `LocalFileProofs` | `TypeCorrect` | `MutualExclusion`, `LocksRemoved`, `LogIsChained`, `CutLogStops`, `ImplementsDurableList` | |

Every invariant and every safety action property of a passing run is stated by
one of them, and so is the refinement.

**The condition.** There is one. `Readable`: the inventory of domains can be read; its writes, the
audit and the process may fail. The code does not guarantee it: a file that cannot be
read counts as an empty one, and the cap and the check for open purchases fail open, a
hazard listed at its line. `purchase_month` meets the condition and has two requests overlap on one
domain. What the other theorems do not claim is in the properties themselves
(section 3), so it is visible to the runs too.

**The invariants.** No property above is inductive as the run states it: each depends on what a
request read or wrote several awaits earlier, so the strengthening says, position by
position, what that history left behind.

* ApprovalGate, `SafeInv`: a request past the expiry check was in time (`OnTime`), past each
  append its event is recorded (`Recorded`, `RejectionRecorded`), a handler at
  work belongs to a request past both appends (`HandlersEntitled`), and what has
  mutated was such a handler (`MutatedEntitled`). `Frame` (the log only grows, a
  request's proposal does not change) carries the recorded facts through every step
  that does not touch them. `StoreStep` says which steps change a proposal's status and
  what they need for it.
* LocalFile, `FileInv`: what a caller read is still the file when it writes
  (`ReadingIsFresh`), because nobody writes meanwhile (`LockHeld`: a caller past the lock file
  owns it and its process's mutex); calls have numbers of their own
  (`Numbered`) and are in the file from the moment they took effect (`Effects`).
  The refinement maps `entries` to the numbers of the calls in the file.
* SendPipeline, `SafeInv`: each quota counter covers the sends it paid for, those already
  made and those a worker has consumed for and is about to make (`Covered`); a
  claim belongs to one worker and pays for one send (`ClaimsApart`); a
  job not requeued has been claimed once, by the claim on record (`ClaimedOnce`).
  `FeedInv`: whoever was kept is in the list, and in that of each feed about to write (`ListCurrent`), and
  a claim made after the acknowledgement gets no further than its check (`BarredStop`).
* SenderNodes, `IInv`: what a request will set is what it was asked for or what its rule
  allows (`PlansFollow`); but for the nodes others changed since it began, what a request read is
  the file as it is (`ReadIsCurrent`), it has still planned each quarantine that is due
  (`CriticalKept`) and nothing it plans touches a node that is being retired (`RetiringSpared`).
* DomainPurchase, `PurchaseInv`: the lock is held from the reading of the spend to the
  reservation (`LockHeld`); of a domain that was not raced for, one request at most is buying
  (`BuyersAlone`); of each such domain, its entry is its registrar's, an operation
  is repeated only after the earlier one failed, the entry's operation is the
  last, and what has not failed is counted (`DomainSound`); of each request, it may buy
  when it is past the check, and what it is about to write follows from the entry
  and the answer (`RequestSound`). `Budget` adds that the spend that was read leaves
  room for the reservation (`RoomLeft`). `ProgressInv` ties the operations to the requests
  served, for the types.
* SmtpRun, `RunInv`: a request bound to an account has the recorded one, and an unbound one
  is before any server and any creation in progress (`RequestBound`); the creation,
  which outlives its request, works in the recorded account and is in the replay
  set (`CreationPlaced`); a process that has not made a server yet has one to make
  (`Budgeted`); a creation makes one only when it found none (`CreationSound`);
  what a payment failure means (`AnswerSound`); what counts as created is the run's
  (`RecordSound`).
* WarmupRamp, `RampInv`: no reading that may yet be written back claims more than was mailed
  (`ReadingsMailed`); until a batch in progress is met, one batch runs at a time, on
  the batches and the order of now (`Apart`), and a pending batch has been mailed only
  by runs that a restart cut (`MailsExplained`).
* WarmupEngine, `EngineInv`: a slot with a row is one the quota allows (`SlotsAllowed`, from
  `PlansWithin`); a slot has one row (`RowsApart`); the sends of a batch
  stay queued until they are marked, each listed once (`BatchQueued`); what is
  about to be sent passed the gate (`GatePassed`); and `MailAccounted` itself.

**The argument.** In each module `TypeStep` and one lemma per conjunct go by the
actions of `Next`, `Invariance` puts them together, and the theorems follow. Sums and lists are
reasoned about by a least counterexample instead of an induction: of the
sets (or prefixes) for which a statement about a sum (or a queue) fails one has no
smaller, by the library's well-foundedness of inclusion and of `<`, and taking an element from
it contradicts that. So `BudgetAlwaysHolds` knows what replacing one entry does
to the month's spend (`SpendReplaced`), `DayCapAlwaysHolds` that counts which differ
by one on some slots have sums that differ by their number (`MailsOnce`), and
`BatchQueued` that the queue lists queued rows, each once (`QueueSound`).
Least elements (`Least`, `Min`) are shown to exist the same way.

**Only model-checked.** `SignedSettles`, `MutationReported`, `RampSettles`, `CallEnds`, `QueueSettles`: liveness under
fairness, and with it `ENABLED`, is out of the prover's reach. The three violations
are counterexamples and have nothing to prove; that `Readable` is needed is likewise
shown by adding `read` to `Faults`, not proved.

## 5. Not modelled

`PROJECT.json` gives the reason for each component. In short: cryptography and
formatting; the panel and the reports (no state of their own); language-model
transport (what it may do goes through the gate); provider APIs beyond their
possible answers; the use of an approval token, since `validateApprovalToken` is
called by its tests only. These make up most of the code's lines, and the modules
cover the part of it that keeps state.

In the modelled parts:

* pipeline: the second copy of the worker's flow in the demo endpoints; the day
  change of the counters; runbooks with a quorum;
* orchestrator: the lookup of a plan for a step (the model starts from one that
  was found), the gated (unsigned) path and other VPS providers, its reuse of
  a named server, its lock files, the reconstruction of runs older than its state file;
* ramp: the time between batches, but for their order; what a throwing command
  may have mailed; how a breaker decides;
* files: appends of several events at once; a write cut exactly before its
  final newline; a loss of power (nothing is synced to disk); the
  verification of the chain, its signed anchor and the backup copy;
* engine: a transport that takes a mail and answers with an error: mailed is what it
  answers as ok, and any other answer counts as nothing mailed, so a transient error after delivery would
  have the mail repeated unseen by `MailAccounted`; more than one day and more than one daemon; the ceilings of the quota no
  caller sets; the live daemon of one mailbox; the evidence of bounces and
  complaints, which is free. The code has no step that lists a `failed` send again or looks at
  a held node without new placement results: both are hazards without a property.

## 6. Plan

Done: the approval gate, the send pipeline, the registry, purchases at both
registrars, the orchestrator's run, the ramp, the files and the engine, each with the proofs of
its safety properties. Left, in order of importance:

1. **DNS watchdog** (`domains-dns.ts`, `dns-ionos-upsert.ts`, `auto-rollback.ts`): upserts,
   their snapshots, propagation and the restore. Property: a restore undoes its own
   upsert and no other, and which upserts may overlap for that.
2. **Plan lookup** (`plan-approval-audit.ts`) composed with SmtpRun's execution of steps:
   expiry, restart, proposals aborted after they were signed. A plan signature authorises
   many mutations, which the gate's model does not have.
3. **Theorems** about more than a property each: that SendPipeline and SmtpRun implement
   abstract specifications of their own (a job sent once and paid for; a run that
   takes a server, remembers it and gives up only that one), as the files do; that requests on different domains do not disturb one another.
4. The breaker of provider requests, the creation-rate governor as a pure
   algorithm, and the tickets of the health auto-flag.
