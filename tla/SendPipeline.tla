---------------------------- MODULE SendPipeline ----------------------------
(***************************************************************************)
(* The simulated send pipeline: the gateway accepts send requests into a   *)
(* file-backed queue, one-shot worker processes claim and execute them,    *)
(* operators recover stuck jobs, and complaints grow the suppression list. *)
(*                                                                         *)
(* The queue and the rate-limit counters change in file-locked             *)
(* transactions, one action each.  The result store and the suppression    *)
(* list read without the lock and then write what they read plus one       *)
(* entry, so each of their additions is two actions.                       *)
(***************************************************************************)
EXTENDS Naturals, FiniteSets

CONSTANTS Jobs,             \* job ids, numbered in the order they are created
          RecipientOf,      \* job -> recipient
          Workers,          \* worker processes that may run side by side
          Nodes,            \* registered sender nodes, all fit to send
          Nobody,           \* no node, no job
          NodeLimit,        \* node -> daily limit
          CampaignLimit,    \* daily limit of the one campaign
          Feeds,            \* requests that suppress a recipient
          ComplaintOf,      \* feed -> recipient
          Recoveries,       \* what operators do with stuck jobs
          MaxClaims,        \* claims considered
          MaxDeaths         \* workers that die half-way

Recipients == {RecipientOf[j] : j \in Jobs} \cup {ComplaintOf[f] : f \in Feeds}
Scopes == Nodes \cup {"campaign"}
Bound(s) == IF s = "campaign" THEN CampaignLimit ELSE NodeLimit[s]

ASSUME PipelineAssumption ==
  /\ Jobs \subseteq Nat
  /\ Nobody \notin Jobs \cup Nodes
  /\ "campaign" \notin Nodes
  /\ NodeLimit \in [Nodes -> Nat] /\ CampaignLimit \in Nat
  /\ DOMAIN RecipientOf = Jobs /\ DOMAIN ComplaintOf = Feeds
  /\ Recoveries \subseteq {"fail", "requeue"}
  /\ MaxClaims \in Nat /\ MaxDeaths \in Nat

VARIABLES status,           \* job.status ("absent", "admitted": not in the file)
          sender,           \* job.senderNodeId
          startedAt,        \* job.processingStartedAt, as the number of its claim
          used,             \* today's counter of each scope
          results,          \* the send-result file, as the claims it has results of
          suppressed,       \* the suppression file
          killSwitch,
          pc, job, claim,   \* each worker's position, job and claim
          node,             \* the node it selected
          verdict,          \* the status it is about to mark its job with
          read,             \* the result file as it read it
          feed,             \* each feed's position
          listRead,         \* the suppression file as the feed read it
          kept,             \* recipients acknowledged as suppressed, and not about to
                            \* be dropped by a feed that read the list without them
          barred,           \* claims made when their recipient was kept
          sends,            \* simulated sends made
          requeued,         \* jobs an operator returned to the queue
          claims, deaths

vars == <<status, sender, startedAt, used, results, suppressed, killSwitch, pc,
          job, claim, node, verdict, read, feed, listRead, kept, barred, sends,
          requeued, claims, deaths>>

queueVars == <<status, sender, startedAt>>
workVars == <<job, claim, node, verdict, read>>
feedVars == <<suppressed, feed, listRead, kept>>
pastVars == <<barred, sends, requeued, claims, deaths>>

Final == {"completed", "failed", "blocked"}
Runs == 1..MaxClaims

TypeOK ==
  /\ status \in [Jobs -> {"absent", "admitted", "queued", "processing"} \cup Final]
  /\ sender \in [Jobs -> Nodes \cup {Nobody}]
  /\ startedAt \in [Jobs -> 0..MaxClaims]
  /\ used \in [Scopes -> Nat]
  /\ results \subseteq Runs
  /\ suppressed \subseteq Recipients /\ kept \subseteq Recipients
  /\ killSwitch \in BOOLEAN
  /\ pc \in [Workers -> {"idle", "claiming", "checking", "choosing", "consuming",
                         "assigning", "reading", "writing", "marking"}]
  /\ job \in [Workers -> Jobs \cup {Nobody}]
  /\ claim \in [Workers -> 0..MaxClaims]
  /\ node \in [Workers -> Nodes \cup {Nobody}]
  /\ verdict \in [Workers -> Final \cup {"none"}]
  /\ read \in [Workers -> SUBSET Runs]
  /\ feed \in [Feeds -> {"idle", "writing", "done"}]
  /\ listRead \in [Feeds -> SUBSET Recipients]
  /\ barred \subseteq Runs
  /\ sends \subseteq [claim : Runs, job : Jobs, node : Nodes]
  /\ requeued \subseteq Jobs
  /\ claims \in 0..MaxClaims /\ deaths \in 0..MaxDeaths

\* Earlier sends of the day, each of them the campaign's, may be in the counters.
Init ==
  /\ status = [j \in Jobs |-> "absent"]
  /\ sender = [j \in Jobs |-> Nobody]
  /\ startedAt = [j \in Jobs |-> 0]
  /\ used \in {u \in [Scopes -> 0..CampaignLimit] : \A s \in Scopes : u[s] <= Bound(s)}
  /\ results = {}
  /\ suppressed = {}
  /\ killSwitch = FALSE
  /\ pc = [w \in Workers |-> "idle"]
  /\ job = [w \in Workers |-> Nobody]
  /\ claim = [w \in Workers |-> 0]
  /\ node = [w \in Workers |-> Nobody]
  /\ verdict = [w \in Workers |-> "none"]
  /\ read = [w \in Workers |-> {}]
  /\ feed = [f \in Feeds |-> "idle"]
  /\ listRead = [f \in Feeds |-> {}]
  /\ kept = {}
  /\ barred = {}
  /\ sends = {}
  /\ requeued = {}
  /\ claims = 0 /\ deaths = 0

-----------------------------------------------------------------------------
(* The gateway: POST /v1/send-requests and the kill switch.                *)

At(w, step) == pc[w] = step
Goto(w, step) == pc' = [pc EXCEPT ![w] = step]

\* The kill switch, the policy and the campaign's counter let the request in;
\* jobs are numbered in this order.
Admit(j) ==
  /\ status[j] = "absent" /\ \A i \in Jobs : i < j => status[i] # "absent"
  /\ ~killSwitch
  /\ RecipientOf[j] \notin suppressed
  /\ used["campaign"] < CampaignLimit
  /\ status' = [status EXCEPT ![j] = "admitted"]
  /\ UNCHANGED <<sender, startedAt, used, results, killSwitch, pc, workVars, feedVars,
                 pastVars>>

\* sendQueue.add; what was checked may have changed since.
Enqueue(j) ==
  /\ status[j] = "admitted" /\ \A i \in Jobs : i < j => status[i] # "admitted"
  /\ status' = [status EXCEPT ![j] = "queued"]
  /\ UNCHANGED <<sender, startedAt, used, results, killSwitch, pc, workVars, feedVars,
                 pastVars>>

Toggle ==
  /\ killSwitch' = ~killSwitch
  /\ UNCHANGED <<queueVars, used, results, pc, workVars, feedVars, pastVars>>

-----------------------------------------------------------------------------
(* One run of the worker process.                                          *)

\* A new process reads the kill switch; armed, it exits at once.
Start(w) ==
  /\ At(w, "idle")
  /\ ~killSwitch
  /\ Goto(w, "claiming")
  /\ UNCHANGED <<queueVars, used, results, killSwitch, workVars, feedVars, pastVars>>

Queued == {j \in Jobs : status[j] = "queued"}

\* Mutant: a job in processing is claimable.
Claimable_Open == {j \in Jobs : status[j] \in {"queued", "processing"}}
\* The first queued job of the file.
Claimable == Queued

Claim(w) ==
  /\ At(w, "claiming")
  /\ claims < MaxClaims
  /\ \E j \in Claimable :
       /\ \A i \in Claimable : j <= i
       /\ status' = [status EXCEPT ![j] = "processing"]
       /\ startedAt' = [startedAt EXCEPT ![j] = claims + 1]
       /\ job' = [job EXCEPT ![w] = j]
       /\ barred' = IF RecipientOf[j] \in kept THEN barred \cup {claims + 1} ELSE barred
  /\ claims' = claims + 1
  /\ claim' = [claim EXCEPT ![w] = claims + 1]
  /\ Goto(w, "checking")
  /\ UNCHANGED <<sender, used, results, killSwitch, node, verdict, read, feedVars, sends,
                 requeued, deaths>>

\* No queued job: the process ends.
NoJob(w) ==
  /\ At(w, "claiming")
  /\ Queued = {}
  /\ Goto(w, "idle")
  /\ UNCHANGED <<queueVars, used, results, killSwitch, workVars, feedVars, pastVars>>

\* The job will be marked with status s.
Resolve(w, s) == verdict' = [verdict EXCEPT ![w] = s] /\ Goto(w, "marking")

\* Mutant: an unreadable suppression list lets the job through.
CheckPolicy_FailOpen(w) ==
  /\ At(w, "checking")
  /\ Goto(w, "choosing") /\ UNCHANGED verdict
  /\ UNCHANGED <<queueVars, used, results, killSwitch, job, claim, node, read, feedVars,
                 pastVars>>

\* The policy is evaluated again; a suppressed recipient, any other violation
\* and an unreadable suppression list block the job.
CheckPolicy(w) ==
  /\ At(w, "checking")
  /\ \/ Resolve(w, "blocked")
     \/ /\ RecipientOf[job[w]] \notin suppressed
        /\ Goto(w, "choosing") /\ UNCHANGED verdict
  /\ UNCHANGED <<queueVars, used, results, killSwitch, job, claim, node, read, feedVars,
                 pastVars>>

\* findAvailableFor: the node with most capacity left, or failure.
Room(n) == NodeLimit[n] - used[n]
ChooseNode(w) ==
  /\ At(w, "choosing")
  /\ LET able == {n \in Nodes : used[n] < NodeLimit[n]}
     IN IF able = {}
          THEN Resolve(w, "failed") /\ UNCHANGED node
          ELSE /\ \E n \in able :
                    /\ \A m \in able : Room(m) <= Room(n)
                    /\ node' = [node EXCEPT ![w] = n]
               /\ Goto(w, "consuming") /\ UNCHANGED verdict
  /\ UNCHANGED <<queueVars, used, results, killSwitch, job, claim, read, feedVars, pastVars>>

\* Mutant: only the request's own rules are enforced.
Spent_Campaign(n) == {"campaign"}
\* The rules a send by node n consumes, all or none, in one transaction.
Spent(n) == {n, "campaign"}

Consume(w) ==
  /\ At(w, "consuming")
  /\ IF \A s \in Spent(node[w]) : used[s] + 1 <= Bound(s)
       THEN /\ used' = [s \in Scopes |-> IF s \in Spent(node[w]) THEN used[s] + 1 ELSE used[s]]
            /\ Goto(w, "assigning") /\ UNCHANGED verdict
       ELSE Resolve(w, "blocked") /\ UNCHANGED used
  /\ UNCHANGED <<queueVars, results, killSwitch, job, claim, node, read, feedVars, pastVars>>

Assign(w) ==
  /\ At(w, "assigning")
  /\ sender' = [sender EXCEPT ![job[w]] = node[w]]
  /\ Goto(w, "reading")
  /\ UNCHANGED <<status, startedAt, used, results, killSwitch, workVars, feedVars, pastVars>>

\* sendResultStore.create reads the whole file without the lock ...
ReadResults(w) ==
  /\ At(w, "reading")
  /\ read' = [read EXCEPT ![w] = results]
  /\ Goto(w, "writing")
  /\ UNCHANGED <<queueVars, used, results, killSwitch, job, claim, node, verdict, feedVars,
                 pastVars>>

\* Mutant: the job is marked with the status of the simulated result itself.
WriteResults_Raw(w) ==
  /\ At(w, "writing")
  /\ results' = read[w] \cup {claim[w]}
  /\ sends' = sends \cup {[claim |-> claim[w], job |-> job[w], node |-> node[w]]}
  /\ read' = [read EXCEPT ![w] = {}]
  /\ \E s \in {"sent", "bounce", "complaint", "failed"} : Resolve(w, s)
  /\ UNCHANGED <<queueVars, used, killSwitch, job, claim, node, feedVars, barred, requeued,
                 claims, deaths>>

\* ... and writes it back with the simulated result.
WriteResults(w) ==
  /\ At(w, "writing")
  /\ results' = read[w] \cup {claim[w]}
  /\ sends' = sends \cup {[claim |-> claim[w], job |-> job[w], node |-> node[w]]}
  /\ read' = [read EXCEPT ![w] = {}]
  /\ \E s \in {"completed", "failed"} : Resolve(w, s)
  /\ UNCHANGED <<queueVars, used, killSwitch, job, claim, node, feedVars, barred, requeued,
                 claims, deaths>>

\* The process is over, and what it held with it.
End(w) ==
  /\ Goto(w, "idle")
  /\ job' = [job EXCEPT ![w] = Nobody]
  /\ claim' = [claim EXCEPT ![w] = 0]
  /\ node' = [node EXCEPT ![w] = Nobody]
  /\ verdict' = [verdict EXCEPT ![w] = "none"]
  /\ read' = [read EXCEPT ![w] = {}]

\* markCompleted, markFailed or markBlocked, whatever the job's status is by now.
Mark(w) ==
  /\ At(w, "marking")
  /\ status' = [status EXCEPT ![job[w]] = verdict[w]]
  /\ End(w)
  /\ UNCHANGED <<sender, startedAt, used, results, killSwitch, feedVars, pastVars>>

\* The process dies, or an audit append throws and ends it.
Die(w) ==
  /\ pc[w] # "idle"
  /\ deaths < MaxDeaths
  /\ deaths' = deaths + 1
  /\ End(w)
  /\ UNCHANGED <<queueVars, used, results, killSwitch, feedVars, barred, sends, requeued,
                 claims>>

-----------------------------------------------------------------------------
(* Operators and complaint feeds.                                          *)

\* Jobs in processing since a claim no later than t.
Stuck(t) == {j \in Jobs : status[j] = "processing" /\ startedAt[j] <= t}

\* POST /v1/stuck-jobs/recover, whether or not their workers still run.
Recover(t, action) ==
  /\ Stuck(t) # {}
  /\ IF action = "fail"
       THEN /\ status' = [j \in Jobs |-> IF j \in Stuck(t) THEN "failed" ELSE status[j]]
            /\ UNCHANGED <<sender, startedAt, requeued>>
       ELSE /\ status' = [j \in Jobs |-> IF j \in Stuck(t) THEN "queued" ELSE status[j]]
            /\ sender' = [j \in Jobs |-> IF j \in Stuck(t) THEN Nobody ELSE sender[j]]
            /\ startedAt' = [j \in Jobs |-> IF j \in Stuck(t) THEN 0 ELSE startedAt[j]]
            /\ requeued' = requeued \cup Stuck(t)
  /\ UNCHANGED <<used, results, killSwitch, pc, workVars, feedVars, barred, sends, claims,
                 deaths>>

\* The feed is answered.  What it is told lasts if every other feed that has read the list
\* and not yet written it read the recipient in it, or is about to add it too.
Acknowledge(f) ==
  LET r == ComplaintOf[f]
  IN kept' = IF \A g \in Feeds \ {f} : feed[g] = "writing" => r \in listRead[g] \cup {ComplaintOf[g]}
               THEN kept \cup {r} ELSE kept

\* suppressionList.add: already there, it answers at once; else it will write.
ReadList(f) ==
  /\ feed[f] = "idle"
  /\ IF ComplaintOf[f] \in suppressed
       THEN /\ feed' = [feed EXCEPT ![f] = "done"]
            /\ Acknowledge(f)
            /\ UNCHANGED listRead
       ELSE /\ feed' = [feed EXCEPT ![f] = "writing"]
            /\ listRead' = [listRead EXCEPT ![f] = suppressed]
            /\ UNCHANGED kept
  /\ UNCHANGED <<queueVars, used, results, suppressed, killSwitch, pc, workVars, pastVars>>

WriteList(f) ==
  /\ feed[f] = "writing"
  /\ suppressed' = listRead[f] \cup {ComplaintOf[f]}
  /\ feed' = [feed EXCEPT ![f] = "done"]
  /\ listRead' = [listRead EXCEPT ![f] = {}]
  /\ Acknowledge(f)
  /\ UNCHANGED <<queueVars, used, results, killSwitch, pc, workVars, pastVars>>

-----------------------------------------------------------------------------
Next ==
  \/ \E j \in Jobs : Admit(j) \/ Enqueue(j)
  \/ Toggle
  \/ \E w \in Workers :
       \/ Start(w) \/ Claim(w) \/ NoJob(w) \/ CheckPolicy(w) \/ ChooseNode(w) \/ Consume(w)
       \/ Assign(w) \/ ReadResults(w) \/ WriteResults(w) \/ Mark(w) \/ Die(w)
  \/ \E t \in Runs, action \in Recoveries : Recover(t, action)
  \/ \E f \in Feeds : ReadList(f) \/ WriteList(f)

Spec == Init /\ [][Next]_vars

-----------------------------------------------------------------------------
(* Properties.                                                             *)

\* No node and no campaign sends more than its daily limit, whatever workers
\* race, die or repeat: every send was paid for in its scopes first.
QuotaHolds ==
  /\ \A n \in Nodes : Cardinality({s \in sends : s.node = n}) <= used[n]
  /\ Cardinality(sends) <= used["campaign"]
  /\ \A s \in Scopes : used[s] <= Bound(s)

\* A job is sent at most once unless an operator put it back in the queue:
\* neither a second worker nor a recovery as failed gets it sent again.
SentOnce == \A s, t \in sends : s.job = t.job /\ s.job \notin requeued => s = t

\* Nothing is sent on a claim made after the recipient's suppression was acknowledged, unless
\* another feed had by then read the list without the recipient and was still to write it,
\* however many feeds, workers and acceptances interleave.
SuppressedNotSent == \A s \in sends : s.claim \notin barred
=============================================================================
