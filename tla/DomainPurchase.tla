--------------------------- MODULE DomainPurchase ---------------------------
(***************************************************************************)
(* Buying a domain at Route53 (routes/domains-purchase.ts): the checks     *)
(* against the provider's list and the inventory file, the reservation of  *)
(* the month's spend under a lock, the provider call, what the answer      *)
(* writes, the poll for the result and the reconciliation of a purchase    *)
(* left open; and buying one at Namecheap                                  *)
(* (routes/domains-namecheap-purchase.ts), which has neither reservation   *)
(* nor lock and shares the inventory file.                                 *)
(*                                                                         *)
(* Steps of a request are separated where the code awaits.  One month is   *)
(* modelled.  An operation id of the provider is its position in ops; 0    *)
(* stands for the ids the gateway makes up.                                *)
(***************************************************************************)
EXTENDS Naturals, Sequences, FiniteSets, FiniteSetsExt

CONSTANTS Domains,
          Requests,         \* requests in progress side by side
          Prices,           \* what a registration may cost (price of the TLD times years)
          Cap,              \* AWS_ROUTE53_DOMAINS_MONTHLY_CAP_USD
          NamecheapCap,     \* NAMECHEAP_DOMAINS_MONTHLY_CAP_USD
          Registrars,       \* those that requests name
          Faults,           \* what may fail beside the provider's answers
          NoDomain, Free, Leaked,
          MaxRequests, MaxCrashes

ASSUME PurchaseAssumption ==
  /\ IsFiniteSet(Domains) /\ IsFiniteSet(Requests)
  /\ NoDomain \notin Domains
  /\ Free # Leaked /\ {Free, Leaked} \cap Requests = {}
  /\ Prices \subseteq Nat \ {0} /\ Cap \in Nat /\ NamecheapCap \in Nat
  /\ Registrars \subseteq {"aws-route53", "namecheap"}
  /\ Faults \subseteq {"read", "write", "audit"}
  /\ MaxRequests \in Nat /\ MaxCrashes \in Nat

VARIABLES entry,            \* the inventory's entry for each domain
          ops,              \* Route53's operations, in order of acceptance
          bought,           \* what Namecheap charged for each domain, 0 if it did not sell it
          lock,             \* the month's spend lock: a request, Free, or a leaked directory
          pc, domain,       \* each request's position and domain
          cost,             \* what its registration costs
          clear,            \* whether it has met no blocker yet
          seen,             \* the entry it acts on, or the operation it was given
          answer,           \* the provider's last answer
          raced,            \* domains on whose entry two requests were at cross purposes
          served, crashes

purchases == <<ops, bought>>
vars == <<entry, ops, bought, lock, pc, domain, cost, clear, seen, answer, raced, served, crashes>>

Statuses == {"none", "purchase_reserved", "pending", "needs_reconciliation", "owned", "failed"}
\* Mutant: a reservation is not taken for an open purchase.
Unsettled_Open == {"pending", "needs_reconciliation"}
Unsettled == {"purchase_reserved", "pending", "needs_reconciliation"}
Entries == [registrar : {"none", "aws-route53", "namecheap"}, status : Statuses,
            op : 0..MaxRequests, cost : Prices \cup {0}]
NoEntry == [registrar |-> "none", status |-> "none", op |-> 0, cost |-> 0]
Answers == {"none", "accepted", "unavailable", "error", "successful", "failed"}

TypeOK ==
  /\ entry \in [Domains -> Entries]
  /\ ops \in Seq([domain : Domains, cost : Prices, state : {"processing", "successful", "failed"}])
  /\ Len(ops) <= MaxRequests
  /\ bought \in [Domains -> {0} \cup Prices]
  /\ lock \in Requests \cup {Free, Leaked}
  /\ pc \in [Requests -> {"idle", "owning", "owned", "looking", "asking", "settling", "locking",
                          "spending", "reserving", "calling", "marking", "erring", "polling", "polled",
                          "listing", "listed", "summing", "ordering", "noting"}]
  /\ domain \in [Requests -> Domains \cup {NoDomain}]
  /\ cost \in [Requests -> Prices \cup {0}]
  /\ clear \in [Requests -> BOOLEAN]
  /\ seen \in [Requests -> Entries]
  /\ answer \in [Requests -> Answers]
  /\ raced \subseteq Domains
  /\ served \in 0..MaxRequests /\ crashes \in 0..MaxCrashes

Init ==
  /\ entry = [d \in Domains |-> NoEntry]
  /\ ops = <<>>
  /\ bought = [d \in Domains |-> 0]
  /\ lock = Free
  /\ pc = [r \in Requests |-> "idle"]
  /\ domain = [r \in Requests |-> NoDomain]
  /\ cost = [r \in Requests |-> 0]
  /\ clear = [r \in Requests |-> FALSE]
  /\ seen = [r \in Requests |-> NoEntry]
  /\ answer = [r \in Requests |-> "none"]
  /\ raced = {}
  /\ served = 0 /\ crashes = 0

-----------------------------------------------------------------------------
Has(d, state) == \E k \in 1..Len(ops) : ops[k].domain = d /\ ops[k].state = state
Taken(d) == bought[d] # 0
\* What Route53 is registering or has registered; it cannot register what Namecheap sold.
Live(d) == ~Taken(d) /\ (Has(d, "processing") \/ Has(d, "successful"))

\* route53DomainSpendCountsTowardCap
Counts(status) == status \notin {"none", "released", "failed"}
Counted(d) == entry[d].registrar = "aws-route53" /\ Counts(entry[d].status)
Spend == MapThenSumSet(LAMBDA d : entry[d].cost, {d \in Domains : Counted(d)})
NamecheapSpend ==
  MapThenSumSet(LAMBDA d : entry[d].cost, {d \in Domains : entry[d].registrar = "namecheap"})

\* What a read of the inventory yields: a file that cannot be read counts as no file.
\* Route53's route sees its own entries only.
EntryRead(d) == {IF entry[d].registrar = "namecheap" THEN NoEntry ELSE entry[d]}
                  \cup {e \in {NoEntry} : "read" \in Faults}
SpendRead(spend) == {spend} \cup {n \in {0} : "read" \in Faults}

\* safeUpdateDomainInventory, in either route: the domain's entry is replaced, whichever
\* registrar it names; an error is swallowed.
Written(registrar, d, status, op, c) ==
  entry' = [entry EXCEPT ![d] = [registrar |-> registrar, status |-> status, op |-> op, cost |-> c]]
Replace(d, status, op, c) == Written("aws-route53", d, status, op, c)
WriteFails == "write" \in Faults /\ UNCHANGED entry

Go(r, where) == pc' = [pc EXCEPT ![r] = where]
\* The request ends and its local state with it.
End(r) ==
  /\ Go(r, "idle")
  /\ domain' = [domain EXCEPT ![r] = NoDomain]
  /\ cost' = [cost EXCEPT ![r] = 0]
  /\ clear' = [clear EXCEPT ![r] = FALSE]
  /\ seen' = [seen EXCEPT ![r] = NoEntry]
  /\ answer' = [answer EXCEPT ![r] = "none"]

\* A request that has read the entry and may yet write it.
Engaged(q) == pc[q] \in {"asking", "settling", "locking", "spending", "reserving", "calling",
                         "marking", "erring", "polling", "polled"}
\* r goes on to buy its domain, or overwrites an entry it may have read long ago, while
\* another request is engaged in the same domain.
Race(r) ==
  raced' = raced \cup {d \in {domain[r]} : \E q \in Requests \ {r} : domain[q] = d /\ Engaged(q)}

-----------------------------------------------------------------------------
\* Requests for one domain may overlap.
Arrive(r, d, c) ==
  /\ pc[r] = "idle" /\ served < MaxRequests
  /\ domain' = [domain EXCEPT ![r] = d]
  /\ cost' = [cost EXCEPT ![r] = c]
  /\ served' = served + 1

\* A request arrives; without credentials or a fresh approval it is not clear to buy.
Start(r, d, c, approved) ==
  /\ "aws-route53" \in Registrars
  /\ Arrive(r, d, c)
  /\ Go(r, IF approved THEN "owning" ELSE "looking")
  /\ clear' = [clear EXCEPT ![r] = approved]
  /\ UNCHANGED <<entry, purchases, lock, seen, answer, raced, crashes>>

\* The provider's list, which may come from a cache or fail.
CheckOwned(r) ==
  /\ pc[r] = "owning"
  /\ \/ Has(domain[r], "successful") /\ Go(r, "owned") /\ UNCHANGED clear
     \/ Go(r, "looking") /\ UNCHANGED clear
     \/ Go(r, "looking") /\ clear' = [clear EXCEPT ![r] = FALSE]
  /\ UNCHANGED <<entry, purchases, lock, domain, cost, seen, answer, raced, served, crashes>>

\* The domain is on the list: the entry says so, at no cost.
MarkOwned(r) ==
  /\ pc[r] = "owned"
  /\ Replace(domain[r], "owned", 0, 0) \/ WriteFails
  /\ Race(r)
  /\ End(r)
  /\ UNCHANGED <<purchases, lock, served, crashes>>

\* The inventory's entry: what is not settled is reconciled, and only a request that is
\* clear, has a price and passes the other gates (the orphan guard too) goes on to buy.
Look(r) ==
  /\ pc[r] = "looking"
  /\ \E e \in EntryRead(domain[r]) :
       \/ e.status \in Unsettled /\ e.op # 0 /\ Go(r, "asking")
          /\ seen' = [seen EXCEPT ![r] = e] /\ UNCHANGED <<domain, cost, clear, answer, raced>>
       \/ e.status \notin Unsettled \cup {"owned"} /\ clear[r] /\ Go(r, "locking")
          /\ Race(r) /\ UNCHANGED <<domain, cost, clear, seen, answer>>
       \/ (e.status \notin Unsettled \/ e.op = 0) /\ End(r) /\ UNCHANGED raced
  /\ UNCHANGED <<entry, purchases, lock, served, crashes>>

\* getOperationDetail; a poll (polled) of an operation in progress may be repeated.
Ask(r) ==
  /\ pc[r] \in {"asking", "polled"}
  /\ LET state == ops[seen[r].op].state IN
       \/ state # "processing" /\ Go(r, "settling")
          /\ answer' = [answer EXCEPT ![r] = state] /\ UNCHANGED <<domain, cost, clear, seen>>
       \/ state = "processing" /\ pc[r] = "polled" /\ Go(r, "polling")
          /\ UNCHANGED <<domain, cost, clear, seen, answer>>
       \/ End(r)
  /\ UNCHANGED <<entry, purchases, lock, raced, served, crashes>>

\* reconcileRoute53DomainPurchase: the operation's outcome is written over the entry.
Settle(r) ==
  /\ pc[r] = "settling"
  /\ \/ Replace(domain[r], IF answer[r] = "successful" THEN "owned" ELSE "failed",
                seen[r].op, seen[r].cost)
     \/ WriteFails
  /\ Race(r)
  /\ End(r)
  /\ UNCHANGED <<purchases, lock, served, crashes>>

\* Mutant: requests of one process do not queue.
Lock_Shared(r) ==
  /\ pc[r] = "locking"
  /\ \/ lock # Leaked /\ lock' = r /\ Go(r, "spending")
        /\ UNCHANGED <<domain, cost, clear, seen, answer>>
     \/ lock = Leaked /\ End(r) /\ UNCHANGED lock
  /\ UNCHANGED <<entry, purchases, raced, served, crashes>>

\* withRoute53MonthSpendLock: requests of the process queue for it; a directory left by
\* an earlier process makes it unavailable.
Lock(r) ==
  /\ pc[r] = "locking"
  /\ \/ lock = Free /\ lock' = r /\ Go(r, "spending")
        /\ UNCHANGED <<domain, cost, clear, seen, answer>>
     \/ lock = Leaked /\ End(r) /\ UNCHANGED lock
  /\ UNCHANGED <<entry, purchases, raced, served, crashes>>

\* currentRoute53MonthSpend against the cap.
ReadSpend(r) ==
  /\ pc[r] = "spending"
  /\ \E spend \in SpendRead(Spend) :
       \/ spend + cost[r] <= Cap /\ Go(r, "reserving")
          /\ UNCHANGED <<lock, domain, cost, clear, seen, answer>>
       \/ spend + cost[r] > Cap /\ lock' = Free /\ End(r)
  /\ UNCHANGED <<entry, purchases, raced, served, crashes>>

\* The reservation, without which the provider is not called.
Reserve(r) ==
  /\ pc[r] = "reserving"
  /\ lock' = Free
  /\ \/ Replace(domain[r], "purchase_reserved", 0, cost[r]) /\ Go(r, "calling")
        /\ UNCHANGED <<domain, cost, clear, seen, answer>>
     \/ WriteFails /\ End(r)
  /\ UNCHANGED <<purchases, raced, served, crashes>>

\* registerDomain: the provider accepts a domain it has no live operation for, and its
\* answer may be lost; a domain somebody owns is unavailable; any call may fail.
Call(r) ==
  LET d == domain[r] IN
  /\ pc[r] = "calling"
  /\ Go(r, "marking")
  /\ \/ /\ ~Live(d) /\ ~Taken(d)
        /\ ops' = Append(ops, [domain |-> d, cost |-> cost[r], state |-> "processing"])
        /\ \/ answer' = [answer EXCEPT ![r] = "accepted"]
              /\ seen' = [seen EXCEPT ![r].op = Len(ops) + 1]
           \/ answer' = [answer EXCEPT ![r] = "error"] /\ UNCHANGED seen
     \/ /\ \/ ~Has(d, "processing") /\ answer' = [answer EXCEPT ![r] = "unavailable"]
           \/ answer' = [answer EXCEPT ![r] = "error"]
        /\ UNCHANGED <<ops, seen>>
  /\ UNCHANGED <<entry, bought, lock, domain, cost, clear, raced, served, crashes>>

\* Mutant: every error releases the reservation.
Marked_Releases(a) == IF a = "accepted" THEN "pending" ELSE "failed"
\* Mutant: the error's own name is written as the status.
Marked_Raw(a) == IF a = "accepted" THEN "pending" ELSE a

\* What the answer leaves in the inventory.
Marked(a) ==
  CASE a = "accepted" -> "pending"
    [] a = "unavailable" -> "failed"
    [] a = "error" -> "needs_reconciliation"

\* The answer is written down; an accepted purchase is audited, and the orchestrator polls
\* its operation.
Mark(r) ==
  /\ pc[r] = "marking"
  /\ Replace(domain[r], Marked(answer[r]), seen[r].op, cost[r]) \/ WriteFails
  /\ \/ /\ answer[r] = "accepted"
        /\ \/ Go(r, "polling")
           \/ "audit" \in Faults /\ Go(r, "erring")
        /\ UNCHANGED <<domain, cost, clear, seen, answer>>
     \/ End(r)
  /\ UNCHANGED <<purchases, lock, raced, served, crashes>>

\* The audit of an accepted purchase failed: the route takes it for the provider's error
\* and writes over the operation's id.
Err(r) ==
  /\ pc[r] = "erring"
  /\ Replace(domain[r], "needs_reconciliation", 0, cost[r]) \/ WriteFails
  /\ End(r)
  /\ UNCHANGED <<purchases, lock, raced, served, crashes>>

\* waitForRoute53DomainRegistration: the entry's cost with the operation the caller holds.
Poll(r) ==
  /\ pc[r] = "polling"
  /\ \E e \in EntryRead(domain[r]) :
       \/ e.status = "owned" /\ End(r)
       \/ /\ e.status # "owned" /\ Go(r, "polled")
          /\ seen' = [seen EXCEPT ![r] = [registrar |-> "aws-route53",
                                          status |-> IF e = NoEntry THEN "pending" ELSE e.status,
                                          op |-> seen[r].op,
                                          cost |-> IF e = NoEntry THEN cost[r] ELSE e.cost]]
          /\ UNCHANGED <<domain, cost, clear, answer>>
  /\ UNCHANGED <<entry, purchases, lock, raced, served, crashes>>

\* The provider completes an operation.
Complete(k, state) ==
  /\ ops[k].state = "processing"
  /\ state = "successful" => ~Taken(ops[k].domain)
  /\ ops' = [ops EXCEPT ![k].state = state]
  /\ UNCHANGED <<entry, bought, lock, pc, domain, cost, clear, seen, answer, raced, served, crashes>>

-----------------------------------------------------------------------------
(* The Namecheap route *)

\* A request arrives with everything but the month's spend in order; one without changes
\* nothing.
Order(r, d, c) ==
  /\ "namecheap" \in Registrars
  /\ Arrive(r, d, c)
  /\ Go(r, "listing")
  /\ clear' = [clear EXCEPT ![r] = TRUE]
  /\ UNCHANGED <<entry, purchases, lock, seen, answer, raced, crashes>>

\* namecheapDomainOwned: a list from the cache or one that fails does not show the domain.
List(r) ==
  /\ pc[r] = "listing"
  /\ \/ Go(r, "summing")
     \/ Taken(domain[r]) /\ Go(r, "listed")
  /\ UNCHANGED <<entry, purchases, lock, domain, cost, clear, seen, answer, raced, served, crashes>>

\* The month's spend against the cap, with no lock.
Sum(r) ==
  /\ pc[r] = "summing"
  /\ \E spend \in SpendRead(NamecheapSpend) :
       \/ spend + cost[r] <= NamecheapCap /\ Go(r, "ordering")
          /\ UNCHANGED <<domain, cost, clear, seen, answer>>
       \/ spend + cost[r] > NamecheapCap /\ End(r)
  /\ UNCHANGED <<entry, purchases, lock, raced, served, crashes>>

\* Namecheap sells a domain nobody owns, at its own price; an answer that is lost or a
\* refusal leaves nothing in the inventory.
Buy(r) ==
  LET d == domain[r] IN
  /\ pc[r] = "ordering"
  /\ \/ /\ ~Taken(d) /\ ~Has(d, "successful")
        /\ \E charged \in Prices :
             /\ bought' = [bought EXCEPT ![d] = charged]
             /\ \/ Go(r, "noting") /\ cost' = [cost EXCEPT ![r] = charged]
                   /\ UNCHANGED <<domain, clear, seen, answer>>
                \/ End(r)
     \/ End(r) /\ UNCHANGED bought
  /\ UNCHANGED <<entry, ops, lock, raced, served, crashes>>

\* The inventory: what was bought, or at no cost what the list shows.
Note(r) ==
  /\ pc[r] \in {"listed", "noting"}
  /\ \/ Written("namecheap", domain[r], "owned", 0, IF pc[r] = "noting" THEN cost[r] ELSE 0)
     \/ WriteFails
  /\ Race(r)
  /\ End(r)
  /\ UNCHANGED <<purchases, lock, served, crashes>>

-----------------------------------------------------------------------------
\* The process dies: its requests are gone, and the lock's directory stays if it was held.
Crash ==
  /\ crashes < MaxCrashes /\ \E r \in Requests : pc[r] # "idle"
  /\ crashes' = crashes + 1
  /\ lock' = IF lock \in Requests THEN Leaked ELSE lock
  /\ pc' = [r \in Requests |-> "idle"]
  /\ domain' = [r \in Requests |-> NoDomain]
  /\ cost' = [r \in Requests |-> 0]
  /\ clear' = [r \in Requests |-> FALSE]
  /\ seen' = [r \in Requests |-> NoEntry]
  /\ answer' = [r \in Requests |-> "none"]
  /\ UNCHANGED <<entry, purchases, raced, served>>

Step(r) ==
  \/ CheckOwned(r) \/ MarkOwned(r) \/ Look(r) \/ Ask(r) \/ Settle(r)
  \/ Lock(r) \/ ReadSpend(r) \/ Reserve(r) \/ Call(r) \/ Mark(r) \/ Err(r) \/ Poll(r)
  \/ List(r) \/ Sum(r) \/ Buy(r) \/ Note(r)

Next ==
  \/ \E r \in Requests, d \in Domains, c \in Prices, approved \in BOOLEAN : Start(r, d, c, approved)
  \/ \E r \in Requests, d \in Domains, c \in Prices : Order(r, d, c)
  \/ \E r \in Requests : Step(r)
  \/ \E k \in 1..Len(ops), state \in {"successful", "failed"} : Complete(k, state)
  \/ Crash

Spec == Init /\ [][Next]_vars

-----------------------------------------------------------------------------
\* The already-owned path rewrote the entry, at no cost.
Zeroed(d) == entry[d].status = "owned" /\ entry[d].op = 0

\* The month's spend on domains whose entries were not raced for.
SoundSpend == MapThenSumSet(LAMBDA d : entry[d].cost, {d \in Domains \ raced : Counted(d)})

\* What the inventory counts against the month never exceeds the cap, whatever requests
\* race for the last of it, fail, or die half-way; entries that two requests raced to write
\* are left out.
BudgetHolds == SoundSpend <= Cap

\* An operation the provider accepted and has not failed is counted, at what it costs, by
\* the entry of its domain (unless the already-owned path rewrote it, or Namecheap sold the
\* domain first): a lost answer, a crash, a write or an audit that fails or one of
\* Namecheap's route never gives the money back; nor does a second request for the domain,
\* unless it raced for the entry.
LiveIsCounted ==
  \A k \in 1..Len(ops) : ops[k].state # "failed" =>
    LET d == ops[k].domain IN
      \/ Counted(d) /\ entry[d].cost = ops[k].cost
      \/ Taken(d)
      \/ Zeroed(d)
      \/ d \in raced

\* Route53 is not asked to register a domain it is registering or has registered for us, and
\* that Namecheap did not sell meanwhile, by requests one after the other or side by side: a
\* request that reads the entry while another is buying is refused, and only if both passed
\* that check, or an old answer was settled over a new purchase, may Route53 be asked twice.
NotRegisteredTwice ==
  [][\A r \in Requests : pc[r] = "calling" /\ pc'[r] = "marking" =>
        ~Live(domain[r]) \/ domain[r] \in raced]_vars

\* The cap on money: what the provider is registering or has registered this month costs
\* no more than the cap.
CapHolds ==
  MapThenSumSet(LAMBDA k : ops[k].cost, {k \in 1..Len(ops) : ops[k].state # "failed"}) <= Cap

=============================================================================
