----------------------- MODULE DomainPurchaseProofs ------------------------
(***************************************************************************)
(* Proofs about the DomainPurchase: the month's cap, and that what the     *)
(* provider registers stays counted and is not registered twice, for any   *)
(* domains, prices, requests and crashes, failed writes and lost answers.  *)
(* Requests for one domain may overlap; what is claimed leaves out domains *)
(* whose entry two of them raced for.  The inventory can be read: Readable.*)
(***************************************************************************)
EXTENDS DomainPurchase, FiniteSetTheorems, SequenceTheorems, WellFoundedInduction, TLAPS

Readable == "read" \notin Faults

-----------------------------------------------------------------------------
(* The inductive invariant.                                                *)

\* A request in progress has a domain and a price.
Placed ==
  /\ \A r \in Requests : pc[r] = "idle" <=> domain[r] = NoDomain
  /\ \A r \in Requests : pc[r] # "idle" => cost[r] \in Prices

\* Each request served calls the provider once.
Uncalled == {"owning", "owned", "looking", "locking", "spending", "reserving", "calling"}
CallsCounted == Len(ops) + Cardinality({r \in Requests : pc[r] \in Uncalled}) <= served

\* An operation that is written down or asked for is one of the provider's.
OpsKnown ==
  /\ \A d \in Domains : entry[d].op \in 0..Len(ops)
  /\ \A r \in Requests :
       /\ seen[r].op \in 0..Len(ops)
       /\ pc[r] \in {"asking", "polling", "polled"} => seen[r].op # 0
       /\ pc[r] = "marking" =>
            answer[r] \in {"unavailable", "error"} \/ (answer[r] = "accepted" /\ seen[r].op # 0)

\* What holds however requests overlap and whatever cannot be read.
ProgressInv == Placed /\ CallsCounted /\ OpsKnown

\* Beside a request that buys, none is engaged in its domain, unless they raced.
Buying == {"locking", "spending", "reserving", "calling", "marking"}
BuyersAlone == \A q, r \in Requests :
  q # r /\ domain[q] = domain[r] /\ pc[r] \in Buying /\ domain[r] \notin raced => ~ Engaged(q)

\* Between the reading of the month's spend and the reservation the lock is held.
LockHeld == \A r \in Requests : pc[r] \in {"spending", "reserving"} => lock = r

\* Of each domain: its entry is of the registrar that wrote it, Namecheap's of what it sold;
EntrySound(d) ==
  \/ entry[d] = NoEntry
  \/ entry[d].registrar = "aws-route53"
  \/ entry[d].registrar = "namecheap" /\ Taken(d) /\ entry[d].op = 0

\* it is asked for again only when its operation has failed;
EarlierFailed(d) == \A j, k \in 1..Len(ops) :
  j < k /\ ops[j].domain = d /\ ops[k].domain = d => ops[j].state = "failed"

\* the operation that its entry holds is its last one;
Latest(n, d) ==
  /\ n \in 1..Len(ops) /\ ops[n].domain = d
  /\ \A k \in 1..Len(ops) : ops[k].domain = d => k <= n
EntryLatest(d) == entry[d].op # 0 => Latest(entry[d].op, d)

\* what Route53 has not failed is counted (LiveIsCounted).
Open(k, d) == ops[k].domain = d /\ ops[k].state # "failed"
LiveCounted(d) == \A k \in 1..Len(ops) : Open(k, d) =>
  \/ Counted(d) /\ entry[d].cost = ops[k].cost
  \/ Taken(d)
  \/ Zeroed(d)

DomainSound(d) == EntrySound(d) /\ EarlierFailed(d) /\ EntryLatest(d) /\ LiveCounted(d)

\* Of each request: one past the entry's check may buy, as Route53 has no live operation and
\* until the reservation the entry shows none;
MayBuy(r) ==
  /\ pc[r] \in {"locking", "spending", "reserving", "calling"} => ~Live(domain[r])
  /\ pc[r] \in {"locking", "spending", "reserving"} =>
       entry[domain[r]].registrar = "namecheap" \/ entry[domain[r]].status \notin Unsettled

\* its reservation stands until the answer is written down; only an accepted call has an
\* operation, and a live one costs what was reserved;
Reservation(c) == [registrar |-> "aws-route53", status |-> "purchase_reserved", op |-> 0, cost |-> c]
CallReserved(r) ==
  /\ pc[r] \in Uncalled \cup {"idle"} => seen[r].op = 0
  /\ pc[r] \in {"calling", "marking"} => entry[domain[r]] = Reservation(cost[r])
  /\ pc[r] = "marking" =>
       /\ answer[r] \in {"accepted", "unavailable", "error"}
       /\ answer[r] = "accepted" => Latest(seen[r].op, domain[r])
       /\ answer[r] # "accepted" => seen[r].op = 0
       /\ answer[r] = "unavailable" => ~Live(domain[r])
       /\ \A k \in 1..Len(ops) :
            Open(k, domain[r]) => ops[k].cost = cost[r] \/ Taken(domain[r])

\* what its reconciliation will write is what the entry counts, under the last operation;
FollowsEntry(r) ==
  /\ pc[r] \in {"asking", "polling", "polled", "settling", "erring"} =>
       /\ Latest(seen[r].op, domain[r])
       /\ entry[domain[r]].registrar = "aws-route53"
       /\ entry[domain[r]].status \in Unsettled
  /\ pc[r] \in {"asking", "polled", "settling"} => seen[r].cost = entry[domain[r]].cost
  /\ pc[r] = "erring" => cost[r] = entry[domain[r]].cost
  /\ pc[r] = "settling" =>
       answer[r] = ops[seen[r].op].state /\ answer[r] \in {"successful", "failed"}

\* what it notes as Namecheap's was bought there.
NotesSold(r) == pc[r] \in {"listed", "noting"} => Taken(domain[r])

RequestSound(r) == MayBuy(r) /\ CallReserved(r) /\ FollowsEntry(r) /\ NotesSold(r)

PurchaseInv ==
  /\ Placed /\ BuyersAlone /\ LockHeld
  /\ \A d \in Domains : d \notin raced => DomainSound(d)
  /\ \A r \in Requests : domain[r] \notin raced => RequestSound(r)

\* The spend that was read leaves room for the reservation.
RoomLeft == \A r \in Requests : pc[r] = "reserving" => SoundSpend + cost[r] <= Cap

-----------------------------------------------------------------------------
(* Sums of costs.                                                          *)

CostOf(e, S) == MapThenSumSet(LAMBDA d : e[d].cost, S)
Pick(S) == CHOOSE d \in S : TRUE
\* g sums the costs of e over each set of domains of S.
Sums(g, e, S) ==
  g = [s \in SUBSET S |-> IF s = {} THEN 0 ELSE e[Pick(s)].cost + g[s \ {Pick(s)}]]

\* Of a family of finite sets one is smallest: no other is a part of it.
LEMMA SmallestSet ==
  ASSUME NEW S, IsFiniteSet(S), NEW T, T \subseteq SUBSET S, T # {}
  PROVE  \E s \in T : \A u \in SUBSET s : u # s => u \notin T
<1>1. IsWellFoundedOn(StrictSubsetOrdering(S), SUBSET S)
  BY FS_StrictSubsetOrderingWellFounded, FS_FiniteSubsetsOfFinite
<1> DEFINE R == StrictSubsetOrdering(S)
<1>2. PICK s \in T : \A u \in T : <<u, s>> \notin R
  <2> HIDE DEF R
  <2>. QED
    BY <1>1, WFMin DEF R
<1>3. ASSUME NEW u \in SUBSET s, u # s, u \in T PROVE FALSE
  BY <1>2, <1>3 DEF StrictSubsetOrdering
<1>. QED
  BY <1>3

\* What was summed does not depend on the set it is summed within.
LEMMA SumsAgree ==
  ASSUME NEW e, NEW S, NEW T, NEW g, NEW h, Sums(g, e, S), Sums(h, e, T),
         NEW U, IsFiniteSet(U), U \subseteq S, U \subseteq T
  PROVE  g[U] = h[U]
<1> DEFINE Bad == {s \in SUBSET U : g[s] # h[s]}
<1>1. SUFFICES ASSUME Bad # {} PROVE FALSE
  BY <1>1
<1> HIDE DEF Bad
<1>2. PICK s \in Bad : \A u \in SUBSET s : u # s => u \notin Bad
  <2>1. Bad \subseteq SUBSET U
    BY DEF Bad
  <2>. QED
    BY <1>1, <2>1, SmallestSet
<1>3. s \in SUBSET S /\ s \in SUBSET T /\ s \in SUBSET U
  BY <1>2 DEF Bad
<1>4. g[s] = (IF s = {} THEN 0 ELSE e[Pick(s)].cost + g[s \ {Pick(s)}])
  BY <1>3 DEF Sums
<1>5. h[s] = (IF s = {} THEN 0 ELSE e[Pick(s)].cost + h[s \ {Pick(s)}])
  BY <1>3 DEF Sums
<1>6. s # {} => g[s \ {Pick(s)}] = h[s \ {Pick(s)}]
  <2>1. s # {} => Pick(s) \in s
    BY DEF Pick
  <2>2. s # {} => s \ {Pick(s)} \in SUBSET s /\ s \ {Pick(s)} # s
    BY <2>1
  <2>3. s # {} => s \ {Pick(s)} \in SUBSET U /\ s \ {Pick(s)} \notin Bad
    BY <1>2, <1>3, <2>2
  <2>. QED
    BY <2>3 DEF Bad
<1>7. g[s] = h[s]
  BY <1>4, <1>5, <1>6
<1>. QED
  BY <1>2, <1>7 DEF Bad

\* The costs of a finite set of domains can be summed.
LEMMA SumsExist ==
  ASSUME NEW e, NEW S, IsFiniteSet(S)
  PROVE  \E g : Sums(g, e, S)
<1> DEFINE Bad == {s \in SUBSET S : ~ \E g : Sums(g, e, s)}
<1>1. SUFFICES ASSUME Bad # {} PROVE FALSE
  BY <1>1
<1> HIDE DEF Bad
<1>2. PICK s \in Bad : \A u \in SUBSET s : u # s => u \notin Bad
  <2>1. Bad \subseteq SUBSET S
    BY DEF Bad
  <2>. QED
    BY <1>1, <2>1, SmallestSet
<1>3. s \in SUBSET S /\ IsFiniteSet(s)
  BY <1>2, FS_Subset DEF Bad
<1> DEFINE Part(u) == CHOOSE g : Sums(g, e, u)
           Rest(u) == u \ {Pick(u)}
<1>4. ASSUME NEW u \in SUBSET s, u # s PROVE Sums(Part(u), e, u)
  <2>1. \E g : Sums(g, e, u)
    BY <1>2, <1>3, <1>4 DEF Bad
  <2>. QED
    BY <2>1
<1>5. ASSUME NEW u \in SUBSET s, u # {} PROVE Rest(u) \in SUBSET s /\ Rest(u) # s /\ Rest(u) # u
  <2>1. Pick(u) \in u
    BY <1>5 DEF Pick
  <2>. QED
    BY <2>1
<1> HIDE DEF Part
<1>6. ASSUME NEW u \in SUBSET s, u # s
      PROVE  Part(u)[u] = (IF u = {} THEN 0 ELSE e[Pick(u)].cost + Part(Rest(u))[Rest(u)])
  <2>1. Sums(Part(u), e, u)
    BY <1>4, <1>6
  <2>2. Part(u)[u] = (IF u = {} THEN 0 ELSE e[Pick(u)].cost + Part(u)[Rest(u)])
    BY <2>1 DEF Sums
  <2>3. CASE u # {}
    <3>1. Sums(Part(Rest(u)), e, Rest(u)) /\ Rest(u) \subseteq u
      BY <1>4, <1>5, <2>3
    <3>2. IsFiniteSet(Rest(u))
      BY <1>3, <1>5, <2>3, FS_Subset
    <3>3. Part(u)[Rest(u)] = Part(Rest(u))[Rest(u)]
      <4> HIDE DEF Rest
      <4>. QED
        BY <2>1, <3>1, <3>2, SumsAgree
    <3>. QED
      BY <2>2, <3>3
  <2>. QED
    BY <2>2, <2>3
<1> DEFINE h == [u \in SUBSET s |-> IF u = {} THEN 0 ELSE e[Pick(u)].cost + Part(Rest(u))[Rest(u)]]
<1>7. ASSUME NEW u \in SUBSET s, u # s PROVE h[u] = Part(u)[u]
  BY <1>6, <1>7
<1>8. ASSUME NEW u \in SUBSET s, u # {} PROVE h[Rest(u)] = Part(Rest(u))[Rest(u)]
  BY <1>5, <1>7, <1>8
<1>9. Sums(h, e, s)
  BY <1>8 DEF Sums
<1>. QED
  BY <1>2, <1>9 DEF Bad

\* The sum of a set is a cost of it and the sum of the others.
LEMMA CostOfRest ==
  ASSUME NEW e, NEW S, IsFiniteSet(S)
  PROVE  CostOf(e, S) = (IF S = {} THEN 0 ELSE e[Pick(S)].cost + CostOf(e, S \ {Pick(S)}))
<1> DEFINE g(T) == CHOOSE f : Sums(f, e, T)
<1>1. \A T : CostOf(e, T) = g(T)[T]
  BY DEF CostOf, MapThenSumSet, MapThenFoldSet, Sums, Pick
<1>2. Sums(g(S), e, S)
  BY SumsExist
<1>3. g(S)[S] = (IF S = {} THEN 0 ELSE e[Pick(S)].cost + g(S)[S \ {Pick(S)}])
  BY <1>2 DEF Sums
<1>4. CASE S # {}
  <2> DEFINE R == S \ {Pick(S)}
  <2>1. IsFiniteSet(R) /\ R \subseteq S
    BY FS_Subset
  <2>2. Sums(g(R), e, R)
    BY <2>1, SumsExist
  <2> HIDE DEF R, g
  <2>3. g(S)[R] = g(R)[R]
    BY <1>2, <2>1, <2>2, SumsAgree
  <2>. QED
    BY <1>1, <1>3, <2>3 DEF R
<1>. QED
  BY <1>1, <1>3, <1>4

\* A sum of costs is a natural number.
LEMMA CostTyped ==
  ASSUME NEW e, NEW S, IsFiniteSet(S), \A d \in S : e[d].cost \in Nat
  PROVE  CostOf(e, S) \in Nat
<1> DEFINE Bad == {s \in SUBSET S : CostOf(e, s) \notin Nat}
<1>1. SUFFICES ASSUME Bad # {} PROVE FALSE
  BY <1>1
<1>2. Bad \subseteq SUBSET S
  OBVIOUS
<1> HIDE DEF Bad
<1>3. PICK s \in Bad : \A u \in SUBSET s : u # s => u \notin Bad
  BY <1>1, <1>2, SmallestSet
<1>4. s \in SUBSET S /\ IsFiniteSet(s) /\ CostOf(e, s) \notin Nat
  BY <1>2, <1>3, FS_Subset DEF Bad
<1>5. CostOf(e, s) = (IF s = {} THEN 0 ELSE e[Pick(s)].cost + CostOf(e, s \ {Pick(s)}))
  BY <1>4, CostOfRest
<1>6. ASSUME s # {} PROVE CostOf(e, s \ {Pick(s)}) \in Nat /\ e[Pick(s)].cost \in Nat
  <2>1. Pick(s) \in s
    BY <1>6 DEF Pick
  <2>2. s \ {Pick(s)} \in SUBSET s /\ s \ {Pick(s)} # s
    BY <2>1
  <2>3. s \ {Pick(s)} \in SUBSET S /\ s \ {Pick(s)} \notin Bad
    BY <1>3, <1>4, <2>2
  <2>4. e[Pick(s)].cost \in Nat
    BY <1>4, <2>1
  <2>. QED
    BY <2>3, <2>4 DEF Bad
<1>. QED
  BY <1>4, <1>5, <1>6

\* The sum does not depend on the order in which it is made.
LEMMA CostOfAny ==
  ASSUME NEW e, NEW S, IsFiniteSet(S), \A d \in S : e[d].cost \in Nat, NEW x \in S
  PROVE  CostOf(e, S) = e[x].cost + CostOf(e, S \ {x})
<1> DEFINE Bad == {s \in SUBSET S : \E d \in s : CostOf(e, s) # e[d].cost + CostOf(e, s \ {d})}
<1>1. SUFFICES ASSUME Bad # {} PROVE FALSE
  BY <1>1
<1>2. Bad \subseteq SUBSET S
  OBVIOUS
<1>3. PICK s \in Bad : \A u \in SUBSET s : u # s => u \notin Bad
  <2> HIDE DEF Bad
  <2>. QED
    BY <1>1, <1>2, SmallestSet
<1>4. PICK d \in s : CostOf(e, s) # e[d].cost + CostOf(e, s \ {d})
  BY <1>3
<1> DEFINE y == Pick(s)
<1>5. s \in SUBSET S /\ IsFiniteSet(s) /\ y \in s
  BY <1>3, <1>4, FS_Subset DEF Pick
<1>6. CostOf(e, s) = e[y].cost + CostOf(e, s \ {y})
  BY <1>4, <1>5, CostOfRest
<1> HIDE DEF y
<1>7. y # d
  BY <1>4, <1>6
<1>8. ASSUME NEW u \in SUBSET s, u # s, NEW z \in u
      PROVE  CostOf(e, u) = e[z].cost + CostOf(e, u \ {z})
  <2>1. u \notin Bad /\ u \in SUBSET S
    BY <1>3, <1>5, <1>8
  <2>. QED
    BY <1>8, <2>1
<1> HIDE DEF Bad
<1>9. CostOf(e, s \ {y}) = e[d].cost + CostOf(e, (s \ {y}) \ {d})
  BY <1>4, <1>5, <1>7, <1>8
<1>10. CostOf(e, s \ {d}) = e[y].cost + CostOf(e, (s \ {d}) \ {y})
  BY <1>4, <1>5, <1>7, <1>8
<1>11. (s \ {y}) \ {d} = (s \ {d}) \ {y}
  OBVIOUS
<1>12. CostOf(e, (s \ {y}) \ {d}) \in Nat
  <2>1. IsFiniteSet((s \ {y}) \ {d}) /\ \A z \in (s \ {y}) \ {d} : e[z].cost \in Nat
    BY <1>5, FS_Subset
  <2>. QED
    BY <2>1, CostTyped
<1>13. e[d].cost \in Nat /\ e[y].cost \in Nat
  BY <1>5, <1>4
<1> DEFINE rest == CostOf(e, (s \ {y}) \ {d})
<1>14. CostOf(e, s) = e[y].cost + (e[d].cost + rest)
  BY <1>6, <1>9
<1>15. CostOf(e, s \ {d}) = e[y].cost + rest
  BY <1>10, <1>11
<1>16. rest \in Nat
  BY <1>12
<1> HIDE DEF rest
<1>17. e[y].cost + (e[d].cost + rest) = e[d].cost + (e[y].cost + rest)
  BY <1>13, <1>16
<1>. QED
  BY <1>4, <1>14, <1>15, <1>17

\* A part of a set costs no more.
LEMMA CostOfPart ==
  ASSUME NEW e, NEW S, IsFiniteSet(S), \A d \in S : e[d].cost \in Nat, NEW T, T \subseteq S
  PROVE  CostOf(e, T) <= CostOf(e, S)
<1> DEFINE Bad == {s \in SUBSET S : T \subseteq s /\ ~ (CostOf(e, T) <= CostOf(e, s))}
<1>1. SUFFICES ASSUME Bad # {} PROVE FALSE
  BY <1>1
<1>2. Bad \subseteq SUBSET S
  OBVIOUS
<1>3. PICK s \in Bad : \A u \in SUBSET s : u # s => u \notin Bad
  <2> HIDE DEF Bad
  <2>. QED
    BY <1>1, <1>2, SmallestSet
<1>4. s \in SUBSET S /\ T \subseteq s /\ ~ (CostOf(e, T) <= CostOf(e, s))
  BY <1>3
<1>5. \A u \in SUBSET S : IsFiniteSet(u)
  BY FS_Subset
<1>6. ASSUME NEW u \in SUBSET S PROVE CostOf(e, u) \in Nat
  BY <1>5, CostTyped
<1>7. PICK x \in s : x \notin T
  <2>1. s # T
    BY <1>4, <1>6
  <2>. QED
    BY <1>4, <2>1
<1>8. CostOf(e, s) = e[x].cost + CostOf(e, s \ {x})
  BY <1>4, <1>5, CostOfAny
<1>9. CostOf(e, T) <= CostOf(e, s \ {x})
  <2>1. s \ {x} \in SUBSET s /\ s \ {x} # s /\ s \ {x} \in SUBSET S /\ T \subseteq s \ {x}
    BY <1>4, <1>7
  <2>2. s \ {x} \notin Bad
    BY <1>3, <2>1
  <2>. QED
    BY <2>1, <2>2
<1>10. CostOf(e, T) \in Nat /\ CostOf(e, s \ {x}) \in Nat /\ e[x].cost \in Nat
  BY <1>4, <1>6
<1>. QED
  BY <1>4, <1>8, <1>9, <1>10

\* Equal costs have equal sums.
LEMMA CostsEqual ==
  ASSUME NEW e, NEW f, NEW S, IsFiniteSet(S), \A d \in S : e[d].cost = f[d].cost
  PROVE  CostOf(e, S) = CostOf(f, S)
<1> DEFINE Bad == {s \in SUBSET S : CostOf(e, s) # CostOf(f, s)}
<1>1. SUFFICES ASSUME Bad # {} PROVE FALSE
  BY <1>1
<1>2. Bad \subseteq SUBSET S
  OBVIOUS
<1> HIDE DEF Bad
<1>3. PICK s \in Bad : \A u \in SUBSET s : u # s => u \notin Bad
  BY <1>1, <1>2, SmallestSet
<1>4. s \in SUBSET S /\ IsFiniteSet(s) /\ CostOf(e, s) # CostOf(f, s)
  BY <1>2, <1>3, FS_Subset DEF Bad
<1>5. /\ CostOf(e, s) = (IF s = {} THEN 0 ELSE e[Pick(s)].cost + CostOf(e, s \ {Pick(s)}))
      /\ CostOf(f, s) = (IF s = {} THEN 0 ELSE f[Pick(s)].cost + CostOf(f, s \ {Pick(s)}))
  BY <1>4, CostOfRest
<1>6. ASSUME s # {}
      PROVE  /\ CostOf(e, s \ {Pick(s)}) = CostOf(f, s \ {Pick(s)})
             /\ e[Pick(s)].cost = f[Pick(s)].cost
  <2>1. Pick(s) \in s
    BY <1>6 DEF Pick
  <2>2. s \ {Pick(s)} \in SUBSET s /\ s \ {Pick(s)} # s
    BY <2>1
  <2>3. s \ {Pick(s)} \in SUBSET S /\ s \ {Pick(s)} \notin Bad
    BY <1>3, <1>4, <2>2
  <2>4. e[Pick(s)].cost = f[Pick(s)].cost
    BY <1>4, <2>1
  <2>. QED
    BY <2>3, <2>4 DEF Bad
<1>. QED
  BY <1>4, <1>5, <1>6

-----------------------------------------------------------------------------
(* Type correctness.                                                       *)

Positions == {"idle", "owning", "owned", "looking", "asking", "settling", "locking", "spending",
              "reserving", "calling", "marking", "erring", "polling", "polled", "listing", "listed", "summing",
              "ordering", "noting"}
RequestsTyped ==
  /\ pc \in [Requests -> Positions] /\ domain \in [Requests -> Domains \cup {NoDomain}]
  /\ cost \in [Requests -> Prices \cup {0}] /\ clear \in [Requests -> BOOLEAN]
  /\ seen \in [Requests -> Entries] /\ answer \in [Requests -> Answers]
Operations == [domain : Domains, cost : Prices, state : {"processing", "successful", "failed"}]
ProviderTyped ==
  /\ ops \in Seq(Operations) /\ Len(ops) <= MaxRequests /\ bought \in [Domains -> {0} \cup Prices]
LedgerTyped ==
  /\ entry \in [Domains -> Entries] /\ lock \in Requests \cup {Free, Leaked}
  /\ raced \subseteq Domains
  /\ served \in 0..MaxRequests /\ crashes \in 0..MaxCrashes

\* The parts of TypeOK.
LEMMA TypeParts ==
  /\ TypeOK <=> RequestsTyped /\ ProviderTyped /\ LedgerTyped
  /\ TypeOK' <=> RequestsTyped' /\ ProviderTyped' /\ LedgerTyped'
BY DEF TypeOK, RequestsTyped, ProviderTyped, LedgerTyped, Positions, Operations

requestVars == <<pc, domain, cost, clear, seen, answer>>
ledgerVars == <<entry, lock, raced, served, crashes>>

\* What a step leaves alone keeps its type.
LEMMA PartsKept ==
  ASSUME TypeOK
  PROVE  /\ UNCHANGED requestVars => RequestsTyped'
         /\ UNCHANGED purchases => ProviderTyped'
         /\ UNCHANGED ledgerVars => LedgerTyped'
<1>1. RequestsTyped /\ ProviderTyped /\ LedgerTyped
  BY TypeParts
<1>. QED
  BY <1>1 DEF RequestsTyped, ProviderTyped, LedgerTyped, requestVars, purchases, ledgerVars

\* An entry that is written has its type.
LEMMA EntryTyped ==
  ASSUME NEW registrar \in {"aws-route53", "namecheap"}, NEW status \in Statuses,
         NEW op \in 0..MaxRequests, NEW c \in Prices \cup {0}
  PROVE  [registrar |-> registrar, status |-> status, op |-> op, cost |-> c] \in Entries
BY DEF Entries

\* A request that goes on or ends keeps its type.
LEMMA RequestTyped ==
  ASSUME TypeOK, NEW r \in Requests, NEW where \in Positions
  PROVE  /\ Go(r, where) /\ UNCHANGED <<domain, cost, clear, seen, answer>> => RequestsTyped'
         /\ End(r) => RequestsTyped'
<1>1. NoEntry \in Entries
  BY PurchaseAssumption DEF PurchaseAssumption, NoEntry, Entries, Statuses
<1>2. RequestsTyped
  BY TypeParts
<1>3. ASSUME Go(r, where), UNCHANGED <<domain, cost, clear, seen, answer>> PROVE RequestsTyped'
  BY <1>2, <1>3 DEF RequestsTyped, Go
<1>4. ASSUME End(r) PROVE RequestsTyped'
  <2>1. pc' \in [Requests -> Positions]
    BY <1>2, <1>4 DEF RequestsTyped, Go, End, Positions
  <2>2. seen' \in [Requests -> Entries]
    BY <1>1, <1>2, <1>4 DEF RequestsTyped, End
  <2>3. domain' \in [Requests -> Domains \cup {NoDomain}] /\ cost' \in [Requests -> Prices \cup {0}]
    BY <1>2, <1>4 DEF RequestsTyped, End
  <2>4. clear' \in [Requests -> BOOLEAN] /\ answer' \in [Requests -> Answers]
    BY <1>2, <1>4 DEF RequestsTyped, End, Answers
  <2>. QED
    BY <2>1, <2>2, <2>3, <2>4 DEF RequestsTyped
<1>. QED
  BY <1>3, <1>4

\* Every step keeps every variable in its type.
LEMMA TypeStep == TypeOK /\ ProgressInv /\ [Next]_vars => TypeOK'
<1> SUFFICES ASSUME TypeOK, ProgressInv, [Next]_vars
             PROVE  RequestsTyped' /\ ProviderTyped' /\ LedgerTyped'
  BY TypeParts
<1> USE PartsKept, RequestTyped DEF Positions
<1>1. RequestsTyped /\ ProviderTyped /\ LedgerTyped
  BY TypeParts
<1>2. MaxRequests \in Nat /\ MaxCrashes \in Nat /\ Prices \subseteq Nat \ {0} /\ NoDomain \notin Domains
      /\ 0 \in 0..MaxRequests
  BY PurchaseAssumption DEF PurchaseAssumption
<1>3. NoEntry \in Entries
  BY <1>2 DEF NoEntry, Entries, Statuses
<1>4. \A r \in Requests : pc[r] # "idle" => domain[r] \in Domains /\ cost[r] \in Prices
  BY <1>1 DEF ProgressInv, Placed, RequestsTyped
<1>5. ASSUME NEW d \in Domains, NEW e \in EntryRead(d) PROVE e \in Entries
  BY <1>1, <1>3 DEF EntryRead, LedgerTyped
<1>6. \A r \in Requests : pc[r] # "idle" /\ Race(r) => raced' \subseteq Domains
  BY <1>1, <1>4 DEF Race, LedgerTyped
<1>7. ASSUME NEW r \in Requests, NEW d \in Domains, NEW c \in Prices, NEW approved \in BOOLEAN,
             Start(r, d, c, approved)
      PROVE  RequestsTyped' /\ ProviderTyped' /\ LedgerTyped'
  <2>1. served < MaxRequests /\ served' = served + 1 /\ UNCHANGED <<entry, lock, raced, crashes, purchases>>
    BY <1>7 DEF Start, Arrive
  <2>2. LedgerTyped'
    BY <1>1, <1>2, <2>1 DEF LedgerTyped
  <2>3. pc' \in [Requests -> Positions]
    BY <1>1, <1>7 DEF Start, Go, RequestsTyped
  <2>4. domain' \in [Requests -> Domains \cup {NoDomain}] /\ cost' \in [Requests -> Prices \cup {0}]
    BY <1>1, <1>7 DEF Start, Arrive, RequestsTyped
  <2>5. clear' \in [Requests -> BOOLEAN] /\ UNCHANGED <<seen, answer>>
    BY <1>1, <1>7 DEF Start, RequestsTyped
  <2>6. RequestsTyped'
    BY <1>1, <2>3, <2>4, <2>5 DEF RequestsTyped
  <2>. QED
    BY <2>1, <2>2, <2>6
<1>8. ASSUME NEW r \in Requests, NEW d \in Domains, NEW c \in Prices, Order(r, d, c)
      PROVE  RequestsTyped' /\ ProviderTyped' /\ LedgerTyped'
  <2>1. served < MaxRequests /\ served' = served + 1 /\ UNCHANGED <<entry, lock, raced, crashes, purchases>>
    BY <1>8 DEF Order, Arrive
  <2>2. LedgerTyped'
    BY <1>1, <1>2, <2>1 DEF LedgerTyped
  <2>3. pc' \in [Requests -> Positions]
    BY <1>1, <1>8 DEF Order, Go, RequestsTyped
  <2>4. domain' \in [Requests -> Domains \cup {NoDomain}] /\ cost' \in [Requests -> Prices \cup {0}]
    BY <1>1, <1>8 DEF Order, Arrive, RequestsTyped
  <2>5. clear' \in [Requests -> BOOLEAN] /\ UNCHANGED <<seen, answer>>
    BY <1>1, <1>8 DEF Order, RequestsTyped
  <2>6. RequestsTyped'
    BY <1>1, <2>3, <2>4, <2>5 DEF RequestsTyped
  <2>. QED
    BY <2>1, <2>2, <2>6
<1>9. ASSUME NEW r \in Requests, CheckOwned(r)
      PROVE  RequestsTyped' /\ ProviderTyped' /\ LedgerTyped'
  BY <1>1, <1>9 DEF CheckOwned, Go, RequestsTyped, ledgerVars, purchases
<1>10. ASSUME NEW r \in Requests, MarkOwned(r)
      PROVE  RequestsTyped' /\ ProviderTyped' /\ LedgerTyped'
  <2>1. [registrar |-> "aws-route53", status |-> "owned", op |-> 0, cost |-> 0] \in Entries
    BY <1>2, EntryTyped DEF Statuses
  <2>2. entry' \in [Domains -> Entries]
    BY <1>1, <1>10, <2>1 DEF MarkOwned, Replace, Written, WriteFails, LedgerTyped
  <2>. QED
    BY <1>1, <1>10, <1>6, <2>2 DEF MarkOwned, LedgerTyped
<1>11. ASSUME NEW r \in Requests, Look(r)
       PROVE  RequestsTyped' /\ ProviderTyped' /\ LedgerTyped'
  <2>1. PICK e \in EntryRead(domain[r]) :
          \/ Go(r, "asking") /\ seen' = [seen EXCEPT ![r] = e] /\ UNCHANGED <<domain, cost, clear, answer>>
          \/ Go(r, "locking") /\ UNCHANGED <<domain, cost, clear, seen, answer>>
          \/ End(r)
    BY <1>11 DEF Look
  <2>2. e \in Entries
    BY <1>4, <1>5, <1>11, <2>1 DEF Look
  <2>3. RequestsTyped'
    BY <1>1, <2>1, <2>2 DEF Go, RequestsTyped
  <2>. QED
    BY <1>1, <1>11, <1>6, <2>3 DEF Look, LedgerTyped
<1>12. ASSUME NEW r \in Requests, Ask(r)
       PROVE  RequestsTyped' /\ ProviderTyped' /\ LedgerTyped'
  <2>1. seen[r].op \in 1..Len(ops)
    BY <1>12 DEF Ask, ProgressInv, OpsKnown
  <2>2. ops[seen[r].op].state # "processing" => ops[seen[r].op].state \in Answers
    <3>1. ops[seen[r].op] \in Operations
      BY <1>1, <2>1, ElementOfSeq DEF ProviderTyped
    <3>. QED
      BY <3>1 DEF Operations, Answers
  <2>3. RequestsTyped'
    BY <1>1, <1>12, <2>2 DEF Ask, Go, RequestsTyped
  <2>. QED
    BY <1>12, <2>3 DEF Ask, ledgerVars
<1>13. ASSUME NEW r \in Requests, Settle(r)
       PROVE  RequestsTyped' /\ ProviderTyped' /\ LedgerTyped'
  <2>1. seen[r].op \in 0..MaxRequests /\ seen[r].cost \in Prices \cup {0}
    BY <1>1 DEF RequestsTyped, Entries
  <2>2. \A s \in Statuses : [registrar |-> "aws-route53", status |-> s, op |-> seen[r].op,
                             cost |-> seen[r].cost] \in Entries
    BY <2>1, EntryTyped
  <2>3. entry' \in [Domains -> Entries]
    BY <1>1, <1>13, <2>2 DEF Settle, Replace, Written, WriteFails, LedgerTyped, Statuses
  <2>. QED
    BY <1>1, <1>13, <1>6, <2>3 DEF Settle, LedgerTyped
<1>14. ASSUME NEW r \in Requests, Lock(r)
       PROVE  RequestsTyped' /\ ProviderTyped' /\ LedgerTyped'
  BY <1>1, <1>14 DEF Lock, LedgerTyped
<1>15. ASSUME NEW r \in Requests, ReadSpend(r)
       PROVE  RequestsTyped' /\ ProviderTyped' /\ LedgerTyped'
  BY <1>1, <1>15 DEF ReadSpend, LedgerTyped
<1>16. ASSUME NEW r \in Requests, Reserve(r)
       PROVE  RequestsTyped' /\ ProviderTyped' /\ LedgerTyped'
  <2>1. [registrar |-> "aws-route53", status |-> "purchase_reserved", op |-> 0, cost |-> cost[r]] \in Entries
    BY <1>1, <1>2, EntryTyped DEF Statuses, RequestsTyped
  <2>2. entry' \in [Domains -> Entries]
    BY <1>1, <1>16, <2>1 DEF Reserve, Replace, Written, WriteFails, LedgerTyped
  <2>3. RequestsTyped'
    BY <1>16 DEF Reserve
  <2>. QED
    BY <1>1, <1>16, <2>2, <2>3 DEF Reserve, LedgerTyped
<1>17. ASSUME NEW r \in Requests, Call(r)
       PROVE  RequestsTyped' /\ ProviderTyped' /\ LedgerTyped'
  <2>1. domain[r] \in Domains /\ cost[r] \in Prices
    BY <1>4, <1>17 DEF Call
  <2>2. Len(ops) \in Nat /\ Len(ops) + 1 \in 0..MaxRequests
    <3> DEFINE U == {q \in Requests : pc[q] \in Uncalled}
    <3>1. r \in U /\ IsFiniteSet(U)
      BY <1>17, FS_Subset, PurchaseAssumption DEF PurchaseAssumption, Call, Uncalled
    <3>2. Cardinality(U) \in Nat /\ Cardinality(U) # 0
      <4> HIDE DEF U
      <4>. QED
        BY <3>1, FS_CardinalityType, FS_EmptySet
    <3>3. Len(ops) + Cardinality(U) <= served /\ served \in 0..MaxRequests /\ Len(ops) \in Nat
      BY <1>1 DEF ProgressInv, CallsCounted, LedgerTyped, ProviderTyped
    <3> HIDE DEF U
    <3>. QED
      BY <1>2, <3>2, <3>3
  <2> DEFINE new == [domain |-> domain[r], cost |-> cost[r], state |-> "processing"]
  <2>3. new \in Operations
    BY <2>1 DEF Operations
  <2>4. Append(ops, new) \in Seq(Operations) /\ Len(Append(ops, new)) = Len(ops) + 1
    BY <1>1, <2>3, AppendProperties DEF ProviderTyped
  <2>5. ops' = Append(ops, new) \/ UNCHANGED ops
    BY <1>17 DEF Call
  <2>6. ProviderTyped'
    BY <1>1, <1>2, <1>17, <2>2, <2>4, <2>5 DEF Call, ProviderTyped
  <2>7. seen' = [seen EXCEPT ![r].op = Len(ops) + 1] \/ UNCHANGED seen
    BY <1>17 DEF Call
  <2>8. seen' \in [Requests -> Entries]
    <3>1. [seen[r] EXCEPT !.op = Len(ops) + 1] \in Entries
      <4>1. seen[r] \in Entries
        BY <1>1 DEF RequestsTyped
      <4>. QED
        BY <2>2, <4>1 DEF Entries
    <3>. QED
      BY <1>1, <2>7, <3>1 DEF RequestsTyped
  <2>9. \E a \in Answers : answer' = [answer EXCEPT ![r] = a]
    BY <1>17 DEF Call, Answers
  <2>10. RequestsTyped'
    <3>1. answer' \in [Requests -> Answers]
      BY <1>1, <2>9 DEF RequestsTyped
    <3>2. pc' \in [Requests -> Positions] /\ UNCHANGED <<domain, cost, clear>>
      BY <1>1, <1>17 DEF Call, Go, RequestsTyped
    <3>. QED
      BY <1>1, <2>8, <3>1, <3>2 DEF RequestsTyped
  <2>. QED
    BY <1>17, <2>6, <2>10 DEF Call, ledgerVars
<1>18. ASSUME NEW r \in Requests, Mark(r)
       PROVE  RequestsTyped' /\ ProviderTyped' /\ LedgerTyped'
  <2>1. seen[r].op \in 0..MaxRequests /\ cost[r] \in Prices \cup {0}
    BY <1>1 DEF RequestsTyped, Entries
  <2>2. Marked(answer[r]) \in Statuses
    BY <1>18 DEF Mark, Marked, Statuses, ProgressInv, OpsKnown
  <2>3. [registrar |-> "aws-route53", status |-> Marked(answer[r]), op |-> seen[r].op,
         cost |-> cost[r]] \in Entries
    BY <2>1, <2>2, EntryTyped
  <2>4. entry' \in [Domains -> Entries]
    BY <1>1, <1>18, <2>3 DEF Mark, Replace, Written, WriteFails, LedgerTyped
  <2>5. RequestsTyped'
    BY <1>18 DEF Mark
  <2>. QED
    BY <1>1, <1>18, <2>4, <2>5 DEF Mark, LedgerTyped
<1>19. ASSUME NEW r \in Requests, Poll(r)
       PROVE  RequestsTyped' /\ ProviderTyped' /\ LedgerTyped'
  <2>1. domain[r] \in Domains /\ cost[r] \in Prices
    BY <1>4, <1>19 DEF Poll
  <2>2. PICK e \in EntryRead(domain[r]) :
          \/ End(r)
          \/ /\ Go(r, "polled")
             /\ seen' = [seen EXCEPT ![r] = [registrar |-> "aws-route53",
                                             status |-> IF e = NoEntry THEN "pending" ELSE e.status,
                                             op |-> seen[r].op,
                                             cost |-> IF e = NoEntry THEN cost[r] ELSE e.cost]]
             /\ UNCHANGED <<domain, cost, clear, answer>>
    BY <1>19 DEF Poll
  <2>3. e.status \in Statuses /\ e.cost \in Prices \cup {0} /\ seen[r].op \in 0..MaxRequests
    BY <1>1, <1>5, <2>1, <2>2 DEF Entries, RequestsTyped
  <2>4. [registrar |-> "aws-route53", status |-> IF e = NoEntry THEN "pending" ELSE e.status,
         op |-> seen[r].op, cost |-> IF e = NoEntry THEN cost[r] ELSE e.cost] \in Entries
    BY <2>1, <2>3, EntryTyped DEF Statuses
  <2>5. RequestsTyped'
    BY <1>1, <2>2, <2>4 DEF Go, RequestsTyped
  <2>. QED
    BY <1>19, <2>5 DEF Poll, ledgerVars
<1>20. ASSUME NEW r \in Requests, List(r)
       PROVE  RequestsTyped' /\ ProviderTyped' /\ LedgerTyped'
  BY <1>1, <1>20 DEF List, Go, RequestsTyped, ledgerVars
<1>21. ASSUME NEW r \in Requests, Sum(r)
       PROVE  RequestsTyped' /\ ProviderTyped' /\ LedgerTyped'
  BY <1>1, <1>21 DEF Sum, ledgerVars
<1>22. ASSUME NEW r \in Requests, Buy(r)
       PROVE  RequestsTyped' /\ ProviderTyped' /\ LedgerTyped'
  <2>1. LedgerTyped' /\ UNCHANGED ops
    BY <1>1, <1>22 DEF Buy, LedgerTyped
  <2>2. CASE UNCHANGED bought /\ End(r)
    BY <1>1, <2>1, <2>2 DEF ProviderTyped
  <2>3. ASSUME NEW charged \in Prices, bought' = [bought EXCEPT ![domain[r]] = charged],
               \/ Go(r, "noting") /\ cost' = [cost EXCEPT ![r] = charged]
                  /\ UNCHANGED <<domain, clear, seen, answer>>
               \/ End(r)
        PROVE  RequestsTyped' /\ ProviderTyped'
    <3>1. ProviderTyped'
      BY <1>1, <2>1, <2>3 DEF ProviderTyped
    <3>2. RequestsTyped'
      BY <1>1, <2>3 DEF Go, RequestsTyped
    <3>. QED
      BY <3>1, <3>2
  <2>. QED
    BY <1>22, <2>1, <2>2, <2>3 DEF Buy
<1>23. ASSUME NEW r \in Requests, Note(r)
       PROVE  RequestsTyped' /\ ProviderTyped' /\ LedgerTyped'
  <2>1. [registrar |-> "namecheap", status |-> "owned", op |-> 0,
         cost |-> IF pc[r] = "noting" THEN cost[r] ELSE 0] \in Entries
    BY <1>1, <1>2, EntryTyped DEF Statuses, RequestsTyped
  <2>2. entry' \in [Domains -> Entries]
    BY <1>1, <1>23, <2>1 DEF Note, Written, WriteFails, LedgerTyped
  <2>. QED
    BY <1>1, <1>23, <1>6, <2>2 DEF Note, LedgerTyped
<1>24. ASSUME NEW k \in 1..Len(ops), NEW state \in {"successful", "failed"}, Complete(k, state)
       PROVE  RequestsTyped' /\ ProviderTyped' /\ LedgerTyped'
  <2>1. ops[k] \in Operations
    BY <1>1, ElementOfSeq DEF ProviderTyped
  <2>2. ops' = [ops EXCEPT ![k] = [ops[k] EXCEPT !.state = state]]
    BY <1>24 DEF Complete
  <2>3. [ops[k] EXCEPT !.state = state] \in Operations
    BY <2>1 DEF Operations
  <2>4. ops' \in Seq(Operations) /\ Len(ops') = Len(ops)
    BY <1>1, <2>2, <2>3, ExceptSeq DEF ProviderTyped
  <2>5. ProviderTyped'
    BY <1>1, <1>24, <2>4 DEF Complete, ProviderTyped
  <2>. QED
    BY <1>24, <2>5 DEF Complete, requestVars, ledgerVars
<1>25. ASSUME NEW r \in Requests, Err(r)
       PROVE  RequestsTyped' /\ ProviderTyped' /\ LedgerTyped'
  <2>1. [registrar |-> "aws-route53", status |-> "needs_reconciliation", op |-> 0, cost |-> cost[r]] \in Entries
    BY <1>1, <1>2, EntryTyped DEF Statuses, RequestsTyped
  <2>2. entry' \in [Domains -> Entries]
    BY <1>1, <1>25, <2>1 DEF Err, Replace, Written, WriteFails, LedgerTyped
  <2>. QED
    BY <1>1, <1>25, <2>2 DEF Err, LedgerTyped
<1>26. CASE Crash
  <2>1. RequestsTyped'
    BY <1>3, <1>26 DEF Crash, RequestsTyped, Answers
  <2>2. LedgerTyped'
    BY <1>1, <1>2, <1>26 DEF Crash, LedgerTyped
  <2>. QED
    BY <1>26, <2>1, <2>2 DEF Crash
<1>27. CASE UNCHANGED vars
  BY <1>27 DEF vars, requestVars, ledgerVars, purchases
<1>. QED
  BY <1>7, <1>8, <1>9, <1>10, <1>11, <1>12, <1>13, <1>14, <1>15, <1>16, <1>17, <1>18, <1>19, <1>20, <1>21,
     <1>22, <1>23, <1>24, <1>26, <1>27, <1>25 DEF Next, Step

-----------------------------------------------------------------------------
(* What a step leaves alone.                                               *)

OpsOf(d) == {k \in 1..Len(ops) : ops[k].domain = d}
DomainSame(d) ==
  /\ entry'[d] = entry[d] /\ bought'[d] = bought[d]
  /\ OpsOf(d)' = OpsOf(d) /\ \A k \in OpsOf(d) : ops'[k] = ops[k]
RequestSame(r) ==
  /\ pc'[r] = pc[r] /\ domain'[r] = domain[r] /\ cost'[r] = cost[r]
  /\ seen'[r] = seen[r] /\ answer'[r] = answer[r]

\* A domain that a step does not touch stays sound.
LEMMA DomainKept ==
  ASSUME NEW d, DomainSame(d)
  PROVE  /\ DomainSound(d) => DomainSound(d)'
         /\ Live(d)' <=> Live(d)
         /\ \A n : Latest(n, d) => Latest(n, d)'
<1>1. \A k : k \in 1..Len(ops') /\ ops'[k].domain = d <=> k \in 1..Len(ops) /\ ops[k].domain = d
  BY DEF DomainSame, OpsOf
<1>2. \A k \in 1..Len(ops) : ops[k].domain = d => ops'[k] = ops[k]
  BY DEF DomainSame, OpsOf
<1>3. entry'[d] = entry[d] /\ bought'[d] = bought[d]
  BY DEF DomainSame
<1>4. \A n : Latest(n, d) => Latest(n, d)'
  BY <1>1 DEF Latest
<1>5. Live(d)' <=> Live(d)
  BY <1>1, <1>2, <1>3 DEF Live, Taken, Has
<1>6. EntrySound(d) => EntrySound(d)'
  BY <1>3 DEF EntrySound, Taken
<1>7. EarlierFailed(d) => EarlierFailed(d)'
  BY <1>1, <1>2 DEF EarlierFailed
<1>8. EntryLatest(d) => EntryLatest(d)'
  BY <1>3, <1>4 DEF EntryLatest
<1>9. LiveCounted(d) => LiveCounted(d)'
  BY <1>1, <1>2, <1>3 DEF LiveCounted, Open, Counted, Taken, Zeroed
<1>. QED
  BY <1>4, <1>5, <1>6, <1>7, <1>8, <1>9 DEF DomainSound

\* A request that a step does not touch stays sound, with its domain.
LEMMA RequestKept ==
  ASSUME NEW r \in Requests, RequestSound(r), RequestSame(r), pc[r] = "idle" \/ DomainSame(domain[r])
  PROVE  RequestSound(r)'
<1>1. CASE pc[r] = "idle"
  BY <1>1 DEF RequestSound, RequestSame, MayBuy, CallReserved, FollowsEntry, NotesSold
<1>2. CASE DomainSame(domain[r])
  <2>1. PICK d : d = domain[r] /\ DomainSame(d)
    BY <1>2
  <2>2. \A k : k \in 1..Len(ops') /\ ops'[k].domain = d <=> k \in 1..Len(ops) /\ ops[k].domain = d
    BY <2>1 DEF DomainSame, OpsOf
  <2>3. \A k \in 1..Len(ops) : ops[k].domain = d => ops'[k] = ops[k]
    BY <2>1 DEF DomainSame, OpsOf
  <2>4. entry'[d] = entry[d] /\ (Taken(d)' <=> Taken(d))
    BY <2>1 DEF DomainSame, Taken
  <2>5. (Live(d)' <=> Live(d)) /\ \A n : Latest(n, d) => Latest(n, d)'
    BY <2>1, DomainKept
  <2>6. RequestSame(r) /\ d = domain[r] /\ d = domain'[r]
    BY <2>1 DEF RequestSame
  <2>7. MayBuy(r)' /\ NotesSold(r)'
    BY <2>4, <2>5, <2>6 DEF RequestSound, RequestSame, MayBuy, NotesSold
  <2>8. FollowsEntry(r)'
    <3>1. Latest(seen[r].op, d) => ops'[seen[r].op] = ops[seen[r].op]
      BY <2>3 DEF Latest
    <3>. QED
      BY <2>4, <2>5, <2>6, <3>1 DEF RequestSound, RequestSame, FollowsEntry
  <2>9. CallReserved(r)'
    <3>1. \A k \in 1..Len(ops') : Open(k, d)' => k \in 1..Len(ops) /\ Open(k, d) /\ ops'[k] = ops[k]
      BY <2>2, <2>3 DEF Open
    <3>. QED
      BY <2>4, <2>5, <2>6, <3>1 DEF RequestSound, RequestSame, CallReserved
  <2>. QED
    BY <2>7, <2>8, <2>9 DEF RequestSound
<1>. QED
  BY <1>1, <1>2

\* A request goes on with its domain, or ends; others are left alone.
Own(r) ==
  /\ \A q \in Requests : q # r => RequestSame(q)
  /\ pc[r] # "idle"
  /\ \/ pc'[r] = "idle" /\ domain'[r] = NoDomain /\ seen'[r].op = 0
     \/ pc'[r] # "idle" /\ domain'[r] = domain[r] /\ cost'[r] \in Prices

\* Every step of a request is its own.
LEMMA OwnStep ==
  ASSUME TypeOK, Placed, NEW r \in Requests, Step(r)
  PROVE  Own(r)
<1>1. RequestsTyped
  BY TypeParts
<1>2. cost[r] \in Prices \/ pc[r] = "idle"
  BY DEF Placed
<1>3. ASSUME End(r), pc[r] # "idle" PROVE Own(r)
  <2>1. \A q \in Requests : q # r => RequestSame(q)
    BY <1>1, <1>3 DEF End, Go, RequestSame, RequestsTyped
  <2>2. pc'[r] = "idle" /\ domain'[r] = NoDomain /\ seen'[r].op = 0
    BY <1>1, <1>3 DEF End, Go, RequestsTyped, NoEntry
  <2>. QED
    BY <1>3, <2>1, <2>2 DEF Own
<1>4. ASSUME NEW where \in Positions \ {"idle"}, Go(r, where), UNCHANGED domain, pc[r] # "idle",
             cost' = cost \/ \E c \in Prices : cost' = [cost EXCEPT ![r] = c],
             seen' = seen \/ \E e : seen' = [seen EXCEPT ![r] = e],
             answer' = answer \/ \E a : answer' = [answer EXCEPT ![r] = a]
      PROVE  Own(r)
  <2>1. \A q \in Requests : q # r => pc'[q] = pc[q] /\ domain'[q] = domain[q]
    BY <1>1, <1>4 DEF Go, RequestsTyped
  <2>2. \A q \in Requests : q # r => cost'[q] = cost[q]
    BY <1>1, <1>4 DEF RequestsTyped
  <2>3. \A q \in Requests : q # r => seen'[q] = seen[q]
    BY <1>1, <1>4 DEF RequestsTyped
  <2>4. \A q \in Requests : q # r => answer'[q] = answer[q]
    BY <1>1, <1>4 DEF RequestsTyped
  <2>5. pc'[r] # "idle" /\ domain'[r] = domain[r]
    BY <1>1, <1>4 DEF Go, RequestsTyped
  <2>6. cost'[r] \in Prices
    BY <1>1, <1>2, <1>4 DEF RequestsTyped
  <2>. QED
    BY <1>4, <2>1, <2>2, <2>3, <2>4, <2>5, <2>6 DEF Own, RequestSame
<1> USE DEF Positions
<1>5. ASSUME CheckOwned(r) \/ List(r) PROVE Own(r)
  BY <1>4, <1>5 DEF CheckOwned, List
<1>6. ASSUME MarkOwned(r) \/ Settle(r) \/ Note(r) PROVE Own(r)
  BY <1>3, <1>6 DEF MarkOwned, Settle, Note
<1>7. ASSUME Look(r) PROVE Own(r)
  BY <1>3, <1>4, <1>7 DEF Look
<1>8. ASSUME Ask(r) PROVE Own(r)
  BY <1>3, <1>4, <1>8 DEF Ask
<1>9. ASSUME Lock(r) \/ ReadSpend(r) \/ Sum(r) PROVE Own(r)
  BY <1>3, <1>4, <1>9 DEF Lock, ReadSpend, Sum
<1>10. ASSUME Reserve(r) PROVE Own(r)
  BY <1>3, <1>4, <1>10 DEF Reserve
<1>11. ASSUME Err(r) PROVE Own(r)
  BY <1>3, <1>11 DEF Err
<1>12. ASSUME Call(r) PROVE Own(r)
  <2>1. seen' = [seen EXCEPT ![r].op = Len(ops) + 1] \/ UNCHANGED seen
    BY <1>12 DEF Call
  <2>2. seen' = seen \/ \E e : seen' = [seen EXCEPT ![r] = e]
    BY <2>1
  <2>3. \E a : answer' = [answer EXCEPT ![r] = a]
    BY <1>12 DEF Call
  <2>. QED
    BY <1>4, <1>12, <2>2, <2>3 DEF Call
<1>13. ASSUME Mark(r) PROVE Own(r)
  BY <1>3, <1>4, <1>13 DEF Mark
<1>14. ASSUME Poll(r) PROVE Own(r)
  BY <1>3, <1>4, <1>14 DEF Poll
<1>15. ASSUME Buy(r) PROVE Own(r)
  BY <1>3, <1>4, <1>15 DEF Buy
<1>. QED
  BY <1>5, <1>6, <1>7, <1>8, <1>9, <1>10, <1>12, <1>13, <1>14, <1>15, <1>11 DEF Step

\* Only its own domain is touched by a step of a request.
LEMMA OtherDomains ==
  ASSUME TypeOK, NEW r \in Requests, Step(r), NEW d \in Domains, d # domain[r]
  PROVE  DomainSame(d)
<1>1. ProviderTyped /\ LedgerTyped
  BY TypeParts
<1>2. CASE UNCHANGED ops
  <2>1. entry'[d] = entry[d] /\ bought'[d] = bought[d]
    BY <1>1, <1>2 DEF Step, CheckOwned, MarkOwned, Look, Ask, Settle, Lock, ReadSpend, Reserve, Call, Mark,
       Err, Poll, List, Sum, Buy, Note, Replace, Written, WriteFails, purchases, ProviderTyped, LedgerTyped
  <2>. QED
    BY <1>2, <2>1 DEF DomainSame, OpsOf
<1>3. CASE Call(r)
  <2>1. \/ UNCHANGED ops
        \/ \E c : ops' = Append(ops, [domain |-> domain[r], cost |-> c, state |-> "processing"])
    BY <1>3 DEF Call
  <2>2. ASSUME NEW c, ops' = Append(ops, [domain |-> domain[r], cost |-> c, state |-> "processing"])
        PROVE  OpsOf(d)' = OpsOf(d) /\ \A k \in OpsOf(d) : ops'[k] = ops[k]
    <3> DEFINE new == [domain |-> domain[r], cost |-> c, state |-> "processing"]
    <3>1. /\ Len(ops) \in Nat /\ Len(ops') = Len(ops) + 1
          /\ \A k \in 1..Len(ops) : ops'[k] = ops[k]
          /\ ops'[Len(ops) + 1].domain = domain[r]
      BY <1>1, <2>2, AppendProperties, LenProperties DEF ProviderTyped
    <3>. QED
      BY <3>1 DEF OpsOf
  <2>3. UNCHANGED <<entry, bought>>
    BY <1>3 DEF Call
  <2>. QED
    BY <2>1, <2>2, <2>3 DEF DomainSame, OpsOf
<1>4. UNCHANGED ops \/ Call(r)
  BY DEF Step, CheckOwned, MarkOwned, Look, Ask, Settle, Lock, ReadSpend, Reserve, Mark, Err, Poll, List,
         Sum, Buy, Note, purchases
<1>. QED
  BY <1>2, <1>3, <1>4

-----------------------------------------------------------------------------
(* A request and its domain stay sound.                                    *)

\* A request that has ended is sound.
LEMMA EndedSound ==
  ASSUME NEW r \in Requests, pc'[r] = "idle", seen'[r].op = 0
  PROVE  RequestSound(r)'
BY DEF RequestSound, MayBuy, CallReserved, FollowsEntry, NotesSold, Uncalled

\* The gateway's own steps before the provider is called, which write nothing.
LEMMA ReadingSteps ==
  ASSUME Readable, TypeOK, PurchaseInv, NEW r \in Requests,
         \/ CheckOwned(r) \/ Look(r) \/ Ask(r) \/ Lock(r) \/ ReadSpend(r) \/ Poll(r) \/ List(r) \/ Sum(r),
         NEW d \in Domains, d = domain[r], d \notin raced
  PROVE  DomainSound(d)' /\ RequestSound(r)'
<1>1. UNCHANGED <<entry, ops, bought>>
  BY DEF CheckOwned, Look, Ask, Lock, ReadSpend, Poll, List, Sum, purchases
<1>2. DomainSame(d)
  BY <1>1 DEF DomainSame, OpsOf
<1>3. DomainSound(d) /\ RequestSound(r)
  BY DEF PurchaseInv
<1>4. DomainSound(d)' /\ (Live(d)' <=> Live(d)) /\ \A n : Latest(n, d) => Latest(n, d)'
  BY <1>2, <1>3, DomainKept
<1>5. Own(r)
  BY OwnStep DEF PurchaseInv, Step
<1>6. CASE pc'[r] = "idle"
  BY <1>4, <1>5, <1>6, EndedSound DEF Own
<1>7. CASE pc'[r] # "idle"
  <2> SUFFICES RequestSound(r)'
    BY <1>4
  <2>1. domain'[r] = d
    BY <1>5, <1>7 DEF Own
  <2>2. RequestsTyped /\ ProviderTyped
    BY TypeParts
  <2>3. ~ End(r)
    BY <1>7, <2>2 DEF End, Go, RequestsTyped
  <2>4. CASE CheckOwned(r)
    <3>1. pc[r] = "owning" /\ pc'[r] \in {"owned", "looking"} /\ UNCHANGED seen
      BY <2>2, <2>4 DEF CheckOwned, Go, RequestsTyped
    <3>2. seen'[r].op = 0
      BY <1>3, <3>1 DEF RequestSound, CallReserved, Uncalled
    <3>. QED
      BY <1>4, <3>1, <3>2 DEF RequestSound, MayBuy, CallReserved, FollowsEntry, NotesSold
  <2>5. CASE Look(r)
    <3>1. PICK e \in EntryRead(d) :
            \/ e.status \in Unsettled /\ e.op # 0 /\ pc'[r] = "asking" /\ seen'[r] = e
            \/ e.status \notin Unsettled \cup {"owned"} /\ pc'[r] = "locking" /\ UNCHANGED seen
      BY <2>2, <2>3, <2>5 DEF Look, Go, RequestsTyped
    <3>2. e = entry[d] \/ (e = NoEntry /\ entry[d].registrar = "namecheap")
      BY DEF EntryRead, Readable
    <3>3. CASE e.status \in Unsettled /\ e.op # 0 /\ pc'[r] = "asking" /\ seen'[r] = e
      <4>1. e = entry[d] /\ e # NoEntry
        BY <3>2, <3>3 DEF NoEntry, Unsettled
      <4>2. Latest(e.op, d)' /\ entry[d].registrar = "aws-route53"
        BY <1>3, <1>4, <3>3, <4>1 DEF DomainSound, EntryLatest, EntrySound
      <4>. QED
        BY <1>1, <1>4, <2>1, <3>3, <4>1, <4>2
           DEF RequestSound, MayBuy, CallReserved, FollowsEntry, NotesSold, Uncalled
    <3>4. CASE e.status \notin Unsettled \cup {"owned"} /\ pc'[r] = "locking" /\ UNCHANGED seen
      <4>1. ASSUME entry[d].registrar = "namecheap" PROVE ~ Live(d)
        <5>1. Taken(d)
          BY <1>3, <4>1 DEF DomainSound, EntrySound, NoEntry
        <5>. QED
          BY <5>1 DEF Live
      <4>2. ASSUME e = entry[d] PROVE ~ Live(d)
        <5>1. ~ Zeroed(d)
          BY <3>4, <4>2 DEF Zeroed
        <5>2. ~ Counted(d)
          <6>1. entry[d].status \in Statuses
            BY TypeParts DEF LedgerTyped, Entries
          <6>. QED
            BY <3>4, <4>2, <6>1 DEF Counted, Counts, Statuses, Unsettled
        <5>3. ~ Live(d)
          BY <1>3, <5>1, <5>2 DEF DomainSound, LiveCounted, Open, Live, Has
        <5>. QED
          BY <5>3
      <4>3. ~ Live(d)
        BY <3>2, <4>1, <4>2
      <4>4. seen[r].op = 0
        BY <1>3, <2>5 DEF Look, RequestSound, CallReserved, Uncalled
      <4>. QED
        BY <1>1, <1>4, <2>1, <3>2, <3>4, <4>3, <4>4
           DEF RequestSound, MayBuy, CallReserved, FollowsEntry, NotesSold
    <3>. QED
      BY <3>1, <3>3, <3>4
  <2>6. CASE Ask(r)
    <3>1. Latest(seen[r].op, d) /\ entry[d].registrar = "aws-route53" /\ entry[d].status \in Unsettled
          /\ seen[r].cost = entry[d].cost
      BY <1>3, <2>6 DEF Ask, RequestSound, FollowsEntry
    <3>2. ops[seen[r].op] \in Operations
      BY <2>2, <3>1, ElementOfSeq DEF Latest, ProviderTyped
    <3>3. UNCHANGED seen
      BY <2>3, <2>6 DEF Ask
    <3>4. \/ pc'[r] = "settling" /\ answer'[r] = ops[seen[r].op].state /\ answer'[r] # "processing"
          \/ pc'[r] = "polling"
      BY <2>2, <2>3, <2>6 DEF Ask, Go, RequestsTyped
    <3>5. pc'[r] = "settling" => answer'[r] \in {"successful", "failed"}
      BY <3>2, <3>4 DEF Operations
    <3>6. Latest(seen[r].op, d)'
      <4>1. PICK n : n = seen[r].op
        OBVIOUS
      <4>. QED
        BY <1>4, <3>1, <3>3, <4>1
    <3>. QED
      BY <1>1, <2>1, <3>1, <3>3, <3>4, <3>5, <3>6
         DEF RequestSound, MayBuy, CallReserved, FollowsEntry, NotesSold, Uncalled
  <2>7. CASE Lock(r) \/ ReadSpend(r)
    <3>1. pc[r] \in {"locking", "spending"} /\ pc'[r] \in {"spending", "reserving"} /\ UNCHANGED seen
      BY <2>2, <2>3, <2>7 DEF Lock, ReadSpend, Go, RequestsTyped
    <3>2. seen[r].op = 0 /\ ~ Live(d)
      BY <1>3, <3>1 DEF RequestSound, MayBuy, CallReserved, Uncalled
    <3>3. entry[d].registrar = "namecheap" \/ entry[d].status \notin Unsettled
      BY <1>3, <3>1 DEF RequestSound, MayBuy
    <3>. QED
      BY <1>1, <1>4, <2>1, <3>1, <3>2, <3>3 DEF RequestSound, MayBuy, CallReserved, FollowsEntry, NotesSold
  <2>8. CASE Poll(r)
    <3>1. PICK e \in EntryRead(d) :
            /\ pc'[r] = "polled"
            /\ seen'[r].op = seen[r].op
            /\ seen'[r].cost = (IF e = NoEntry THEN cost[r] ELSE e.cost)
      BY <2>2, <2>3, <2>8 DEF Poll, Go, RequestsTyped
    <3>2. Latest(seen[r].op, d) /\ entry[d].registrar = "aws-route53" /\ entry[d].status \in Unsettled
      BY <1>3, <2>8 DEF Poll, RequestSound, FollowsEntry
    <3>3. e = entry[d] /\ e # NoEntry
      BY <3>2 DEF EntryRead, Readable, NoEntry
    <3>4. Latest(seen[r].op, d)'
      <4>1. PICK n : n = seen[r].op /\ n = seen'[r].op
        BY <3>1
      <4>. QED
        BY <1>4, <3>2, <4>1
    <3>. QED
      BY <1>1, <2>1, <3>1, <3>2, <3>3, <3>4
         DEF RequestSound, MayBuy, CallReserved, FollowsEntry, NotesSold, Uncalled
  <2>9. CASE List(r) \/ Sum(r)
    <3>1. pc'[r] \in {"summing", "listed", "ordering"} /\ (pc'[r] = "listed" => Taken(d))
      BY <2>2, <2>3, <2>9 DEF List, Sum, Go, RequestsTyped
    <3>2. Taken(d) => Taken(d)'
      BY <1>1 DEF Taken
    <3>. QED
      BY <2>1, <3>1, <3>2 DEF RequestSound, MayBuy, CallReserved, FollowsEntry, NotesSold, Uncalled
  <2>. QED
    BY <2>4, <2>5, <2>6, <2>7, <2>8, <2>9
<1>. QED
  BY <1>6, <1>7

\* A live operation of a domain is the last one, as those before it have failed.
LEMMA OpenIsLatest ==
  ASSUME NEW d, EarlierFailed(d), NEW n, Latest(n, d), NEW k \in 1..Len(ops), Open(k, d)
  PROVE  k = n
<1>1. n \in 1..Len(ops) /\ ops[n].domain = d /\ k <= n /\ ops[k].domain = d /\ ops[k].state # "failed"
  BY DEF Latest, Open
<1>2. Len(ops) \in Int => ~ (k < n)
  BY <1>1 DEF EarlierFailed
<1>. QED
  BY <1>1, <1>2

\* What is written keeps the entry sound, whether the write succeeds or fails: the provider
\* and what was bought are as they were.
LEMMA EntryWritten ==
  ASSUME TypeOK, NEW d \in Domains, DomainSound(d), UNCHANGED <<ops, bought>>, NEW e, entry'[d] = e,
         e.registrar = "aws-route53" \/ (e.registrar = "namecheap" /\ Taken(d) /\ e.op = 0),
         e.op # 0 => Latest(e.op, d),
         \A k \in 1..Len(ops) : Open(k, d) =>
           \/ e.registrar = "aws-route53" /\ Counts(e.status) /\ e.cost = ops[k].cost
           \/ Taken(d)
           \/ e.status = "owned" /\ e.op = 0
  PROVE  DomainSound(d)'
<1>1. EntrySound(d)'
  BY DEF EntrySound, Taken
<1>2. EarlierFailed(d)'
  BY DEF DomainSound, EarlierFailed
<1>3. EntryLatest(d)'
  BY DEF EntryLatest, Latest
<1>4. LiveCounted(d)'
  BY DEF LiveCounted, Open, Counted, Taken, Zeroed
<1>. QED
  BY <1>1, <1>2, <1>3, <1>4 DEF DomainSound

\* The steps that write the domain's entry.
LEMMA WritingSteps ==
  ASSUME TypeOK, PurchaseInv, NEW r \in Requests,
         MarkOwned(r) \/ Settle(r) \/ Reserve(r) \/ Mark(r) \/ Err(r) \/ Note(r),
         NEW d \in Domains, d = domain[r], d \notin raced
  PROVE  DomainSound(d)' /\ RequestSound(r)'
<1>1. UNCHANGED <<ops, bought>>
  BY DEF MarkOwned, Settle, Reserve, Mark, Err, Note, purchases
<1>2. DomainSound(d) /\ RequestSound(r)
  BY DEF PurchaseInv
<1>3. ASSUME entry'[d] = entry[d] PROVE DomainSound(d)'
  BY <1>1, <1>2, <1>3, DomainKept DEF DomainSame, OpsOf
<1>4. Own(r)
  BY OwnStep DEF PurchaseInv, Step
<1>5. RequestsTyped /\ ProviderTyped /\ LedgerTyped
  BY TypeParts
<1>6. \A n : Latest(n, d) => Latest(n, d)'
  BY <1>1 DEF Latest
<1>7. ASSUME MarkOwned(r) PROVE DomainSound(d)' /\ RequestSound(r)'
  <2>1. End(r)
    BY <1>7 DEF MarkOwned
  <2>2. pc'[r] = "idle"
    BY <1>5, <2>1 DEF End, Go, RequestsTyped
  <2>3. RequestSound(r)'
    BY <1>4, <2>2, EndedSound DEF Own
  <2> DEFINE e == [registrar |-> "aws-route53", status |-> "owned", op |-> 0, cost |-> 0]
  <2>4. entry'[d] = e \/ entry'[d] = entry[d]
    BY <1>5, <1>7 DEF MarkOwned, Replace, Written, WriteFails, LedgerTyped
  <2>5. ASSUME entry'[d] = e PROVE DomainSound(d)'
    <3>1. e.registrar = "aws-route53" /\ e.status = "owned" /\ e.op = 0
      OBVIOUS
    <3> HIDE DEF e
    <3>. QED
      BY <1>1, <1>2, <2>5, <3>1, EntryWritten
  <2>. QED
    BY <1>3, <2>3, <2>4, <2>5
<1>8. ASSUME Settle(r) PROVE DomainSound(d)' /\ RequestSound(r)'
  <2>1. pc[r] = "settling" /\ End(r)
    BY <1>8 DEF Settle
  <2>2. pc'[r] = "idle"
    BY <1>5, <2>1 DEF End, Go, RequestsTyped
  <2>3. RequestSound(r)'
    BY <1>4, <2>2, EndedSound DEF Own
  <2>4. /\ Latest(seen[r].op, d) /\ entry[d].registrar = "aws-route53" /\ entry[d].status \in Unsettled
        /\ seen[r].cost = entry[d].cost
        /\ answer[r] = ops[seen[r].op].state /\ answer[r] \in {"successful", "failed"}
    BY <1>2, <2>1 DEF RequestSound, FollowsEntry
  <2> DEFINE e == [registrar |-> "aws-route53",
                   status |-> IF answer[r] = "successful" THEN "owned" ELSE "failed",
                   op |-> seen[r].op, cost |-> seen[r].cost]
  <2>5. entry'[d] = e \/ entry'[d] = entry[d]
    BY <1>5, <1>8 DEF Settle, Replace, Written, WriteFails, LedgerTyped
  <2>6. ASSUME entry'[d] = e PROVE DomainSound(d)'
    <3>1. /\ e.registrar = "aws-route53" /\ e.op = seen[r].op /\ e.cost = entry[d].cost
          /\ answer[r] = "successful" => e.status = "owned"
      BY <2>4
    <3> HIDE DEF e
    <3>2. ASSUME NEW k \in 1..Len(ops), Open(k, d)
          PROVE  Taken(d) \/ (Counts(e.status) /\ e.cost = ops[k].cost)
      <4>1. k = seen[r].op
        BY <1>2, <2>4, <3>2, OpenIsLatest DEF DomainSound
      <4>2. e.status = "owned"
        BY <2>4, <3>1, <3>2, <4>1 DEF Open
      <4>3. Taken(d) \/ entry[d].cost = ops[k].cost
        BY <1>2, <2>4, <3>2 DEF DomainSound, LiveCounted, Zeroed, Unsettled
      <4>. QED
        BY <3>1, <4>2, <4>3 DEF Counts
    <3>. QED
      BY <1>1, <1>2, <2>4, <2>6, <3>1, <3>2, EntryWritten
  <2>. QED
    BY <1>3, <2>3, <2>5, <2>6
<1>9. ASSUME Note(r) PROVE DomainSound(d)' /\ RequestSound(r)'
  <2>1. pc[r] \in {"listed", "noting"} /\ End(r)
    BY <1>9 DEF Note
  <2>2. pc'[r] = "idle"
    BY <1>5, <2>1 DEF End, Go, RequestsTyped
  <2>3. RequestSound(r)'
    BY <1>4, <2>2, EndedSound DEF Own
  <2>4. Taken(d)
    BY <1>2, <2>1 DEF RequestSound, NotesSold
  <2> DEFINE e == [registrar |-> "namecheap", status |-> "owned", op |-> 0,
                   cost |-> IF pc[r] = "noting" THEN cost[r] ELSE 0]
  <2>5. entry'[d] = e \/ entry'[d] = entry[d]
    BY <1>5, <1>9 DEF Note, Written, WriteFails, LedgerTyped
  <2>6. ASSUME entry'[d] = e PROVE DomainSound(d)'
    <3>1. e.registrar = "namecheap" /\ e.op = 0
      OBVIOUS
    <3> HIDE DEF e
    <3>. QED
      BY <1>1, <1>2, <2>4, <2>6, <3>1, EntryWritten
  <2>. QED
    BY <1>3, <2>3, <2>5, <2>6
<1>10. ASSUME Reserve(r) PROVE DomainSound(d)' /\ RequestSound(r)'
  <2>1. pc[r] = "reserving"
    BY <1>10 DEF Reserve
  <2>2. ~ Live(d) /\ seen[r].op = 0
    BY <1>2, <2>1 DEF RequestSound, MayBuy, CallReserved, Uncalled
  <2>3. CASE WriteFails /\ End(r)
    <3>1. pc'[r] = "idle" /\ entry'[d] = entry[d]
      BY <1>5, <2>3 DEF End, Go, WriteFails, RequestsTyped
    <3>. QED
      BY <1>3, <1>4, <3>1, EndedSound DEF Own
  <2>4. CASE Replace(d, "purchase_reserved", 0, cost[r]) /\ Go(r, "calling")
             /\ UNCHANGED <<domain, cost, clear, seen, answer>>
    <3> DEFINE e == Reservation(cost[r])
    <3>1. entry'[d] = e
      BY <1>5, <2>4 DEF Replace, Written, Reservation, LedgerTyped
    <3>2. e.registrar = "aws-route53" /\ e.op = 0
      BY DEF Reservation
    <3> HIDE DEF e
    <3>3. \A k \in 1..Len(ops) : Open(k, d) => Taken(d)
      <4>1. ASSUME NEW k \in 1..Len(ops), Open(k, d), ~ Taken(d) PROVE FALSE
        <5>1. ops[k] \in Operations
          BY <1>5, ElementOfSeq DEF ProviderTyped
        <5>. QED
          BY <2>2, <4>1, <5>1 DEF Live, Has, Open, Operations
      <4>. QED
        BY <4>1
    <3>4. DomainSound(d)'
      BY <1>1, <1>2, <3>1, <3>2, <3>3, EntryWritten
    <3>5. pc'[r] = "calling" /\ domain'[r] = d
      BY <1>5, <2>4 DEF Go, RequestsTyped
    <3>6. ~ Live(d)'
      BY <1>1, <2>2 DEF Live, Taken, Has
    <3>7. RequestSound(r)'
      BY <2>2, <2>4, <3>1, <3>5, <3>6 DEF e, RequestSound, MayBuy, CallReserved, FollowsEntry, NotesSold
    <3>. QED
      BY <3>4, <3>7
  <2>. QED
    BY <1>10, <2>3, <2>4 DEF Reserve
<1>11. ASSUME Mark(r) PROVE DomainSound(d)' /\ RequestSound(r)'
  <2>1. pc[r] = "marking"
    BY <1>11 DEF Mark
  <2>2. /\ entry[d] = Reservation(cost[r]) /\ answer[r] \in {"accepted", "unavailable", "error"}
        /\ answer[r] = "accepted" => Latest(seen[r].op, d)
        /\ answer[r] # "accepted" => seen[r].op = 0
        /\ answer[r] = "unavailable" => ~ Live(d)
        /\ \A k \in 1..Len(ops) : Open(k, d) => ops[k].cost = cost[r] \/ Taken(d)
    BY <1>2, <2>1 DEF RequestSound, CallReserved
  <2> DEFINE e == [registrar |-> "aws-route53", status |-> Marked(answer[r]), op |-> seen[r].op,
                   cost |-> cost[r]]
  <2>3. entry'[d] = e \/ entry'[d] = entry[d]
    BY <1>5, <1>11 DEF Mark, Replace, Written, WriteFails, LedgerTyped
  <2>4. /\ e.registrar = "aws-route53" /\ e.op = seen[r].op /\ e.cost = cost[r]
        /\ e.status = Marked(answer[r])
    OBVIOUS
  <2>5. entry[d].registrar = "aws-route53" /\ entry[d].status = "purchase_reserved"
    BY <2>2 DEF Reservation
  <2> HIDE DEF e
  <2>6. ASSUME entry'[d] = e PROVE DomainSound(d)'
    <3>1. ASSUME NEW k \in 1..Len(ops), Open(k, d)
          PROVE  Taken(d) \/ (Counts(e.status) /\ e.cost = ops[k].cost)
      <4>1. ops[k] \in Operations
        BY <1>5, ElementOfSeq DEF ProviderTyped
      <4>2. Taken(d) \/ Live(d)
        BY <3>1, <4>1 DEF Live, Has, Open, Operations
      <4>3. answer[r] # "unavailable" => Counts(Marked(answer[r]))
        BY <2>2 DEF Marked, Counts
      <4>. QED
        BY <2>2, <2>4, <3>1, <4>2, <4>3
    <3>2. e.op # 0 => Latest(e.op, d)
      BY <2>2, <2>4
    <3>. QED
      BY <1>1, <1>2, <2>4, <2>6, <3>1, <3>2, EntryWritten
  <2>7. CASE End(r)
    <3>1. pc'[r] = "idle"
      BY <1>5, <2>7 DEF End, Go, RequestsTyped
    <3>. QED
      BY <1>3, <1>4, <2>3, <2>6, <3>1, EndedSound DEF Own
  <2>8. CASE /\ answer[r] = "accepted"
             /\ Go(r, "polling") \/ Go(r, "erring")
             /\ UNCHANGED <<domain, cost, clear, seen, answer>>
    <3>1. pc'[r] \in {"polling", "erring"} /\ domain'[r] = d /\ cost'[r] = cost[r]
      BY <1>5, <2>8 DEF Go, RequestsTyped
    <3>2. entry'[d].registrar = "aws-route53" /\ entry'[d].status \in Unsettled /\ entry'[d].cost = cost[r]
      BY <2>2, <2>3, <2>4, <2>5, <2>8 DEF Marked, Unsettled, Reservation
    <3>3. Latest(seen[r].op, d)'
      <4>1. PICK n : n = seen[r].op /\ n = seen'[r].op
        BY <2>8
      <4>. QED
        BY <1>6, <2>2, <2>8, <4>1
    <3>4. RequestSound(r)'
      BY <3>1, <3>2, <3>3 DEF RequestSound, MayBuy, CallReserved, FollowsEntry, NotesSold, Uncalled
    <3>. QED
      BY <1>3, <2>3, <2>6, <3>4
  <2>. QED
    BY <1>11, <2>7, <2>8 DEF Mark
<1>12. ASSUME Err(r) PROVE DomainSound(d)' /\ RequestSound(r)'
  <2>1. pc[r] = "erring" /\ End(r)
    BY <1>12 DEF Err
  <2>2. pc'[r] = "idle"
    BY <1>5, <2>1 DEF End, Go, RequestsTyped
  <2>3. RequestSound(r)'
    BY <1>4, <2>2, EndedSound DEF Own
  <2>4. entry[d].status \in Unsettled /\ cost[r] = entry[d].cost
    BY <1>2, <2>1 DEF RequestSound, FollowsEntry
  <2> DEFINE e == [registrar |-> "aws-route53", status |-> "needs_reconciliation", op |-> 0, cost |-> cost[r]]
  <2>5. entry'[d] = e \/ entry'[d] = entry[d]
    BY <1>5, <1>12 DEF Err, Replace, Written, WriteFails, LedgerTyped
  <2>6. ASSUME entry'[d] = e PROVE DomainSound(d)'
    <3>1. /\ e.registrar = "aws-route53" /\ e.op = 0 /\ e.cost = entry[d].cost
          /\ e.status = "needs_reconciliation"
      BY <2>4
    <3> HIDE DEF e
    <3>2. ASSUME NEW k \in 1..Len(ops), Open(k, d)
          PROVE  Taken(d) \/ (Counts(e.status) /\ e.cost = ops[k].cost)
      <4>1. Taken(d) \/ entry[d].cost = ops[k].cost
        BY <1>2, <2>4, <3>2 DEF DomainSound, LiveCounted, Zeroed, Unsettled
      <4>. QED
        BY <3>1, <4>1 DEF Counts
    <3>. QED
      BY <1>1, <1>2, <2>6, <3>1, <3>2, EntryWritten
  <2>. QED
    BY <1>3, <2>3, <2>5, <2>6
<1>. QED
  BY <1>7, <1>8, <1>9, <1>10, <1>11, <1>12

\* The call to the provider: the operation it accepts is the domain's only live one, and
\* what was reserved is what it costs.
LEMMA CallSound ==
  ASSUME TypeOK, PurchaseInv, NEW r \in Requests, Call(r),
         NEW d \in Domains, d = domain[r], d \notin raced
  PROVE  DomainSound(d)' /\ RequestSound(r)'
<1>1. DomainSound(d) /\ RequestSound(r) /\ pc[r] = "calling"
  BY DEF PurchaseInv, Call
<1>2. ~ Live(d) /\ seen[r].op = 0 /\ entry[d] = Reservation(cost[r])
  BY <1>1 DEF RequestSound, MayBuy, CallReserved, Uncalled
<1>3. RequestsTyped /\ ProviderTyped
  BY TypeParts
<1>4. pc'[r] = "marking" /\ UNCHANGED <<entry, bought, domain, cost>>
  BY <1>3 DEF Call, Go, RequestsTyped
<1>5. \A k \in 1..Len(ops) : Open(k, d) => Taken(d)
  <2>1. ASSUME NEW k \in 1..Len(ops), Open(k, d), ~ Taken(d) PROVE FALSE
    <3>1. ops[k] \in Operations
      BY <1>3, ElementOfSeq DEF ProviderTyped
    <3>. QED
      BY <1>2, <2>1, <3>1 DEF Live, Has, Open, Operations
  <2>. QED
    BY <2>1
<1>6. CASE UNCHANGED <<ops, seen>> /\ answer'[r] \in {"unavailable", "error"}
  <2>1. DomainSame(d)
    BY <1>4, <1>6 DEF DomainSame, OpsOf
  <2>2. DomainSound(d)' /\ ~ Live(d)'
    BY <1>1, <1>2, <2>1, DomainKept
  <2>3. \A k \in 1..Len(ops') : Open(k, d)' => Taken(d)'
    BY <1>4, <1>5, <1>6 DEF Open, Taken
  <2>4. RequestSound(r)'
    BY <1>2, <1>4, <1>6, <2>2, <2>3
       DEF RequestSound, MayBuy, CallReserved, FollowsEntry, NotesSold, Uncalled
  <2>. QED
    BY <2>2, <2>4
<1>7. CASE /\ ~ Taken(d)
           /\ ops' = Append(ops, [domain |-> d, cost |-> cost[r], state |-> "processing"])
           /\ \/ answer'[r] = "accepted" /\ seen'[r].op = Len(ops) + 1
              \/ answer'[r] = "error" /\ UNCHANGED seen
  <2> DEFINE new == [domain |-> d, cost |-> cost[r], state |-> "processing"]
  <2>1. /\ Len(ops) \in Nat /\ Len(ops') = Len(ops) + 1
        /\ \A k \in 1..Len(ops) : ops'[k] = ops[k]
        /\ ops'[Len(ops) + 1] = new
    BY <1>3, <1>7, AppendProperties, LenProperties DEF ProviderTyped
  <2>2. \A k \in 1..Len(ops') : (k \in 1..Len(ops) /\ ops'[k] = ops[k]) \/ (k = Len(ops) + 1 /\ ops'[k] = new)
    BY <2>1
  <2>3. new.domain = d /\ new.cost = cost[r] /\ new.state = "processing"
    OBVIOUS
  <2> HIDE DEF new
  <2>4. ~ Taken(d)'
    BY <1>4, <1>7 DEF Taken
  <2>5. \A k \in 1..Len(ops) : ops[k].domain = d => ops[k].state = "failed"
    BY <1>5, <1>7 DEF Open
  <2>6. EarlierFailed(d)'
    <3>1. ASSUME NEW j \in 1..Len(ops'), NEW k \in 1..Len(ops'), j < k,
                 ops'[j].domain = d, ops'[k].domain = d
          PROVE  ops'[j].state = "failed"
      <4>1. j \in 1..Len(ops)
        BY <2>1, <3>1
      <4>. QED
        BY <2>1, <2>5, <3>1, <4>1
    <3>. QED
      BY <3>1 DEF EarlierFailed
  <2>7. EntrySound(d)' /\ EntryLatest(d)'
    BY <1>2, <1>4 DEF EntrySound, EntryLatest, Reservation
  <2>8. \A k \in 1..Len(ops') : Open(k, d)' => ops'[k].cost = cost[r]
    BY <2>2, <2>3, <2>5 DEF Open
  <2>9. LiveCounted(d)'
    BY <1>2, <1>4, <2>8 DEF LiveCounted, Counted, Counts, Reservation
  <2>10. RequestSound(r)'
    <3>1. answer'[r] = "accepted" => Latest(seen[r].op, d)'
      <4>1. ASSUME answer'[r] = "accepted" PROVE Latest(seen[r].op, d)'
        <5>1. PICK n : n = Len(ops) + 1 /\ n = seen'[r].op
          BY <1>7, <4>1
        <5>2. Latest(n, d)'
          BY <2>1, <2>3, <5>1 DEF Latest
        <5>. QED
          BY <5>1, <5>2
      <4>. QED
        BY <4>1
    <3>2. answer'[r] # "accepted" => seen'[r].op = 0
      BY <1>2, <1>7
    <3>3. answer'[r] \in {"accepted", "error"}
      BY <1>7
    <3>4. entry'[d] = Reservation(cost'[r]) /\ domain'[r] = d /\ cost'[r] = cost[r]
      BY <1>2, <1>4
    <3>. QED
      BY <1>4, <2>8, <3>1, <3>2, <3>3, <3>4
         DEF RequestSound, MayBuy, CallReserved, FollowsEntry, NotesSold, Uncalled
  <2>. QED
    BY <2>6, <2>7, <2>9, <2>10 DEF DomainSound
<1>. QED
  <2>1. \/ /\ ~ Taken(d)
           /\ ops' = Append(ops, [domain |-> d, cost |-> cost[r], state |-> "processing"])
           /\ \/ answer' = [answer EXCEPT ![r] = "accepted"] /\ seen' = [seen EXCEPT ![r].op = Len(ops) + 1]
              \/ answer' = [answer EXCEPT ![r] = "error"] /\ UNCHANGED seen
        \/ /\ \/ answer' = [answer EXCEPT ![r] = "unavailable"]
              \/ answer' = [answer EXCEPT ![r] = "error"]
           /\ UNCHANGED <<ops, seen>>
    BY DEF Call
  <2>2. \A a : answer' = [answer EXCEPT ![r] = a] => answer'[r] = a
    BY <1>3 DEF RequestsTyped
  <2>3. seen' = [seen EXCEPT ![r].op = Len(ops) + 1] => seen'[r].op = Len(ops) + 1
    <3>1. seen[r] \in Entries /\ seen \in [Requests -> Entries]
      BY <1>3 DEF RequestsTyped
    <3>. QED
      BY <3>1 DEF Entries
  <2>. QED
    BY <1>6, <1>7, <2>1, <2>2, <2>3

\* Namecheap sells the domain: what Route53 has of it counts no more.
LEMMA BuySound ==
  ASSUME TypeOK, PurchaseInv, NEW r \in Requests, Buy(r),
         NEW d \in Domains, d = domain[r], d \notin raced
  PROVE  DomainSound(d)' /\ RequestSound(r)'
<1>1. DomainSound(d) /\ RequestSound(r)
  BY DEF PurchaseInv
<1>2. Own(r)
  BY OwnStep DEF PurchaseInv, Step
<1>3. RequestsTyped /\ ProviderTyped
  BY TypeParts
<1>4. UNCHANGED <<entry, ops>>
  BY DEF Buy
<1>5. CASE UNCHANGED bought /\ End(r)
  <2>1. pc'[r] = "idle"
    BY <1>3, <1>5 DEF End, Go, RequestsTyped
  <2>2. DomainSame(d)
    BY <1>4, <1>5 DEF DomainSame, OpsOf
  <2>. QED
    BY <1>1, <1>2, <2>1, <2>2, DomainKept, EndedSound DEF Own
<1>6. ASSUME NEW charged \in Prices, bought' = [bought EXCEPT ![d] = charged],
             \/ Go(r, "noting") /\ UNCHANGED <<domain, clear, seen, answer>>
             \/ End(r)
      PROVE  DomainSound(d)' /\ RequestSound(r)'
  <2>1. Taken(d)'
    BY <1>3, <1>6, PurchaseAssumption DEF PurchaseAssumption, ProviderTyped, Taken
  <2>2. DomainSound(d)'
    BY <1>1, <1>4, <2>1 DEF DomainSound, EntrySound, EarlierFailed, EntryLatest, Latest, LiveCounted
  <2>3. pc'[r] = "idle" \/ pc'[r] = "noting"
    BY <1>3, <1>6 DEF End, Go, RequestsTyped
  <2>4. CASE pc'[r] = "noting"
    <3>1. domain'[r] = d
      BY <1>2, <2>4 DEF Own
    <3>2. RequestSound(r)'
      BY <2>1, <2>4, <3>1 DEF RequestSound, MayBuy, CallReserved, FollowsEntry, NotesSold, Uncalled
    <3>. QED
      BY <2>2, <3>2
  <2>. QED
    BY <1>2, <2>2, <2>3, <2>4, EndedSound DEF Own
<1>. QED
  BY <1>5, <1>6 DEF Buy

\* The provider completes an operation of a domain: its requests and its entry stay sound.
LEMMA CompleteSound ==
  ASSUME TypeOK, PurchaseInv, NEW n \in 1..Len(ops), NEW state \in {"successful", "failed"},
         Complete(n, state)
  PROVE  /\ \A d \in Domains : d \notin raced => DomainSound(d)'
         /\ \A r \in Requests : domain[r] \notin raced => RequestSound(r)'
<1>1. UNCHANGED <<entry, bought, pc, domain, cost, seen, answer>>
  BY DEF Complete
<1>2. ProviderTyped /\ RequestsTyped
  BY TypeParts
<1>3. ops[n].state = "processing" /\ ops' = [ops EXCEPT ![n] = [ops[n] EXCEPT !.state = state]]
  BY DEF Complete
<1>4. ops[n] \in Operations
  BY <1>2, ElementOfSeq DEF ProviderTyped
<1>5. /\ Len(ops') = Len(ops)
      /\ \A k \in 1..Len(ops) : ops'[k] = IF k = n THEN [ops[n] EXCEPT !.state = state] ELSE ops[k]
  BY <1>2, <1>3, ExceptSeq DEF ProviderTyped
<1>6. \A k \in 1..Len(ops) :
        /\ ops'[k].domain = ops[k].domain /\ ops'[k].cost = ops[k].cost
        /\ ops[k].state # "processing" => ops'[k].state = ops[k].state
        /\ ops'[k].state # "failed" => ops[k].state # "failed"
        /\ ops'[k].state \in {"processing", "successful"} => ops[k].state \in {"processing", "successful"}
  BY <1>3, <1>4, <1>5 DEF Operations
<1>7. \A m, d : Latest(m, d) => Latest(m, d)'
  BY <1>5, <1>6 DEF Latest
<1>8. \A d : \A k \in 1..Len(ops') : Open(k, d)' => k \in 1..Len(ops) /\ Open(k, d) /\ ops'[k].cost = ops[k].cost
  BY <1>5, <1>6 DEF Open
<1>9. \A d : Taken(d)' <=> Taken(d)
  BY <1>1 DEF Taken
<1>10. \A d : Live(d)' => Live(d)
  BY <1>5, <1>6, <1>9 DEF Live, Has
<1>11. ASSUME NEW d \in Domains, d \notin raced PROVE DomainSound(d)'
  <2>1. DomainSound(d)
    BY <1>11 DEF PurchaseInv
  <2>2. EntrySound(d)' /\ EntryLatest(d)'
    BY <1>1, <1>7, <1>9, <2>1 DEF DomainSound, EntrySound, EntryLatest
  <2>3. EarlierFailed(d)'
    BY <1>5, <1>6, <2>1 DEF DomainSound, EarlierFailed
  <2>4. LiveCounted(d)'
    BY <1>1, <1>8, <1>9, <2>1 DEF DomainSound, LiveCounted, Counted, Zeroed
  <2>. QED
    BY <2>2, <2>3, <2>4 DEF DomainSound
<1>12. ASSUME NEW r \in Requests, domain[r] \notin raced PROVE RequestSound(r)'
  <2>1. RequestSound(r)
    BY <1>12 DEF PurchaseInv
  <2>2. PICK d : d = domain[r] /\ d = domain'[r]
    BY <1>1
  <2>3. MayBuy(r)' /\ NotesSold(r)'
    BY <1>1, <1>9, <1>10, <2>1, <2>2 DEF RequestSound, MayBuy, NotesSold
  <2>4. CallReserved(r)'
    BY <1>1, <1>7, <1>8, <1>9, <1>10, <2>1, <2>2 DEF RequestSound, CallReserved
  <2>5. FollowsEntry(r)'
    <3>1. pc[r] = "settling" => ops'[seen[r].op].state = ops[seen[r].op].state
      BY <1>6, <2>1 DEF RequestSound, FollowsEntry, Latest
    <3>. QED
      BY <1>1, <1>7, <2>1, <2>2, <3>1 DEF RequestSound, FollowsEntry
  <2>. QED
    BY <2>3, <2>4, <2>5 DEF RequestSound
<1>. QED
  BY <1>11, <1>12

-----------------------------------------------------------------------------
(* The inductive invariant.                                                *)

\* A domain that was raced for stays marked.
LEMMA RacedGrows == [Next]_vars => raced \subseteq raced'
BY DEF Next, Start, Order, Step, CheckOwned, MarkOwned, Look, Ask, Settle, Lock, ReadSpend, Reserve, Call,
       Mark, Err, Poll, List, Sum, Buy, Note, Complete, Crash, Race, vars

\* A request that begins to buy finds none engaged in its domain, or they raced; and none
\* becomes engaged beside it, as the entry it reads is not one to be asked about.
LEMMA BuyersStep == Readable /\ TypeOK /\ PurchaseInv /\ [Next]_vars => BuyersAlone'
<1> SUFFICES ASSUME Readable, TypeOK, PurchaseInv, [Next]_vars,
                    NEW q \in Requests, NEW x \in Requests, q # x, domain'[q] = domain'[x],
                    pc'[x] \in Buying, domain'[x] \notin raced', Engaged(q)'
             PROVE  FALSE
  BY DEF BuyersAlone
<1>1. BuyersAlone /\ RequestsTyped /\ Placed /\ raced \subseteq raced'
  BY TypeParts, RacedGrows DEF PurchaseInv
<1>2. pc'[q] # "idle" /\ pc'[x] # "idle"
  BY DEF Engaged, Buying
<1>3. ASSUME NEW r \in Requests, Step(r) PROVE FALSE
  <2>1. Own(r)
    BY <1>1, <1>3, OwnStep
  <2>2. /\ domain'[q] = domain[q] /\ domain'[x] = domain[x]
        /\ q # r => pc'[q] = pc[q]
        /\ x # r => pc'[x] = pc[x]
    BY <1>2, <2>1 DEF Own, RequestSame
  <2>3. PICK d : d = domain[q] /\ d = domain[x] /\ d \notin raced' /\ d \notin raced
    BY <1>1, <2>2
  <2>4. ASSUME Look(r), r \in {q, x} PROVE pc'[r] \in {"asking", "locking"}
    BY <1>1, <1>2, <2>4 DEF Look, End, Go, RequestsTyped
  <2>5. ASSUME Look(r), pc'[r] = "locking" PROVE Race(r)
    BY <1>1, <2>5 DEF Look, End, Go, RequestsTyped
  <2>6. CASE x = r
    <3>1. Engaged(q)
      BY <2>2, <2>6 DEF Engaged
    <3>2. pc[r] \in Buying \/ (Look(r) /\ pc'[r] = "locking")
      BY <1>1, <1>3, <2>6 DEF Step, CheckOwned, MarkOwned, Look, Ask, Settle, Lock, ReadSpend, Reserve, Call,
         Mark, Err, Poll, List, Sum, Buy, Note, End, Go, RequestsTyped, Buying
    <3>3. CASE pc[r] \in Buying
      BY <1>1, <2>3, <2>6, <3>1, <3>3 DEF BuyersAlone
    <3>4. CASE Look(r) /\ pc'[r] = "locking"
      BY <2>3, <2>5, <2>6, <3>1, <3>4 DEF Race
    <3>. QED
      BY <3>2, <3>3, <3>4
  <2>7. CASE q = r
    <3>1. pc[x] \in Buying
      BY <2>2, <2>7
    <3>2. Engaged(r) \/ Look(r)
      BY <1>1, <1>3, <2>7 DEF Step, CheckOwned, MarkOwned, Ask, Settle, Lock, ReadSpend, Reserve, Call,
         Mark, Err, Poll, List, Sum, Buy, Note, End, Go, RequestsTyped, Engaged
    <3>3. CASE Engaged(r)
      BY <1>1, <2>3, <2>7, <3>1, <3>3 DEF BuyersAlone
    <3>4. CASE Look(r) /\ pc'[r] = "locking"
      <4>1. Engaged(x)
        BY <3>1 DEF Engaged, Buying
      <4>. QED
        BY <2>3, <2>5, <2>7, <3>4, <4>1 DEF Race
    <3>5. CASE Look(r) /\ pc'[r] = "asking"
      <4>1. PICK e \in EntryRead(d) : e.status \in Unsettled /\ e.op # 0
        BY <1>1, <2>3, <2>7, <3>5 DEF Look, End, Go, RequestsTyped
      <4>2. e = entry[d] /\ entry[d].registrar # "namecheap"
        BY <4>1 DEF EntryRead, Readable, NoEntry, Unsettled
      <4>3. RequestSound(x)
        BY <2>3 DEF PurchaseInv
      <4>4. pc[x] \in {"calling", "marking"}
        BY <2>3, <3>1, <4>1, <4>2, <4>3 DEF RequestSound, MayBuy, Buying
      <4>5. entry[d] = Reservation(cost[x])
        BY <2>3, <4>3, <4>4 DEF RequestSound, CallReserved
      <4>. QED
        BY <4>1, <4>2, <4>5 DEF Reservation
    <3>. QED
      BY <2>4, <2>7, <3>2, <3>3, <3>4, <3>5
  <2>8. CASE x # r /\ q # r
    <3>1. pc[x] \in Buying /\ Engaged(q)
      BY <2>2, <2>8 DEF Engaged
    <3>. QED
      BY <1>1, <2>3, <3>1 DEF BuyersAlone
  <2>. QED
    BY <2>6, <2>7, <2>8
<1>4. ASSUME NEW r \in Requests, NEW d \in Domains, NEW c \in Prices, NEW approved \in BOOLEAN,
             Start(r, d, c, approved) \/ Order(r, d, c)
      PROVE  FALSE
  <2>1. pc'[r] \in {"owning", "looking", "listing"}
    BY <1>1, <1>4 DEF Start, Order, Go, RequestsTyped
  <2>2. q # r /\ x # r
    BY <2>1 DEF Engaged, Buying
  <2>3. pc'[q] = pc[q] /\ domain'[q] = domain[q] /\ pc'[x] = pc[x] /\ domain'[x] = domain[x]
    BY <1>1, <1>4, <2>2 DEF Start, Order, Arrive, Go, RequestsTyped
  <2>. QED
    BY <1>1, <2>3 DEF BuyersAlone, Engaged
<1>5. CASE Crash
  BY <1>2, <1>5 DEF Crash
<1>6. ASSUME UNCHANGED <<pc, domain>> PROVE FALSE
  BY <1>1, <1>6 DEF BuyersAlone, Engaged
<1>. QED
  BY <1>3, <1>4, <1>5, <1>6 DEF Next, Complete, vars

\* Beside a step of a request, another request for its domain stays sound, unless they raced.
LEMMA CompanionSound ==
  ASSUME Readable, TypeOK, PurchaseInv, NEW r \in Requests, Step(r), NEW q \in Requests, q # r,
         NEW d \in Domains, d = domain[r], d = domain[q], d \notin raced'
  PROVE  RequestSound(q)'
<1>1. d \notin raced /\ RequestsTyped /\ ProviderTyped /\ LedgerTyped
  BY TypeParts, RacedGrows DEF Next
<1>2. RequestSound(q) /\ RequestSound(r) /\ BuyersAlone
  BY <1>1 DEF PurchaseInv
<1>3. RequestSame(q) /\ domain'[q] = d
  BY OwnStep DEF PurchaseInv, Own, RequestSame
<1>4. Taken(d) => Taken(d)'
  <2>1. bought'[d] = bought[d] \/ bought'[d] \in Prices
    BY <1>1 DEF Step, CheckOwned, MarkOwned, Look, Ask, Settle, Lock, ReadSpend, Reserve, Call, Mark, Err, Poll,
       List, Sum, Buy, Note, purchases, ProviderTyped
  <2>. QED
    BY <2>1, PurchaseAssumption DEF PurchaseAssumption, Taken
<1>5. CASE ~ Engaged(q)
  BY <1>2, <1>3, <1>4, <1>5
     DEF Engaged, RequestSame, RequestSound, MayBuy, CallReserved, FollowsEntry, NotesSold
<1>6. CASE Engaged(q)
  <2>1. pc[r] \notin Buying
    BY <1>1, <1>2, <1>6 DEF BuyersAlone
  <2>2. ~ (MarkOwned(r) \/ Settle(r) \/ Note(r))
    <3>1. ~ Race(r)
      BY <1>6 DEF Race
    <3>. QED
      BY <3>1 DEF MarkOwned, Settle, Note
  <2>3. ~ (Lock(r) \/ ReadSpend(r) \/ Reserve(r) \/ Call(r) \/ Mark(r))
    BY <2>1 DEF Lock, ReadSpend, Reserve, Call, Mark, Buying
  <2>4. CASE CheckOwned(r) \/ Look(r) \/ Ask(r) \/ Poll(r) \/ List(r) \/ Sum(r)
    <3>1. DomainSame(d)
      BY <2>4 DEF CheckOwned, Look, Ask, Poll, List, Sum, purchases, DomainSame, OpsOf
    <3>. QED
      BY <1>2, <1>3, <3>1, RequestKept
  <2>5. CASE Err(r)
    <3>1. UNCHANGED <<ops, bought>> /\ pc[r] = "erring"
      BY <2>5 DEF Err, purchases
    <3>2. pc[q] \notin Buying
      BY <1>1, <1>2, <3>1 DEF BuyersAlone, Engaged
    <3>3. /\ entry[d].registrar = "aws-route53" /\ entry[d].status \in Unsettled
          /\ cost[r] = entry[d].cost
      BY <1>2, <3>1 DEF RequestSound, FollowsEntry
    <3>4. /\ entry'[d].registrar = "aws-route53" /\ entry'[d].status \in Unsettled
          /\ entry'[d].cost = entry[d].cost
      BY <1>1, <2>5, <3>3 DEF Err, Replace, Written, WriteFails, LedgerTyped, Unsettled
    <3>5. MayBuy(q)' /\ CallReserved(q)' /\ NotesSold(q)'
      BY <1>2, <1>3, <1>4, <3>2 DEF RequestSame, RequestSound, MayBuy, CallReserved, NotesSold, Buying
    <3>6. \A n : Latest(n, d) => Latest(n, d)'
      BY <3>1 DEF Latest
    <3>7. FollowsEntry(q)'
      BY <1>2, <1>3, <3>1, <3>2, <3>3, <3>4, <3>6 DEF RequestSame, RequestSound, FollowsEntry, Buying
    <3>. QED
      BY <3>5, <3>7 DEF RequestSound
  <2>6. CASE Buy(r)
    <3>1. UNCHANGED <<entry, ops>>
      BY <2>6 DEF Buy
    <3>2. Live(d)' => Live(d)
      BY <1>4, <3>1 DEF Live, Has
    <3>3. \A n : Latest(n, d) => Latest(n, d)'
      BY <3>1 DEF Latest
    <3>4. MayBuy(q)' /\ NotesSold(q)'
      BY <1>2, <1>3, <1>4, <3>1, <3>2 DEF RequestSame, RequestSound, MayBuy, NotesSold
    <3>5. CallReserved(q)'
      BY <1>2, <1>3, <1>4, <3>1, <3>2, <3>3 DEF RequestSame, RequestSound, CallReserved, Open
    <3>6. FollowsEntry(q)'
      BY <1>2, <1>3, <3>1, <3>3 DEF RequestSame, RequestSound, FollowsEntry
    <3>. QED
      BY <3>4, <3>5, <3>6 DEF RequestSound
  <2>. QED
    BY <2>2, <2>3, <2>4, <2>5, <2>6 DEF Step
<1>. QED
  BY <1>5, <1>6

\* One request at a time holds the lock from the reading of the spend to the reservation.
LEMMA LockStep == TypeOK /\ PurchaseInv /\ [Next]_vars => LockHeld'
<1> SUFFICES ASSUME TypeOK, PurchaseInv, [Next]_vars PROVE LockHeld'
  OBVIOUS
<1>1. LockHeld /\ Placed /\ RequestsTyped
  BY TypeParts DEF PurchaseInv
<1>2. {Free, Leaked} \cap Requests = {}
  BY PurchaseAssumption DEF PurchaseAssumption
<1>3. ASSUME NEW r \in Requests, UNCHANGED lock,
             \A q \in Requests : q # r => pc'[q] = pc[q],
             pc'[r] \in {"spending", "reserving"} => pc[r] \in {"spending", "reserving"}
      PROVE  LockHeld'
  BY <1>1, <1>3 DEF LockHeld
<1>4. ASSUME NEW r \in Requests, Step(r) PROVE LockHeld'
  <2>1. Own(r)
    BY <1>1, <1>4, OwnStep
  <2>2. \A q \in Requests : q # r => pc'[q] = pc[q]
    BY <2>1 DEF Own, RequestSame
  <2>3. ASSUME CheckOwned(r) \/ MarkOwned(r) \/ Look(r) \/ Ask(r) \/ Settle(r) \/ Call(r) \/ Mark(r)
               \/ Err(r) \/ Poll(r) \/ List(r) \/ Sum(r) \/ Buy(r) \/ Note(r)
        PROVE  UNCHANGED lock /\ pc'[r] \notin {"spending", "reserving"}
    BY <1>1, <2>3 DEF CheckOwned, MarkOwned, Look, Ask, Settle, Call, Mark, Err, Poll, List, Sum, Buy, Note,
       End, Go, RequestsTyped
  <2>4. CASE Lock(r)
    <3>1. \/ lock = Free /\ lock' = r
          \/ UNCHANGED lock /\ pc'[r] = "idle"
      BY <1>1, <2>4 DEF Lock, End, Go, RequestsTyped
    <3>. QED
      BY <1>1, <1>2, <1>3, <2>2, <3>1 DEF LockHeld
  <2>5. CASE ReadSpend(r)
    <3>1. pc[r] = "spending"
      BY <2>5 DEF ReadSpend
    <3>2. UNCHANGED lock \/ pc'[r] = "idle"
      BY <1>1, <2>5 DEF ReadSpend, End, Go, RequestsTyped
    <3>. QED
      BY <1>1, <2>2, <3>1, <3>2 DEF LockHeld
  <2>6. CASE Reserve(r)
    <3>1. pc[r] = "reserving" /\ pc'[r] \in {"calling", "idle"}
      BY <1>1, <2>6 DEF Reserve, End, Go, RequestsTyped
    <3>. QED
      BY <1>1, <2>2, <3>1 DEF LockHeld
  <2>. QED
    BY <1>3, <1>4, <2>2, <2>3, <2>4, <2>5, <2>6 DEF Step
<1>5. ASSUME NEW r \in Requests, NEW d \in Domains, NEW c \in Prices, NEW approved \in BOOLEAN,
             Start(r, d, c, approved) \/ Order(r, d, c)
      PROVE  LockHeld'
  BY <1>1, <1>3, <1>5 DEF Start, Order, Go, RequestsTyped
<1>6. CASE Crash
  BY <1>6 DEF Crash, LockHeld
<1>7. ASSUME UNCHANGED <<lock, pc>> PROVE LockHeld'
  BY <1>1, <1>7 DEF LockHeld
<1>. QED
  BY <1>4, <1>5, <1>6, <1>7 DEF Next, Complete, vars

\* The provider is called at most once for each request served.
LEMMA CallsStep == TypeOK /\ ProgressInv /\ [Next]_vars => CallsCounted'
<1> SUFFICES ASSUME TypeOK, ProgressInv, [Next]_vars PROVE CallsCounted'
  OBVIOUS
<1> DEFINE U == {r \in Requests : pc[r] \in Uncalled}
<1>1. RequestsTyped /\ ProviderTyped /\ LedgerTyped /\ Placed
  BY TypeParts DEF ProgressInv
<1>2. /\ IsFiniteSet(U) /\ Cardinality(U) \in Nat
      /\ Len(ops) \in Nat /\ served \in Nat /\ Len(ops) + Cardinality(U) <= served
  <2>1. IsFiniteSet(U)
    BY FS_Subset, PurchaseAssumption DEF PurchaseAssumption
  <2>2. Cardinality(U) \in Nat
    BY <2>1, FS_CardinalityType
  <2>. QED
    BY <1>1, <2>1, <2>2, LenProperties DEF ProgressInv, CallsCounted, ProviderTyped, LedgerTyped
<1>3. ASSUME U' \subseteq U, Len(ops') = Len(ops), served' >= served, served' \in Nat PROVE CallsCounted'
  <2>1. Cardinality(U') \in Nat /\ Cardinality(U') <= Cardinality(U)
    <3> HIDE DEF U
    <3>. QED
      BY <1>2, <1>3, FS_Subset, FS_CardinalityType
  <2>2. Len(ops') + Cardinality(U') <= served'
    <3> HIDE DEF U
    <3>. QED
      BY <1>2, <1>3, <2>1
  <2>. QED
    BY <2>2 DEF CallsCounted
<1>4. ASSUME NEW r \in Requests, Call(r) PROVE CallsCounted'
  <2>1. r \in U
    BY <1>4 DEF Call, Uncalled
  <2>2. U' = U \ {r}
    BY <1>1, <1>4 DEF Call, Go, RequestsTyped, Uncalled
  <2>3. Len(ops') <= Len(ops) + 1 /\ Len(ops') \in Nat /\ served' = served
    <3>1. UNCHANGED ops \/ \E c : ops' = Append(ops, [domain |-> domain[r], cost |-> c, state |-> "processing"])
      BY <1>4 DEF Call
    <3>. QED
      BY <1>1, <1>2, <1>4, <3>1, AppendProperties DEF Call, ProviderTyped
  <2>4. Cardinality(U') = Cardinality(U) - 1
    <3> HIDE DEF U
    <3>. QED
      BY <1>2, <2>1, <2>2, FS_RemoveElement
  <2>5. Len(ops') + Cardinality(U') <= served'
    <3> HIDE DEF U
    <3>. QED
      BY <1>2, <2>3, <2>4
  <2>. QED
    BY <2>5 DEF CallsCounted
<1>5. ASSUME NEW r \in Requests, Step(r), ~ Call(r) PROVE CallsCounted'
  <2>1. Own(r)
    BY <1>1, <1>5, OwnStep
  <2>2. pc'[r] \in Uncalled => pc[r] \in Uncalled
    BY <1>1, <1>5 DEF Step, CheckOwned, MarkOwned, Look, Ask, Settle, Lock, ReadSpend, Reserve, Mark, Err,
       Poll, List, Sum, Buy, Note, End, Go, RequestsTyped, Uncalled
  <2>3. UNCHANGED <<ops, served>>
    BY <1>5 DEF Step, CheckOwned, MarkOwned, Look, Ask, Settle, Lock, ReadSpend, Reserve, Mark, Err,
       Poll, List, Sum, Buy, Note, purchases
  <2>4. U' \subseteq U
    BY <2>1, <2>2 DEF Own, RequestSame
  <2>. QED
    BY <1>2, <1>3, <2>3, <2>4
<1>6. ASSUME NEW r \in Requests, NEW d \in Domains, NEW c \in Prices, NEW approved \in BOOLEAN,
             Start(r, d, c, approved) \/ Order(r, d, c)
      PROVE  CallsCounted'
  <2>1. served' = served + 1 /\ UNCHANGED ops
    BY <1>6 DEF Start, Order, Arrive, purchases
  <2>2. U' \subseteq U \cup {r}
    BY <1>1, <1>6 DEF Start, Order, Go, RequestsTyped
  <2>3. Cardinality(U') \in Nat /\ Cardinality(U') <= Cardinality(U) + 1
    <3> HIDE DEF U
    <3>1. IsFiniteSet(U \cup {r}) /\ Cardinality(U \cup {r}) <= Cardinality(U) + 1
      <4>1. r \in U => U \cup {r} = U
        OBVIOUS
      <4>2. /\ IsFiniteSet(U \cup {r})
            /\ Cardinality(U \cup {r}) = Cardinality(U) \/ Cardinality(U \cup {r}) = Cardinality(U) + 1
        BY <1>2, <4>1, FS_AddElement
      <4>. QED
        BY <1>2, <4>2
    <3>2. IsFiniteSet(U') /\ Cardinality(U') <= Cardinality(U \cup {r})
      BY <2>2, <3>1, FS_Subset
    <3>3. Cardinality(U') \in Nat /\ Cardinality(U \cup {r}) \in Nat
      BY <3>1, <3>2, FS_CardinalityType
    <3>. QED
      BY <1>2, <3>1, <3>2, <3>3
  <2>4. Len(ops') + Cardinality(U') <= served'
    <3> HIDE DEF U
    <3>. QED
      BY <1>2, <2>1, <2>3
  <2>. QED
    BY <2>4 DEF CallsCounted
<1>7. ASSUME NEW k \in 1..Len(ops), NEW state \in {"successful", "failed"}, Complete(k, state)
      PROVE  CallsCounted'
  <2>1. UNCHANGED <<pc, served>> /\ ops' = [ops EXCEPT ![k] = [ops[k] EXCEPT !.state = state]]
    BY <1>7 DEF Complete
  <2>2. Len(ops') = Len(ops)
    BY <1>1, <2>1, ExceptSeq DEF ProviderTyped
  <2>. QED
    BY <1>2, <1>3, <2>1, <2>2
<1>8. CASE Crash
  <2>1. U' = {} /\ UNCHANGED <<ops, served>>
    BY <1>8 DEF Crash, Uncalled, purchases
  <2>. QED
    BY <1>2, <1>3, <2>1
<1>9. CASE UNCHANGED vars
  BY <1>9, <1>2, <1>3 DEF vars
<1>. QED
  BY <1>4, <1>5, <1>6, <1>7, <1>8, <1>9 DEF Next

\* A request keeps its domain and its price until it ends.
LEMMA PlacedStep == TypeOK /\ Placed /\ [Next]_vars => Placed'
<1> SUFFICES ASSUME TypeOK, Placed, [Next]_vars PROVE Placed'
  OBVIOUS
<1>1. RequestsTyped
  BY TypeParts
<1>2. NoDomain \notin Domains
  BY PurchaseAssumption DEF PurchaseAssumption
<1>3. ASSUME NEW r \in Requests, NEW d \in Domains, NEW c \in Prices, Arrive(r, d, c),
             NEW where \in Positions \ {"idle"}, Go(r, where)
      PROVE  Placed'
  <2>1. pc'[r] # "idle" /\ domain'[r] = d /\ cost'[r] = c
    BY <1>1, <1>3 DEF Arrive, Go, RequestsTyped
  <2>2. \A q \in Requests : q # r => pc'[q] = pc[q] /\ domain'[q] = domain[q] /\ cost'[q] = cost[q]
    BY <1>1, <1>3 DEF Arrive, Go, RequestsTyped
  <2>. QED
    BY <1>1, <1>2, <2>1, <2>2 DEF Placed
<1>4. ASSUME NEW r \in Requests, NEW d \in Domains, NEW c \in Prices, NEW approved \in BOOLEAN,
             Start(r, d, c, approved)
      PROVE  Placed'
  BY <1>3, <1>4 DEF Start, Positions
<1>5. ASSUME NEW r \in Requests, NEW d \in Domains, NEW c \in Prices, Order(r, d, c) PROVE Placed'
  BY <1>3, <1>5 DEF Order, Positions
<1>6. ASSUME NEW r \in Requests, Step(r) PROVE Placed'
  <2>1. Own(r)
    BY <1>6, OwnStep
  <2>. QED
    BY <2>1 DEF Own, RequestSame, Placed
<1>7. ASSUME UNCHANGED <<pc, domain, cost>> PROVE Placed'
  BY <1>7 DEF Placed
<1>8. CASE Crash
  BY <1>8 DEF Crash, Placed
<1>. QED
  BY <1>4, <1>5, <1>6, <1>7, <1>8 DEF Next, Complete, vars

\* An operation that is written down or asked for is one the provider answered with.
LEMMA KnownStep == TypeOK /\ ProgressInv /\ [Next]_vars => OpsKnown'
<1> SUFFICES ASSUME TypeOK, ProgressInv, [Next]_vars PROVE OpsKnown'
  OBVIOUS
<1> DEFINE EntryKnown(d) == entry[d].op \in 0..Len(ops)
           RequestKnown(r) ==
             /\ seen[r].op \in 0..Len(ops)
             /\ pc[r] \in {"asking", "polling", "polled"} => seen[r].op # 0
             /\ pc[r] = "marking" =>
                  answer[r] \in {"unavailable", "error"} \/ (answer[r] = "accepted" /\ seen[r].op # 0)
<1>1. RequestsTyped /\ ProviderTyped /\ LedgerTyped /\ Placed /\ Len(ops) \in Nat
  BY TypeParts, LenProperties DEF ProgressInv, ProviderTyped
<1>2. (\A d \in Domains : EntryKnown(d)) /\ (\A r \in Requests : RequestKnown(r))
  BY DEF ProgressInv, OpsKnown
<1>3. \A r \in Requests : pc[r] # "idle" => domain[r] \in Domains
  BY <1>1 DEF Placed, RequestsTyped
<1>4. ASSUME Len(ops') \in Nat, Len(ops') >= Len(ops),
             \A d \in Domains : entry'[d] = entry[d] \/ entry'[d].op \in 0..Len(ops),
             \A r \in Requests : RequestSame(r) \/ RequestKnown(r)'
      PROVE  OpsKnown'
  <2>1. \A d \in Domains : entry'[d].op \in 0..Len(ops')
    BY <1>1, <1>2, <1>4
  <2>2. ASSUME NEW r \in Requests, RequestSame(r) PROVE RequestKnown(r)'
    BY <1>1, <1>2, <1>4, <2>2 DEF RequestSame
  <2>. QED
    BY <1>4, <2>1, <2>2 DEF OpsKnown
<1>5. ASSUME NEW r \in Requests, Step(r) PROVE OpsKnown'
  <2>1. Own(r) /\ domain[r] \in Domains
    BY <1>1, <1>3, <1>5, OwnStep DEF Own
  <2>2. UNCHANGED ops \/ \E c : ops' = Append(ops, [domain |-> domain[r], cost |-> c, state |-> "processing"])
    BY <1>5 DEF Step, CheckOwned, MarkOwned, Look, Ask, Settle, Lock, ReadSpend, Reserve, Call, Mark, Err,
       Poll, List, Sum, Buy, Note, purchases
  <2>3. Len(ops') \in Nat /\ Len(ops') >= Len(ops)
    <3>1. ASSUME NEW c, ops' = Append(ops, [domain |-> domain[r], cost |-> c, state |-> "processing"])
          PROVE  Len(ops') = Len(ops) + 1
      BY <1>1, <3>1, LenProperties DEF ProviderTyped
    <3>2. UNCHANGED ops => Len(ops') = Len(ops)
      OBVIOUS
    <3>3. Len(ops') = Len(ops) \/ Len(ops') = Len(ops) + 1
      BY <2>2, <3>1, <3>2
    <3>. QED
      BY <1>1, <3>3
  <2>4. ASSUME NEW d \in Domains PROVE entry'[d] = entry[d] \/ entry'[d].op \in 0..Len(ops)
    <3>1. \/ UNCHANGED entry
          \/ \E registrar, status, op, c : Written(registrar, domain[r], status, op, c) /\ op \in 0..Len(ops)
      BY <1>1, <1>2, <1>5 DEF Step, CheckOwned, MarkOwned, Look, Ask, Settle, Lock, ReadSpend, Reserve, Call,
         Mark, Err, Poll, List, Sum, Buy, Note, Replace, WriteFails
    <3>2. ASSUME NEW registrar, NEW status, NEW op \in 0..Len(ops), NEW c,
                 Written(registrar, domain[r], status, op, c)
          PROVE  entry'[d] = entry[d] \/ entry'[d].op \in 0..Len(ops)
      <4>1. entry'[d] = entry[d] \/ entry'[d].op = op
        BY <1>1, <2>1, <3>2 DEF Written, LedgerTyped
      <4>. QED
        BY <4>1
    <3>. QED
      BY <3>1, <3>2
  <2>5. ASSUME End(r) PROVE RequestKnown(r)'
    BY <1>1, <2>3, <2>5 DEF End, Go, RequestsTyped, NoEntry
  <2>6. ASSUME pc'[r] \notin {"asking", "polling", "polled", "marking"}, UNCHANGED seen PROVE RequestKnown(r)'
    BY <1>1, <1>2, <2>3, <2>6
  <2>7. ASSUME CheckOwned(r) \/ MarkOwned(r) \/ Settle(r) \/ Lock(r) \/ ReadSpend(r) \/ Reserve(r)
               \/ Err(r) \/ List(r) \/ Sum(r) \/ Buy(r) \/ Note(r)
        PROVE  RequestKnown(r)'
    <3>1. \/ End(r)
          \/ pc'[r] \notin {"asking", "polling", "polled", "marking"} /\ UNCHANGED seen
      BY <1>1, <2>7 DEF CheckOwned, MarkOwned, Settle, Lock, ReadSpend, Reserve, Err, List, Sum, Buy, Note,
         Go, RequestsTyped
    <3>. QED
      BY <2>5, <2>6, <3>1
  <2>8. ASSUME Look(r) PROVE RequestKnown(r)'
    <3>1. ASSUME NEW e \in EntryRead(domain[r]), e.op # 0, Go(r, "asking"), seen' = [seen EXCEPT ![r] = e]
          PROVE  RequestKnown(r)'
      <4>1. e = entry[domain[r]] \/ e = NoEntry
        BY <3>1 DEF EntryRead
      <4>2. e.op \in 0..Len(ops)
        BY <1>1, <1>2, <2>1, <4>1 DEF NoEntry
      <4>3. seen'[r] = e /\ pc'[r] = "asking"
        BY <1>1, <3>1 DEF Go, RequestsTyped
      <4>. QED
        BY <1>1, <2>3, <3>1, <4>2, <4>3
    <3>2. ASSUME Go(r, "locking"), UNCHANGED seen PROVE RequestKnown(r)'
      BY <1>1, <2>6, <3>2 DEF Go, RequestsTyped
    <3>. QED
      BY <2>5, <2>8, <3>1, <3>2 DEF Look
  <2>9. ASSUME Ask(r) PROVE RequestKnown(r)'
    <3>1. ASSUME Go(r, "settling") \/ (Go(r, "polling") /\ pc[r] = "polled"), UNCHANGED seen
          PROVE  RequestKnown(r)'
      <4>1. pc'[r] = "settling" \/ (pc'[r] = "polling" /\ pc[r] = "polled")
        BY <1>1, <3>1 DEF Go, RequestsTyped
      <4>. QED
        BY <1>1, <1>2, <2>3, <3>1, <4>1
    <3>. QED
      BY <2>5, <2>9, <3>1 DEF Ask
  <2>10. ASSUME Call(r) PROVE RequestKnown(r)'
    <3>1. pc'[r] = "marking"
      BY <1>1, <2>10 DEF Call, Go, RequestsTyped
    <3>2. ASSUME UNCHANGED seen, NEW a \in {"unavailable", "error"}, answer' = [answer EXCEPT ![r] = a]
          PROVE  RequestKnown(r)'
      BY <1>1, <1>2, <2>3, <3>1, <3>2 DEF RequestsTyped
    <3>3. ASSUME ops' = Append(ops, [domain |-> domain[r], cost |-> cost[r], state |-> "processing"]),
                 answer' = [answer EXCEPT ![r] = "accepted"], seen' = [seen EXCEPT ![r].op = Len(ops) + 1]
          PROVE  RequestKnown(r)'
      <4>1. Len(ops') = Len(ops) + 1
        BY <1>1, <3>3, AppendProperties DEF ProviderTyped
      <4>2. seen[r] \in Entries
        BY <1>1 DEF RequestsTyped
      <4>3. seen'[r].op = Len(ops) + 1 /\ answer'[r] = "accepted"
        BY <1>1, <3>3, <4>2 DEF RequestsTyped, Entries
      <4>. QED
        BY <1>1, <3>1, <4>1, <4>3
    <3>. QED
      BY <2>10, <3>2, <3>3 DEF Call
  <2>11. ASSUME Mark(r) PROVE RequestKnown(r)'
    <3>1. ASSUME answer[r] = "accepted", Go(r, "polling") \/ Go(r, "erring"), UNCHANGED seen
          PROVE  RequestKnown(r)'
      <4>1. pc'[r] \in {"polling", "erring"} /\ seen[r].op # 0
        BY <1>1, <1>2, <2>11, <3>1 DEF Mark, Go, RequestsTyped
      <4>. QED
        BY <1>1, <1>2, <2>3, <3>1, <4>1
    <3>. QED
      BY <2>5, <2>11, <3>1 DEF Mark
  <2>12. ASSUME Poll(r) PROVE RequestKnown(r)'
    <3>1. ASSUME NEW status, NEW c, Go(r, "polled"),
                 seen' = [seen EXCEPT ![r] = [registrar |-> "aws-route53", status |-> status,
                                              op |-> seen[r].op, cost |-> c]]
          PROVE  RequestKnown(r)'
      <4>1. pc'[r] = "polled" /\ seen'[r].op = seen[r].op /\ seen[r].op # 0
        BY <1>1, <1>2, <2>12, <3>1 DEF Poll, Go, RequestsTyped
      <4>. QED
        BY <1>1, <1>2, <2>3, <4>1
    <3>. QED
      BY <2>5, <2>12, <3>1 DEF Poll
  <2>13. RequestKnown(r)'
    BY <1>5, <2>7, <2>8, <2>9, <2>10, <2>11, <2>12 DEF Step
  <2>. QED
    BY <1>4, <2>1, <2>3, <2>4, <2>13 DEF Own
<1>6. ASSUME NEW r \in Requests, NEW d \in Domains, NEW c \in Prices, NEW approved \in BOOLEAN,
             Start(r, d, c, approved) \/ Order(r, d, c)
      PROVE  OpsKnown'
  <2>1. UNCHANGED <<entry, ops, seen, answer>>
    BY <1>6 DEF Start, Order, purchases
  <2>2. \A q \in Requests : pc'[q] = pc[q] \/ pc'[q] \in {"owning", "looking", "listing"}
    BY <1>1, <1>6 DEF Start, Order, Go, RequestsTyped
  <2>. QED
    BY <1>2, <2>1, <2>2 DEF OpsKnown
<1>7. ASSUME NEW k \in 1..Len(ops), NEW state \in {"successful", "failed"}, Complete(k, state)
      PROVE  OpsKnown'
  <2>1. ops' = [ops EXCEPT ![k] = [ops[k] EXCEPT !.state = state]]
    BY <1>7 DEF Complete
  <2>2. Len(ops') = Len(ops)
    BY <1>1, <2>1, ExceptSeq DEF ProviderTyped
  <2>. QED
    BY <1>2, <1>7, <2>2 DEF Complete, OpsKnown
<1>8. CASE Crash
  BY <1>1, <1>2, <1>8 DEF Crash, NoEntry, OpsKnown, purchases
<1>9. CASE UNCHANGED vars
  BY <1>2, <1>9 DEF vars, OpsKnown
<1>. QED
  BY <1>5, <1>6, <1>7, <1>8, <1>9 DEF Next

\* Domains and requests stay sound: the step of a request touches its own domain only.
Sound ==
  /\ \A d \in Domains : d \notin raced => DomainSound(d)
  /\ \A r \in Requests : domain[r] \notin raced => RequestSound(r)
LEMMA SoundStep == Readable /\ TypeOK /\ PurchaseInv /\ [Next]_vars => Sound'
<1> SUFFICES ASSUME Readable, TypeOK, PurchaseInv, [Next]_vars PROVE Sound'
  OBVIOUS
<1>1. Sound /\ Placed /\ RequestsTyped /\ raced \subseteq raced'
  BY TypeParts, RacedGrows DEF PurchaseInv, Sound
<1>2. \A r \in Requests : pc[r] # "idle" => domain[r] \in Domains
  BY <1>1 DEF Placed, RequestsTyped
<1>3. ASSUME NEW r \in Requests, Step(r) PROVE Sound'
  <2>1. Own(r) /\ domain[r] \in Domains
    BY <1>1, <1>2, <1>3, OwnStep DEF Own
  <2>2. PICK own \in Domains : own = domain[r]
    BY <2>1
  <2>3. ASSUME own \notin raced' PROVE DomainSound(own)' /\ RequestSound(r)'
    <3>1. own \notin raced
      BY <1>1, <2>3
    <3>. QED
      BY <1>3, <2>2, <3>1, ReadingSteps, WritingSteps, CallSound, BuySound DEF Step
  <2>4. ASSUME NEW d \in Domains, d # own PROVE DomainSame(d) /\ (d \notin raced' => DomainSound(d)')
    <3>1. DomainSame(d)
      BY <1>3, <2>2, <2>4, OtherDomains
    <3>. QED
      BY <1>1, <3>1, DomainKept DEF Sound
  <2>5. ASSUME NEW q \in Requests, q # r, domain'[q] \notin raced' PROVE RequestSound(q)'
    <3>1. RequestSame(q) /\ RequestSound(q) /\ domain[q] \notin raced'
      BY <1>1, <2>1, <2>5 DEF Own, RequestSame, Sound
    <3>2. CASE domain[q] = own
      BY <1>3, <2>2, <2>5, <3>1, <3>2, CompanionSound
    <3>3. CASE pc[q] = "idle"
      BY <3>1, <3>3, RequestKept
    <3>4. CASE domain[q] \in Domains /\ domain[q] # own
      BY <2>4, <3>1, <3>4, RequestKept
    <3>. QED
      BY <1>2, <3>2, <3>3, <3>4
  <2>6. domain'[r] \notin raced' => RequestSound(r)'
    BY <2>1, <2>2, <2>3, EndedSound DEF Own
  <2>. QED
    BY <2>3, <2>4, <2>5, <2>6 DEF Sound
<1>4. ASSUME NEW r \in Requests, NEW d \in Domains, NEW c \in Prices, NEW approved \in BOOLEAN,
             Start(r, d, c, approved) \/ Order(r, d, c)
      PROVE  Sound'
  <2>1. UNCHANGED <<entry, ops, bought, seen, answer, raced>>
    BY <1>4 DEF Start, Order, purchases
  <2>2. \A x : DomainSame(x)
    BY <2>1 DEF DomainSame, OpsOf
  <2>3. pc[r] = "idle" /\ pc'[r] \in {"owning", "looking", "listing"}
    BY <1>1, <1>4 DEF Start, Order, Arrive, Go, RequestsTyped
  <2>4. RequestSound(r)'
    <3>1. domain[r] = NoDomain /\ NoDomain \notin raced
      BY <2>3, TypeParts, PurchaseAssumption DEF PurchaseInv, Placed, LedgerTyped, PurchaseAssumption
    <3>2. RequestSound(r)
      BY <1>1, <3>1 DEF Sound
    <3>. QED
      BY <2>1, <2>3, <3>2 DEF RequestSound, MayBuy, CallReserved, FollowsEntry, NotesSold, Uncalled
  <2>5. ASSUME NEW q \in Requests, q # r, domain'[q] \notin raced' PROVE RequestSound(q)'
    <3>1. RequestSame(q)
      BY <1>1, <1>4, <2>1, <2>5 DEF Start, Order, Arrive, Go, RequestsTyped, RequestSame
    <3>2. RequestSound(q)
      BY <1>1, <2>5, <3>1 DEF RequestSame, Sound
    <3>. QED
      BY <2>2, <3>1, <3>2, RequestKept
  <2>6. ASSUME NEW x \in Domains, x \notin raced' PROVE DomainSound(x)'
    BY <1>1, <2>2, <2>6, DomainKept DEF Sound
  <2>. QED
    BY <2>4, <2>5, <2>6 DEF Sound
<1>5. ASSUME NEW k \in 1..Len(ops), NEW state \in {"successful", "failed"}, Complete(k, state)
      PROVE  Sound'
  <2>1. UNCHANGED <<domain, raced>>
    BY <1>5 DEF Complete
  <2>. QED
    BY <1>5, <2>1, CompleteSound DEF Sound
<1>6. CASE Crash
  <2>1. \A d : DomainSame(d)
    BY <1>6 DEF Crash, purchases, DomainSame, OpsOf
  <2>2. \A r \in Requests : pc'[r] = "idle" /\ seen'[r].op = 0
    BY <1>6 DEF Crash, NoEntry
  <2>. QED
    BY <1>1, <2>1, <2>2, DomainKept, EndedSound DEF Sound
<1>7. CASE UNCHANGED vars
  <2>1. (\A d : DomainSame(d)) /\ (\A r \in Requests : RequestSame(r)) /\ UNCHANGED <<domain, raced>>
    BY <1>7 DEF vars, DomainSame, OpsOf, RequestSame
  <2>. QED
    BY <1>1, <2>1, DomainKept, RequestKept DEF Sound
<1>. QED
  BY <1>3, <1>4, <1>5, <1>6, <1>7 DEF Next

\* A gateway that has served nobody: nothing is bought, reserved or locked.
LEMMA Initially == Init => TypeOK /\ ProgressInv /\ PurchaseInv
<1> SUFFICES ASSUME Init PROVE TypeOK /\ ProgressInv /\ PurchaseInv
  OBVIOUS
<1>1. /\ MaxRequests \in Nat /\ MaxCrashes \in Nat
      /\ {Free, Leaked} \cap Requests = {}
  BY PurchaseAssumption DEF PurchaseAssumption
<1>2. NoEntry \in Entries /\ NoEntry.op = 0
  BY <1>1 DEF NoEntry, Entries, Statuses
<1>3. Len(ops) = 0 /\ ops \in Seq(Operations)
  BY EmptySeq DEF Init
<1>4. RequestsTyped
  BY <1>2 DEF Init, RequestsTyped, Positions, Answers
<1>5. ProviderTyped
  BY <1>1, <1>3 DEF Init, ProviderTyped
<1>6. LedgerTyped
  BY <1>1, <1>2 DEF Init, LedgerTyped
<1>7. Placed /\ BuyersAlone /\ LockHeld
  BY DEF Init, Placed, BuyersAlone, Buying, LockHeld
<1>8. CallsCounted
  <2>1. {r \in Requests : pc[r] \in Uncalled} = {}
    BY DEF Init, Uncalled
  <2>2. Cardinality({r \in Requests : pc[r] \in Uncalled}) = 0
    BY <2>1, FS_EmptySet
  <2>3. served = 0
    BY DEF Init
  <2>. QED
    BY <1>3, <2>2, <2>3 DEF CallsCounted
<1>9. ASSUME NEW d \in Domains PROVE DomainSound(d)
  BY <1>2, <1>3 DEF Init, DomainSound, EntrySound, EarlierFailed, EntryLatest, LiveCounted
<1>10. ASSUME NEW r \in Requests PROVE RequestSound(r)
  BY <1>2 DEF Init, RequestSound, MayBuy, CallReserved, FollowsEntry, NotesSold, Uncalled
<1>11. OpsKnown
  BY <1>2, <1>3 DEF Init, OpsKnown
<1>. QED
  BY <1>4, <1>5, <1>6, <1>7, <1>8, <1>9, <1>10, <1>11, TypeParts DEF ProgressInv, PurchaseInv

\* Every state of the purchase is typed, whatever overlaps or fails.
LEMMA Progress == Spec => [](TypeOK /\ ProgressInv)
<1>1. TypeOK /\ ProgressInv /\ [Next]_vars => (TypeOK /\ ProgressInv)'
  BY TypeStep, PlacedStep, CallsStep, KnownStep DEF ProgressInv
<1>. QED
  BY Initially, <1>1, PTL DEF Spec

\* Every state of the purchase satisfies the inductive invariant.
LEMMA Invariance == ASSUME Readable PROVE Spec => [](TypeOK /\ PurchaseInv)
<1>1. TypeOK /\ PurchaseInv /\ [Next]_vars => PurchaseInv'
  BY PlacedStep, BuyersStep, LockStep, SoundStep DEF PurchaseInv, Sound
<1>. QED
  BY Initially, Progress, <1>1, PTL DEF Spec

-----------------------------------------------------------------------------
(* The month's spend.                                                      *)

\* What an inventory counts outside the domains of R, a domain's share of it, and their sum.
CountedIn(e, R) == {d \in Domains \ R : e[d].registrar = "aws-route53" /\ Counts(e[d].status)}
Share(e, R, d) == IF d \in CountedIn(e, R) THEN e[d].cost ELSE 0
SpendOf(e, R) == CostOf(e, CountedIn(e, R))

\* The month's spend is the sum of the counted entries' costs.
LEMMA SpendIsCost ==
  /\ Spend = SpendOf(entry, {})
  /\ SoundSpend = SpendOf(entry, raced) /\ SoundSpend' = SpendOf(entry', raced')
<1>1. /\ {d \in Domains : Counted(d)} = CountedIn(entry, {})
      /\ {d \in Domains \ raced : Counted(d)} = CountedIn(entry, raced)
      /\ {d \in Domains \ raced : Counted(d)}' = CountedIn(entry', raced')
  BY DEF Counted, CountedIn
<1>2. Spend = SpendOf(entry, {})
  BY <1>1 DEF Spend, SpendOf, CostOf, MapThenSumSet, MapThenFoldSet
<1>3. SoundSpend = SpendOf(entry, raced)
  BY <1>1 DEF SoundSpend, SpendOf, CostOf, MapThenSumSet, MapThenFoldSet
<1>4. SoundSpend' = SpendOf(entry', raced')
  BY <1>1 DEF SoundSpend, SpendOf, CostOf, MapThenSumSet, MapThenFoldSet
<1>. QED
  BY <1>2, <1>3, <1>4

\* Entries have costs, and the spend is a number.
LEMMA SpendTyped ==
  ASSUME NEW e \in [Domains -> Entries], NEW R
  PROVE  SpendOf(e, R) \in Nat /\ \A x \in Domains : e[x].cost \in Nat
<1>1. IsFiniteSet(CountedIn(e, R)) /\ CountedIn(e, R) \subseteq Domains
  BY FS_Subset, PurchaseAssumption DEF CountedIn, PurchaseAssumption
<1>2. \A x \in Domains : e[x].cost \in Nat
  <2>1. Prices \cup {0} \subseteq Nat
    BY PurchaseAssumption DEF PurchaseAssumption
  <2>2. \A x \in Domains : e[x].cost \in Prices \cup {0}
    BY DEF Entries
  <2>. QED
    BY <2>1, <2>2
<1>. QED
  BY <1>1, <1>2, CostTyped DEF SpendOf

\* Leaving out more domains does not raise the spend.
LEMMA SpendLess ==
  ASSUME NEW e \in [Domains -> Entries], NEW R, NEW Q, R \subseteq Q
  PROVE  SpendOf(e, Q) <= SpendOf(e, R)
<1>1. IsFiniteSet(CountedIn(e, R)) /\ CountedIn(e, R) \subseteq Domains
  BY FS_Subset, PurchaseAssumption DEF CountedIn, PurchaseAssumption
<1>2. CountedIn(e, Q) \subseteq CountedIn(e, R)
  BY DEF CountedIn
<1>3. \A x \in CountedIn(e, R) : e[x].cost \in Nat
  BY <1>1, SpendTyped
<1>. QED
  BY <1>1, <1>2, <1>3, CostOfPart DEF SpendOf

\* The spend is a domain's share and what the others add.
LEMMA SpendSplit ==
  ASSUME NEW e \in [Domains -> Entries], NEW R, NEW d \in Domains
  PROVE  /\ SpendOf(e, R) = Share(e, R, d) + CostOf(e, CountedIn(e, R) \ {d})
         /\ SpendOf(e, R) \in Nat /\ Share(e, R, d) \in Nat /\ CostOf(e, CountedIn(e, R) \ {d}) \in Nat
<1> DEFINE C == CountedIn(e, R)
<1>1. IsFiniteSet(C) /\ C \subseteq Domains
  BY FS_Subset, PurchaseAssumption DEF CountedIn, PurchaseAssumption
<1>2. IsFiniteSet(C \ {d})
  BY <1>1, FS_Subset
<1>3. \A x \in Domains : e[x].cost \in Nat
  BY SpendTyped
<1>4. SpendOf(e, R) \in Nat /\ CostOf(e, C \ {d}) \in Nat
  BY <1>1, <1>2, <1>3, CostTyped, SpendTyped
<1>5. CASE d \in C
  <2>1. CostOf(e, C) = e[d].cost + CostOf(e, C \ {d})
    BY <1>1, <1>3, <1>5, CostOfAny
  <2>. QED
    BY <1>3, <1>4, <1>5, <2>1 DEF Share, SpendOf
<1>6. CASE d \notin C
  <2>1. C \ {d} = C
    BY <1>6
  <2>2. Share(e, R, d) = 0
    BY <1>6 DEF Share
  <2>3. SpendOf(e, R) = CostOf(e, C \ {d})
    BY <2>1 DEF SpendOf
  <2>. QED
    BY <1>4, <2>2, <2>3
<1>. QED
  BY <1>5, <1>6

\* A write of one domain's entry changes the spend by that domain's share.
LEMMA SpendReplaced ==
  ASSUME NEW e \in [Domains -> Entries], NEW f \in [Domains -> Entries], NEW R, NEW d \in Domains,
         \A x \in Domains : x # d => f[x] = e[x]
  PROVE  \E rest \in Nat : SpendOf(e, R) = Share(e, R, d) + rest /\ SpendOf(f, R) = Share(f, R, d) + rest
<1> DEFINE S == CountedIn(e, R) \ {d}
<1>1. CountedIn(f, R) \ {d} = S
  BY DEF CountedIn
<1>2. IsFiniteSet(S) /\ \A x \in S : e[x].cost = f[x].cost
  BY FS_Subset, PurchaseAssumption DEF CountedIn, PurchaseAssumption
<1>3. CostOf(e, S) = CostOf(f, S)
  <2> HIDE DEF S
  <2>. QED
    BY <1>2, CostsEqual
<1>4. SpendOf(e, R) = Share(e, R, d) + CostOf(e, S) /\ CostOf(e, S) \in Nat
  BY SpendSplit
<1>5. SpendOf(f, R) = Share(f, R, d) + CostOf(f, S)
  BY <1>1, SpendSplit
<1>. QED
  BY <1>3, <1>4, <1>5

\* A write that replaces a domain's entry by one that counts no more does not raise the
\* spend; one that counts c raises it by c at most.
LEMMA SpendWritten ==
  ASSUME NEW e \in [Domains -> Entries], NEW f \in [Domains -> Entries], NEW R, NEW d \in Domains,
         \A x \in Domains : x # d => f[x] = e[x]
  PROVE  /\ Share(f, R, d) <= Share(e, R, d) => SpendOf(f, R) <= SpendOf(e, R)
         /\ SpendOf(f, R) <= SpendOf(e, R) + Share(f, R, d)
         /\ SpendOf(f, R) \in Nat /\ SpendOf(e, R) \in Nat
<1>1. PICK rest \in Nat : SpendOf(e, R) = Share(e, R, d) + rest /\ SpendOf(f, R) = Share(f, R, d) + rest
  BY SpendReplaced
<1>2. Share(e, R, d) \in Nat /\ Share(f, R, d) \in Nat
  BY SpendSplit
<1>. QED
  BY <1>1, <1>2

Budget == BudgetHolds /\ RoomLeft

\* Only a reservation raises the spend, by what the reading under the lock left room for.
LEMMA BudgetStep ==
  Readable /\ TypeOK /\ TypeOK' /\ PurchaseInv /\ Budget /\ [Next]_vars => Budget'
<1> SUFFICES ASSUME Readable, TypeOK, TypeOK', PurchaseInv, Budget, [Next]_vars
             PROVE  Budget'
  OBVIOUS
<1>1. /\ RequestsTyped /\ LedgerTyped /\ Placed /\ LockHeld
      /\ \A r \in Requests : domain[r] \notin raced => RequestSound(r)
      /\ entry \in [Domains -> Entries] /\ entry' \in [Domains -> Entries]
      /\ cost \in [Requests -> Prices \cup {0}]
      /\ raced \subseteq raced'
  BY TypeParts, RacedGrows DEF PurchaseInv, LedgerTyped, RequestsTyped, TypeOK
<1>2. \A r \in Requests : pc[r] # "idle" => domain[r] \in Domains
  BY <1>1 DEF Placed, RequestsTyped
<1>3. Cap \in Nat /\ Prices \cup {0} \subseteq Nat
  BY PurchaseAssumption DEF PurchaseAssumption
<1> DEFINE before == SpendOf(entry, raced)
           kept == SpendOf(entry, raced')
           after == SpendOf(entry', raced')
           Fits == /\ after <= Cap
                   /\ \A r \in Requests : pc'[r] = "reserving" => after + cost'[r] <= Cap
<1>4. /\ before <= Cap
      /\ \A r \in Requests : pc[r] = "reserving" => before + cost[r] <= Cap
  BY SpendIsCost DEF Budget, BudgetHolds, RoomLeft
<1>5. SUFFICES Fits
  BY <1>5, SpendIsCost DEF Budget, BudgetHolds, RoomLeft
<1>6. before \in Nat /\ kept \in Nat /\ after \in Nat /\ kept <= before
  <2>1. before \in Nat
    BY <1>1, SpendTyped
  <2>2. kept \in Nat
    BY <1>1, SpendTyped
  <2>3. after \in Nat
    BY <1>1, SpendTyped
  <2>4. kept <= before
    BY <1>1, SpendLess
  <2>. QED
    BY <2>1, <2>2, <2>3, <2>4
<1> HIDE DEF before, kept, after
<1>7. ASSUME after <= kept,
             \A r \in Requests : pc'[r] = "reserving" =>
               (pc[r] = "reserving" /\ cost'[r] = cost[r]) \/ after + cost'[r] <= Cap
      PROVE  Fits
  <2>1. ASSUME NEW r \in Requests, pc'[r] = "reserving" PROVE after + cost'[r] <= Cap
    <3>1. CASE pc[r] = "reserving" /\ cost'[r] = cost[r]
      <4>1. cost[r] \in Nat /\ before + cost[r] <= Cap
        BY <1>1, <1>3, <1>4, <3>1
      <4>. QED
        BY <1>3, <1>7, <1>6, <3>1, <4>1
    <3>. QED
      BY <1>7, <2>1, <3>1
  <2>. QED
    BY <1>3, <1>4, <1>7, <1>6, <2>1
<1>8. entry' = entry => after = kept
  BY DEF after, kept
<1>9. ASSUME NEW r \in Requests, Step(r), ~ ReadSpend(r), ~ Reserve(r) PROVE Fits
  <2>1. Own(r) /\ domain[r] \in Domains
    BY <1>1, <1>2, <1>9, OwnStep DEF Own
  <2>2. PICK d \in Domains : d = domain[r]
    BY <2>1
  <2>3. pc'[r] # "reserving"
    BY <1>1, <1>9 DEF Step, CheckOwned, MarkOwned, Look, Ask, Settle, Lock, Call, Mark, Err, Poll, List, Sum,
       Buy, Note, End, Go, RequestsTyped
  <2>4. \A x \in Domains : x # d => entry'[x] = entry[x]
    BY <1>9, <2>2, OtherDomains DEF DomainSame
  <2> DEFINE old == Share(entry, raced', d)
             new == Share(entry', raced', d)
  <2>5. old \in Nat /\ new \in Nat /\ (entry' = entry => new <= old)
    <3>1. old \in Nat
      BY <1>1, SpendSplit
    <3>2. new \in Nat
      BY <1>1, SpendSplit
    <3>. QED
      BY <3>1, <3>2
  <2>6. ASSUME d \notin raced' PROVE RequestSound(r)
    BY <1>1, <2>2, <2>6
  <2>7. ASSUME MarkOwned(r) PROVE new <= old
    <3>1. entry'[d].cost = 0 \/ entry' = entry
      BY <1>1, <2>2, <2>7 DEF MarkOwned, Replace, Written, WriteFails
    <3>2. entry'[d].cost = 0 => new = 0
      BY DEF Share
    <3>. QED
      BY <2>5, <3>1, <3>2
  <2>8. ASSUME Note(r) PROVE new <= old
    <3>1. entry'[d].registrar = "namecheap" \/ entry' = entry
      BY <1>1, <2>2, <2>8 DEF Note, Written, WriteFails
    <3>2. entry'[d].registrar = "namecheap" => new = 0
      BY DEF Share, CountedIn
    <3>. QED
      BY <2>5, <3>1, <3>2
  <2>9. ASSUME Settle(r), d \notin raced' PROVE new <= old
    <3>1. entry'[d].cost = seen[r].cost \/ entry' = entry
      BY <1>1, <2>2, <2>9 DEF Settle, Replace, Written, WriteFails
    <3>2. seen[r].cost = entry[d].cost /\ d \in CountedIn(entry, raced')
      BY <2>2, <2>9, <2>6 DEF Settle, RequestSound, FollowsEntry, CountedIn, Unsettled, Counts
    <3>. QED
      BY <2>5, <3>1, <3>2 DEF Share
  <2>10. ASSUME Mark(r), d \notin raced' PROVE new <= old
    <3>1. entry'[d].cost = cost[r] \/ entry' = entry
      BY <1>1, <2>2, <2>10 DEF Mark, Replace, Written, WriteFails
    <3>2. entry[d] = Reservation(cost[r])
      BY <2>2, <2>10, <2>6 DEF Mark, RequestSound, CallReserved
    <3>3. entry[d].cost = cost[r] /\ d \in CountedIn(entry, raced')
      BY <2>10, <3>2 DEF Reservation, CountedIn, Counts
    <3>. QED
      BY <2>5, <3>1, <3>3 DEF Share
  <2>11. ASSUME Err(r), d \notin raced' PROVE new <= old
    <3>1. entry'[d].cost = cost[r] \/ entry' = entry
      BY <1>1, <2>2, <2>11 DEF Err, Replace, Written, WriteFails
    <3>2. cost[r] = entry[d].cost /\ d \in CountedIn(entry, raced')
      BY <2>2, <2>6, <2>11 DEF Err, RequestSound, FollowsEntry, CountedIn, Unsettled, Counts
    <3>. QED
      BY <2>5, <3>1, <3>2 DEF Share
  <2>12. \/ entry' = entry
         \/ MarkOwned(r) \/ Note(r) \/ Settle(r) \/ Mark(r) \/ Err(r)
    BY <1>9 DEF Step, CheckOwned, Look, Ask, Lock, Call, Poll, List, Sum, Buy
  <2>13. CASE d \in raced'
    <3>1. old = 0 /\ new = 0
      BY <2>13 DEF Share, CountedIn
    <3>2. new <= old
      BY <3>1
    <3>3. after <= kept
      <4> HIDE DEF old, new
      <4>. QED
        BY <1>1, <2>4, <3>2, SpendWritten DEF old, new, after, kept
    <3>. QED
      BY <1>7, <2>1, <2>3, <3>3 DEF Own, RequestSame
  <2>14. CASE d \notin raced'
    <3>1. new <= old
      BY <2>5, <2>7, <2>8, <2>9, <2>10, <2>12, <2>11, <2>14
    <3>2. after <= kept
      BY <1>1, <2>4, <3>1, SpendWritten DEF after, kept
    <3>. QED
      BY <1>7, <2>1, <2>3, <3>2 DEF Own, RequestSame
  <2>. QED
    BY <2>13, <2>14
<1>10. ASSUME NEW r \in Requests, Reserve(r) PROVE Fits
  <2>1. Own(r) /\ domain[r] \in Domains
    BY <1>1, <1>2, <1>10, OwnStep DEF Own, Step
  <2>2. PICK d \in Domains : d = domain[r]
    BY <2>1
  <2>3. pc[r] = "reserving" /\ pc'[r] # "reserving"
    BY <1>1, <1>10 DEF Reserve, End, Go, RequestsTyped
  <2>4. \A q \in Requests : pc'[q] # "reserving"
    BY <1>1, <2>1, <2>3 DEF LockHeld, Own, RequestSame
  <2>5. \A x \in Domains : x # d => entry'[x] = entry[x]
    BY <1>10, <2>2, OtherDomains DEF DomainSame, Step
  <2>6. entry'[d].cost = cost[r] \/ entry' = entry
    BY <1>1, <1>10, <2>2 DEF Reserve, Replace, Written, WriteFails
  <2>7. before + cost[r] <= Cap /\ cost[r] \in Nat
    BY <1>1, <1>3, <1>4, <2>3
  <2> DEFINE new == Share(entry', raced', d)
  <2>8. new \in Nat /\ after <= kept + new
    <3>1. new \in Nat
      BY <1>1, SpendSplit
    <3>2. after <= kept + new
      BY <1>1, <2>5, SpendWritten DEF after, kept
    <3>. QED
      BY <3>1, <3>2
  <2>9. ASSUME entry'[d].cost = cost[r] PROVE after <= Cap
    <3>1. new <= cost[r]
      BY <2>7, <2>9 DEF Share
    <3> HIDE DEF new
    <3>. QED
      BY <1>3, <1>6, <2>7, <2>8, <3>1
  <2>10. after <= Cap
    BY <1>3, <1>4, <1>6, <1>8, <2>6, <2>9
  <2>. QED
    BY <2>4, <2>10
<1>11. ASSUME NEW r \in Requests, ReadSpend(r) PROVE Fits
  <2>1. Own(r) /\ UNCHANGED <<entry, raced>>
    BY <1>1, <1>11, OwnStep DEF ReadSpend, Step
  <2>2. SpendRead(Spend) = {SpendOf(entry, {})}
    BY SpendIsCost DEF SpendRead, Readable
  <2>3. SpendOf(entry, {}) \in Nat /\ before <= SpendOf(entry, {})
    <3>1. SpendOf(entry, {}) \in Nat
      BY <1>1, SpendTyped
    <3>2. before <= SpendOf(entry, {})
      BY <1>1, SpendLess DEF before
    <3>. QED
      BY <3>1, <3>2
  <2>4. pc'[r] = "reserving" => SpendOf(entry, {}) + cost[r] <= Cap /\ cost'[r] = cost[r]
    BY <1>1, <1>11, <2>2 DEF ReadSpend, End, Go, RequestsTyped
  <2>5. after = before /\ after = kept
    BY <2>1 DEF after, before, kept
  <2>6. cost[r] \in Nat
    BY <1>1, <1>3
  <2>7. pc'[r] = "reserving" => after + cost'[r] <= Cap
    <3> DEFINE whole == SpendOf(entry, {})
    <3>1. whole \in Nat /\ before <= whole /\ (pc'[r] = "reserving" => whole + cost[r] <= Cap /\ cost'[r] = cost[r])
      BY <2>3, <2>4
    <3> HIDE DEF whole
    <3>. QED
      BY <1>3, <1>6, <2>5, <2>6, <3>1
  <2>. QED
    BY <1>7, <1>6, <2>1, <2>5, <2>7 DEF Own, RequestSame
<1>12. ASSUME NEW r \in Requests, NEW d \in Domains, NEW c \in Prices, NEW approved \in BOOLEAN,
              Start(r, d, c, approved) \/ Order(r, d, c)
       PROVE  Fits
  <2>1. entry' = entry
    BY <1>12 DEF Start, Order
  <2>2. \A q \in Requests : pc'[q] = "reserving" => pc[q] = "reserving" /\ cost'[q] = cost[q]
    BY <1>1, <1>12 DEF Start, Order, Arrive, Go, RequestsTyped
  <2>. QED
    BY <1>7, <1>6, <1>8, <2>1, <2>2
<1>13. CASE Crash
  BY <1>7, <1>6, <1>13, <1>8 DEF Crash
<1>14. ASSUME UNCHANGED <<entry, pc, cost>> PROVE Fits
  BY <1>7, <1>6, <1>14, <1>8
<1>15. Fits
  BY <1>9, <1>10, <1>11, <1>12, <1>13, <1>14 DEF Next, Complete, vars
<1>. QED
  BY <1>15

\* Nothing is counted before anything is bought.
LEMMA BudgetInitially == Init => Budget
<1> SUFFICES ASSUME Init PROVE Budget
  OBVIOUS
<1>1. CountedIn(entry, raced) = {}
  BY DEF Init, CountedIn, NoEntry
<1>2. SpendOf(entry, raced) = 0
  BY <1>1, CostOfRest, FS_EmptySet DEF SpendOf
<1>. QED
  BY <1>2, SpendIsCost, PurchaseAssumption DEF Budget, BudgetHolds, RoomLeft, Init, PurchaseAssumption

-----------------------------------------------------------------------------
(* The theorems.                                                           *)

\* Entries, operations and requests have the values the purchase gives them; so an
\* operation that a request asks for is one the provider has.
THEOREM TypeCorrect == Spec => []TypeOK
BY Progress, PTL

\* What Route53 accepted and has not failed stays counted by the entry of its domain, at
\* what it costs, whatever answers, writes, audits and processes are lost, and whatever
\* requests for the domain overlap, unless they raced for its entry.
THEOREM LiveIsCountedHolds == ASSUME Readable PROVE Spec => []LiveIsCounted
<1>1. TypeOK /\ PurchaseInv => LiveIsCounted
  <2> SUFFICES ASSUME TypeOK, PurchaseInv, NEW k \in 1..Len(ops), ops[k].state # "failed",
                      NEW d, d = ops[k].domain, d \notin raced
               PROVE  (Counted(d) /\ entry[d].cost = ops[k].cost) \/ Taken(d) \/ Zeroed(d)
    BY DEF LiveIsCounted
  <2>1. ops[k] \in Operations
    BY TypeParts, ElementOfSeq DEF ProviderTyped
  <2>2. d \in Domains
    BY <2>1 DEF Operations
  <2>. QED
    BY <2>2 DEF PurchaseInv, DomainSound, LiveCounted, Open
<1>. QED
  BY <1>1, Invariance, PTL

\* A request that asks Route53 to register a domain asks for one that Route53 is not
\* registering and has not registered, however requests for the domain overlap, unless they
\* raced for its entry.
THEOREM NotRegisteredTwiceHolds == ASSUME Readable PROVE Spec => NotRegisteredTwice
<1>1. ASSUME PurchaseInv, NEW r \in Requests, pc[r] = "calling", domain[r] \notin raced PROVE ~ Live(domain[r])
  BY <1>1 DEF PurchaseInv, RequestSound, MayBuy
<1>2. TypeOK /\ PurchaseInv /\ [Next]_vars =>
        [\A r \in Requests : pc[r] = "calling" /\ pc'[r] = "marking" =>
           ~ Live(domain[r]) \/ domain[r] \in raced]_vars
  BY <1>1
<1>. QED
  BY <1>2, Invariance, PTL DEF NotRegisteredTwice, Spec

\* What the inventory counts, outside the entries two requests raced for, never exceeds the
\* month's cap, however requests race for the last of it, fail or die.
THEOREM BudgetAlwaysHolds == ASSUME Readable PROVE Spec => []BudgetHolds
<1>1. TypeOK /\ PurchaseInv /\ Budget /\ TypeOK' /\ [Next]_vars => Budget'
  BY BudgetStep
<1>2. Budget => BudgetHolds
  BY DEF Budget
<1>. QED
  BY <1>1, <1>2, BudgetInitially, Invariance, PTL DEF Spec
=============================================================================
