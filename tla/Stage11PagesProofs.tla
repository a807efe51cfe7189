-------------------------- MODULE Stage11PagesProofs --------------------------
(***************************************************************************)
(* Proofs about the snapshot page pool, for every cap, page size, request, *)
(* budget report and heap, and any number of pages and leases.             *)
(***************************************************************************)
EXTENDS Stage11Pages, FiniteSetTheorems, WellFoundedInduction, TLAPS

EpochType == [map : Nat, device : Nat]

PageType ==
  [capacity : 0 .. Cap, used : 0 .. Cap, life : Lifetimes, epoch : EpochType, sealed : BOOLEAN]

Typed ==
  /\ resident \in Nat /\ nextId \in Nat \ {0}
  /\ DOMAIN pages \subseteq 1 .. nextId - 1
  /\ pages \in [DOMAIN pages -> PageType]
  /\ \A p \in DOMAIN pages : pages[p].used <= pages[p].capacity
  /\ Cardinality(DOMAIN pages) <= MaxPages
  /\ epoch \in EpochType
  /\ \A l \in leases : l.epoch \in EpochType

\* An allocation under way has a request, and producers are admitted.
Asking == pc # "idle" => need \in Nat \ {0} /\ life \in Lifetimes /\ ~gateClosed

\* No lease is of an epoch to come; while the gate is closed none is of this one.
LeasesPast ==
  \A l \in leases :
    /\ l.epoch.map <= epoch.map /\ l.epoch.device <= epoch.device
    /\ gateClosed => l.epoch.device < epoch.device

SameClass == {p \in Tails(pages, need) : pages[p].life = life}

\* The pool grows only for a request no page of its class serves, and has room.
Growing ==
  pc \in {"grow", "create"} =>
    /\ SameClass = {}
    /\ Cardinality(DOMAIN pages) < MaxPages /\ CanAddPage(PageCapacity(need))

\* The page just published is the only one of its class that serves the request.
Published == pc = "planNew" => SameClass = {nextId - 1}

Claiming == pc = "commit" => chosen \in Tails(pages, need)

Inv ==
  /\ Typed /\ Asking /\ LeasesPast /\ Growing /\ Published /\ Claiming
  /\ ResidentExact /\ ListedPagesLive

-----------------------------------------------------------------------------
(* Granules: what the pages of a set add up to.                            *)

LEMMA InGranules ==
  ASSUME NEW P, NEW S, NEW x
  PROVE  x \in Granules(P, S) <=> \E p \in S : \E i \in 1 .. P[p].capacity : x = <<p, i>>
  BY DEF Granules

LEMMA CapacityDepends ==
  ASSUME NEW P, NEW Q, NEW S, \A p \in S : P[p].capacity = Q[p].capacity
  PROVE  Capacity(P, S) = Capacity(Q, S)
  BY DEF Capacity, Granules

LEMMA CapacityFinite ==
  ASSUME NEW P, NEW S, IsFiniteSet(S), \A p \in S : P[p].capacity \in 0 .. Cap
  PROVE  IsFiniteSet(Granules(P, S)) /\ Capacity(P, S) \in Nat
<1>1. IsFiniteSet(1 .. Cap)
  BY FS_Interval, PoolAssumption
<1>2. IsFiniteSet(S \X (1 .. Cap))
  BY <1>1, FS_Product
<1>3. Granules(P, S) \in SUBSET (S \X (1 .. Cap))
  BY PoolAssumption DEF Granules
<1>4. IsFiniteSet(Granules(P, S))
  BY <1>2, <1>3, FS_Subset
<1>. QED
  BY <1>4, FS_CardinalityType DEF Capacity

LEMMA CapacityDrops ==
  ASSUME NEW P, NEW S, IsFiniteSet(S), NEW T \in SUBSET S,
         \A p \in S : P[p].capacity \in 0 .. Cap
  PROVE  /\ Capacity(P, S \ T) = Capacity(P, S) - Capacity(P, T)
         /\ Capacity(P, T) <= Capacity(P, S)
<1>1. IsFiniteSet(Granules(P, S))
  BY CapacityFinite
<1>2. Granules(P, S \ T) = Granules(P, S) \ Granules(P, T)
  BY InGranules DEF Granules
<1>3. Granules(P, T) \in SUBSET Granules(P, S)
  BY DEF Granules
<1>4. Granules(P, S) \cap Granules(P, T) = Granules(P, T)
  BY <1>3
<1>5. Cardinality(Granules(P, S) \ Granules(P, T))
        = Cardinality(Granules(P, S)) - Cardinality(Granules(P, T))
  BY <1>1, <1>4, FS_Difference
<1>6. Cardinality(Granules(P, T)) <= Cardinality(Granules(P, S))
  BY <1>1, <1>3, FS_Subset
<1>. QED
  BY <1>2, <1>5, <1>6 DEF Capacity

LEMMA CapacityOfOne ==
  ASSUME NEW P, NEW p, P[p].capacity \in Nat
  PROVE  Capacity(P, {p}) = P[p].capacity
<1>. DEFINE c == P[p].capacity
<1>1. Granules(P, {p}) = {p} \X (1 .. c)
  BY DEF Granules
<1>2. IsFiniteSet({p}) /\ Cardinality({p}) = 1
  BY FS_Singleton
<1>3. c \in Nat
  OBVIOUS
<1>4. IsFiniteSet(1 .. c) /\ Cardinality(1 .. c) = c
  <2>1. IsFiniteSet(1 .. c) /\ Cardinality(1 .. c) = IF 1 > c THEN 0 ELSE c - 1 + 1
    BY <1>3, FS_Interval
  <2>. QED
    BY <1>3, <2>1
<1>5. Cardinality({p} \X (1 .. c)) = 1 * c
  BY <1>2, <1>4, FS_Product
<1>6. Cardinality({p} \X (1 .. c)) = c
  BY <1>3, <1>5
<1>. QED
  BY <1>1, <1>6 DEF Capacity

LEMMA CapacityGains ==
  ASSUME NEW P, NEW S, IsFiniteSet(S), NEW p, p \notin S,
         \A q \in S \cup {p} : P[q].capacity \in 0 .. Cap
  PROVE  Capacity(P, S \cup {p}) = Capacity(P, S) + P[p].capacity
<1>1. IsFiniteSet(S \cup {p})
  BY FS_AddElement
<1>2. (S \cup {p}) \ {p} = S /\ {p} \in SUBSET (S \cup {p})
  OBVIOUS
<1>3. Capacity(P, S) = Capacity(P, S \cup {p}) - Capacity(P, {p})
  BY <1>1, <1>2, CapacityDrops
<1>4. Capacity(P, {p}) = P[p].capacity /\ P[p].capacity \in Nat
  BY CapacityOfOne, PoolAssumption
<1>5. PICK a \in Nat : a = Capacity(P, S \cup {p})
  BY <1>1, CapacityFinite
<1>6. PICK c \in Nat : c = P[p].capacity
  BY <1>4
<1>7. Capacity(P, S) = a - c
  BY <1>3, <1>4, <1>5, <1>6
<1>8. a = Capacity(P, S) + c
  BY <1>7
<1>. QED
  BY <1>5, <1>6, <1>8

LEMMA ListFinite ==
  ASSUME Typed
  PROVE  /\ IsFiniteSet(DOMAIN pages) /\ Cardinality(DOMAIN pages) \in Nat
         /\ \A p \in DOMAIN pages : pages[p].capacity \in 0 .. Cap
<1>1. nextId - 1 \in Int
  BY DEF Typed
<1>2. IsFiniteSet(1 .. nextId - 1)
  BY <1>1, FS_Interval
<1>. QED
  BY <1>2, FS_Subset, FS_CardinalityType DEF Typed, PageType

LEMMA CapacityOfNone == ASSUME NEW P PROVE Capacity(P, {}) = 0
<1>1. Granules(P, {}) = {}
  BY DEF Granules
<1>. QED
  BY <1>1, FS_EmptySet DEF Capacity

-----------------------------------------------------------------------------
(* The planner.                                                            *)

LEMMA LeastNat ==
  ASSUME NEW S \in SUBSET Nat, S # {}
  PROVE  \E m \in S : \A y \in S : m <= y
<1>1. PICK m \in S : \A y \in S : ~ (<<y, m>> \in OpToRel(<, Nat))
  BY NatLessThanWellFounded, WFMin
<1>2. \A y \in S : ~ (y < m)
  BY <1>1 DEF OpToRel
<1>3. \A y \in S : m <= y
  BY <1>2
<1>. QED
  BY <1>3

\* Of any pages the candidate order prefers one to all others.
LEMMA BestIsIn ==
  ASSUME Typed, NEW S \in SUBSET (DOMAIN pages), S # {}, NEW n
  PROVE  Best(pages, n, S) \in S
<1>. DEFINE slack(x) == pages[x].capacity - pages[x].used
<1>0. /\ \A x \in S : pages[x].capacity \in Nat /\ pages[x].used \in 0 .. pages[x].capacity
      /\ \A x \in S : pages[x].used <= Cap /\ x \in Nat
  BY PoolAssumption DEF Typed, PageType
<1>1. PICK m \in {slack(x) : x \in S} : \A y \in {slack(x) : x \in S} : m <= y
  <2>1. {slack(x) : x \in S} \in SUBSET Nat /\ {slack(x) : x \in S} # {}
    BY <1>0
  <2>. QED
    BY <2>1, LeastNat
<1>. DEFINE S1 == {x \in S : slack(x) = m}
<1>2. PICK r \in {Cap - pages[x].used : x \in S1} : \A y \in {Cap - pages[x].used : x \in S1} : r <= y
  <2>1. {Cap - pages[x].used : x \in S1} \in SUBSET Nat
    BY <1>0, PoolAssumption
  <2>2. {Cap - pages[x].used : x \in S1} # {}
    BY <1>1
  <2>. QED
    BY <2>1, <2>2, LeastNat
<1>. DEFINE S2 == {x \in S1 : Cap - pages[x].used = r}
<1>3. PICK p \in S2 : \A y \in S2 : p <= y
  <2>1. S2 \in SUBSET Nat /\ S2 # {}
    BY <1>0, <1>2
  <2>. QED
    BY <2>1, LeastNat
<1>4. ASSUME NEW q \in S \ {p} PROVE Better(pages, n, p, q)
  <2>1. slack(p) = m /\ m <= slack(q) /\ slack(p) \in Nat /\ slack(q) \in Nat
    BY <1>0, <1>1
  <2>2. slack(q) = m => pages[p].used >= pages[q].used
    <3>1. slack(q) = m => r <= Cap - pages[q].used
      BY <1>2
    <3>2. Cap - pages[p].used = r
      OBVIOUS
    <3>3. /\ pages[p].used \in Nat /\ pages[p].used <= Cap
          /\ pages[q].used \in Nat /\ pages[q].used <= Cap
      BY <1>0
    <3>. QED
      BY <3>1, <3>2, <3>3, PoolAssumption
  <2>3. (slack(q) = m /\ pages[p].used = pages[q].used) => p <= q
    BY <1>3
  <2>. QED
    BY <1>0, <2>1, <2>2, <2>3 DEF Better
<1>5. \E x \in S : \A q \in S \ {x} : Better(pages, n, x, q)
  BY <1>4
<1>. QED
  BY <1>5 DEF Best

\* While the counter is exact the planner never answers "invalid": it uses a page
\* of the class, or asks for a new one, or borrows, or there is no tail at all.
LEMMA PlanSound ==
  ASSUME Typed, ResidentExact, NEW open
  PROVE  /\ PlanNow(open).kind = "existing" => PlanNow(open).page \in Tails(pages, need)
         /\ SameClass # {} => PlanNow(open).kind = "existing" /\ PlanNow(open).page \in SameClass
         /\ PlanNow(open).kind = "new" =>
              /\ open /\ SameClass = {}
              /\ Cardinality(DOMAIN pages) < MaxPages /\ CanAddPage(PageCapacity(need))
         /\ PlanNow(open).kind \notin {"existing", "new"} => Tails(pages, need) = {}
<1>. DEFINE tails == Tails(pages, need)
            fits == open /\ Cardinality(DOMAIN pages) < MaxPages /\ CanAddPage(PageCapacity(need))
<1>1. ~ (\/ SumCapacity(pages) # resident \/ resident > Cap
         \/ Cardinality(DOMAIN pages) > MaxPages
         \/ \E p \in DOMAIN pages : pages[p].used > pages[p].capacity)
  <2>1. resident <= Cap /\ Cardinality(DOMAIN pages) <= MaxPages
    BY DEF Typed, ResidentExact
  <2>2. ~ (resident > Cap)
    BY <2>1, PoolAssumption DEF Typed
  <2>3. ~ (Cardinality(DOMAIN pages) > MaxPages)
    BY <2>1, ListFinite, PoolAssumption
  <2>4. \A p \in DOMAIN pages : ~ (pages[p].used > pages[p].capacity)
    BY PoolAssumption DEF Typed, PageType
  <2>. QED
    BY <2>2, <2>3, <2>4 DEF ResidentExact
<1>2. tails \subseteq DOMAIN pages /\ SameClass \subseteq tails
  BY DEF Tails, SameClass
<1>3. /\ tails # {} => Best(pages, need, tails) \in tails
      /\ SameClass # {} => Best(pages, need, SameClass) \in SameClass
  BY <1>2, BestIsIn
<1>4. PlanNow(open) =
        IF SameClass # {}
        THEN [kind |-> "existing", page |-> Best(pages, need, SameClass)]
        ELSE IF fits THEN [kind |-> "new", page |-> NoPage]
        ELSE IF tails # {} THEN [kind |-> "existing", page |-> Best(pages, need, tails)]
        ELSE [kind |-> IF open THEN "capacity" ELSE "createBudget", page |-> NoPage]
  BY <1>1 DEF PlanNow, Plan, SameClass
<1>. QED
  BY <1>2, <1>3, <1>4

\* A page is large enough for the request it is made for.
LEMMA PageHolds ==
  ASSUME NEW n \in Nat \ {0}, CanAddPage(PageCapacity(n)), resident \in Nat
  PROVE  PageCapacity(n) \in Nat /\ n <= PageCapacity(n) /\ resident + PageCapacity(n) <= Cap
<1>1. PageCapacity(n) # 0 /\ resident <= Cap /\ PageCapacity(n) <= Cap - resident
  BY DEF CanAddPage
<1>2. PageCapacity(n) \in Nat /\ n <= PageCapacity(n)
  <2>1. CASE n <= Cap /\ n <= PageUnits
    BY <2>1, PoolAssumption DEF PageCapacity
  <2>2. CASE n <= Cap /\ ~ (n <= PageUnits)
    <3>. DEFINE a == n + PageUnits - 1
                k == a \div PageUnits
    <3>1. a \in Nat /\ PageUnits \in Nat \ {0}
      BY PoolAssumption
    <3>2. PageCapacity(n) = k * PageUnits
      BY <1>1, <2>2, PoolAssumption DEF PageCapacity
    <3>3. k \in Nat /\ a = PageUnits * k + (a % PageUnits) /\ a % PageUnits \in 0 .. PageUnits - 1
      BY <3>1
    <3>4. PICK q \in Nat : q = PageUnits * k
      BY <3>1, <3>3
    <3>5. q >= n
      BY <3>1, <3>3, <3>4
    <3>6. k * PageUnits = PageUnits * k
      BY <3>1, <3>3
    <3>. QED
      BY <3>2, <3>4, <3>5, <3>6
  <2>3. ~ (n > Cap)
    BY <1>1 DEF PageCapacity
  <2>. QED
    BY <2>1, <2>2, <2>3, PoolAssumption
<1>. QED
  BY <1>1, <1>2, PoolAssumption

-----------------------------------------------------------------------------
(* Each action preserves the invariant.                                    *)

LEMMA InitInv == ASSUME Init PROVE Inv
<1>1. /\ pages = << >> /\ DOMAIN pages = {} /\ leases = {} /\ resident = 0 /\ nextId = 1
      /\ epoch = [map |-> 1, device |-> 1] /\ gateClosed = FALSE /\ pc = "idle"
  BY DEF Init
<1>2. Cardinality({}) = 0
  BY FS_EmptySet
<1>3. pages \in [DOMAIN pages -> PageType]
  BY <1>1
<1>4. Typed
  BY <1>1, <1>2, <1>3, PoolAssumption DEF Typed, EpochType
<1>5. ResidentExact
  BY <1>1, CapacityOfNone, PoolAssumption DEF ResidentExact, SumCapacity
<1>. QED
  BY <1>1, <1>4, <1>5 DEF Inv, Asking, LeasesPast, Growing, Published, Claiming, ListedPagesLive

\* The steps that keep the page list and the epochs, and add no lease of an
\* unlisted page.
LEMMA ListKept ==
  ASSUME Inv, UNCHANGED <<pages, resident, nextId, epoch, gateClosed>>,
         \A l \in leases' \ leases : l.epoch = epoch /\ l.page \in DOMAIN pages /\ ~gateClosed
  PROVE  Typed' /\ LeasesPast' /\ ResidentExact' /\ ListedPagesLive'
<1>1. Typed'
  BY DEF Inv, Typed
<1>2. LeasesPast'
  BY DEF Inv, Typed, EpochType, LeasesPast
<1>3. ResidentExact' /\ ListedPagesLive'
  BY DEF Inv, ResidentExact, ListedPagesLive
<1>. QED
  BY <1>1, <1>2, <1>3

\* What a plan that found a page, or its failure, leaves behind.
LEMMA SettleInv ==
  ASSUME Inv, pc # "idle", NEW open, NEW reason, Settle(PlanNow(open), reason),
         UNCHANGED <<pages, resident, nextId, epoch, gateClosed, leases>>
  PROVE  Inv'
<1>1. Typed' /\ LeasesPast' /\ ResidentExact' /\ ListedPagesLive'
  BY ListKept
<1>2. CASE PlanNow(open).kind = "existing"
  <2>1. /\ pc' = "commit" /\ chosen' = PlanNow(open).page /\ UNCHANGED <<need, life>>
    BY <1>2 DEF Settle
  <2>2. PlanNow(open).page \in Tails(pages, need)
    BY <1>2, PlanSound DEF Inv
  <2>3. Claiming'
    BY <2>1, <2>2 DEF Claiming, Tails
  <2>. QED
    BY <1>1, <2>1, <2>3 DEF Inv, Asking, Growing, Published
<1>3. CASE PlanNow(open).kind # "existing"
  BY <1>1, <1>3 DEF Settle, Return, Inv, Asking, Growing, Published, Claiming
<1>. QED
  BY <1>2, <1>3

LEMMA AllocateInv ==
  ASSUME Inv, NEW n \in Sizes, NEW l \in Lifetimes, AllocateHole(n, l) \/ Allocate(n, l)
  PROVE  Inv'
<1>1. CASE AllocateHole(n, l)
  <2>. DEFINE p == Min(Recyclable(n, l))
  <2>1. p \in DOMAIN pages
    <3>1. Recyclable(n, l) \in SUBSET Nat /\ Recyclable(n, l) # {}
      BY <1>1 DEF AllocateHole, Recyclable, Inv, Typed
    <3>2. p \in Recyclable(n, l)
      BY <3>1, LeastNat DEF Min
    <3>. QED
      BY <3>2 DEF Recyclable
  <2>2. PICK o : leases' = leases \cup {Lease(p, o, n, TRUE)}
    BY <1>1 DEF AllocateHole
  <2>3. Lease(p, o, n, TRUE).epoch = epoch /\ Lease(p, o, n, TRUE).page = p
    BY DEF Lease
  <2>4. ~gateClosed /\ pc = "idle" /\ pc' = "idle" /\ UNCHANGED <<pages, resident, nextId, epoch, gateClosed>>
    BY <1>1 DEF AllocateHole, worldVars
  <2>5. Typed' /\ LeasesPast' /\ ResidentExact' /\ ListedPagesLive'
    BY <2>1, <2>2, <2>3, <2>4, ListKept
  <2>. QED
    BY <2>4, <2>5 DEF Inv, Asking, Growing, Published, Claiming
<1>2. CASE Allocate(n, l)
  <2>1. Typed' /\ LeasesPast' /\ ResidentExact' /\ ListedPagesLive'
    BY <1>2, ListKept DEF Allocate, worldVars
  <2>. QED
    BY <1>2, <2>1, PoolAssumption DEF Allocate, worldVars, Inv, Asking, Growing, Published, Claiming
<1>. QED
  BY <1>1, <1>2

LEMMA PlanInv == ASSUME Inv, PlanFirst \/ Replan \/ PlanNew PROVE Inv'
<1>1. CASE PlanFirst
  <2>1. Typed' /\ LeasesPast' /\ ResidentExact' /\ ListedPagesLive'
    BY <1>1, ListKept DEF PlanFirst, poolVars, worldVars
  <2>2. UNCHANGED <<pages, epoch, need, life, gateClosed>> /\ pc = "plan" /\ pc' \in {"commit", "collect"}
    BY <1>1 DEF PlanFirst, poolVars, worldVars
  <2>3. Asking' /\ Growing' /\ Published'
    BY <2>2 DEF Inv, Asking, Growing, Published
  <2>4. Claiming'
    <3>1. SUFFICES ASSUME pc' = "commit" PROVE chosen' \in Tails(pages, need)
      BY <2>2 DEF Claiming, Tails
    <3>2. PlanNow(mayCreate).kind = "existing" /\ chosen' = PlanNow(mayCreate).page
      BY <1>1, <3>1 DEF PlanFirst
    <3>. QED
      BY <3>2, PlanSound DEF Inv
  <2>. QED
    BY <2>1, <2>3, <2>4 DEF Inv
<1>2. CASE Replan
  <2>1. CASE PlanNow(mayCreate).kind = "new"
    <3>1. /\ UNCHANGED <<pages, resident, nextId, epoch, need, life, gateClosed, leases>>
          /\ pc # "idle" /\ pc' = "grow"
      BY <1>2, <2>1 DEF Replan, poolVars, worldVars
    <3>2. Typed' /\ LeasesPast' /\ ResidentExact' /\ ListedPagesLive'
      BY <3>1, ListKept
    <3>3. /\ SameClass = {}
          /\ Cardinality(DOMAIN pages) < MaxPages /\ CanAddPage(PageCapacity(need))
      BY <2>1, PlanSound DEF Inv
    <3>4. Growing'
      BY <3>1, <3>3 DEF Growing, SameClass, Tails, CanAddPage, PageCapacity
    <3>. QED
      BY <3>1, <3>2, <3>4 DEF Inv, Asking, Published, Claiming
  <2>2. CASE PlanNow(mayCreate).kind # "new"
    BY <1>2, <2>2, SettleInv DEF Replan, poolVars, worldVars
  <2>. QED
    BY <2>1, <2>2
<1>3. CASE PlanNew
  BY <1>3, SettleInv DEF PlanNew, poolVars, worldVars
<1>. QED
  BY <1>1, <1>2, <1>3

\* Collection takes the pages no lease is in, and their capacities, off the list.
LEMMA CollectInv == ASSUME Inv, CollectUnused PROVE Inv'
<1>. DEFINE kept == DOMAIN pages \ Unused
<1>1. /\ pages' = [p \in kept |-> pages[p]] /\ DOMAIN pages' = kept
      /\ UNCHANGED <<nextId, leases, epoch, gateClosed, need, life>>
      /\ pc = "collect" /\ pc' = "replan"
  BY DEF CollectUnused, worldVars
<1>2. /\ IsFiniteSet(DOMAIN pages) /\ Unused \in SUBSET (DOMAIN pages)
      /\ \A p \in DOMAIN pages : pages[p].capacity \in 0 .. Cap
  BY ListFinite DEF Inv, Unused
<1>3. Cardinality(kept) <= MaxPages
  <2>1. Cardinality(kept) <= Cardinality(DOMAIN pages)
    BY <1>2, FS_Subset
  <2>2. Cardinality(kept) \in Nat /\ Cardinality(DOMAIN pages) \in Nat
    BY <1>2, FS_Subset, FS_CardinalityType
  <2>. QED
    BY <2>1, <2>2, PoolAssumption DEF Inv, Typed
<1>4. SumCapacity(pages') = SumCapacity(pages) - Capacity(pages, Unused)
  <2>1. Capacity(pages', kept) = Capacity(pages, kept)
    BY <1>1, CapacityDepends
  <2>2. Capacity(pages, kept) = Capacity(pages, DOMAIN pages) - Capacity(pages, Unused)
    BY <1>2, CapacityDrops
  <2>. QED
    BY <1>1, <2>1, <2>2 DEF SumCapacity
<1>5. PICK u \in Nat : u = Capacity(pages, Unused) /\ u <= resident
  <2>1. IsFiniteSet(Unused)
    BY <1>2, FS_Subset
  <2>2. Capacity(pages, Unused) \in Nat
    BY <1>2, <2>1, CapacityFinite
  <2>3. Capacity(pages, Unused) <= Capacity(pages, DOMAIN pages)
    BY <1>2, CapacityDrops
  <2>. QED
    BY <2>2, <2>3 DEF Inv, ResidentExact, SumCapacity
<1>6. resident' = resident - u /\ resident' \in Nat /\ resident' <= Cap
  BY <1>5, PoolAssumption DEF CollectUnused, Monus, Inv, Typed, ResidentExact
<1>7. ResidentExact'
  BY <1>4, <1>5, <1>6 DEF Inv, ResidentExact
<1>8. Typed'
  BY <1>1, <1>3, <1>6 DEF Inv, Typed
<1>9. LeasesPast'
  BY <1>1 DEF Inv, LeasesPast
<1>10. ListedPagesLive'
  <2>1. \A l \in leases : l.page \in DOMAIN pages => l.page \in kept
    BY DEF Unused, LeasesOf
  <2>. QED
    BY <1>1, <2>1 DEF Inv, ListedPagesLive
<1>. QED
  BY <1>1, <1>7, <1>8, <1>9, <1>10 DEF Inv, Asking, Growing, Published, Claiming

LEMMA GrowthInv ==
  ASSUME Inv, NEW s \in Samples, GrowthRefused(s) \/ GrowthPermitted(s)
  PROVE  Inv'
<1>1. CASE GrowthRefused(s)
  BY <1>1, SettleInv DEF GrowthRefused, poolVars, worldVars
<1>2. CASE GrowthPermitted(s)
  <2>1. /\ UNCHANGED <<pages, resident, nextId, epoch, need, life, gateClosed, leases>>
        /\ pc = "grow" /\ pc' = "create"
    BY <1>2 DEF GrowthPermitted, poolVars, worldVars
  <2>2. Typed' /\ LeasesPast' /\ ResidentExact' /\ ListedPagesLive'
    BY <2>1, ListKept
  <2>3. Growing'
    BY <2>1 DEF Inv, Growing, SameClass, Tails, CanAddPage, PageCapacity
  <2>. QED
    BY <2>1, <2>2, <2>3 DEF Inv, Asking, Published, Claiming
<1>. QED
  BY <1>1, <1>2

LEMMA NoPageInv ==
  ASSUME Inv, NEW refusing, NEW h, NoPageCreated(refusing, h)
  PROVE  Inv'
  BY SettleInv DEF NoPageCreated, worldVars

\* Publication files one page more, counts it, and no older one of its class serves.
LEMMA PublishInv ==
  ASSUME Inv, NEW h, NEW s, CreatePublished(h, s)
  PROVE  Inv'
<1>. DEFINE list == DOMAIN pages
            c == PageCapacity(need)
<1>1. /\ pc = "create" /\ pc' = "planNew" /\ nextId' = nextId + 1 /\ resident' = resident + c
      /\ UNCHANGED <<leases, epoch, gateClosed, need, life>>
      /\ pages' = [p \in list \cup {nextId} |-> IF p = nextId THEN NewPage ELSE pages[p]]
  BY DEF CreatePublished, worldVars
<1>2. /\ need \in Nat \ {0} /\ life \in Lifetimes /\ ~gateClosed
      /\ SameClass = {} /\ Cardinality(list) < MaxPages /\ CanAddPage(c)
  BY <1>1 DEF Inv, Asking, Growing
<1>3. c \in Nat /\ need <= c /\ resident + c <= Cap /\ c <= Cap
  BY <1>2, PageHolds, PoolAssumption DEF Inv, Typed
<1>4. nextId \notin list
  BY DEF Inv, Typed
<1>5. /\ pages' = [p \in list \cup {nextId} |-> IF p = nextId THEN NewPage ELSE pages[p]]
      /\ DOMAIN pages' = list \cup {nextId}
  BY <1>1
<1>6. /\ NewPage \in PageType /\ NewPage.used = 0 /\ NewPage.capacity = c
      /\ NewPage.epoch = epoch /\ NewPage.life = life
  BY <1>2, <1>3, PoolAssumption DEF NewPage, PageType, Inv, Typed
<1>7. /\ pages'[nextId] = NewPage
      /\ \A p \in list : pages'[p] = pages[p]
  BY <1>4, <1>5
<1>8. Typed'
  <2>1. Cardinality(list \cup {nextId}) <= MaxPages
    <3>1. PICK n \in Nat : n = Cardinality(list)
      BY ListFinite DEF Inv
    <3>2. Cardinality(list \cup {nextId}) = n + 1
      BY <1>4, <3>1, ListFinite, FS_AddElement DEF Inv
    <3>3. n < MaxPages
      BY <1>2, <3>1
    <3>. QED
      BY <3>2, <3>3, PoolAssumption
  <2>2. pages' \in [DOMAIN pages' -> PageType]
    BY <1>5, <1>6 DEF Inv, Typed
  <2>3. \A p \in DOMAIN pages' : pages'[p].used <= pages'[p].capacity
    BY <1>3, <1>5, <1>6, <1>7 DEF Inv, Typed
  <2>4. nextId' \in Nat \ {0} /\ DOMAIN pages' \subseteq 1 .. nextId' - 1
    BY <1>1, <1>5 DEF Inv, Typed
  <2>5. resident' \in Nat
    BY <1>1, <1>3 DEF Inv, Typed
  <2>. QED
    BY <1>1, <1>5, <2>1, <2>2, <2>3, <2>4, <2>5 DEF Inv, Typed
<1>9. ResidentExact'
  <2>1. \A q \in list \cup {nextId} : pages'[q].capacity \in 0 .. Cap
    BY <1>3, <1>6, <1>7, ListFinite, PoolAssumption DEF Inv
  <2>2. Capacity(pages', list \cup {nextId}) = Capacity(pages', list) + pages'[nextId].capacity
    BY <1>4, <2>1, ListFinite, CapacityGains DEF Inv
  <2>3. Capacity(pages', list) = Capacity(pages, list)
    BY <1>7, CapacityDepends
  <2>. QED
    BY <1>1, <1>3, <1>5, <1>6, <1>7, <2>2, <2>3 DEF Inv, ResidentExact, SumCapacity
<1>10. Published'
  <2>1. \A p \in list : ~ (pages[p].life = life /\ p \in Tails(pages, need))
    BY <1>2 DEF SameClass, Tails
  <2>2. \A p \in list : p \in Tails(pages', need') <=> p \in Tails(pages, need)
    BY <1>1, <1>5, <1>7 DEF Tails
  <2>3. nextId \in Tails(pages', need')
    BY <1>1, <1>3, <1>5, <1>6, <1>7, <1>2 DEF Tails, TailFits
  <2>4. SameClass' = {nextId}
    BY <1>1, <1>5, <1>6, <1>7, <2>1, <2>2, <2>3 DEF SameClass, Tails
  <2>5. nextId' - 1 = nextId
    BY <1>1 DEF Inv, Typed
  <2>. QED
    BY <2>4, <2>5 DEF Published
<1>11. LeasesPast' /\ ListedPagesLive'
  BY <1>1, <1>5, <1>6, <1>7 DEF Inv, LeasesPast, ListedPagesLive
<1>. QED
  BY <1>1, <1>2, <1>8, <1>9, <1>10, <1>11 DEF Inv, Asking, Growing, Claiming

\* The cursor stays inside the page the plan chose.
LEMMA CommitInv == ASSUME Inv, Commit PROVE Inv'
<1>1. PICK tracked \in BOOLEAN :
        /\ leases' = leases \cup {Lease(chosen, pages[chosen].used, need, tracked)}
        /\ pages' = [pages EXCEPT ![chosen].used = @ + need, ![chosen].sealed = @ \/ ~tracked]
  <2>. DEFINE tracked == Cardinality({l \in LeasesOf(chosen) : l.leased}) < Slots
  <2>1. tracked \in BOOLEAN
    OBVIOUS
  <2>. QED
    BY <2>1 DEF Commit
<1>2. /\ pc = "commit" /\ pc' = "idle" /\ UNCHANGED <<resident, nextId, epoch, gateClosed>>
      /\ ~gateClosed /\ need \in Nat \ {0}
      /\ chosen \in DOMAIN pages /\ TailFits(pages[chosen].used, pages[chosen].capacity, need)
  BY DEF Commit, Return, worldVars, Inv, Asking, Claiming, Tails
<1>3. /\ DOMAIN pages' = DOMAIN pages
      /\ \A p \in DOMAIN pages \ {chosen} : pages'[p] = pages[p]
  BY <1>1
<1>4. pages[chosen] \in PageType
  BY <1>2 DEF Inv, Typed
<1>5. /\ pages'[chosen] = [pages[chosen] EXCEPT !.used = @ + need, !.sealed = @ \/ ~tracked]
      /\ pages'[chosen].capacity = pages[chosen].capacity
      /\ pages'[chosen].used = pages[chosen].used + need
      /\ pages'[chosen].epoch = pages[chosen].epoch
  BY <1>1, <1>2, <1>4 DEF PageType, Inv, Typed
<1>6. /\ pages'[chosen].used \in 0 .. Cap
      /\ pages'[chosen].used <= pages'[chosen].capacity
  BY <1>2, <1>4, <1>5, PoolAssumption DEF PageType, TailFits
<1>7. pages'[chosen] \in PageType
  <2>1. (pages[chosen].sealed \/ ~tracked) \in BOOLEAN
    OBVIOUS
  <2>. QED
    BY <1>4, <1>5, <1>6, <2>1 DEF PageType
<1>8. Typed'
  <2>1. pages' \in [DOMAIN pages' -> PageType]
    BY <1>1, <1>3, <1>7 DEF Inv, Typed
  <2>2. \A l \in leases' : l.epoch \in EpochType
    BY <1>1 DEF Lease, Inv, Typed
  <2>3. \A p \in DOMAIN pages' : pages'[p].used <= pages'[p].capacity
    BY <1>3, <1>6 DEF Inv, Typed
  <2>. QED
    BY <1>2, <1>3, <2>1, <2>2, <2>3 DEF Inv, Typed
<1>9. ResidentExact'
  <2>0. \A p \in DOMAIN pages : pages'[p].capacity = pages[p].capacity
    BY <1>3, <1>5
  <2>1. Capacity(pages', DOMAIN pages) = Capacity(pages, DOMAIN pages)
    BY <2>0, CapacityDepends
  <2>2. SumCapacity(pages') = SumCapacity(pages)
    BY <1>3, <2>1 DEF SumCapacity
  <2>. QED
    BY <1>2, <2>2 DEF Inv, ResidentExact
<1>10. LeasesPast' /\ ListedPagesLive'
  <2>1. \A l \in leases' \ leases : l.epoch = epoch /\ l.page = chosen
    BY <1>1 DEF Lease
  <2>2. LeasesPast'
    BY <1>2, <2>1 DEF Inv, Typed, EpochType, LeasesPast
  <2>3. ListedPagesLive'
    BY <1>2, <1>3, <1>5, <2>1 DEF Inv, ListedPagesLive
  <2>. QED
    BY <2>2, <2>3
<1>. QED
  BY <1>2, <1>8, <1>9, <1>10 DEF Inv, Asking, Growing, Published, Claiming

LEMMA ReleaseInv == ASSUME Inv, NEW l \in leases, Release(l) PROVE Inv'
<1>1. Typed' /\ LeasesPast' /\ ResidentExact' /\ ListedPagesLive'
  BY ListKept DEF Release, poolVars, worldVars
<1>. QED
  BY <1>1 DEF Release, poolVars, worldVars, allocVars, Inv, Asking, Growing, Published, Claiming,
     SameClass, Tails, CanAddPage, PageCapacity

\* Between two allocations: the next frame and the epochs.
LEMMA EpochInv ==
  ASSUME Inv, NextFrame \/ MapTransition \/ DeviceCommit \/ DeviceTransition
  PROVE  Inv'
<1>1. pc = "idle" /\ pc' = "idle" /\ leases' = leases
  BY DEF NextFrame, MapTransition, DeviceCommit, DeviceTransition, ForgetPages, allocVars
<1>2. Asking' /\ Growing' /\ Published' /\ Claiming'
  BY <1>1 DEF Asking, Growing, Published, Claiming
<1>3. CASE NextFrame
  BY <1>2, <1>3, ListKept DEF NextFrame, poolVars, Inv
<1>4. ASSUME ForgetPages, epoch' \in EpochType PROVE Typed' /\ ResidentExact' /\ DOMAIN pages' = {}
  <2>1. pages' = << >> /\ DOMAIN pages' = {} /\ resident' = 0 /\ nextId' = nextId
    BY <1>4 DEF ForgetPages
  <2>2. pages' \in [DOMAIN pages' -> PageType] /\ Cardinality({}) = 0
    BY <2>1, FS_EmptySet
  <2>. QED
    BY <1>1, <1>4, <2>1, <2>2, CapacityOfNone, PoolAssumption
       DEF Inv, Typed, ResidentExact, SumCapacity
<1>5. CASE MapTransition
  <2>1. /\ epoch' \in EpochType /\ epoch'.map = epoch.map + 1 /\ epoch'.device = epoch.device
        /\ ForgetPages /\ gateClosed' = FALSE
    BY <1>5 DEF MapTransition, Inv, Typed, EpochType
  <2>2. LeasesPast' /\ \A l \in leases : l.epoch # epoch'
    BY <1>1, <2>1 DEF Inv, Typed, EpochType, LeasesPast
  <2>. QED
    BY <1>1, <1>2, <1>4, <2>1, <2>2 DEF Inv, ListedPagesLive
<1>6. CASE DeviceCommit
  <2>1. /\ epoch' \in EpochType /\ epoch'.map = epoch.map /\ epoch'.device = epoch.device + 1
        /\ gateClosed' = TRUE /\ UNCHANGED <<pages, resident, nextId>>
    BY <1>6 DEF DeviceCommit, poolVars, Inv, Typed, EpochType
  <2>2. LeasesPast'
    BY <1>1, <2>1 DEF Inv, Typed, EpochType, LeasesPast
  <2>. QED
    BY <1>1, <1>2, <2>1, <2>2 DEF Inv, Typed, ResidentExact, ListedPagesLive
<1>7. CASE DeviceTransition
  <2>1. ForgetPages /\ gateClosed /\ gateClosed' = FALSE /\ epoch' = epoch
    BY <1>7 DEF DeviceTransition
  <2>2. LeasesPast' /\ \A l \in leases : l.epoch # epoch'
    BY <1>1, <2>1 DEF Inv, Typed, EpochType, LeasesPast
  <2>. QED
    BY <1>1, <1>2, <1>4, <2>1, <2>2 DEF Inv, Typed, ListedPagesLive
<1>. QED
  BY <1>3, <1>5, <1>6, <1>7

LEMMA NextInv == ASSUME Inv, [Next]_vars PROVE Inv'
<1>1. CASE UNCHANGED vars
  BY <1>1 DEF vars, poolVars, worldVars, allocVars, Inv, Typed, Asking, LeasesPast, Growing,
     Published, Claiming, ResidentExact, ListedPagesLive, SameClass, Tails, CanAddPage, PageCapacity
<1>2. CASE \E h \in Heaps \cup {NoHeap}, s \in Samples :
        CreateRejected(h, s) \/ PublishFails(h, s) \/ CreatePublished(h, s)
  BY <1>2, NoPageInv, PublishInv DEF CreateRejected, PublishFails
<1>3. CASE CreateThrows \/ CreateWithoutStorage
  BY <1>3, NoPageInv DEF CreateThrows, CreateWithoutStorage
<1>. QED
  BY <1>1, <1>2, <1>3, AllocateInv, PlanInv, CollectInv, GrowthInv, CommitInv, ReleaseInv, EpochInv
     DEF Next

-----------------------------------------------------------------------------
(* The theorems.                                                           *)

\* List, leases, counter and the request under way agree in every reachable state.
THEOREM Invariance == Spec => []Inv
  BY InitInv, NextInv, PTL DEF Spec

\* The resident counter, kept in three places, is the sum of the listed pages and
\* never passes the cap, whatever the budget reports and whichever creation fails.
THEOREM AccountingExact == Spec => []ResidentExact
<1>1. Inv => ResidentExact
  BY DEF Inv
<1>. QED
  BY <1>1, Invariance, PTL

\* A page with an interval of the current epoch is on the list, and while producers
\* are admitted every listed page is of the current map and device epochs.
THEOREM NoPageCollectedInUse == Spec => []ListedPagesLive
<1>1. Inv => ListedPagesLive
  BY DEF Inv
<1>. QED
  BY <1>1, Invariance, PTL

\* What a plan may answer when it is the last one of a request.
LEMMA SettleFails ==
  ASSUME Inv, NEW open, NEW reason, Settle(PlanNow(open), reason), pages' = pages,
         pc' = "idle", ~open \/ PlanNow(open).kind # "new"
  PROVE  Tails(pages', need) = {}
<1>1. PlanNow(open).kind # "existing"
  BY DEF Settle
<1>2. PlanNow(open).kind # "new"
  BY PlanSound DEF Inv
<1>. QED
  BY <1>1, <1>2, PlanSound DEF Inv

\* A request fails only when no listed page of the current epoch has room for it:
\* no refusal or failed creation discards a tail the planner could have borrowed.
THEOREM FailsOnlyWithoutTail == Spec => NoLegalTailOmitted
<1>1. ASSUME Inv, Next, outcome' \in Failures, pc # "idle", pc' = "idle"
      PROVE  Tails(pages', need) = {}
  <2>1. CASE Replan
    <3>1. PlanNow(mayCreate).kind # "new" /\ Settle(PlanNow(mayCreate), PlanNow(mayCreate).kind)
      BY <1>1, <2>1 DEF Replan
    <3>. QED
      BY <1>1, <2>1, <3>1, SettleFails DEF Replan, poolVars
  <2>2. CASE PlanNew
    BY <1>1, <2>2, SettleFails DEF PlanNew, poolVars
  <2>3. ASSUME NEW s \in Samples, GrowthRefused(s) PROVE Tails(pages', need) = {}
    BY <1>1, <2>3, SettleFails DEF GrowthRefused, poolVars
  <2>4. ASSUME NEW refusing, NEW h, NoPageCreated(refusing, h) PROVE Tails(pages', need) = {}
    BY <1>1, <2>4, SettleFails DEF NoPageCreated
  <2>5. ~Commit
    BY <1>1 DEF Commit, Return, Failures
  <2>6. ~PlanFirst /\ ~CollectUnused /\ \A s \in Samples : ~GrowthPermitted(s)
    BY <1>1 DEF PlanFirst, CollectUnused, GrowthPermitted
  <2>7. \A n \in Sizes, l \in Lifetimes : ~AllocateHole(n, l) /\ ~Allocate(n, l)
    BY <1>1 DEF AllocateHole, Allocate
  <2>8. \A l \in leases : ~Release(l)
    BY <1>1 DEF Release, allocVars
  <2>9. ~NextFrame /\ ~MapTransition /\ ~DeviceCommit /\ ~DeviceTransition
    BY <1>1 DEF NextFrame, MapTransition, DeviceCommit, DeviceTransition
  <2>10. \A h, s : ~CreatePublished(h, s)
    BY <1>1 DEF CreatePublished
  <2>. QED
    BY <1>1, <2>1, <2>2, <2>3, <2>4, <2>5, <2>6, <2>7, <2>8, <2>9, <2>10
       DEF Next, CreateThrows, CreateWithoutStorage, CreateRejected, PublishFails
<1>2. ASSUME Inv, [Next]_vars
      PROVE  [(outcome' \in Failures /\ pc # "idle" /\ pc' = "idle") => Tails(pages', need) = {}]_vars
  BY <1>1, <1>2
<1>. QED
  BY <1>2, Invariance, PTL DEF Spec, NoLegalTailOmitted

\* After a publication the plan finds the new page, and only that page, and the
\* request is served by it.
THEOREM PublishedPageServes == Spec => CreatedPageServes
<1>1. ASSUME Inv, Next, pc = "planNew"
      PROVE  pc' \in {"planNew", "commit"} /\ (pc' = "commit" => chosen' = nextId - 1)
  <2>1. CASE PlanNew
    <3>1. SameClass = {nextId - 1}
      BY <1>1 DEF Inv, Published
    <3>2. PlanNow(FALSE).kind = "existing" /\ PlanNow(FALSE).page \in SameClass
      BY <1>1, <3>1, PlanSound DEF Inv
    <3>. QED
      BY <2>1, <3>1, <3>2 DEF PlanNew, Settle
  <2>2. CASE \E l \in leases : Release(l)
    BY <1>1, <2>2 DEF Release, allocVars
  <2>3. ~PlanFirst /\ ~CollectUnused /\ ~Replan /\ ~Commit /\ \A s \in Samples : ~GrowthPermitted(s)
    BY <1>1 DEF PlanFirst, CollectUnused, Replan, Commit, GrowthPermitted
  <2>4. \A s \in Samples : ~GrowthRefused(s)
    BY <1>1 DEF GrowthRefused
  <2>5. \A n \in Sizes, l \in Lifetimes : ~AllocateHole(n, l) /\ ~Allocate(n, l)
    BY <1>1 DEF AllocateHole, Allocate
  <2>6. ~NextFrame /\ ~MapTransition /\ ~DeviceCommit /\ ~DeviceTransition
    BY <1>1 DEF NextFrame, MapTransition, DeviceCommit, DeviceTransition
  <2>7. \A x, h, s : ~NoPageCreated(x, h) /\ ~CreatePublished(h, s)
    BY <1>1 DEF NoPageCreated, CreatePublished
  <2>. QED
    BY <1>1, <2>1, <2>2, <2>3, <2>4, <2>5, <2>6, <2>7
       DEF Next, CreateThrows, CreateWithoutStorage, CreateRejected, PublishFails
<1>2. ASSUME Inv, [Next]_vars
      PROVE  [pc = "planNew" => pc' \in {"planNew", "commit"} /\ (pc' = "commit" => chosen' = nextId - 1)]_vars
  BY <1>1, <1>2
<1>. QED
  BY <1>2, Invariance, PTL DEF Spec, CreatedPageServes
=============================================================================
