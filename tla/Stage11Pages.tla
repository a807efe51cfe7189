---------------------------- MODULE Stage11Pages ----------------------------
(***************************************************************************)
(* The pool of Stage 11 snapshot pages: War3AllocateStage11Snapshot over   *)
(* all pages of the device, one action per decision the render thread      *)
(* takes on the way, with leases being released by other threads at any    *)
(* point in between.  A page's lease table is abstracted to the set of its *)
(* live intervals and a slot count; SnapshotSlices has its atomic steps.   *)
(***************************************************************************)
EXTENDS SnapshotGeometry, AdaptiveBudget, FiniteSets, FiniteSetsExt

CONSTANTS
  PageUnits,      \* kWar3Stage11SnapshotPageBytes
  Cap,            \* snapshotResidentCap, the hard cap of the pool
  FallbackCap,    \* kWar3Stage11SnapshotResidentCapBytes
  MaxPages,       \* page vector limit
  Slots,          \* lease slots of a page
  CreatesPerFrame,\* kShadowDrawTimeVBCacheAllocBudgetPerFrame
  Sizes, Lifetimes,
  Heaps,          \* memory heaps createBuffer may pick
  Samples,        \* driver and address-space reports the pool may see
  MaxId, MaxFrame, MaxEpoch   \* bounds: page ids, frames, sum of the two epochs

ASSUME PoolAssumption ==
  /\ PageUnits \in Nat \ {0} /\ Cap \in Nat /\ FallbackCap \in Nat
  /\ MaxPages \in Nat /\ Slots \in Nat \ {0} /\ CreatesPerFrame \in Nat
  /\ Sizes \subseteq Nat \ {0} /\ Samples \subseteq SampleType

VARIABLES
  pages,       \* the device's page list: id -> page, in order of id
  leases,      \* live intervals handed out: [page, at, epoch, leased]
  resident,    \* m_war3Stage11SnapshotResidentBytes
  nextId,      \* m_war3Stage11SnapshotNextPageId
  created, createdFrame,  \* pages made this frame, and the frame counted
  retry,       \* m_war3Stage11BudgetRetry
  heap,        \* m_war3Stage11SnapshotHeap ("none" until the first page)
  frame,       \* m_war3ShadowPersistentFrameSerial
  epoch,       \* [map, device] as published to producers
  gateClosed,  \* producers are rejected until Present applies a device epoch
  pc, need, life, mayCreate, chosen, outcome   \* the allocation under way

poolVars  == <<pages, resident, nextId, created, createdFrame, heap>>
allocVars == <<pc, need, life, mayCreate, chosen, outcome>>
worldVars == <<frame, epoch, gateClosed>>
vars == <<poolVars, leases, retry, worldVars, allocVars>>

NoHeap == "none"
NoPage == 0
NoLife == "none"

Failures == {"createBudget", "capacity", "allocation", "invalid"}

-----------------------------------------------------------------------------
LeasesOf(p) == {l \in leases : l.page = p}

Spans(p) == {l.at : l \in LeasesOf(p)}

\* The granules of the pages of S, each page counting its own.
Granules(P, S) == UNION {{p} \X (1 .. P[p].capacity) : p \in S}

Capacity(P, S) == Cardinality(Granules(P, S))

SumCapacity(P) == Capacity(P, DOMAIN P)

\* War3Stage11SnapshotPageCapacity
PageCapacity(n) ==
  IF n > Cap THEN 0
  ELSE IF n <= PageUnits THEN PageUnits
  ELSE LET count == (n + PageUnits - 1) \div PageUnits
       IN IF count > Cap \div PageUnits THEN 0 ELSE count * PageUnits

\* War3Stage11SnapshotCanAddPage
CanAddPage(n) == n # 0 /\ resident <= Cap /\ n <= Cap - resident

\* Active pages of the current epochs whose tail holds n.
Tails(P, n) ==
  {p \in DOMAIN P : P[p].epoch = epoch /\ TailFits(P[p].used, P[p].capacity, n)}

\* War3Stage11BetterPageCandidate: least slack, then furthest cursor, then
\* lowest id.
Better(P, n, p, q) ==
  LET slack(x) == P[x].capacity - P[x].used
  IN \/ slack(p) < slack(q)
     \/ slack(p) = slack(q) /\ P[p].used > P[q].used
     \/ slack(p) = slack(q) /\ P[p].used = P[q].used /\ p < q

Best(P, n, S) == CHOOSE p \in S : \A q \in S \ {p} : Better(P, n, p, q)

\* Mutant: when no page can be made the borrow of another class is forgotten.
PlanWithoutBorrow(P, open, n, l) ==
  LET tails == Tails(P, n)
      same  == {p \in tails : P[p].life = l}
  IN IF same # {} THEN [kind |-> "existing", page |-> Best(P, n, same)]
     ELSE IF ~open THEN [kind |-> "createBudget", page |-> NoPage]
     ELSE IF Cardinality(DOMAIN P) >= MaxPages \/ ~CanAddPage(PageCapacity(n))
          THEN [kind |-> "capacity", page |-> NoPage]
     ELSE [kind |-> "new", page |-> NoPage]

\* War3PlanStage11LifetimePage as its only caller configures it
\* (sameRetentionIntentOnly): a tail of the same class, a new page, a borrow
\* from another class, or the reason why not.
Plan(P, open, n, l) ==
  LET tails == Tails(P, n)
      same  == {p \in tails : P[p].life = l}
  IN IF \/ SumCapacity(P) # resident \/ resident > Cap
        \/ Cardinality(DOMAIN P) > MaxPages
        \/ \E p \in DOMAIN P : P[p].used > P[p].capacity
     THEN [kind |-> "invalid", page |-> NoPage]
     ELSE IF same # {}
     THEN [kind |-> "existing", page |-> Best(P, n, same)]
     ELSE IF open /\ Cardinality(DOMAIN P) < MaxPages /\ CanAddPage(PageCapacity(n))
     THEN [kind |-> "new", page |-> NoPage]
     ELSE IF tails # {}
     THEN [kind |-> "existing", page |-> Best(P, n, tails)]
     ELSE [kind |-> IF open THEN "capacity" ELSE "createBudget", page |-> NoPage]

PlanNow(open) == Plan(pages, open, need, life)

\* Pages whose retired intervals can serve the request: same class and epoch,
\* still recycling, a slot left, no room at the tail, and a hole.
Recyclable(n, l) ==
  {p \in DOMAIN pages :
     /\ pages[p].epoch = epoch /\ pages[p].life = l /\ ~pages[p].sealed
     /\ Cardinality({x \in LeasesOf(p) : x.leased}) < Slots
     /\ ~TailFits(pages[p].used, pages[p].capacity, n)
     /\ HolesIn(pages[p].capacity, Spans(p), n) # {}}

-----------------------------------------------------------------------------
Init ==
  /\ pages = << >> /\ leases = {} /\ resident = 0 /\ nextId = 1
  /\ created = 0 /\ createdFrame = 0 /\ retry = NoRefusal /\ heap = NoHeap
  /\ frame = 1 /\ epoch = [map |-> 1, device |-> 1] /\ gateClosed = FALSE
  /\ pc = "idle" /\ need = 0 /\ life = NoLife
  /\ mayCreate = FALSE /\ chosen = NoPage /\ outcome = "none"

Lease(p, o, n, leased) ==
  [page |-> p, at |-> Interval(o, n), epoch |-> epoch, leased |-> leased]

\* The capture path starts a new count of page creations once per frame.
CreatedNow == IF createdFrame = frame THEN created ELSE 0

\* request.pageCreateGateOpen
GateOpen == CreatedNow < CreatesPerFrame

\* A capture whose request a retired hole serves: the first such page.
AllocateHole(n, l) ==
  /\ pc = "idle" /\ ~gateClosed /\ Recyclable(n, l) # {}
  /\ LET p == Min(Recyclable(n, l))
         o == Min(HolesIn(pages[p].capacity, Spans(p), n))
     IN leases' = leases \cup {Lease(p, o, n, TRUE)}
  /\ created' = CreatedNow /\ createdFrame' = frame
  /\ outcome' = "success"
  /\ UNCHANGED <<pages, resident, nextId, heap, retry, worldVars,
                 pc, need, life, mayCreate, chosen>>

\* A capture no hole serves: look for a page, the creation gate as it stands.
Allocate(n, l) ==
  /\ pc = "idle" /\ ~gateClosed /\ Recyclable(n, l) = {}
  /\ pc' = "plan" /\ need' = n /\ life' = l
  /\ created' = CreatedNow /\ createdFrame' = frame
  /\ mayCreate' = GateOpen
  /\ chosen' = NoPage /\ outcome' = "none"
  /\ UNCHANGED <<pages, resident, nextId, heap, leases, retry, worldVars>>

\* The call returns; its locals go out of scope.
Return(result) ==
  /\ pc' = "idle" /\ outcome' = result
  /\ need' = 0 /\ life' = NoLife /\ mayCreate' = FALSE /\ chosen' = NoPage

\* Use the page a plan chose, creation being out of the question from here
\* on, or return the reason why there is none.
Settle(plan, reason) ==
  IF plan.kind = "existing"
  THEN /\ pc' = "commit" /\ chosen' = plan.page /\ mayCreate' = FALSE
       /\ UNCHANGED <<need, life, outcome>>
  ELSE Return(reason)

PlanFirst ==
  /\ pc = "plan"
  /\ LET plan == PlanNow(mayCreate)
     IN IF plan.kind = "existing"
        THEN pc' = "commit" /\ chosen' = plan.page
        ELSE pc' = "collect" /\ UNCHANGED chosen
  /\ UNCHANGED <<poolVars, leases, retry, worldVars, need, life, mayCreate, outcome>>

\* use_count() == 1
Unused == {p \in DOMAIN pages : LeasesOf(p) = {}}

\* War3CollectUnusedStage11SnapshotPages, then a second look.
CollectUnused ==
  /\ pc = "collect"
  /\ pages' = [p \in DOMAIN pages \ Unused |-> pages[p]]
  /\ resident' = Monus(resident, Capacity(pages, Unused))
  /\ pc' = "replan"
  /\ UNCHANGED <<nextId, created, createdFrame, heap, leases, retry, worldVars,
                 need, life, mayCreate, chosen, outcome>>

Replan ==
  /\ pc = "replan"
  /\ LET plan == PlanNow(mayCreate)
     IN IF plan.kind = "new"
        THEN pc' = "grow" /\ UNCHANGED <<need, life, mayCreate, chosen, outcome>>
        ELSE Settle(plan, plan.kind)
  /\ UNCHANGED <<poolVars, leases, retry, worldVars>>

PoolDecision(sample, knownHeap, held) ==
  Decide(sample, knownHeap # NoHeap, held, Cap, LesserOf(Cap, FallbackCap), PageUnits, 1)

\* The budget refuses, now or earlier in this frame: old tails still serve.
GrowthRefused(sample) ==
  LET n == PageCapacity(need)
      known == Refused(retry, frame, n)
  IN /\ pc = "grow"
     /\ known \/ ~CanGrow(PoolDecision(sample, heap, resident), resident, n)
     /\ retry' = IF known THEN retry ELSE Refuse(retry, frame, n)
     /\ LET plan == PlanNow(FALSE) IN Settle(plan, plan.kind)
     /\ UNCHANGED <<poolVars, leases, worldVars>>

GrowthPermitted(sample) ==
  /\ pc = "grow"
  /\ ~Refused(retry, frame, PageCapacity(need))
  /\ CanGrow(PoolDecision(sample, heap, resident), resident, PageCapacity(need))
  /\ pc' = "create"
  /\ UNCHANGED <<poolVars, leases, retry, worldVars, need, life, mayCreate, chosen, outcome>>

\* The one attempt made no page: remember a refusal, keep the first heap seen
\* (h is NoHeap when there was no buffer), and look at the old tails again.
NoPageCreated(refusing, h) ==
  /\ pc = "create"
  /\ retry' = IF refusing THEN Refuse(retry, frame, PageCapacity(need)) ELSE retry
  /\ heap' = IF heap = NoHeap THEN h ELSE heap
  /\ Settle(PlanNow(FALSE), "allocation")
  /\ UNCHANGED <<pages, resident, nextId, created, createdFrame, leases, worldVars>>

\* createBuffer threw DxvkBufferAllocationError on a healthy device.
CreateThrows == NoPageCreated(TRUE, NoHeap)

\* createBuffer returned a buffer without storage.
CreateWithoutStorage == NoPageCreated(FALSE, NoHeap)

\* The buffer exists; is it in the pool's heap and still within the budget?
Accepted(h, sample) ==
  LET after == PoolDecision(sample, h, resident + PageCapacity(need))
  IN /\ h # NoHeap /\ heap \in {NoHeap, h}
     /\ ~after.pressure
     /\ resident + PageCapacity(need) <= after.target

\* It is not: the unpublished buffer is dropped.
CreateRejected(h, sample) == ~Accepted(h, sample) /\ NoPageCreated(TRUE, h)

\* std::bad_alloc while publishing: nothing was committed.
PublishFails(h, sample) == Accepted(h, sample) /\ NoPageCreated(FALSE, h)

\* Mutant: the new page is filed under the other class.
NewPageOtherClass == [capacity |-> PageCapacity(need), used |-> 0,
                      life |-> CHOOSE l \in Lifetimes : l # life,
                      epoch |-> epoch, sealed |-> FALSE]

NewPage == [capacity |-> PageCapacity(need), used |-> 0, life |-> life,
            epoch |-> epoch, sealed |-> FALSE]

\* War3PublishStage11SnapshotPage, then the plan that must find the new page.
CreatePublished(h, sample) ==
  /\ pc = "create" /\ Accepted(h, sample) /\ nextId < MaxId
  /\ pages' = [p \in DOMAIN pages \cup {nextId} |-> IF p = nextId THEN NewPage ELSE pages[p]]
  /\ resident' = resident + PageCapacity(need)
  /\ nextId' = nextId + 1 /\ heap' = h
  /\ created' = created + 1
  /\ mayCreate' = FALSE
  /\ pc' = "planNew"
  /\ UNCHANGED <<createdFrame, leases, retry, worldVars, need, life, chosen, outcome>>

PlanNew ==
  /\ pc = "planNew"
  /\ LET plan == PlanNow(FALSE) IN Settle(plan, plan.kind)
  /\ UNCHANGED <<poolVars, leases, retry, worldVars>>

\* Claim the tail that was chosen; a page whose lease table is full serves
\* the request untracked and is never recycled again.
Commit ==
  LET p == chosen
      tracked == Cardinality({l \in LeasesOf(p) : l.leased}) < Slots
  IN /\ pc = "commit"
     /\ leases' = leases \cup {Lease(p, pages[p].used, need, tracked)}
     /\ pages' = [pages EXCEPT ![p].used = @ + need, ![p].sealed = @ \/ ~tracked]
     /\ Return("success")
     /\ UNCHANGED <<resident, nextId, created, createdFrame, heap, retry, worldVars>>

\* The last reference to an interval goes away: a cache entry is replaced, or
\* the command list that read it retires on another thread.
Release(l) ==
  /\ l \in leases
  /\ leases' = leases \ {l}
  /\ UNCHANGED <<poolVars, retry, worldVars, allocVars>>

-----------------------------------------------------------------------------
(* Present and device reset, between allocations of the same thread.       *)

NextFrame ==
  /\ pc = "idle" /\ frame < MaxFrame
  /\ frame' = frame + 1
  /\ UNCHANGED <<poolVars, leases, retry, epoch, gateClosed, allocVars>>

\* Mutant: the reset clears the list and not the counter.
ForgetPagesKeepTotal ==
  /\ pages' = << >> /\ heap' = NoHeap /\ retry' = NoRefusal
  /\ UNCHANGED <<resident, nextId, created, createdFrame, leases>>

\* Mutant: a transition keeps the pages of the old epoch.
KeepPages == UNCHANGED <<pages, resident, heap, retry, nextId, created, createdFrame, leases>>

\* War3ResetStage11SnapshotPages: cache entries keep their pages, the pool
\* forgets them.
ForgetPages ==
  /\ pages' = << >> /\ resident' = 0 /\ heap' = NoHeap /\ retry' = NoRefusal
  /\ UNCHANGED <<nextId, created, createdFrame, leases>>

\* A map transition subsumes a device transition that was already committed.
MapTransition ==
  /\ pc = "idle" /\ epoch.map + epoch.device < MaxEpoch
  /\ epoch' = [epoch EXCEPT !.map = @ + 1]
  /\ ForgetPages
  /\ gateClosed' = FALSE
  /\ UNCHANGED <<frame, allocVars>>

\* The GPU-skin owner publishes a new device epoch; producers are shut out.
DeviceCommit ==
  /\ pc = "idle" /\ epoch.map + epoch.device < MaxEpoch /\ ~gateClosed
  /\ epoch' = [epoch EXCEPT !.device = @ + 1]
  /\ gateClosed' = TRUE
  /\ UNCHANGED <<poolVars, leases, retry, frame, allocVars>>

DeviceTransition ==
  /\ pc = "idle" /\ gateClosed
  /\ ForgetPages
  /\ gateClosed' = FALSE
  /\ UNCHANGED <<frame, epoch, allocVars>>

-----------------------------------------------------------------------------
Next ==
  \/ \E n \in Sizes, l \in Lifetimes : AllocateHole(n, l) \/ Allocate(n, l)
  \/ PlanFirst \/ CollectUnused \/ Replan
  \/ \E s \in Samples : GrowthRefused(s) \/ GrowthPermitted(s)
  \/ CreateThrows \/ CreateWithoutStorage
  \/ \E h \in Heaps \cup {NoHeap}, s \in Samples :
       CreateRejected(h, s) \/ PublishFails(h, s) \/ CreatePublished(h, s)
  \/ PlanNew \/ Commit
  \/ \E l \in leases : Release(l)
  \/ NextFrame \/ MapTransition \/ DeviceCommit \/ DeviceTransition

Spec == Init /\ [][Next]_vars

-----------------------------------------------------------------------------
\* The scalar resident counter, kept by publication, collection and reset
\* separately, is the sum of the pages the pool lists and never passes the
\* cap: a mismatch would turn every later allocation into InvalidRange.
ResidentExact == resident = SumCapacity(pages) /\ resident <= Cap

\* Collection frees a page only when nothing holds an interval of it: every
\* interval handed out in the current epoch, to whichever cache entry or
\* command list, is in a page the pool still lists, so that its bytes are
\* counted and its page is not created again over the cap.  And after a map or
\* device epoch is published no page of an older epoch is listed while producers
\* are admitted, so nothing is suballocated from it.
ListedPagesLive ==
  ~gateClosed =>
    /\ \A l \in leases : l.epoch = epoch => l.page \in DOMAIN pages
    /\ \A p \in DOMAIN pages : pages[p].epoch = epoch

\* The code's promise that a refused, failed or rejected creation "must not
\* discard an already legal other-class tail": a request fails only when no
\* listed page of the current epoch has room for it at the tail.
NoLegalTailOmitted ==
  [][(outcome' \in Failures /\ pc # "idle" /\ pc' = "idle") => Tails(pages', need) = {}]_vars

\* A page made for a request is the page that serves it: the plan after
\* publication never picks another one, and never fails.
CreatedPageServes ==
  [][pc = "planNew" => pc' \in {"planNew", "commit"} /\ (pc' = "commit" => chosen' = nextId - 1)]_vars

=============================================================================
