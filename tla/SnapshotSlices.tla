--------------------------- MODULE SnapshotSlices ---------------------------
(***************************************************************************)
(* One Stage 11 snapshot page: a device buffer of Capacity units that the  *)
(* render thread (the page's owner thread) suballocates, and the bounded   *)
(* table of SnapshotSlice leases that says which intervals are still in    *)
(* use.  The owner thread appends at the tail or re-uses a retired hole;   *)
(* the threads in Releasers (CS thread, submission/completion thread, the  *)
(* owner itself) drop lease references concurrently, and the last drop     *)
(* runs the multi-step decRef that gives the slot back.                    *)
(*                                                                         *)
(* Every atomic load/store another thread can observe is a step of its     *)
(* own: the scan of findHole reads one slot per step, the probe of claim   *)
(* reads one slot per step, and decRef's last part is three steps.         *)
(* Units are 256-byte granules (module SnapshotGeometry).                   *)
(***************************************************************************)
EXTENDS SnapshotGeometry

CONSTANTS
  Slots,        \* number of lease slots in the page's table (2048 in the code)
  Capacity,     \* page size, in granules
  Sizes,        \* request sizes the captures ask for, in granules
  Releasers,    \* threads that drop lease references
  MaxRefs,      \* bound: references to one lease
  MaxRevision   \* bound: the owner starts no allocation at this revision

ASSUME SlicesAssumption ==
  /\ Slots \in Nat \ {0}
  /\ Capacity \in Nat \ {0}
  /\ Sizes \subseteq Nat \ {0}
  /\ MaxRefs \in Nat \ {0}
  /\ MaxRevision \in Nat

SlotIds == 0 .. Slots - 1

VARIABLES
  available,      \* m_available of every slot
  refs,           \* m_refs
  owner,          \* m_owner is set, i.e. the slot keeps the page alive
  offset, size,   \* the interval a slot stands for
  hint,           \* m_hint
  revision,       \* m_revision
  failedBytes, failedRevision,   \* findHole's negative cache
  used,           \* append cursor of the page
  sealed,         \* sliceRecyclingSealed
  untracked,      \* live intervals appended without a lease
  pooled,         \* the device's page list still holds the page
  pc, kind, bytes, target, seen, scan, spans, tries,
                  \* the owner thread inside War3AllocateStage11Snapshot
  rel, relSlot, keep,
                  \* a releaser inside decRef: its step, its slot, and
                  \* whether its local "owner" pointer holds the page
  straddled       \* history: some hole was granted past the append cursor

tableVars == <<available, refs, owner, offset, size, hint, revision>>
cacheVars == <<failedBytes, failedRevision>>
pageVars  == <<used, sealed, untracked, pooled, straddled>>
ownerVars == <<pc, kind, bytes, target, seen, scan, spans, tries>>
relVars   == <<rel, relSlot, keep>>
vars == <<tableVars, cacheVars, pageVars, ownerVars, relVars>>

SliceOf(s) == Interval(offset[s], size[s])

-----------------------------------------------------------------------------
(* Pure parts of the allocation decision.                                  *)

\* SnapshotSliceTable::hasSlot.  Only the owner thread takes slots, so within
\* one call availability can only grow and one instant stands for the scan.
HasSlot == \E s \in SlotIds : available[s]

\* The negative cache answers "no hole" without a scan.
NegativeHit(n) ==
  /\ failedBytes # 0
  /\ failedRevision = revision
  /\ n >= failedBytes

\* std::shared_ptr use_count of the page, as far as it is ever compared: is
\* anything besides the device's page list keeping the page?
SharedPage ==
  \/ \E s \in SlotIds : owner[s]
  \/ \E t \in Releasers : keep[t]
  \/ untracked # {}

PageAlive == pooled \/ SharedPage

-----------------------------------------------------------------------------
(* A page as War3PublishStage11SnapshotPage adds it to the pool.           *)
Init ==
  /\ available = [s \in SlotIds |-> TRUE]
  /\ refs = [s \in SlotIds |-> 0]
  /\ owner = [s \in SlotIds |-> FALSE]
  /\ offset = [s \in SlotIds |-> 0]
  /\ size = [s \in SlotIds |-> 0]
  /\ hint = 0 /\ revision = 0
  /\ failedBytes = 0 /\ failedRevision = 0
  /\ used = 0 /\ sealed = FALSE /\ untracked = {} /\ pooled = TRUE
  /\ straddled = FALSE
  /\ pc = "idle" /\ kind = "tail" /\ bytes = 0 /\ target = 0
  /\ seen = 0 /\ scan = 0 /\ spans = {} /\ tries = 0
  /\ rel = [t \in Releasers |-> "idle"]
  /\ relSlot = [t \in Releasers |-> 0]
  /\ keep = [t \in Releasers |-> FALSE]

-----------------------------------------------------------------------------
(* The owner thread: War3AllocateStage11Snapshot on this page.             *)

\* Mutant: a page that lost track of an interval still recycles holes.
BeginHoleIgnoringSeal(n) ==
  /\ pc = "idle" /\ pooled /\ revision < MaxRevision
  /\ HasSlot /\ ~TailFits(used, Capacity, n)
  /\ n <= Capacity /\ ~NegativeHit(n)
  /\ pc' = "scan" /\ bytes' = n /\ seen' = revision
  /\ scan' = 0 /\ spans' = {}
  /\ UNCHANGED <<tableVars, cacheVars, pageVars, relVars, kind, target, tries>>

\* The tail cannot satisfy the request: findHole loads the revision and, past
\* its negative cache, starts the census of unavailable slots.
BeginHole(n) ==
  /\ pc = "idle" /\ pooled /\ revision < MaxRevision
  /\ ~sealed /\ HasSlot /\ ~TailFits(used, Capacity, n)
  /\ n <= Capacity /\ ~NegativeHit(n)
  /\ pc' = "scan" /\ bytes' = n /\ seen' = revision
  /\ scan' = 0 /\ spans' = {}
  /\ UNCHANGED <<tableVars, cacheVars, pageVars, relVars, kind, target, tries>>

\* One acquire load of m_available; an unavailable slot contributes its span.
ScanSlot ==
  /\ pc = "scan" /\ scan < Slots
  /\ spans' = IF available[scan] THEN spans ELSE spans \cup {SliceOf(scan)}
  /\ scan' = scan + 1
  /\ UNCHANGED <<tableVars, cacheVars, pageVars, relVars,
                 pc, kind, bytes, target, seen, tries>>

\* The first gap that fits becomes the claim's offset.
HoleFound ==
  /\ pc = "scan" /\ scan = Slots
  /\ \E o \in HolesIn(Capacity, spans, bytes) :
       /\ \A p \in HolesIn(Capacity, spans, bytes) : o <= p
       /\ target' = o
  /\ pc' = "claim" /\ kind' = "hole" /\ tries' = 0
  /\ UNCHANGED <<tableVars, cacheVars, pageVars, relVars,
                 bytes, seen, scan, spans>>

\* Mutant: the miss is recorded against the revision of now, unchecked.
HoleMissedRecordingNow ==
  /\ pc = "scan" /\ scan = Slots
  /\ HolesIn(Capacity, spans, bytes) = {}
  /\ failedRevision' = revision /\ failedBytes' = bytes
  /\ pc' = "idle"
  /\ UNCHANGED <<tableVars, pageVars, relVars,
                 kind, bytes, target, seen, scan, spans, tries>>

\* No gap: remember the miss unless a retirement changed the revision since.
HoleMissed ==
  /\ pc = "scan" /\ scan = Slots
  /\ HolesIn(Capacity, spans, bytes) = {}
  /\ IF revision = seen
     THEN failedRevision' = seen /\ failedBytes' = bytes
     ELSE UNCHANGED cacheVars
  /\ pc' = "idle"
  /\ UNCHANGED <<tableVars, pageVars, relVars,
                 kind, bytes, target, seen, scan, spans, tries>>

\* The planner chose this page's tail.
BeginAppend(n) ==
  /\ pc = "idle" /\ pooled /\ revision < MaxRevision
  /\ TailFits(used, Capacity, n)
  /\ pc' = "claim" /\ kind' = "tail" /\ bytes' = n /\ target' = used
  /\ tries' = 0
  /\ UNCHANGED <<tableVars, cacheVars, pageVars, relVars, seen, scan, spans>>

\* The slot claim looks at in its current iteration.
Probed == (hint + tries) % Slots

\* Mutant: claim takes the probed slot without looking at m_available.
SlotFreeUnchecked(s) == s \in SlotIds

SlotFree(s) == available[s]

NextHint == (Probed + 1) % Slots

\* Mutant: an append leaves the cursor where it was.
CursorStuck == used

\* An append advances the cursor; a re-used hole leaves it alone.
CursorAfter == IF kind = "tail" THEN target + bytes ELSE used

\* What a claim without a slot leaves in use: an append only.
Unleased == IF kind = "tail" THEN {Interval(target, bytes)} ELSE {}

ProbeBusy ==
  /\ pc = "claim" /\ tries < Slots
  /\ ~SlotFree(Probed)
  /\ tries' = tries + 1
  /\ UNCHANGED <<tableVars, cacheVars, pageVars, relVars,
                 pc, kind, bytes, target, seen, scan, spans>>

\* claim fills the slot with one reference, which the caller adopts.
ProbeTake ==
  /\ pc = "claim" /\ tries < Slots
  /\ SlotFree(Probed)
  /\ available' = [available EXCEPT ![Probed] = FALSE]
  /\ offset' = [offset EXCEPT ![Probed] = target]
  /\ size' = [size EXCEPT ![Probed] = bytes]
  /\ owner' = [owner EXCEPT ![Probed] = TRUE]
  /\ refs' = [refs EXCEPT ![Probed] = 1]
  /\ revision' = revision + 1
  /\ hint' = NextHint
  /\ used' = CursorAfter
  /\ straddled' = (straddled \/ (kind = "hole" /\ target + bytes > used))
  /\ pc' = "idle"
  /\ UNCHANGED <<cacheVars, sealed, untracked, pooled, relVars,
                 kind, bytes, target, seen, scan, spans, tries>>

\* Every probe missed and claim returns null.  An append stays valid without a
\* lease, and the page stops recycling; a hole is given up (`continue`).
ProbeExhausted ==
  /\ pc = "claim" /\ tries = Slots
  /\ sealed' = (sealed \/ kind = "tail")
  /\ untracked' = untracked \cup Unleased
  /\ used' = CursorAfter
  /\ pc' = "idle"
  /\ UNCHANGED <<tableVars, cacheVars, pooled, straddled, relVars,
                 kind, bytes, target, seen, scan, spans, tries>>

\* War3CollectUnusedStage11SnapshotPages: use_count() == 1.
Collect ==
  /\ pc = "idle" /\ pooled /\ ~SharedPage
  /\ pooled' = FALSE
  /\ UNCHANGED <<tableVars, cacheVars, used, sealed, untracked, straddled,
                 ownerVars, relVars>>

\* War3ResetStage11SnapshotPages: the list lets go of a page still in use.
Reset ==
  /\ pc = "idle" /\ pooled
  /\ pooled' = FALSE
  /\ UNCHANGED <<tableVars, cacheVars, used, sealed, untracked, straddled,
                 ownerVars, relVars>>

-----------------------------------------------------------------------------
(* References: cache entries, draws, CS closures and command lists.        *)

\* A holder copies its lease (a draw, an EmitCs closure, a tracker).
IncRef(s) ==
  /\ refs[s] > 0 /\ refs[s] < MaxRefs
  /\ refs' = [refs EXCEPT ![s] = @ + 1]
  /\ UNCHANGED <<available, owner, offset, size, hint, revision,
                 cacheVars, pageVars, ownerVars, relVars>>

\* decRef by a holder that is not the last one.
DecRefShared(s) ==
  /\ refs[s] > 1
  /\ refs' = [refs EXCEPT ![s] = @ - 1]
  /\ UNCHANGED <<available, owner, offset, size, hint, revision,
                 cacheVars, pageVars, ownerVars, relVars>>

\* Mutant: decRef lets the page pointer go before it is done.
DecRefLastDroppingPage(t, s) ==
  /\ rel[t] = "idle" /\ refs[s] = 1
  /\ refs' = [refs EXCEPT ![s] = 0]
  /\ owner' = [owner EXCEPT ![s] = FALSE]
  /\ rel' = [rel EXCEPT ![t] = "advertise"]
  /\ relSlot' = [relSlot EXCEPT ![t] = s]
  /\ UNCHANGED <<available, offset, size, hint, revision,
                 cacheVars, pageVars, ownerVars, keep>>

\* decRef by the last holder: fetch_sub, then m_owner moves into a local.
DecRefLast(t, s) ==
  /\ rel[t] = "idle" /\ refs[s] = 1
  /\ refs' = [refs EXCEPT ![s] = 0]
  /\ owner' = [owner EXCEPT ![s] = FALSE]
  /\ keep' = [keep EXCEPT ![t] = owner[s]]
  /\ rel' = [rel EXCEPT ![t] = "advertise"]
  /\ relSlot' = [relSlot EXCEPT ![t] = s]
  /\ UNCHANGED <<available, offset, size, hint, revision,
                 cacheVars, pageVars, ownerVars>>

\* m_available.store(true)
Advertise(t) ==
  /\ rel[t] = "advertise"
  /\ available' = [available EXCEPT ![relSlot[t]] = TRUE]
  /\ rel' = [rel EXCEPT ![t] = "bump"]
  /\ UNCHANGED <<refs, owner, offset, size, hint, revision,
                 cacheVars, pageVars, ownerVars, relSlot, keep>>

\* revision->fetch_add(1); the local owner dies on return.
Bump(t) ==
  /\ rel[t] = "bump"
  /\ revision' = revision + 1
  /\ keep' = [keep EXCEPT ![t] = FALSE]
  /\ rel' = [rel EXCEPT ![t] = "idle"]
  /\ UNCHANGED <<available, refs, owner, offset, size, hint,
                 cacheVars, pageVars, ownerVars, relSlot>>

\* A cache entry whose interval has no lease lets go of its page pointer.
DropUntracked(i) ==
  /\ untracked' = untracked \ {i}
  /\ UNCHANGED <<tableVars, cacheVars, used, sealed, pooled, straddled,
                 ownerVars, relVars>>

-----------------------------------------------------------------------------
OwnerStep ==
  \/ ScanSlot \/ HoleFound \/ HoleMissed
  \/ ProbeBusy \/ ProbeTake \/ ProbeExhausted

ReleaserStep(t) == Advertise(t) \/ Bump(t)

Next ==
  \/ \E n \in Sizes : BeginHole(n) \/ BeginAppend(n)
  \/ OwnerStep
  \/ Collect \/ Reset
  \/ \E s \in SlotIds : IncRef(s) \/ DecRefShared(s)
  \/ \E t \in Releasers, s \in SlotIds : DecRefLast(t, s)
  \/ \E t \in Releasers : ReleaserStep(t)
  \/ \E i \in untracked : DropUntracked(i)

Spec == Init /\ [][Next]_vars

-----------------------------------------------------------------------------
(* Properties.                                                             *)

IntervalType == [begin : Nat, end : Nat]

\* Type invariant of the page, its table, the owner thread and the releasers.
TypeOK ==
  /\ available \in [SlotIds -> BOOLEAN]
  /\ refs \in [SlotIds -> Nat]
  /\ owner \in [SlotIds -> BOOLEAN]
  /\ offset \in [SlotIds -> Nat] /\ size \in [SlotIds -> Nat]
  /\ hint \in SlotIds /\ revision \in Nat
  /\ failedBytes \in Nat /\ failedRevision \in Nat
  /\ used \in Nat /\ sealed \in BOOLEAN /\ pooled \in BOOLEAN
  /\ straddled \in BOOLEAN
  /\ untracked \subseteq IntervalType
  /\ pc \in {"idle", "scan", "claim"} /\ kind \in {"tail", "hole"}
  /\ bytes \in Nat /\ target \in Nat /\ seen \in Nat
  /\ scan \in 0 .. Slots /\ tries \in 0 .. Slots
  /\ spans \subseteq IntervalType
  /\ rel \in [Releasers -> {"idle", "advertise", "bump"}]
  /\ relSlot \in [Releasers -> SlotIds]
  /\ keep \in [Releasers -> BOOLEAN]

Live(s) == refs[s] > 0

\* The live intervals of the page, leased or not.
Leased == {s \in SlotIds : Live(s)}

\* A hole about to be handed out by findHole overlaps no interval that a live
\* lease or an unleased append still stands for, although the census read the
\* slots one at a time while other threads were releasing them.
HoleIsRetired ==
  pc = "claim" /\ kind = "hole" =>
    /\ \A s \in Leased : Disjoint(Interval(target, bytes), SliceOf(s))
    /\ \A i \in untracked : Disjoint(Interval(target, bytes), i)

\* A miss remembered by findHole's negative cache is true of the table
\* whenever no releaser stands between advertising its slot and bumping the
\* revision: a retirement is never hidden for longer than its own decRef.
NegativeCacheSound ==
  (/\ pc = "idle"
   /\ failedBytes # 0 /\ failedRevision = revision
   /\ \A t \in Releasers : rel[t] # "bump")
  => HolesIn(Capacity, {SliceOf(s) : s \in {x \in SlotIds : ~available[x]}}, failedBytes) = {}

\* decRef touches the slot and the revision counter inside the page until it
\* returns, so the page must outlive every thread inside decRef even when the
\* device's list drops the page meanwhile (Collect, Reset).
PageOutlivesReleasers ==
  \A t \in Releasers : rel[t] # "idle" => PageAlive

\* Every interval in use lies inside the page's buffer.
InsidePage ==
  /\ used <= Capacity
  /\ \A s \in Leased : offset[s] + size[s] <= Capacity
  /\ \A i \in untracked : i.end <= Capacity

\* "A distinct, immutable logical range for every cache entry": no two
\* intervals in use overlap.
DistinctRanges ==
  /\ \A s, r \in Leased : s # r => Disjoint(SliceOf(s), SliceOf(r))
  /\ \A s \in Leased : \A i \in untracked : Disjoint(SliceOf(s), i)
  /\ \A i, j \in untracked : i # j => Disjoint(i, j)

\* Ranges stay distinct as long as no hole was granted past the append cursor
\* (the cursor War3AllocateStage11Snapshot leaves behind when it re-uses a
\* hole): appends, re-use below the cursor, sealing and concurrent releases
\* never make two intervals in use overlap.
DistinctUnlessStraddled == ~straddled => DistinctRanges

\* The interval a lease stands for never changes while anyone holds it.
LeaseIsImmutable ==
  [][\A s \in SlotIds :
       Live(s) => offset'[s] = offset[s] /\ size'[s] = size[s]]_vars

=============================================================================
