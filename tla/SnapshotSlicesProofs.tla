------------------------ MODULE SnapshotSlicesProofs ------------------------
(***************************************************************************)
(* TLAPS proofs about SnapshotSlices, for every table size, page size,     *)
(* request set and set of releasing threads.                               *)
(***************************************************************************)
EXTENDS SnapshotSlices, TLAPS

(* What a lease's reference count says about its slot, at every moment of  *)
(* decRef and claim.                                                       *)
CountsAgree ==
  /\ \A s \in SlotIds : available[s] => refs[s] = 0
  /\ \A s \in SlotIds : refs[s] > 0 => owner[s]
  /\ \A t \in Releasers :
       rel[t] = "advertise" => refs[relSlot[t]] = 0 /\ ~available[relSlot[t]]
  /\ \A t, u \in Releasers :
       rel[t] = "advertise" /\ rel[u] = "advertise" /\ relSlot[t] = relSlot[u]
         => t = u

(* A thread inside decRef holds the page through its local owner pointer.  *)
ReleaserHoldsPage == \A t \in Releasers : rel[t] # "idle" => keep[t]

(* What the owner thread knows while it scans: the slots it has read and   *)
(* that are still taken are all among its spans, and no interval exists    *)
(* outside the table.                                                      *)
CensusCovers ==
  /\ ~sealed => untracked = {}
  /\ pc = "scan" =>
       /\ ~sealed /\ bytes > 0
       /\ \A s \in SlotIds : s < scan /\ ~available[s] => SliceOf(s) \in spans
  /\ pc = "claim" =>
       /\ bytes > 0 /\ target + bytes <= Capacity
       /\ kind = "tail" => target = used
       /\ kind = "hole" =>
            /\ ~sealed
            /\ \A s \in SlotIds :
                 ~available[s] => Disjoint(Interval(target, bytes), SliceOf(s))

(* Until a hole is granted past the cursor, all intervals in use lie below *)
(* the cursor and are pairwise disjoint.                                   *)
BelowCursor ==
  ~straddled =>
    /\ DistinctRanges
    /\ \A s \in Leased : offset[s] + size[s] <= used
    /\ \A i \in untracked : i.end <= used

IInv ==
  /\ TypeOK
  /\ CountsAgree
  /\ ReleaserHoldsPage
  /\ CensusCovers
  /\ InsidePage
  /\ BelowCursor

-----------------------------------------------------------------------------
(* The probe and the hint never leave the table.                           *)
LEMMA SlotModulo == \A n \in Nat : n % Slots \in SlotIds
  BY SlicesAssumption DEF SlotIds

(* Initially the page is empty and nobody is inside it.                    *)
LEMMA InitIInv == Init => IInv
  <1> SUFFICES ASSUME Init PROVE IInv
    OBVIOUS
  <1> USE SlicesAssumption DEF Init
  <1>0. 0 \in SlotIds
    BY DEF SlotIds
  <1>1. TypeOK
    <2>1. /\ available \in [SlotIds -> BOOLEAN] /\ refs \in [SlotIds -> Nat]
          /\ owner \in [SlotIds -> BOOLEAN]
          /\ offset \in [SlotIds -> Nat] /\ size \in [SlotIds -> Nat]
      OBVIOUS
    <2>2. /\ rel \in [Releasers -> {"idle", "advertise", "bump"}]
          /\ relSlot \in [Releasers -> SlotIds]
          /\ keep \in [Releasers -> BOOLEAN]
      BY <1>0
    <2>3. scan \in 0 .. Slots /\ tries \in 0 .. Slots
      OBVIOUS
    <2> QED
      BY <1>0, <2>1, <2>2, <2>3 DEF TypeOK
  <1>2. CountsAgree /\ ReleaserHoldsPage
    BY DEF CountsAgree, ReleaserHoldsPage
  <1>3. CensusCovers
    BY DEF CensusCovers
  <1>4. Leased = {}
    BY DEF Leased, Live
  <1>5. InsidePage /\ BelowCursor
    BY <1>4 DEF InsidePage, BelowCursor, DistinctRanges
  <1> QED
    BY <1>1, <1>2, <1>3, <1>5 DEF IInv

(* Every step keeps the variables in their types.                          *)
LEMMA StepType == TypeOK /\ [Next]_vars => TypeOK'
  <1> SUFFICES ASSUME TypeOK, [Next]_vars PROVE TypeOK'
    OBVIOUS
  <1> USE SlicesAssumption
  <1>1. ASSUME NEW n \in Sizes, BeginHole(n) PROVE TypeOK'
    BY <1>1 DEF BeginHole, TypeOK, tableVars, cacheVars, pageVars, relVars, SlotIds
  <1>2. ASSUME NEW n \in Sizes, BeginAppend(n) PROVE TypeOK'
    BY <1>2 DEF BeginAppend, TypeOK, tableVars, cacheVars, pageVars, relVars
  <1>3. CASE ScanSlot
    <2>1. SliceOf(scan) \in IntervalType
      BY <1>3 DEF ScanSlot, TypeOK, SliceOf, Interval, IntervalType, SlotIds
    <2> QED
      BY <1>3, <2>1 DEF ScanSlot, TypeOK, tableVars, cacheVars, pageVars, relVars
  <1>4. CASE HoleFound
    BY <1>4 DEF HoleFound, HolesIn, TypeOK, tableVars, cacheVars, pageVars, relVars
  <1>5. CASE HoleMissed
    BY <1>5 DEF HoleMissed, TypeOK, tableVars, cacheVars, pageVars, relVars
  <1>6. CASE ProbeBusy
    BY <1>6 DEF ProbeBusy, TypeOK, tableVars, cacheVars, pageVars, relVars
  <1>7. CASE ProbeTake
    <2>0. hint + tries \in Nat
      BY DEF TypeOK, SlotIds
    <2>1. Probed \in SlotIds
      BY <2>0, SlotModulo DEF Probed
    <2>2. NextHint \in SlotIds
      <3>1. Probed + 1 \in Nat
        BY <2>1 DEF SlotIds
      <3> QED
        BY <3>1, SlotModulo DEF NextHint
    <2> QED
      BY <1>7, <2>1, <2>2 DEF ProbeTake, SlotFree, CursorAfter, TypeOK, cacheVars, relVars
  <1>8. CASE ProbeExhausted
    <2>1. Unleased \subseteq IntervalType
      BY DEF TypeOK, Unleased, Interval, IntervalType
    <2>2. CursorAfter \in Nat
      BY DEF TypeOK, CursorAfter
    <2> QED
      BY <1>8, <2>1, <2>2 DEF ProbeExhausted, TypeOK, tableVars, cacheVars, relVars
  <1>9. CASE Collect
    BY <1>9 DEF Collect, TypeOK, tableVars, cacheVars, ownerVars, relVars
  <1>10. CASE Reset
    BY <1>10 DEF Reset, TypeOK, tableVars, cacheVars, ownerVars, relVars
  <1>11. ASSUME NEW s \in SlotIds, IncRef(s) PROVE TypeOK'
    BY <1>11 DEF IncRef, TypeOK, cacheVars, pageVars, ownerVars, relVars
  <1>12. ASSUME NEW s \in SlotIds, DecRefShared(s) PROVE TypeOK'
    BY <1>12 DEF DecRefShared, TypeOK, cacheVars, pageVars, ownerVars, relVars
  <1>13. ASSUME NEW t \in Releasers, NEW s \in SlotIds, DecRefLast(t, s) PROVE TypeOK'
    BY <1>13 DEF DecRefLast, TypeOK, cacheVars, pageVars, ownerVars
  <1>14. ASSUME NEW t \in Releasers, Advertise(t) PROVE TypeOK'
    BY <1>14 DEF Advertise, TypeOK, cacheVars, pageVars, ownerVars
  <1>15. ASSUME NEW t \in Releasers, Bump(t) PROVE TypeOK'
    BY <1>15 DEF Bump, TypeOK, cacheVars, pageVars, ownerVars
  <1>16. ASSUME NEW i \in untracked, DropUntracked(i) PROVE TypeOK'
    BY <1>16 DEF DropUntracked, TypeOK, tableVars, cacheVars, ownerVars, relVars
  <1>17. CASE UNCHANGED vars
    BY <1>17 DEF TypeOK, vars, tableVars, cacheVars, pageVars, ownerVars, relVars
  <1> QED
    BY <1>1, <1>2, <1>3, <1>4, <1>5, <1>6, <1>7, <1>8, <1>9, <1>10, <1>11,
       <1>12, <1>13, <1>14, <1>15, <1>16, <1>17 DEF Next, OwnerStep, ReleaserStep

(* The page, its table and its threads always have the types TypeOK gives. *)
THEOREM SlicesTypeCorrect == Spec => []TypeOK
  <1>1. Init => TypeOK
    BY InitIInv DEF IInv
  <1> QED
    BY <1>1, StepType, PTL DEF Spec

-----------------------------------------------------------------------------
(* The owner thread's probe is a slot, and the interval it is about to     *)
(* write is well formed.                                                   *)
LEMMA ProbedIsSlot == TypeOK => Probed \in SlotIds
  <1> SUFFICES ASSUME TypeOK PROVE Probed \in SlotIds
    OBVIOUS
  <1>1. hint + tries \in Nat
    BY SlicesAssumption DEF TypeOK, SlotIds
  <1> QED
    BY <1>1, SlotModulo DEF Probed

(* Claim, decRef and every copy of a lease keep the counts in agreement.   *)
LEMMA StepCounts ==
  TypeOK /\ CountsAgree /\ [Next]_vars => CountsAgree'
  <1> SUFFICES ASSUME TypeOK, CountsAgree, [Next]_vars PROVE CountsAgree'
    OBVIOUS
  <1> USE DEF CountsAgree
  <1>1. CASE UNCHANGED <<available, refs, owner, rel, relSlot>>
    BY <1>1
  <1>2. CASE ProbeTake
    <2>1. Probed \in SlotIds
      BY ProbedIsSlot
    <2>2. \A t \in Releasers : rel[t] = "advertise" => relSlot[t] # Probed
      BY <1>2 DEF ProbeTake, SlotFree, CursorAfter
    <2> QED
      BY <1>2, <2>1, <2>2 DEF ProbeTake, SlotFree, CursorAfter, TypeOK, relVars
  <1>3. ASSUME NEW s \in SlotIds, IncRef(s) \/ DecRefShared(s)
        PROVE  CountsAgree'
    BY <1>3 DEF IncRef, DecRefShared, TypeOK, relVars
  <1>4. ASSUME NEW t \in Releasers, NEW s \in SlotIds, DecRefLast(t, s)
        PROVE  CountsAgree'
    <2>1. \A u \in Releasers : rel[u] = "advertise" => relSlot[u] # s /\ u # t
      BY <1>4 DEF DecRefLast
    <2>2. ~available[s]
      BY <1>4 DEF DecRefLast
    <2> QED
      BY <1>4, <2>1, <2>2 DEF DecRefLast, TypeOK
  <1>5. ASSUME NEW t \in Releasers, Advertise(t) PROVE CountsAgree'
    BY <1>5 DEF Advertise, TypeOK
  <1>6. ASSUME NEW t \in Releasers, Bump(t) PROVE CountsAgree'
    BY <1>6 DEF Bump, TypeOK
  <1> QED
    <2>1. CASE Next
      BY <1>1, <1>2, <1>3, <1>4, <1>5, <1>6, <2>1
      DEF Next, OwnerStep, ReleaserStep, BeginHole, BeginAppend, ScanSlot,
          HoleFound, HoleMissed, ProbeBusy, ProbeExhausted, Collect, Reset,
          DropUntracked, tableVars, relVars
    <2>2. CASE UNCHANGED vars
      BY <1>1, <2>2 DEF vars, tableVars, relVars
    <2> QED
      BY <2>1, <2>2

(* A releaser takes the slot's page pointer over before it does anything   *)
(* another thread can see, and keeps it until it is done.                  *)
LEMMA StepHolds ==
  TypeOK /\ CountsAgree /\ ReleaserHoldsPage /\ [Next]_vars => ReleaserHoldsPage'
  <1> SUFFICES ASSUME TypeOK, CountsAgree, ReleaserHoldsPage, [Next]_vars
               PROVE  ReleaserHoldsPage'
    OBVIOUS
  <1> USE DEF ReleaserHoldsPage
  <1>1. CASE UNCHANGED relVars
    BY <1>1 DEF relVars
  <1>2. ASSUME NEW t \in Releasers, NEW s \in SlotIds, DecRefLast(t, s)
        PROVE  ReleaserHoldsPage'
    <2>1. owner[s] = TRUE
      BY <1>2 DEF DecRefLast, CountsAgree, TypeOK
    <2> QED
      BY <1>2, <2>1 DEF DecRefLast, TypeOK
  <1>3. ASSUME NEW t \in Releasers, Advertise(t) \/ Bump(t)
        PROVE  ReleaserHoldsPage'
    BY <1>3 DEF Advertise, Bump, TypeOK
  <1> QED
    <2>1. CASE Next
      BY <1>1, <1>2, <1>3, <2>1
      DEF Next, OwnerStep, ReleaserStep, BeginHole, BeginAppend, ScanSlot,
          HoleFound, HoleMissed, ProbeBusy, ProbeTake, ProbeExhausted, Collect,
          Reset, IncRef, DecRefShared, DropUntracked
    <2>2. CASE UNCHANGED vars
      BY <1>1, <2>2 DEF vars
    <2> QED
      BY <2>1, <2>2

(* The census stays complete while others release, and a granted hole      *)
(* stays clear of every slot that is still taken.                          *)
LEMMA StepCensus ==
  TypeOK /\ CountsAgree /\ CensusCovers /\ InsidePage /\ [Next]_vars => CensusCovers'
  <1> SUFFICES ASSUME TypeOK, CountsAgree, CensusCovers, InsidePage, [Next]_vars
               PROVE  CensusCovers'
    OBVIOUS
  <1> USE SlicesAssumption DEF CensusCovers
  <1>1. ASSUME NEW n \in Sizes, BeginHole(n) PROVE CensusCovers'
    BY <1>1 DEF BeginHole, TypeOK, tableVars, pageVars, SlotIds
  <1>2. ASSUME NEW n \in Sizes, BeginAppend(n) PROVE CensusCovers'
    BY <1>2 DEF BeginAppend, TailFits, TypeOK, tableVars, pageVars
  <1>3. CASE ScanSlot
    <2>1. ASSUME NEW s \in SlotIds, s < scan', ~available[s]
          PROVE  SliceOf(s) \in spans'
      <3>1. CASE s < scan
        BY <1>3, <2>1, <3>1 DEF ScanSlot
      <3>2. CASE s = scan
        BY <1>3, <2>1, <3>2 DEF ScanSlot
      <3> QED
        BY <1>3, <2>1, <3>1, <3>2 DEF ScanSlot, TypeOK, SlotIds
    <2>2. \A s \in SlotIds : SliceOf(s)' = SliceOf(s)
      BY <1>3 DEF ScanSlot, SliceOf, Interval, tableVars
    <2> QED
      BY <1>3, <2>1, <2>2 DEF ScanSlot, tableVars, pageVars
  <1>4. CASE HoleFound
    <2>1. \A s \in SlotIds : s < scan
      BY <1>4 DEF HoleFound, SlotIds
    <2>2. target' \in HolesIn(Capacity, spans, bytes)
      BY <1>4 DEF HoleFound
    <2>3. \A s \in SlotIds :
            ~available[s] => Disjoint(Interval(target', bytes), SliceOf(s))
      BY <1>4, <2>1, <2>2 DEF HoleFound, HolesIn
    <2>4. target' + bytes <= Capacity
      BY <2>2 DEF HolesIn
    <2>5. \A s \in SlotIds : SliceOf(s)' = SliceOf(s)
      BY <1>4 DEF HoleFound, SliceOf, Interval, tableVars
    <2>6. UNCHANGED <<available, sealed, untracked, bytes>> /\ kind' = "hole"
            /\ pc = "scan" /\ pc' = "claim"
      BY <1>4 DEF HoleFound, tableVars, pageVars
    <2>7. Interval(target, bytes)' = Interval(target', bytes)
      BY <2>6 DEF Interval
    <2> QED
      BY <2>3, <2>4, <2>5, <2>6, <2>7 DEF Disjoint
  <1>5. CASE HoleMissed
    BY <1>5 DEF HoleMissed, pageVars
  <1>6. CASE ProbeBusy
    <2>1. \A s \in SlotIds : SliceOf(s)' = SliceOf(s)
      BY <1>6 DEF ProbeBusy, SliceOf, Interval, tableVars
    <2>2. Interval(target, bytes)' = Interval(target, bytes)
      BY <1>6 DEF ProbeBusy, Interval
    <2> QED
      BY <1>6, <2>1, <2>2 DEF ProbeBusy, tableVars, pageVars, Disjoint
  <1>7. CASE ProbeTake
    BY <1>7 DEF ProbeTake, SlotFree, CursorAfter
  <1>8. CASE ProbeExhausted
    <2>1. CASE kind = "tail"
      BY <1>8, <2>1 DEF ProbeExhausted
    <2>2. CASE kind # "tail"
      <3>1. untracked' = untracked /\ pc' = "idle"
        BY <1>8, <2>2 DEF ProbeExhausted, Unleased
      <3>2. ~sealed' => ~sealed
        BY <1>8, <2>2 DEF ProbeExhausted
      <3> QED
        BY <3>1, <3>2
    <2> QED
      BY <2>1, <2>2
  <1>9. CASE Collect \/ Reset
    BY <1>9 DEF Collect, Reset, ownerVars
  <1>10. ASSUME NEW i \in untracked, DropUntracked(i) PROVE CensusCovers'
    <2>1. \A s \in SlotIds : SliceOf(s)' = SliceOf(s)
      BY <1>10 DEF DropUntracked, SliceOf, Interval, tableVars
    <2>2. Interval(target, bytes)' = Interval(target, bytes)
      BY <1>10 DEF DropUntracked, Interval, ownerVars
    <2> QED
      BY <1>10, <2>1, <2>2 DEF DropUntracked, tableVars, ownerVars, Disjoint
  <1>11. ASSUME UNCHANGED <<pageVars, ownerVars, offset, size>>,
                \A s \in SlotIds : available[s] => available'[s]
         PROVE  CensusCovers'
    <2>1. \A s \in SlotIds : SliceOf(s)' = SliceOf(s)
      BY <1>11 DEF SliceOf, Interval
    <2>2. Interval(target, bytes)' = Interval(target, bytes)
      BY <1>11 DEF Interval, ownerVars
    <2> QED
      BY <1>11, <2>1, <2>2 DEF pageVars, ownerVars, Disjoint
  <1>12. ASSUME NEW s \in SlotIds, IncRef(s) \/ DecRefShared(s)
         PROVE  CensusCovers'
    BY <1>11, <1>12 DEF IncRef, DecRefShared
  <1>13. ASSUME NEW t \in Releasers, NEW s \in SlotIds, DecRefLast(t, s)
         PROVE  CensusCovers'
    BY <1>11, <1>13 DEF DecRefLast
  <1>14. ASSUME NEW t \in Releasers, Advertise(t) PROVE CensusCovers'
    <2>1. \A s \in SlotIds : available[s] => available'[s]
      BY <1>14 DEF Advertise, TypeOK
    <2> QED
      BY <1>11, <1>14, <2>1 DEF Advertise
  <1>15. ASSUME NEW t \in Releasers, Bump(t) PROVE CensusCovers'
    BY <1>11, <1>15 DEF Bump
  <1>16. CASE UNCHANGED vars
    BY <1>11, <1>16 DEF vars, tableVars
  <1> QED
    BY <1>1, <1>2, <1>3, <1>4, <1>5, <1>6, <1>7, <1>8, <1>9, <1>10, <1>12,
       <1>13, <1>14, <1>15, <1>16 DEF Next, OwnerStep, ReleaserStep

(* What a step can do to the set of live leases: add the one ProbeTake     *)
(* fills, or shrink it; the intervals of the leases that stay do not move. *)
LEMMA LeasesShrink ==
  ASSUME TypeOK, CountsAgree, [Next]_vars, ~ProbeTake
  PROVE  /\ Leased' \subseteq Leased
         /\ \A s \in SlotIds : offset'[s] = offset[s] /\ size'[s] = size[s]
  <1>1. CASE UNCHANGED <<refs, offset, size>>
    BY <1>1 DEF Leased, Live
  <1>2. ASSUME NEW s \in SlotIds, IncRef(s) \/ DecRefShared(s)
        PROVE  Leased' \subseteq Leased /\ UNCHANGED <<offset, size>>
    BY <1>2 DEF IncRef, DecRefShared, Leased, Live, TypeOK
  <1>3. ASSUME NEW t \in Releasers, NEW s \in SlotIds, DecRefLast(t, s)
        PROVE  Leased' \subseteq Leased /\ UNCHANGED <<offset, size>>
    BY <1>3 DEF DecRefLast, Leased, Live, TypeOK
  <1>4. CASE Next
    BY <1>1, <1>2, <1>3, <1>4
    DEF Next, OwnerStep, ReleaserStep, BeginHole, BeginAppend, ScanSlot,
        HoleFound, HoleMissed, ProbeBusy, ProbeExhausted, Collect, Reset,
        Advertise, Bump, DropUntracked, tableVars
  <1>5. CASE UNCHANGED vars
    BY <1>1, <1>5 DEF vars, tableVars
  <1> QED
    BY <1>4, <1>5

(* The lease ProbeTake fills is the only new one.                          *)
LEMMA TakeAddsOne ==
  ASSUME TypeOK, ProbeTake
  PROVE  /\ Leased' = Leased \cup {Probed}
         /\ Probed \in SlotIds
         /\ offset'[Probed] = target /\ size'[Probed] = bytes
         /\ \A s \in SlotIds \ {Probed} :
              offset'[s] = offset[s] /\ size'[s] = size[s]
  <1>1. Probed \in SlotIds
    BY ProbedIsSlot
  <1> QED
    BY <1>1 DEF ProbeTake, SlotFree, CursorAfter, Leased, Live, TypeOK

(* Intervals in use stay inside the buffer.                                *)
LEMMA StepInside ==
  TypeOK /\ CountsAgree /\ CensusCovers /\ InsidePage /\ [Next]_vars => InsidePage'
  <1> SUFFICES ASSUME TypeOK, CountsAgree, CensusCovers, InsidePage, [Next]_vars
               PROVE  InsidePage'
    OBVIOUS
  <1> USE SlicesAssumption DEF InsidePage
  <1>1. CASE ProbeTake
    <2>1. target + bytes <= Capacity
      BY <1>1 DEF ProbeTake, SlotFree, CursorAfter, CensusCovers
    <2>2. used' <= Capacity /\ untracked' = untracked
      BY <1>1, <2>1 DEF ProbeTake, SlotFree, CursorAfter
    <2>3. ASSUME NEW s \in Leased' PROVE offset'[s] + size'[s] <= Capacity
      <3>1. CASE s = Probed
        BY <1>1, <2>1, <3>1, TakeAddsOne
      <3>2. CASE s # Probed
        BY <1>1, <3>2, TakeAddsOne DEF Leased
      <3> QED
        BY <3>1, <3>2
    <2> QED
      BY <2>2, <2>3
  <1>2. CASE ~ProbeTake
    <2>1. \A s \in Leased' : offset'[s] + size'[s] <= Capacity
      BY <1>2, LeasesShrink DEF Leased
    <2>2. CASE ProbeExhausted /\ kind = "tail"
      <3>1. target + bytes <= Capacity
        BY <2>2 DEF ProbeExhausted, CensusCovers
      <3>2. used' <= Capacity
        BY <2>2, <3>1 DEF ProbeExhausted, CursorAfter
      <3>3. \A i \in untracked' : i.end <= Capacity
        BY <2>2, <3>1 DEF ProbeExhausted, Unleased, Interval
      <3> QED
        BY <2>1, <3>2, <3>3
    <2>3. CASE ~(ProbeExhausted /\ kind = "tail")
      <3>1. used' = used /\ untracked' \subseteq untracked
        BY <1>2, <2>3 DEF Next, vars, OwnerStep, ReleaserStep, BeginHole,
           BeginAppend, ScanSlot, HoleFound, HoleMissed, ProbeBusy, Collect,
           ProbeExhausted, CursorAfter, Unleased, Reset, IncRef, DecRefShared,
           DecRefLast, Advertise, Bump, DropUntracked, pageVars
      <3> QED
        BY <2>1, <3>1
    <2> QED
      BY <2>2, <2>3
  <1> QED
    BY <1>1, <1>2

(* While no hole passes the cursor, a new interval is disjoint from all    *)
(* others: an append starts at the cursor, above them all, and a hole is   *)
(* clear of every taken slot.                                              *)
LEMMA StepBelow ==
  TypeOK /\ CountsAgree /\ CensusCovers /\ BelowCursor /\ [Next]_vars => BelowCursor'
  <1> SUFFICES ASSUME TypeOK, CountsAgree, CensusCovers, BelowCursor, [Next]_vars,
                      ~straddled'
               PROVE  (/\ DistinctRanges
                       /\ \A s \in Leased : offset[s] + size[s] <= used
                       /\ \A i \in untracked : i.end <= used)'
    BY DEF BelowCursor
  <1>1. CASE ProbeTake
    <2>1. ~straddled /\ untracked' = untracked
      BY <1>1 DEF ProbeTake, SlotFree, CursorAfter
    <2>2. used <= used' /\ target + bytes <= used'
      <3>1. CASE kind = "tail"
        BY <1>1, <3>1 DEF ProbeTake, SlotFree, CursorAfter, CensusCovers, TypeOK
      <3>2. CASE kind = "hole"
        <4>1. ~(target + bytes > used) /\ used' = used
          BY <1>1, <3>2 DEF ProbeTake, SlotFree, CursorAfter
        <4> QED
          BY <4>1 DEF TypeOK
      <3> QED
        BY <3>1, <3>2 DEF TypeOK
    <2>3. \A s \in Leased : Disjoint(Interval(target, bytes), SliceOf(s))
      <3>1. CASE kind = "tail"
        BY <1>1, <2>1, <3>1 DEF ProbeTake, SlotFree, CursorAfter, CensusCovers, BelowCursor, Disjoint,
           Interval, SliceOf, Leased, TypeOK
      <3>2. CASE kind = "hole"
        BY <1>1, <3>2 DEF ProbeTake, SlotFree, CursorAfter, CensusCovers, CountsAgree, Leased, Live, TypeOK
      <3> QED
        BY <3>1, <3>2 DEF TypeOK
    <2>4. \A i \in untracked : Disjoint(Interval(target, bytes), i)
      BY <1>1, <2>1 DEF ProbeTake, SlotFree, CursorAfter, CensusCovers, BelowCursor, Disjoint, Interval, TypeOK
    <2>5. PICK q \in SlotIds : q = Probed
      BY ProbedIsSlot
    <2>6. SliceOf(q)' = Interval(target, bytes)
      BY <1>1, <2>5, TakeAddsOne DEF SliceOf, Interval
    <2>7. \A s \in Leased' : s # q => s \in Leased /\ SliceOf(s)' = SliceOf(s)
      BY <1>1, <2>5, TakeAddsOne DEF SliceOf, Interval, Leased
    <2>8. ASSUME NEW s \in Leased', NEW r \in Leased', s # r
          PROVE  Disjoint(SliceOf(s)', SliceOf(r)')
      <3>1. CASE s = q
        BY <2>3, <2>6, <2>7, <2>8, <3>1
      <3>2. CASE r = q
        BY <2>3, <2>6, <2>7, <2>8, <3>2 DEF Disjoint
      <3>3. CASE s # q /\ r # q
        BY <2>1, <2>7, <2>8, <3>3 DEF BelowCursor, DistinctRanges
      <3> QED
        BY <3>1, <3>2, <3>3
    <2>9. ASSUME NEW s \in Leased', NEW i \in untracked
          PROVE  Disjoint(SliceOf(s)', i)
      BY <2>1, <2>4, <2>6, <2>7 DEF BelowCursor, DistinctRanges
    <2>10. DistinctRanges'
      BY <2>1, <2>8, <2>9 DEF DistinctRanges, BelowCursor, Disjoint
    <2>11. ASSUME NEW s \in Leased' PROVE offset'[s] + size'[s] <= used'
      <3>1. CASE s = q
        BY <1>1, <2>2, <2>5, <3>1, TakeAddsOne
      <3>2. CASE s # q
        <4>1. s \in Leased /\ offset'[s] = offset[s] /\ size'[s] = size[s]
          BY <1>1, <2>5, <3>2, TakeAddsOne DEF Leased
        <4>2. offset[s] + size[s] <= used
          BY <2>1, <4>1 DEF BelowCursor
        <4> QED
          BY <1>1, <2>2, <4>1, <4>2 DEF TypeOK, Leased, ProbeTake, CursorAfter
      <3> QED
        BY <3>1, <3>2
    <2>12. \A i \in untracked' : i.end <= used'
      BY <1>1, <2>1, <2>2 DEF BelowCursor, TypeOK, IntervalType, ProbeTake, CursorAfter
    <2> QED
      BY <2>10, <2>11, <2>12
  <1>2. CASE ~ProbeTake
    <2>1. straddled' = straddled
      BY <1>2 DEF Next, vars, OwnerStep, ReleaserStep, BeginHole, BeginAppend,
         ScanSlot, HoleFound, HoleMissed, ProbeBusy, ProbeExhausted, Collect,
         Reset, IncRef, DecRefShared, DecRefLast, Advertise, Bump,
         DropUntracked, pageVars
    <2>2. \A s \in Leased' : s \in Leased /\ SliceOf(s)' = SliceOf(s)
      BY <1>2, LeasesShrink DEF SliceOf, Interval, Leased
    <2>3. \A s \in Leased' : offset'[s] + size'[s] <= used
      BY <1>2, <2>1, LeasesShrink DEF BelowCursor, Leased
    <2>4. CASE ProbeExhausted /\ kind = "tail"
      <3>1. \A i \in untracked' : i \in untracked \/ i = Interval(target, bytes)
        BY <2>4 DEF ProbeExhausted, Unleased
      <3>2. /\ used' = target + bytes /\ target = used
            /\ target \in Nat /\ bytes \in Nat
        BY <2>4 DEF ProbeExhausted, CursorAfter, CensusCovers, TypeOK
      <3>3. \A s \in Leased' : offset'[s] + size'[s] <= used'
        <4>1. \A s \in Leased' : offset'[s] + size'[s] \in Nat
          BY <1>2, LeasesShrink DEF TypeOK, Leased
        <4>2. used \in Nat
          BY DEF TypeOK
        <4> QED
          BY <2>3, <3>2, <4>1, <4>2
      <3>4. \A i \in untracked : i.end <= used /\ i.end \in Nat
        BY <2>1 DEF BelowCursor, TypeOK, IntervalType
      <3>5. \A i \in untracked' : i.end <= used'
        BY <3>1, <3>2, <3>4 DEF Interval
      <3>6. \A i \in untracked : Disjoint(i, Interval(target, bytes))
        BY <3>2, <3>4 DEF Disjoint, Interval
      <3>7. \A s \in Leased' : Disjoint(SliceOf(s), Interval(target, bytes))
        BY <2>1, <2>2, <3>2 DEF BelowCursor, Disjoint, Interval, SliceOf
      <3>8. DistinctRanges'
        BY <2>1, <2>2, <3>1, <3>6, <3>7 DEF BelowCursor, DistinctRanges, Disjoint
      <3> QED
        BY <3>3, <3>5, <3>8
    <2>5. CASE ~(ProbeExhausted /\ kind = "tail")
      <3>1. used' = used /\ untracked' \subseteq untracked
        BY <1>2, <2>5 DEF Next, vars, OwnerStep, ReleaserStep, BeginHole,
           BeginAppend, ScanSlot, HoleFound, HoleMissed, ProbeBusy, Collect,
           ProbeExhausted, CursorAfter, Unleased, Reset, IncRef, DecRefShared,
           DecRefLast, Advertise, Bump, DropUntracked, pageVars
      <3> QED
        BY <2>1, <2>2, <2>3, <3>1 DEF BelowCursor, DistinctRanges
    <2> QED
      BY <2>4, <2>5
  <1> QED
    BY <1>1, <1>2

(* IInv is inductive.                                                      *)
LEMMA StepIInv == IInv /\ [Next]_vars => IInv'
  BY StepType, StepCounts, StepHolds, StepCensus, StepInside, StepBelow DEF IInv

LEMMA SlicesIInv == Spec => []IInv
  BY InitIInv, StepIInv, PTL DEF Spec

-----------------------------------------------------------------------------
(* decRef never touches a page that has died under it: Collect and Reset   *)
(* may run between any two steps of any number of releasers.               *)
THEOREM PageSafety == Spec => []PageOutlivesReleasers
  <1>1. IInv => PageOutlivesReleasers
    BY DEF IInv, ReleaserHoldsPage, PageOutlivesReleasers, PageAlive, SharedPage
  <1> QED
    BY <1>1, SlicesIInv, PTL

(* findHole only grants intervals nobody uses, whatever the interleaving   *)
(* of its slot-by-slot census with concurrent releases.                    *)
THEOREM HoleSafety == Spec => []HoleIsRetired
  <1>1. IInv => HoleIsRetired
    BY DEF IInv, CensusCovers, CountsAgree, HoleIsRetired, Leased, Live, TypeOK
  <1> QED
    BY <1>1, SlicesIInv, PTL

(* No interval in use leaves the page's buffer.                            *)
THEOREM InsideSafety == Spec => []InsidePage
  BY SlicesIInv, PTL DEF IInv

(* The only way to make two intervals in use overlap is a hole granted     *)
(* past the append cursor.                                                 *)
THEOREM DistinctSafety == Spec => []DistinctUnlessStraddled
  <1>1. IInv => DistinctUnlessStraddled
    BY DEF IInv, BelowCursor, DistinctUnlessStraddled
  <1> QED
    BY <1>1, SlicesIInv, PTL

(* While a lease is held, its slot is never claimed for another interval.  *)
THEOREM LeaseImmutability == Spec => LeaseIsImmutable
  <1>1. IInv /\ [Next]_vars =>
          [\A s \in SlotIds :
             Live(s) => offset'[s] = offset[s] /\ size'[s] = size[s]]_vars
    <2> SUFFICES ASSUME IInv, [Next]_vars, NEW s \in SlotIds, Live(s)
                 PROVE  offset'[s] = offset[s] /\ size'[s] = size[s]
      OBVIOUS
    <2>1. CASE ProbeTake
      <3>1. s # Probed
        BY <2>1 DEF ProbeTake, SlotFree, CursorAfter, IInv, CountsAgree, Live, TypeOK
      <3> QED
        BY <2>1, <3>1, TakeAddsOne DEF IInv
    <2>2. CASE ~ProbeTake
      BY <2>2, LeasesShrink DEF IInv
    <2> QED
      BY <2>1, <2>2
  <1> QED
    BY <1>1, SlicesIInv, PTL DEF Spec, LeaseIsImmutable

-----------------------------------------------------------------------------
(* The negative cache.  A slot that is advertised and whose decRef has not *)
(* bumped the revision yet still counts as standing: a census read at one  *)
(* revision saw only intervals that stand at that revision.                *)

Leaving(s) == \E t \in Releasers : rel[t] = "bump" /\ relSlot[t] = s

Standing == {SliceOf(s) : s \in {x \in SlotIds : ~available[x] \/ Leaving(x)}}

CacheInv ==
  /\ failedRevision <= revision
  /\ pc = "scan" => seen <= revision
  /\ pc = "scan" /\ seen = revision => spans \subseteq Standing
  /\ failedBytes # 0 /\ failedRevision = revision => HolesIn(Capacity, Standing, failedBytes) = {}

(* More occupied spans leave fewer holes.                                  *)
LEMMA HolesAntitone ==
  ASSUME NEW S, NEW T, S \subseteq T, NEW n
  PROVE  HolesIn(Capacity, T, n) \subseteq HolesIn(Capacity, S, n)
  BY DEF HolesIn

(* A step that leaves the revision alone takes no interval away.           *)
LEMMA StandingKept ==
  ASSUME TypeOK, [Next]_vars, revision' = revision
  PROVE  Standing \subseteq Standing'
  <1>1. ~ProbeTake /\ \A t \in Releasers : ~Bump(t)
    BY DEF ProbeTake, Bump, TypeOK
  <1>2. ASSUME NEW t \in Releasers, Advertise(t) PROVE Standing \subseteq Standing'
    <2>1. /\ available' = [available EXCEPT ![relSlot[t]] = TRUE]
          /\ rel' = [rel EXCEPT ![t] = "bump"]
          /\ UNCHANGED <<relSlot, offset, size>>
      BY <1>2 DEF Advertise
    <2>2. \A x \in SlotIds : (~available[x] \/ Leaving(x)) => (~available'[x] \/ Leaving(x)')
      BY <2>1 DEF Leaving, TypeOK
    <2> QED
      BY <2>1, <2>2 DEF Standing, SliceOf
  <1>3. ASSUME NEW t \in Releasers, NEW s \in SlotIds, DecRefLast(t, s)
        PROVE  Standing \subseteq Standing'
    <2>1. /\ rel' = [rel EXCEPT ![t] = "advertise"] /\ rel[t] = "idle"
          /\ relSlot' = [relSlot EXCEPT ![t] = s]
          /\ UNCHANGED <<available, offset, size>>
      BY <1>3 DEF DecRefLast
    <2>2. \A x \in SlotIds : Leaving(x) => Leaving(x)'
      BY <2>1 DEF Leaving, TypeOK
    <2> QED
      BY <2>1, <2>2 DEF Standing, SliceOf
  <1>4. CASE UNCHANGED <<available, rel, relSlot, offset, size>>
    BY <1>4 DEF Standing, SliceOf, Leaving
  <1>5. CASE Next
    BY <1>1, <1>2, <1>3, <1>4, <1>5
    DEF Next, OwnerStep, ReleaserStep, BeginHole, BeginAppend, ScanSlot, HoleFound,
        HoleMissed, ProbeBusy, ProbeExhausted, Collect, Reset, IncRef, DecRefShared,
        DropUntracked, tableVars, relVars
  <1> QED
    BY <1>4, <1>5 DEF vars, tableVars, relVars

(* The revision only grows, so a miss recorded before it grew is no longer *)
(* asked for, and a census begun before it grew is not recorded.           *)
LEMMA RevisionGrows ==
  ASSUME TypeOK, [Next]_vars
  PROVE  revision' \in Nat /\ revision <= revision'
  <1>1. CASE UNCHANGED revision
    BY <1>1 DEF TypeOK
  <1>2. CASE ProbeTake \/ \E t \in Releasers : Bump(t)
    BY <1>2 DEF ProbeTake, Bump, TypeOK
  <1>3. CASE Next
    BY <1>1, <1>2, <1>3
    DEF Next, OwnerStep, ReleaserStep, BeginHole, BeginAppend, ScanSlot, HoleFound,
        HoleMissed, ProbeBusy, ProbeExhausted, Collect, Reset, IncRef, DecRefShared,
        DecRefLast, Advertise, DropUntracked, tableVars
  <1> QED
    BY <1>1, <1>3 DEF vars, tableVars

LEMMA StepCache ==
  ASSUME TypeOK, CacheInv, [Next]_vars
  PROVE  CacheInv'
  <1>1. revision' \in Nat /\ revision <= revision'
    BY RevisionGrows
  <1>2. revision' = revision => Standing \subseteq Standing'
    BY StandingKept
  <1>3. CASE HoleMissed
    <2>1. /\ pc = "scan" /\ pc' = "idle" /\ revision' = revision
          /\ HolesIn(Capacity, spans, bytes) = {}
          /\ \/ revision = seen /\ failedRevision' = seen /\ failedBytes' = bytes
             \/ UNCHANGED cacheVars
      BY <1>3 DEF HoleMissed, tableVars
    <2>2. revision = seen => HolesIn(Capacity, Standing', bytes) = {}
      BY <1>2, <2>1, HolesAntitone DEF CacheInv
    <2>3. HolesIn(Capacity, Standing', failedBytes) \subseteq HolesIn(Capacity, Standing, failedBytes)
      BY <1>2, <2>1, HolesAntitone
    <2>4. failedBytes' # 0 /\ failedRevision' = revision' => HolesIn(Capacity, Standing', failedBytes') = {}
      BY <2>1, <2>2, <2>3 DEF CacheInv, cacheVars
    <2>5. failedRevision' <= revision'
      BY <2>1 DEF CacheInv, cacheVars, TypeOK
    <2> QED
      BY <2>1, <2>4, <2>5 DEF CacheInv
  <1>4. CASE ~HoleMissed
    <2>1. UNCHANGED cacheVars
      BY <1>4 DEF Next, OwnerStep, ReleaserStep, BeginHole, BeginAppend, ScanSlot, HoleFound,
         ProbeBusy, ProbeTake, ProbeExhausted, Collect, Reset, IncRef, DecRefShared, DecRefLast,
         Advertise, Bump, DropUntracked, vars
    <2>2. failedRevision' <= revision'
      BY <1>1, <2>1 DEF CacheInv, cacheVars, TypeOK
    <2>3. failedRevision' = revision' => failedRevision = revision /\ revision' = revision
      BY <1>1, <2>1 DEF CacheInv, cacheVars, TypeOK
    <2>4. HolesIn(Capacity, Standing', failedBytes) \subseteq HolesIn(Capacity, Standing, failedBytes)
            \/ revision' # revision
      BY <1>2, HolesAntitone
    <2>5. failedBytes' # 0 /\ failedRevision' = revision' => HolesIn(Capacity, Standing', failedBytes') = {}
      BY <2>1, <2>3, <2>4 DEF CacheInv, cacheVars
    <2>6. CASE \E n \in Sizes : BeginHole(n)
      <3>1. pc' = "scan" /\ seen' = revision /\ spans' = {} /\ revision' = revision
        BY <2>6 DEF BeginHole, tableVars
      <3> QED
        BY <2>2, <2>5, <3>1 DEF CacheInv, TypeOK
    <2>7. CASE ScanSlot
      <3>1. /\ pc = "scan" /\ UNCHANGED <<pc, seen, revision, available, offset, size>> /\ scan \in SlotIds
            /\ spans' = IF available[scan] THEN spans ELSE spans \cup {SliceOf(scan)}
        BY <2>7, SlicesAssumption DEF ScanSlot, tableVars, TypeOK, SlotIds
      <3>2. ~available[scan] => SliceOf(scan) \in Standing
        BY <3>1 DEF Standing
      <3> QED
        BY <1>2, <2>2, <2>5, <3>1, <3>2 DEF CacheInv
    <2>8. CASE ~ScanSlot /\ \A n \in Sizes : ~BeginHole(n)
      <3>1. pc' = "scan" => pc = "scan" /\ UNCHANGED <<seen, spans>>
        BY <1>4, <2>8 DEF Next, OwnerStep, ReleaserStep, BeginAppend, HoleFound, ProbeBusy,
           ProbeTake, ProbeExhausted, Collect, Reset, IncRef, DecRefShared, DecRefLast,
           Advertise, Bump, DropUntracked, vars, ownerVars
      <3>2. pc' = "scan" => seen' <= revision'
        BY <1>1, <3>1 DEF CacheInv, TypeOK
      <3>3. pc' = "scan" /\ seen' = revision' => seen = revision /\ revision' = revision
        BY <1>1, <3>1 DEF CacheInv, TypeOK
      <3> QED
        BY <1>2, <2>2, <2>5, <3>1, <3>2, <3>3 DEF CacheInv
    <2> QED
      BY <2>6, <2>7, <2>8
  <1> QED
    BY <1>3, <1>4

(* findHole's negative cache never hides a retirement longer than the      *)
(* decRef that makes it: what it remembers is true of the table unless a   *)
(* releaser stands between advertising its slot and bumping the revision.  *)
THEOREM NegativeCacheTrue == Spec => []NegativeCacheSound
  <1>1. Init => CacheInv
    BY DEF Init, CacheInv
  <1>2. TypeOK /\ CacheInv /\ [Next]_vars => CacheInv'
    BY StepCache
  <1>3. CacheInv => NegativeCacheSound
    <2> SUFFICES ASSUME CacheInv, failedBytes # 0, failedRevision = revision,
                        \A t \in Releasers : rel[t] # "bump"
                 PROVE  HolesIn(Capacity, {SliceOf(s) : s \in {x \in SlotIds : ~available[x]}}, failedBytes) = {}
      BY DEF NegativeCacheSound
    <2>1. Standing = {SliceOf(s) : s \in {x \in SlotIds : ~available[x]}}
      BY DEF Standing, Leaving
    <2> QED
      BY <2>1 DEF CacheInv
  <1> QED
    BY <1>1, <1>2, <1>3, SlicesTypeCorrect, PTL DEF Spec
=============================================================================
