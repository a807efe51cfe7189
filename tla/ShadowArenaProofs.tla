-------------------------- MODULE ShadowArenaProofs --------------------------
(***************************************************************************)
(* TLAPS proofs about ShadowArena, for every page size, number of          *)
(* generations, limit and bundle.                                          *)
(***************************************************************************)
EXTENDS ShadowArena, NaturalsInduction, WellFoundedInduction, TLAPS

(* Serials come out of the command stream in the order they went in, and   *)
(* none of them belongs to a frame that is still being recorded.           *)
SignalsOrdered ==
  /\ \A i \in 1..Len(signals) : completed < signals[i]
  /\ \A i, j \in 1..Len(signals) : i < j => signals[i] < signals[j]
  /\ \A i \in 1..Len(signals) : signals[i] <= (IF pc = "draw" THEN serial ELSE serial + 1)
  /\ completed <= (IF pc = "draw" THEN serial ELSE serial + 1)

(* While a frame is recorded the current generation is open for it; an     *)
(* arena that is down holds nothing.                                       *)
OwnerState ==
  /\ ~up => count = 0 /\ current = None /\ live = {}
  /\ (pc = "draw" /\ current # None) =>
       gens[current].retire = 0 /\ gens[current].frame = serial + 1
  /\ txn.active => pc = "draw" /\ current # None /\ up
  /\ \A g \in 1..count : gens[g].pages >= 1

(* Why a rewind is safe: a range in flight lies in a generation sealed     *)
(* with its frame or a later one, or in the one open for its frame.        *)
RangesHeld ==
  \A r \in live :
    /\ r.gen \in 1..count /\ r.lo < r.hi
    /\ r.frame > completed /\ r.frame <= serial + 1
    /\ \/ gens[r.gen].retire >= r.frame
       \/ pc = "draw" /\ r.gen = current

Before(r, page, offset) == r.page < page \/ (r.page = page /\ r.hi <= offset)
After(r, page, offset)  == r.page > page \/ (r.page = page /\ r.lo >= offset)

(* The cursor divides the open generation: what was committed lies before  *)
(* the place where the bundle began, the bundle's parts between there and  *)
(* the cursor.                                                             *)
CursorDivides ==
  /\ txn.active =>
       /\ ExactOwner
       /\ \A r \in txn.ranges :
            /\ r.gen = current /\ r.frame = serial + 1 /\ r.lo < r.hi
            /\ After(r, txn.startPage, txn.startOffset)
            /\ Before(r, txn.endPage, txn.endOffset)
       /\ \A a, b \in txn.ranges :
            (a # b /\ a.page = b.page) => (a.hi <= b.lo \/ b.hi <= a.lo)
       /\ \A r \in live : r.gen = current => Before(r, txn.startPage, txn.startOffset)
       /\ \/ txn.startPage < txn.endPage
          \/ txn.startPage = txn.endPage /\ txn.startOffset <= txn.endOffset
  /\ (pc = "draw" /\ current # None) =>
       /\ gens[current].page < gens[current].pages
       /\ \A r \in live : r.gen = current =>
            Before(r, gens[current].page, gens[current].offset)

(* The end of the last part committed in the open generation, or its start. *)
EndsAtCommit(page, offset) ==
  LET mine == {r \in live : r.gen = current}
  IN IF mine = {} THEN page = 0 /\ offset = 0
     ELSE \E r \in mine : r.page = page /\ r.hi = offset

(* Where the cursor stands between bundles, and where a bundle that fails  *)
(* puts it back: the ranges of the open generation are of its own frame,   *)
(* so the fence takes none of them away while the frame is recorded.       *)
CommitKnown ==
  /\ pc = "draw" => \A r \in live : r.gen = current => r.frame = serial + 1
  /\ txn.active =>
       /\ EndsAtCommit(txn.startPage, txn.startOffset)
       /\ txn.ranges # {} =>
            \E r \in txn.ranges : r.page = txn.endPage /\ r.hi = txn.endOffset
  /\ (pc = "draw" /\ ~txn.active /\ current # None) =>
       EndsAtCommit(gens[current].page, gens[current].offset)

IInv == /\ TypeOK /\ SignalsOrdered /\ OwnerState /\ RangesHeld /\ CursorDivides
        /\ CommitKnown /\ InFlightDisjoint /\ SealIsSignalled

-----------------------------------------------------------------------------
(* Division of naturals stays among them.                                  *)
LEMMA DivNat == \A a \in Nat, b \in Nat \ {0} : a \div b \in Nat
  OBVIOUS

(* Min, as the search over the generations uses it, is an element.         *)
LEMMA MinIsElement ==
  ASSUME NEW S \in SUBSET Nat, S # {}
  PROVE  Min(S) \in S
  <1>1. \E x \in S : \A y \in S : ~ (<<y, x>> \in OpToRel(<, Nat))
    BY NatLessThanWellFounded, WFMin
  <1>2. PICK x \in S : \A y \in S : ~ (<<y, x>> \in OpToRel(<, Nat))
    BY <1>1
  <1>3. \A y \in S : ~ (y < x)
    BY <1>2 DEF OpToRel
  <1>4. \A y \in S : x <= y
    BY <1>3
  <1> QED
    BY <1>4 DEF Min

(* Trimming changes the page count and the history of a generation only,   *)
(* and leaves at least one page.                                           *)
LEMMA TrimKeeps ==
  ASSUME NEW c \in GenType, NEW f \in Nat, NEW p \in BOOLEAN, c.pages >= 1
  PROVE  /\ Trim(c, f, p) \in GenType
         /\ Trim(c, f, p).pages >= 1
  <1> DEFINE peak    == IF c.peak < Used(c) THEN Used(c) ELSE c.peak
             start   == IF c.window = 0 \/ f < c.window THEN f ELSE c.window
             expired == f - start >= TrimWindow
             wanted  == PagesOf(IF p THEN Used(c) ELSE peak) + 1
             due     == (p \/ expired) /\ wanted < c.pages
  <1>1. c.page \in Nat /\ c.offset \in Nat /\ c.peak \in Nat /\ c.window \in Nat /\ PageUnits \in Nat \ {0}
    BY ArenaAssumption DEF GenType
  <1>2. c.page * PageUnits \in Nat
    BY <1>1
  <1>3. Used(c) \in Nat
    BY <1>1, <1>2 DEF Used
  <1>4. peak \in Nat /\ start \in Nat
    BY <1>1, <1>3
  <1>5. \A n \in Nat : PagesOf(n) \in Nat
    <2> SUFFICES ASSUME NEW n \in Nat PROVE PagesOf(n) \in Nat
      OBVIOUS
    <2>1. n + PageUnits - 1 \in Nat
      BY <1>1
    <2> QED
      BY <2>1, <1>1, DivNat DEF PagesOf
  <1>6. wanted \in Nat /\ wanted >= 1
    <2>1. (IF p THEN Used(c) ELSE peak) \in Nat
      BY <1>3, <1>4
    <2>2. PagesOf(IF p THEN Used(c) ELSE peak) \in Nat
      BY <2>1, <1>5
    <2> QED
      BY <2>2
  <1>7. Trim(c, f, p) = IF c.retire = 0 THEN c
          ELSE [c EXCEPT !.pages = IF due THEN c.pages - 1 ELSE c.pages,
                    !.window = IF expired THEN f ELSE start,
                    !.peak = IF expired THEN 0 ELSE peak]
    BY DEF Trim
  <1>8. due => c.pages - 1 >= 1
    BY <1>6 DEF GenType
  <1> HIDE DEF peak, start, expired, wanted, due
  <1>9. (IF due THEN c.pages - 1 ELSE c.pages) \in 0..FramePages
    BY <1>8, ArenaAssumption DEF GenType
  <1>10. (IF expired THEN f ELSE start) \in Nat /\ (IF expired THEN 0 ELSE peak) \in Nat
    BY <1>4
  <1> QED
    BY <1>7, <1>8, <1>9, <1>10 DEF GenType

(* The generation BeginFrame picks is one of those that may be reused.     *)
LEMMA PickReusable ==
  ASSUME TypeOK, Reusable # {}, NEW f \in Nat
  PROVE  Pick(f) \in Reusable /\ Pick(f) \in 1..count /\ Pick(f) \in Gens
  <1>1. Reusable \in SUBSET Nat
    BY DEF TypeOK, Reusable
  <1>2. Min(Reusable) \in Reusable
    BY <1>1, MinIsElement
  <1>3. Pick(f) \in Reusable
    BY <1>2 DEF Pick
  <1> QED
    BY <1>3, ArenaAssumption DEF Reusable, Gens, TypeOK

-----------------------------------------------------------------------------
(* Present and a mid-frame capture acquire a generation in the same        *)
(* situation: nothing open, and the frame it is for is the next one.       *)
Acquires(f) ==
  /\ up /\ ~txn.active /\ f = serial' + 1 /\ pc' = "draw"
  /\ \/ pc = "begin" /\ serial' = serial + 1
     \/ pc = "draw" /\ serial' = serial /\ current = None

LEMMA BeginCases ==
  ASSUME TypeOK, OwnerState, PresentBegin \/ CaptureBegin
  PROVE  \E f \in Nat : Acquires(f) /\ BeginFrame(f)
  <1>1. CASE PresentBegin
    <2>1. txn.active = FALSE
      BY <1>1 DEF PresentBegin, OwnerState, TypeOK
    <2> QED
      BY <1>1, <2>1 DEF PresentBegin, Acquires, TypeOK
  <1>2. CASE CaptureBegin
    <2>1. current = None
      BY <1>2 DEF CaptureBegin, Capacity, OwnerState, TypeOK
    <2> QED
      BY <1>2, <2>1 DEF CaptureBegin, Acquires, TypeOK, NextSerial
  <1> QED
    BY <1>1, <1>2

-----------------------------------------------------------------------------
(* A generation handed out for frame f is well formed.                     *)
LEMMA FreshType ==
  ASSUME NEW c \in GenType, NEW f \in Nat, counter \in Nat
  PROVE  Fresh(c, f) \in GenType
  <1>1. 0 \in 0..FramePages /\ 0 \in 0..PageUnits /\ 0 \in Nat /\ counter + 1 \in Nat
    BY ArenaAssumption
  <1> QED
    BY <1>1 DEF Fresh, GenType

LEMMA EmptyGenType == EmptyGen \in GenType /\ [EmptyGen EXCEPT !.pages = 1] \in GenType
  <1>1. 0 \in 0..FramePages /\ 1 \in 0..FramePages /\ 0 \in 0..PageUnits /\ 0 \in Nat
    BY ArenaAssumption
  <1>2. EmptyGen \in GenType
    BY <1>1 DEF EmptyGen, GenType
  <1>3. [EmptyGen EXCEPT !.pages = 1] \in GenType
    BY <1>1, <1>2 DEF GenType
  <1> QED
    BY <1>2, <1>3

(* Reserving a part keeps the generation and the transaction well formed.  *)
LEMMA ReserveType ==
  ASSUME TypeOK, current # None, NEW n \in Sizes,
         NEW p \in 0..FramePages, NEW o \in 0..PageUnits, o + n <= PageUnits,
         NEW k \in 0..FramePages, Reserve(gens[current], p, o, n, k)
  PROVE  /\ gens' \in [Gens -> GenType]
         /\ txn' \in [active : BOOLEAN, generation : Nat, startPage : 0..FramePages,
              startOffset : 0..PageUnits, endPage : 0..FramePages,
              endOffset : 0..PageUnits, ranges : SUBSET RangeType]
  <1>1. current \in Gens /\ n \in Nat /\ o + n \in 0..PageUnits /\ o \in Nat
    BY ArenaAssumption DEF TypeOK, Gens
  <1>2. gens[current] \in GenType
    BY <1>1 DEF TypeOK
  <1>3. [gens[current] EXCEPT !.page = p, !.offset = o + n, !.pages = k] \in GenType
    BY <1>1, <1>2 DEF GenType
  <1>4. gens' \in [Gens -> GenType]
    BY <1>3 DEF Reserve, TypeOK
  <1>5. [gen |-> current, page |-> p, lo |-> o, hi |-> o + n, frame |-> NextSerial] \in RangeType
    BY <1>1 DEF RangeType, NextSerial, TypeOK
  <1> QED
    BY <1>1, <1>4, <1>5 DEF Reserve, TypeOK

(* What BeginFrame does when it rewinds a generation: the generation was   *)
(* free, and it is the one handed out.                                     *)
LEMMA ReuseStep ==
  ASSUME TypeOK, OwnerState, NEW f \in Nat, NEW lim \in 0..FixedLimit, BeginReuse(f, lim)
  PROVE  \E g \in 1..count, c \in GenType :
           /\ g \in Gens /\ gens[g].retire <= completed /\ c.pages >= 1
           /\ gens' = [gens EXCEPT ![g] = Fresh(c, f)] /\ Fresh(c, f) \in GenType
           /\ current' = g /\ resident' = resident - (gens[g].pages - c.pages)
  <1> DEFINE g == Pick(f)
             c == Trim(gens[g], f, resident > lim)
  <1>1. Reusable # {}
    BY DEF BeginReuse
  <1>2. g \in Reusable /\ g \in 1..count /\ g \in Gens
    BY <1>1, PickReusable
  <1>3. gens[g] \in GenType /\ gens[g].pages >= 1 /\ gens[g].retire <= completed
    BY <1>2 DEF TypeOK, OwnerState, Reusable, CanBeReused
  <1>4. (resident > lim) \in BOOLEAN
    OBVIOUS
  <1>5. c \in GenType /\ c.pages >= 1
    BY <1>3, <1>4, TrimKeeps
  <1>6. Fresh(c, f) \in GenType
    BY <1>5, FreshType DEF TypeOK
  <1>7. /\ gens' = [gens EXCEPT ![g] = Fresh(c, f)] /\ current' = g
        /\ resident' = resident - (gens[g].pages - c.pages)
    BY DEF BeginReuse
  <1> HIDE DEF g, c
  <1> QED
    BY <1>2, <1>3, <1>5, <1>6, <1>7

(* Every step keeps the types; only BeginFrame needs to know that each     *)
(* generation has a page.                                                  *)
LEMMA StepType == TypeOK /\ OwnerState /\ [Next]_vars => TypeOK'
  <1> SUFFICES ASSUME TypeOK, OwnerState, [Next]_vars PROVE TypeOK'
    OBVIOUS
  <1>0. current # None => current \in Gens /\ gens[current] \in GenType
    BY ArenaAssumption DEF TypeOK, Gens
  <1>1. CASE ArenaInit
    <2>1. gens' \in [Gens -> GenType]
      BY <1>1, EmptyGenType DEF ArenaInit
    <2>2. FrameCount \in 0..MaxGens /\ FrameCount \in Int
      BY ArenaAssumption
    <2> QED
      BY <1>1, <2>1, <2>2 DEF ArenaInit, TypeOK
  <1>2. CASE ArenaInitFails
    BY <1>2 DEF ArenaInitFails, TypeOK
  <1>3. CASE BeginBundle
    <2>1. txn' \in [active : BOOLEAN, generation : Nat, startPage : 0..FramePages,
              startOffset : 0..PageUnits, endPage : 0..FramePages,
              endOffset : 0..PageUnits, ranges : SUBSET RangeType]
      BY <1>3, <1>0 DEF BeginBundle, GenType
    <2> QED
      BY <1>3, <2>1 DEF BeginBundle, TypeOK
  <1>3a. NoTxn \in [active : BOOLEAN, generation : Nat, startPage : 0..FramePages,
              startOffset : 0..PageUnits, endPage : 0..FramePages,
              endOffset : 0..PageUnits, ranges : SUBSET RangeType]
    BY ArenaAssumption DEF NoTxn
  <1>4. CASE CommitBundle
    <2>1. live' \subseteq RangeType
      BY <1>4 DEF CommitBundle, TypeOK
    <2> QED
      BY <1>4, <1>3a, <2>1 DEF CommitBundle, TypeOK
  <1>4a. txn.active => Rewind(gens[current]) \in GenType
    BY <1>0 DEF Rewind, GenType, TypeOK, OwnerState
  <1>5. CASE RollbackBundle
    <2>1. gens' \in [Gens -> GenType]
      BY <1>5, <1>4a DEF RollbackBundle, TypeOK
    <2> QED
      BY <1>5, <1>3a, <2>1 DEF RollbackBundle, TypeOK
  <1>6. ASSUME NEW n \in Sizes, ReserveHere(n) PROVE TypeOK'
    <2> DEFINE c == gens[current]
    <2>1. current # None /\ c \in GenType
      BY <1>6, <1>0 DEF ReserveHere, OwnerState
    <2>2. c.page \in 0..FramePages /\ c.offset \in 0..PageUnits /\ c.pages \in 0..FramePages
      BY <2>1 DEF GenType
    <2>3. c.offset + n <= PageUnits /\ Reserve(c, c.page, c.offset, n, c.pages)
      BY <1>6 DEF ReserveHere, FitsHere
    <2> HIDE DEF c
    <2>4. Reserve(gens[current], c.page, c.offset, n, c.pages)
      BY <2>3 DEF c
    <2> QED
      BY <1>6, <2>1, <2>2, <2>3, <2>4, ReserveType DEF ReserveHere, TypeOK
  <1>7. ASSUME NEW n \in Sizes, ReserveNext(n) PROVE TypeOK'
    <2> DEFINE c == gens[current]
    <2>1. current # None /\ c \in GenType
      BY <1>7, <1>0 DEF ReserveNext, OwnerState
    <2>2. PageFor(c) \in 0..FramePages /\ 0 \in 0..PageUnits /\ c.pages \in 0..FramePages /\ 0 + n <= PageUnits
      BY <1>7, <2>1, ArenaAssumption DEF GenType, PageFor, ReserveNext
    <2> HIDE DEF c
    <2>4. Reserve(gens[current], PageFor(c), 0, n, c.pages)
      BY <1>7 DEF c, ReserveNext
    <2> QED
      BY <1>7, <2>1, <2>2, <2>4, ReserveType DEF ReserveNext, TypeOK
  <1>8. ASSUME NEW n \in Sizes, NEW lim \in 0..FixedLimit, ReserveGrown(n, lim) PROVE TypeOK'
    <2> DEFINE c == gens[current]
    <2>1. current # None /\ c \in GenType
      BY <1>8, <1>0 DEF ReserveGrown, OwnerState
    <2>2. PageFor(c) \in 0..FramePages /\ 0 \in 0..PageUnits /\ c.pages + 1 \in 0..FramePages /\ 0 + n <= PageUnits
      BY <1>8, <2>1, ArenaAssumption DEF GenType, PageFor, ReserveGrown, MayGrow
    <2> HIDE DEF c
    <2>4. Reserve(gens[current], PageFor(c), 0, n, c.pages + 1)
      BY <1>8 DEF c, ReserveGrown
    <2> QED
      BY <1>8, <2>1, <2>2, <2>4, ReserveType DEF ReserveGrown, TypeOK
  <1>9. ASSUME NEW n \in Sizes, ReserveRejected(n) PROVE TypeOK'
    <2>1. gens' \in [Gens -> GenType]
      BY <1>9, <1>4a DEF ReserveRejected, TypeOK
    <2> QED
      BY <1>9, <1>3a, <2>1 DEF ReserveRejected, GrowthFails, TypeOK
  <1>10. current # None => Seal(NextSerial) \in [Gens -> GenType]
    <2> SUFFICES ASSUME current # None PROVE Seal(NextSerial) \in [Gens -> GenType]
      OBVIOUS
    <2>1. [gens[current] EXCEPT !.retire = NextSerial] \in GenType
      <3>1. NextSerial \in Nat
        BY DEF TypeOK, NextSerial
      <3> QED
        BY <1>0, <3>1 DEF GenType
    <2> QED
      BY <1>0, <2>1 DEF Seal, TypeOK
  <1>11. CASE EndFrame
    <2>1. gens' \in [Gens -> GenType]
      BY <1>11, <1>10 DEF EndFrame, TypeOK
    <2> QED
      BY <1>11, <2>1 DEF EndFrame, TypeOK, NextSerial
  <1>12. CASE Quarantine
    <2>1. gens' \in [Gens -> GenType]
      BY <1>12, <1>10 DEF Quarantine, TypeOK
    <2> QED
      BY <1>12, <2>1 DEF Quarantine, TypeOK, NextSerial
  <1>13. CASE PresentDown
    BY <1>13 DEF PresentDown, TypeOK
  <1>14. CASE BeginDown
    BY <1>14 DEF BeginDown, TypeOK
  <1>15. CASE PresentBegin \/ CaptureBegin
    <2>1. PICK f \in Nat : Acquires(f) /\ BeginFrame(f)
      BY <1>15, BeginCases
    <2>2. serial' \in Nat /\ pc' \in {"draw", "begin"}
      BY <2>1 DEF Acquires, TypeOK
    <2>3. ASSUME NEW lim \in 0..FixedLimit, BeginReuse(f, lim) PROVE TypeOK'
      <3>1. PICK g \in 1..count, c \in GenType :
              /\ g \in Gens /\ Fresh(c, f) \in GenType
              /\ gens' = [gens EXCEPT ![g] = Fresh(c, f)]
              /\ current' = g /\ resident' = resident - (gens[g].pages - c.pages)
        BY <2>3, ReuseStep
      <3>2. c.pages \in Int /\ gens[g].pages \in Int
        BY <3>1 DEF GenType, TypeOK
      <3>3. resident' \in Int
        BY <3>1, <3>2 DEF TypeOK
      <3> QED
        BY <2>2, <2>3, <3>1, <3>3 DEF BeginReuse, TypeOK
    <2>4. ASSUME NEW lim \in 0..FixedLimit, BeginSpill(f, lim) PROVE TypeOK'
      <3>1. Fresh([EmptyGen EXCEPT !.pages = 1], f) \in GenType
        BY EmptyGenType, FreshType DEF TypeOK
      <3>2. gens' \in [Gens -> GenType]
        BY <2>4, <3>1 DEF BeginSpill, TypeOK
      <3>3. count' \in 0..MaxGens /\ current' \in 1..count'
        <4>1. count \in 0..MaxGens /\ count < MaxGens /\ MaxGens \in Nat
          BY <2>4, ArenaAssumption DEF BeginSpill, TypeOK
        <4>2. count' = count + 1 /\ current' = count + 1
          BY <2>4 DEF BeginSpill
        <4> QED
          BY <4>1, <4>2
      <3>4. counter' \in Nat /\ resident' \in Int
        BY <2>4 DEF BeginSpill, TypeOK
      <3> QED
        BY <2>2, <2>4, <3>2, <3>3, <3>4 DEF BeginSpill, TypeOK
    <2>5. CASE BeginBusy(f)
      BY <2>2, <2>5 DEF BeginBusy, GrowthFails, TypeOK
    <2> QED
      BY <2>1, <2>3, <2>4, <2>5 DEF BeginFrame
  <1>16. CASE FenceAdvance
    BY <1>16 DEF FenceAdvance, TypeOK
  <1>17. CASE UNCHANGED vars
    BY <1>17 DEF vars, TypeOK
  <1> QED
    BY <1>1, <1>2, <1>3, <1>4, <1>5, <1>6, <1>7, <1>8, <1>9, <1>11, <1>12, <1>13,
       <1>14, <1>15, <1>16, <1>17 DEF Next

-----------------------------------------------------------------------------
(* Steps that leave the frame, the command stream and the fence alone.     *)
Recording ==
  \/ ArenaInit \/ ArenaInitFails
  \/ BeginBundle \/ CommitBundle \/ RollbackBundle
  \/ \E n \in Sizes : ReserveHere(n) \/ ReserveNext(n) \/ ReserveRejected(n)
  \/ \E n \in Sizes, lim \in 0..FixedLimit : ReserveGrown(n, lim)

LEMMA StepSignals == TypeOK /\ OwnerState /\ SignalsOrdered /\ [Next]_vars => SignalsOrdered'
  <1> SUFFICES ASSUME TypeOK, OwnerState, SignalsOrdered, [Next]_vars PROVE SignalsOrdered'
    OBVIOUS
  <1>0. serial \in Nat /\ signals \in Seq(Nat) /\ completed \in Nat
    BY DEF TypeOK
  <1>1. CASE Recording \/ UNCHANGED vars
    <2>1. UNCHANGED <<serial, signals, completed, pc>>
      BY <1>1 DEF Recording, vars, ArenaInit, ArenaInitFails, BeginBundle, CommitBundle,
         RollbackBundle, ReserveHere, ReserveNext, ReserveGrown, ReserveRejected
    <2> QED
      BY <2>1 DEF SignalsOrdered
  <1>2. CASE EndFrame \/ Quarantine
    <2>1. /\ pc = "draw" /\ pc' = "begin" /\ serial' = serial /\ completed' = completed
          /\ signals' = Append(signals, serial + 1)
      BY <1>2 DEF EndFrame, Quarantine, NextSerial
    <2>2. Len(signals') = Len(signals) + 1 /\ Len(signals) \in Nat
      BY <1>0, <2>1
    <2>3. \A i \in 1..Len(signals') : signals'[i] = IF i <= Len(signals) THEN signals[i] ELSE serial + 1
      BY <1>0, <2>1
    <2>4. \A i \in 1..Len(signals) : signals[i] <= serial /\ signals[i] \in Nat /\ completed < signals[i]
      BY <1>0, <2>1 DEF SignalsOrdered
    <2>5. \A i, j \in 1..Len(signals) : i < j => signals[i] < signals[j]
      BY DEF SignalsOrdered
    <2>6. completed <= serial
      BY <2>1 DEF SignalsOrdered
    <2>7. \A i \in 1..Len(signals') : completed < signals'[i] /\ signals'[i] <= serial + 1
      BY <1>0, <2>2, <2>3, <2>4, <2>6
    <2>8. \A i, j \in 1..Len(signals') : i < j => signals'[i] < signals'[j]
      BY <1>0, <2>2, <2>3, <2>4, <2>5
    <2> QED
      BY <1>0, <2>1, <2>6, <2>7, <2>8 DEF SignalsOrdered
  <1>3. CASE PresentDown \/ BeginDown \/ PresentBegin \/ CaptureBegin
    <2>1. signals' = signals /\ completed' = completed
      BY <1>3 DEF PresentDown, BeginDown, PresentBegin, CaptureBegin, BeginFrame,
         BeginReuse, BeginSpill, BeginBusy
    <2>2. pc' = "draw" /\ (serial' = serial + 1 \/ (pc = "draw" /\ serial' = serial))
      BY <1>3 DEF PresentDown, BeginDown, PresentBegin, CaptureBegin
    <2>3. \A i \in 1..Len(signals) : signals[i] \in Nat
      BY <1>0
    <2> QED
      BY <1>0, <2>1, <2>2, <2>3 DEF SignalsOrdered
  <1>4. CASE FenceAdvance
    <2>1. signals # << >> /\ completed' = signals[1] /\ signals' = Tail(signals)
          /\ UNCHANGED <<serial, pc>>
      BY <1>4 DEF FenceAdvance
    <2>2. Len(signals) \in Nat /\ Len(signals) >= 1 /\ Len(signals') = Len(signals) - 1
      BY <1>0, <2>1
    <2>3. \A i \in 1..Len(signals') : signals'[i] = signals[i + 1] /\ i + 1 \in 1..Len(signals)
      BY <1>0, <2>1, <2>2
    <2> QED
      BY <1>0, <2>1, <2>2, <2>3 DEF SignalsOrdered
  <1> QED
    BY <1>1, <1>2, <1>3, <1>4 DEF Next, Recording

-----------------------------------------------------------------------------
(* Reserving a part, whichever page takes it: the part starts at the       *)
(* cursor or on a later page, and ends at the new cursor.                  *)
Reserving ==
  \E n \in Sizes : ReserveHere(n) \/ ReserveNext(n)
                   \/ \E lim \in 0..FixedLimit : ReserveGrown(n, lim)

LEMMA ReserveStep ==
  ASSUME TypeOK, OwnerState, CursorDivides, Reserving
  PROVE  /\ txn.active
         /\ UNCHANGED <<up, count, current, serial, signals, completed, live, pc>>
         /\ \E n \in Sizes, p \in Nat, o \in Nat, k \in Nat :
              /\ Reserve(gens[current], p, o, n, k)
              /\ p < k /\ k >= gens[current].pages
              /\ (p = txn.endPage /\ o = txn.endOffset) \/ p > txn.endPage
  <1>1. PICK n \in Sizes : ReserveHere(n) \/ ReserveNext(n)
                   \/ \E lim \in 0..FixedLimit : ReserveGrown(n, lim)
    BY DEF Reserving
  <1>2. txn.active /\ UNCHANGED <<up, count, current, serial, signals, completed, live, pc>>
    BY <1>1 DEF ReserveHere, ReserveNext, ReserveGrown
  <1> DEFINE c == gens[current]
  <1>3. current # None /\ pc = "draw" /\ c \in GenType
    BY <1>2, ArenaAssumption DEF TypeOK, OwnerState, Gens
  <1>4. c.page \in Nat /\ c.offset \in Nat /\ c.pages \in Nat
    BY <1>3 DEF GenType
  <1>5. c.page < c.pages /\ c.page = txn.endPage /\ c.offset = txn.endOffset
    BY <1>2, <1>3 DEF CursorDivides, ExactOwner
  <1>6. PageFor(c) = c.page + 1
    BY <1>5 DEF PageFor
  <1> HIDE DEF c
  <1>7. CASE ReserveHere(n)
    <2>1. Reserve(gens[current], c.page, c.offset, n, c.pages)
      BY <1>7 DEF ReserveHere, c
    <2> QED
      BY <1>2, <1>4, <1>5, <2>1 DEF c
  <1>8. CASE ReserveNext(n)
    <2>1. Reserve(gens[current], PageFor(c), 0, n, c.pages) /\ PageFor(c) < c.pages
      BY <1>8 DEF ReserveNext, c
    <2> QED
      BY <1>2, <1>4, <1>5, <1>6, <2>1 DEF c
  <1>9. CASE \E lim \in 0..FixedLimit : ReserveGrown(n, lim)
    <2>1. Reserve(gens[current], PageFor(c), 0, n, c.pages + 1) /\ PageFor(c) = c.pages
      BY <1>9 DEF ReserveGrown, c
    <2> QED
      BY <1>2, <1>4, <1>5, <1>6, <2>1 DEF c
  <1> QED
    BY <1>1, <1>7, <1>8, <1>9

(* Giving a bundle up: the cursor returns to where it began, or stays.     *)
LEMMA AbandonStep ==
  ASSUME TypeOK, OwnerState, CursorDivides,
         RollbackBundle \/ \E n \in Sizes : ReserveRejected(n)
  PROVE  /\ txn.active /\ txn' = NoTxn
         /\ UNCHANGED <<up, count, current, serial, signals, completed, live, pc>>
         /\ gens' = [gens EXCEPT ![current] = Rewind(gens[current])]
  BY DEF RollbackBundle, ReserveRejected, CursorDivides

-----------------------------------------------------------------------------
(* The owner's state is kept.                                              *)
LEMMA StepOwner == TypeOK /\ OwnerState /\ CursorDivides /\ [Next]_vars => OwnerState'
  <1> SUFFICES ASSUME TypeOK, OwnerState, CursorDivides, [Next]_vars PROVE OwnerState'
    OBVIOUS
  <1>0. /\ count \in Nat /\ count <= MaxGens /\ MaxGens \in Nat /\ gens \in [Gens -> GenType]
        /\ current \in 1..count \cup {None} /\ serial \in Nat
        /\ \A g \in 1..count : g \in Gens /\ gens[g] \in GenType
    BY ArenaAssumption DEF TypeOK, Gens
  <1>0a. current # None => current \in 1..count /\ current \in Gens
    BY <1>0
  <1>1. CASE ArenaInit
    <2>1. \A g \in 1..count' : gens'[g].pages = 1
      BY <1>1, ArenaAssumption DEF ArenaInit, EmptyGen, Gens
    <2> QED
      BY <1>1, <2>1 DEF ArenaInit, OwnerState
  <1>2. CASE ArenaInitFails \/ CommitBundle \/ FenceAdvance \/ UNCHANGED vars
    <2>1. UNCHANGED <<up, gens, count, current, serial, pc>>
      BY <1>2 DEF ArenaInitFails, CommitBundle, FenceAdvance, vars
    <2>2. txn'.active => txn.active
      BY <1>2 DEF ArenaInitFails, CommitBundle, FenceAdvance, vars, NoTxn
    <2>3. ~up => live' = {}
      BY <1>2 DEF ArenaInitFails, CommitBundle, FenceAdvance, vars, OwnerState
    <2> QED
      BY <2>1, <2>2, <2>3 DEF OwnerState
  <1>3. CASE BeginBundle
    BY <1>3 DEF BeginBundle, OwnerState
  <1>4. CASE Reserving
    <2>1. PICK n \in Sizes, p \in Nat, o \in Nat, k \in Nat :
              /\ Reserve(gens[current], p, o, n, k)
              /\ p < k /\ k >= gens[current].pages
      BY <1>4, ReserveStep
    <2>2. txn.active /\ UNCHANGED <<up, count, current, serial, live, pc>>
      BY <1>4, ReserveStep
    <2>3. current # None /\ pc = "draw" /\ up
      BY <2>2 DEF OwnerState
    <2>4. gens[current] \in GenType
      BY <1>0, <1>0a, <2>3
    <2>5. /\ gens'[current].pages = k /\ gens'[current].retire = gens[current].retire
          /\ gens'[current].frame = gens[current].frame
      BY <1>0, <1>0a, <2>1, <2>3, <2>4 DEF Reserve, GenType
    <2>6. \A g \in Gens : g # current => gens'[g] = gens[g]
      BY <1>0, <2>1 DEF Reserve
    <2>7. \A g \in 1..count : gens'[g].pages >= 1
      BY <1>0, <2>1, <2>5, <2>6 DEF OwnerState
    <2> QED
      BY <2>2, <2>3, <2>5, <2>7 DEF OwnerState
  <1>5. CASE RollbackBundle \/ \E n \in Sizes : ReserveRejected(n)
    <2>1. /\ txn.active /\ txn' = NoTxn
          /\ UNCHANGED <<up, count, current, serial, live, pc>>
          /\ gens' = [gens EXCEPT ![current] = Rewind(gens[current])]
      BY <1>5, AbandonStep
    <2>2. current # None
      BY <2>1 DEF OwnerState
    <2>3. gens[current] \in GenType
      BY <1>0, <1>0a, <2>2
    <2>4. /\ gens'[current].pages = gens[current].pages /\ gens'[current].retire = gens[current].retire
          /\ gens'[current].frame = gens[current].frame
      BY <1>0, <1>0a, <2>1, <2>2, <2>3 DEF Rewind, GenType
    <2>5. \A g \in 1..count : gens'[g].pages >= 1
      BY <1>0, <2>1, <2>4 DEF OwnerState
    <2> QED
      BY <2>1, <2>4, <2>5 DEF OwnerState, NoTxn
  <1>6. CASE EndFrame \/ Quarantine
    <2>1. /\ ~txn.active /\ pc' = "begin" /\ UNCHANGED <<up, count, live, txn>>
          /\ current' \in {current, None}
          /\ gens' = gens \/ (current # None /\ gens' = Seal(NextSerial))
      BY <1>6 DEF EndFrame, Quarantine
    <2>2. \A g \in 1..count : gens'[g].pages = gens[g].pages
      BY <1>0, <1>0a, <2>1 DEF Seal, GenType
    <2> QED
      BY <2>1, <2>2 DEF OwnerState
  <1>7. CASE PresentDown \/ BeginDown
    BY <1>7 DEF PresentDown, BeginDown, OwnerState
  <1>8. CASE PresentBegin \/ CaptureBegin
    <2>1. PICK f \in Nat : Acquires(f) /\ BeginFrame(f)
      BY <1>8, BeginCases
    <2>2. ASSUME NEW lim \in 0..FixedLimit, BeginReuse(f, lim) PROVE OwnerState'
      <3>1. PICK g \in 1..count, c \in GenType :
              /\ g \in Gens /\ c.pages >= 1
              /\ gens' = [gens EXCEPT ![g] = Fresh(c, f)] /\ current' = g
        BY <2>2, ReuseStep
      <3>2. Fresh(c, f).pages = c.pages /\ Fresh(c, f).retire = 0 /\ Fresh(c, f).frame = f
        BY DEF Fresh, GenType
      <3>3. \A h \in 1..count : gens'[h].pages >= 1
        BY <1>0, <3>1, <3>2 DEF OwnerState
      <3>4. gens'[current'].retire = 0 /\ gens'[current'].frame = f
        BY <1>0, <3>1, <3>2
      <3> QED
        BY <2>1, <2>2, <3>3, <3>4 DEF OwnerState, Acquires, BeginReuse
    <2>3. ASSUME NEW lim \in 0..FixedLimit, BeginSpill(f, lim) PROVE OwnerState'
      <3> DEFINE e == Fresh([EmptyGen EXCEPT !.pages = 1], f)
      <3>1. e.pages = 1 /\ e.retire = 0 /\ e.frame = f
        BY DEF Fresh, EmptyGen
      <3>2. /\ count' = count + 1 /\ current' = count + 1 /\ gens' = [gens EXCEPT ![count + 1] = e]
            /\ count + 1 \in Gens
        BY <1>0, <2>3 DEF BeginSpill, Gens
      <3> HIDE DEF e
      <3>3. \A h \in 1..count' : gens'[h].pages >= 1
        BY <1>0, <3>1, <3>2 DEF OwnerState
      <3>4. gens'[current'].retire = 0 /\ gens'[current'].frame = f
        BY <1>0, <3>1, <3>2
      <3> QED
        BY <2>1, <2>3, <3>3, <3>4 DEF OwnerState, Acquires, BeginSpill
    <2>4. CASE BeginBusy(f)
      BY <2>1, <2>4 DEF OwnerState, Acquires, BeginBusy
    <2> QED
      BY <2>1, <2>2, <2>3, <2>4 DEF BeginFrame
  <1> QED
    BY <1>1, <1>2, <1>3, <1>4, <1>5, <1>6, <1>7, <1>8 DEF Next, Reserving

-----------------------------------------------------------------------------
(* Within a frame the retirement serials of the generations do not change. *)
LEMMA RecordingKeepsSeals ==
  ASSUME TypeOK, OwnerState, CursorDivides,
         \/ ArenaInitFails \/ BeginBundle \/ CommitBundle \/ RollbackBundle \/ Reserving
         \/ (\E n \in Sizes : ReserveRejected(n)) \/ UNCHANGED vars
  PROVE  /\ \A g \in Gens : gens'[g].retire = gens[g].retire
         /\ UNCHANGED <<up, count, current, serial, signals, completed, pc>>
  <1>0. /\ gens \in [Gens -> GenType] /\ (current # None => current \in Gens)
    BY ArenaAssumption DEF TypeOK, Gens
  <1>1. CASE ArenaInitFails \/ BeginBundle \/ CommitBundle \/ UNCHANGED vars
    BY <1>1 DEF ArenaInitFails, BeginBundle, CommitBundle, vars
  <1>2. CASE Reserving
    <2>1. PICK n \in Sizes, p \in Nat, o \in Nat, k \in Nat : Reserve(gens[current], p, o, n, k)
      BY <1>2, ReserveStep
    <2>2. txn.active /\ UNCHANGED <<up, count, current, serial, signals, completed, pc>>
      BY <1>2, ReserveStep
    <2>3. current \in Gens /\ gens[current] \in GenType
      BY <1>0, <2>2 DEF OwnerState
    <2>4. gens'[current].retire = gens[current].retire
      BY <1>0, <2>1, <2>3 DEF Reserve, GenType
    <2>5. \A g \in Gens : g # current => gens'[g] = gens[g]
      BY <1>0, <2>1 DEF Reserve
    <2> QED
      BY <2>2, <2>4, <2>5
  <1>3. CASE RollbackBundle \/ \E n \in Sizes : ReserveRejected(n)
    <2>1. /\ txn.active /\ UNCHANGED <<up, count, current, serial, signals, completed, pc>>
          /\ gens' = [gens EXCEPT ![current] = Rewind(gens[current])]
      BY <1>3, AbandonStep
    <2>2. current \in Gens /\ gens[current] \in GenType
      BY <1>0, <2>1 DEF OwnerState
    <2>3. gens'[current].retire = gens[current].retire
      BY <1>0, <2>1, <2>2 DEF Rewind, GenType
    <2> QED
      BY <1>0, <2>1, <2>3
  <1> QED
    BY <1>1, <1>2, <1>3

(* What sealing does to the serials.                                       *)
LEMMA SealStep ==
  ASSUME TypeOK, OwnerState, EndFrame \/ Quarantine
  PROVE  /\ pc = "draw" /\ pc' = "begin" /\ ~txn.active
         /\ UNCHANGED <<up, count, serial, completed, live, txn>>
         /\ signals' = Append(signals, serial + 1)
         /\ \A g \in Gens : gens'[g].retire = IF up /\ g = current THEN serial + 1 ELSE gens[g].retire
  <1>1. /\ pc = "draw" /\ pc' = "begin" /\ ~txn.active
        /\ UNCHANGED <<up, count, serial, completed, live, txn>>
        /\ signals' = Append(signals, serial + 1)
    BY DEF EndFrame, Quarantine, NextSerial
  <1>2. gens \in [Gens -> GenType] /\ (current # None => current \in Gens) /\ None \notin Gens
    BY ArenaAssumption DEF TypeOK, Gens, None
  <1>3. gens' = IF up /\ current # None THEN Seal(serial + 1) ELSE gens
    BY <1>1 DEF EndFrame, Quarantine, OwnerState, NextSerial
  <1>4. CASE up /\ current # None
    <2>1. gens[current] \in GenType /\ gens' = [gens EXCEPT ![current].retire = serial + 1]
      BY <1>2, <1>3, <1>4 DEF Seal
    <2>2. gens'[current].retire = serial + 1
      BY <1>2, <1>4, <2>1 DEF GenType
    <2>3. \A g \in Gens : g # current => gens'[g] = gens[g]
      BY <1>2, <2>1
    <2> QED
      BY <1>1, <1>4, <2>2, <2>3
  <1>5. CASE ~(up /\ current # None)
    BY <1>1, <1>2, <1>3, <1>5
  <1> QED
    BY <1>4, <1>5

(* What acquiring a generation does: the one handed out was free, if it    *)
(* existed, and is not sealed; the others are untouched.                   *)
LEMMA AcquireStep ==
  ASSUME TypeOK, OwnerState, PresentBegin \/ CaptureBegin
  PROVE  /\ up /\ ~txn.active /\ pc' = "draw" /\ UNCHANGED <<up, signals, completed, live, txn>>
         /\ (pc = "begin" /\ serial' = serial + 1) \/ (pc = "draw" /\ serial' = serial /\ current = None)
         /\ count' >= count
         /\ \/ current' = None /\ gens' = gens
            \/ \E g \in Gens :
                 /\ g = current' /\ (g \in 1..count => gens[g].retire <= completed)
                 /\ gens'[g].retire = 0 /\ gens'[g].page < gens'[g].pages
                 /\ gens'[g].page = 0 /\ gens'[g].offset = 0
                 /\ \A h \in Gens : h # g => gens'[h] = gens[h]
  <1>0. gens \in [Gens -> GenType] /\ count \in Nat /\ MaxGens \in Nat
    BY ArenaAssumption DEF TypeOK
  <1>1. PICK f \in Nat : Acquires(f) /\ BeginFrame(f)
    BY BeginCases
  <1>2. ASSUME NEW c \in GenType
        PROVE  Fresh(c, f).pages = c.pages /\ Fresh(c, f).retire = 0
               /\ Fresh(c, f).page = 0 /\ Fresh(c, f).offset = 0
    BY <1>2 DEF Fresh, GenType
  <1>3. ASSUME NEW lim \in 0..FixedLimit, BeginReuse(f, lim)
        PROVE  \E g \in Gens :
                 /\ g = current' /\ (g \in 1..count => gens[g].retire <= completed)
                 /\ gens'[g].retire = 0 /\ gens'[g].page < gens'[g].pages
                 /\ gens'[g].page = 0 /\ gens'[g].offset = 0
                 /\ \A h \in Gens : h # g => gens'[h] = gens[h]
    <2>1. PICK g \in 1..count, c \in GenType :
              /\ g \in Gens /\ gens[g].retire <= completed /\ c.pages >= 1
              /\ gens' = [gens EXCEPT ![g] = Fresh(c, f)] /\ current' = g
      BY <1>3, ReuseStep
    <2>2. gens'[g] = Fresh(c, f)
      BY <1>0, <2>1
    <2>3. /\ gens'[g].retire = 0 /\ gens'[g].page < gens'[g].pages
          /\ gens'[g].page = 0 /\ gens'[g].offset = 0
      BY <1>2, <2>1, <2>2 DEF GenType
    <2> QED
      BY <1>0, <2>1, <2>3
  <1>4. ASSUME NEW lim \in 0..FixedLimit, BeginSpill(f, lim)
        PROVE  \E g \in Gens :
                 /\ g = current' /\ (g \in 1..count => gens[g].retire <= completed)
                 /\ gens'[g].retire = 0 /\ gens'[g].page < gens'[g].pages
                 /\ gens'[g].page = 0 /\ gens'[g].offset = 0
                 /\ \A h \in Gens : h # g => gens'[h] = gens[h]
    <2> DEFINE c == [EmptyGen EXCEPT !.pages = 1]
    <2>1. c \in GenType /\ c.pages = 1
      BY EmptyGenType DEF EmptyGen
    <2>2. /\ current' = count + 1 /\ gens' = [gens EXCEPT ![count + 1] = Fresh(c, f)]
          /\ count + 1 \in Gens /\ count + 1 \notin 1..count
      BY <1>0, <1>4 DEF BeginSpill, Gens
    <2> HIDE DEF c
    <2>3. gens'[count + 1] = Fresh(c, f)
      BY <1>0, <2>2
    <2>4. /\ gens'[count + 1].retire = 0 /\ gens'[count + 1].page < gens'[count + 1].pages
          /\ gens'[count + 1].page = 0 /\ gens'[count + 1].offset = 0
      BY <1>2, <2>1, <2>3
    <2> QED
      BY <1>0, <2>2, <2>4
  <1>5. BeginBusy(f) => current' = None /\ gens' = gens
    BY DEF BeginBusy
  <1>6. UNCHANGED <<up, signals, completed, live, txn>> /\ count' >= count
    BY <1>0, <1>1 DEF BeginFrame, BeginReuse, BeginSpill, BeginBusy
  <1>7. \/ current' = None /\ gens' = gens
        \/ \E g \in Gens :
                 /\ g = current' /\ (g \in 1..count => gens[g].retire <= completed)
                 /\ gens'[g].retire = 0 /\ gens'[g].page < gens'[g].pages
                 /\ gens'[g].page = 0 /\ gens'[g].offset = 0
                 /\ \A h \in Gens : h # g => gens'[h] = gens[h]
    <2>1. CASE \E lim \in 0..FixedLimit : BeginReuse(f, lim)
      BY <1>3, <2>1
    <2>2. CASE \E lim \in 0..FixedLimit : BeginSpill(f, lim)
      BY <1>4, <2>2
    <2> QED
      BY <1>1, <1>5, <2>1, <2>2 DEF BeginFrame
  <1>8. /\ up /\ ~txn.active /\ pc' = "draw"
        /\ (pc = "begin" /\ serial' = serial + 1) \/ (pc = "draw" /\ serial' = serial /\ current = None)
    BY <1>1 DEF Acquires
  <1> QED
    BY <1>6, <1>7, <1>8

-----------------------------------------------------------------------------
(* The ranges in flight stay held: a generation is sealed with the serial  *)
(* of the frame it was open for, and only a free one is rewound.           *)
LEMMA StepHeld ==
  TypeOK /\ OwnerState /\ SignalsOrdered /\ CursorDivides /\ RangesHeld /\ [Next]_vars
    => RangesHeld'
  <1> SUFFICES ASSUME TypeOK, OwnerState, SignalsOrdered, CursorDivides, RangesHeld, [Next]_vars
               PROVE  RangesHeld'
    OBVIOUS
  <1>0. /\ count \in Nat /\ count <= MaxGens /\ MaxGens \in Nat /\ gens \in [Gens -> GenType]
        /\ current \in 1..count \cup {None} /\ serial \in Nat /\ completed \in Nat
        /\ \A g \in 1..count : g \in Gens /\ gens[g].retire \in Nat /\ g # None
        /\ \A r \in live : r.frame \in Nat
    <2>1. /\ count \in Nat /\ count <= MaxGens /\ MaxGens \in Nat /\ gens \in [Gens -> GenType]
          /\ current \in 1..count \cup {None} /\ serial \in Nat /\ completed \in Nat
      BY ArenaAssumption DEF TypeOK
    <2>2. \A g \in 1..count : g \in Gens /\ g # None
      BY <2>1 DEF Gens, None
    <2>3. \A g \in Gens : gens[g].retire \in Nat
      BY <2>1 DEF GenType
    <2>4. \A r \in live : r.frame \in Nat
      BY DEF TypeOK, RangeType
    <2> QED
      BY <2>1, <2>2, <2>3, <2>4
  <1>1. CASE ~up /\ live' = {}
    BY <1>1 DEF RangesHeld
  <1>2. CASE CommitBundle
    <2>1. /\ txn.active /\ live' \subseteq live \cup txn.ranges
          /\ UNCHANGED <<gens, count, current, serial, completed, pc>>
      BY <1>2 DEF CommitBundle
    <2>2. pc = "draw" /\ current \in 1..count /\ completed <= serial
      BY <1>0, <2>1 DEF OwnerState, SignalsOrdered
    <2>3. \A r \in txn.ranges : r.gen = current /\ r.frame = serial + 1 /\ r.lo < r.hi
      BY <2>1 DEF CursorDivides
    <2> QED
      BY <1>0, <2>1, <2>2, <2>3 DEF RangesHeld
  <1>3. CASE \/ ArenaInitFails \/ BeginBundle \/ RollbackBundle \/ Reserving
             \/ (\E n \in Sizes : ReserveRejected(n)) \/ UNCHANGED vars
    <2>1. /\ \A g \in Gens : gens'[g].retire = gens[g].retire
          /\ UNCHANGED <<up, count, current, serial, signals, completed, pc>>
      BY <1>3, RecordingKeepsSeals
    <2>2. live' = live
      BY <1>3, ReserveStep, AbandonStep DEF ArenaInitFails, BeginBundle, vars
    <2> QED
      BY <1>0, <2>1, <2>2 DEF RangesHeld
  <1>4. CASE EndFrame \/ Quarantine
    <2>1. /\ pc = "draw" /\ UNCHANGED <<up, count, serial, completed, live>>
          /\ \A g \in Gens : gens'[g].retire = IF up /\ g = current THEN serial + 1 ELSE gens[g].retire
      BY <1>4, SealStep
    <2>2. ASSUME NEW r \in live PROVE up /\ gens'[r.gen].retire >= r.frame
      <3>1. up /\ r.gen \in Gens
        BY <1>0, <2>2 DEF OwnerState, RangesHeld
      <3>2. r.frame <= serial + 1 /\ (gens[r.gen].retire >= r.frame \/ r.gen = current)
        BY <2>2 DEF RangesHeld
      <3> QED
        BY <2>1, <3>1, <3>2
    <2> QED
      BY <1>0, <2>1, <2>2 DEF RangesHeld
  <1>5. CASE PresentBegin \/ CaptureBegin
    <2>1. /\ UNCHANGED <<completed, live>> /\ pc' = "draw"
          /\ (pc = "begin" /\ serial' = serial + 1) \/ (pc = "draw" /\ serial' = serial /\ current = None)
          /\ count' >= count
      BY <1>5, AcquireStep
    <2>2. count' \in Nat
      BY StepType DEF TypeOK
    <2>3. ASSUME NEW r \in live PROVE gens[r.gen].retire >= r.frame
      BY <1>0, <2>1, <2>3 DEF RangesHeld
    <2>4. ASSUME NEW r \in live PROVE gens'[r.gen] = gens[r.gen]
      <3>1. r.gen \in 1..count /\ r.gen \in Gens /\ r.frame > completed
        BY <1>0, <2>4 DEF RangesHeld
      <3>2. ~(gens[r.gen].retire <= completed)
        BY <1>0, <2>3, <2>4, <3>1
      <3> QED
        BY <1>5, <3>1, <3>2, AcquireStep
    <2> QED
      BY <1>0, <2>1, <2>2, <2>3, <2>4 DEF RangesHeld
  <1>6. CASE FenceAdvance
    <2>1. /\ UNCHANGED <<gens, count, current, serial, pc>>
          /\ live' = {r \in live : r.frame > completed'}
      BY <1>6 DEF FenceAdvance
    <2> QED
      BY <2>1 DEF RangesHeld
  <1>7. CASE ArenaInit \/ PresentDown \/ BeginDown
    <2>1. ~up /\ live' = live
      BY <1>7 DEF ArenaInit, PresentDown, BeginDown
    <2> QED
      BY <1>1, <2>1 DEF OwnerState
  <1> QED
    BY <1>2, <1>3, <1>4, <1>5, <1>6, <1>7 DEF Next, Reserving

(* A serial some generation waits for is in the command stream.            *)
LEMMA StepSealed ==
  TypeOK /\ OwnerState /\ SignalsOrdered /\ CursorDivides /\ SealIsSignalled /\ [Next]_vars
    => SealIsSignalled'
  <1> SUFFICES ASSUME TypeOK, OwnerState, SignalsOrdered, CursorDivides, SealIsSignalled, [Next]_vars
               PROVE  SealIsSignalled'
    OBVIOUS
  <1>0. /\ gens \in [Gens -> GenType] /\ serial \in Nat /\ completed \in Nat /\ signals \in Seq(Nat)
        /\ \A g \in Gens : gens[g].retire \in Nat
    BY DEF TypeOK, GenType
  <1>1. CASE \/ ArenaInitFails \/ BeginBundle \/ CommitBundle \/ RollbackBundle \/ Reserving
             \/ (\E n \in Sizes : ReserveRejected(n)) \/ UNCHANGED vars
    BY <1>1, RecordingKeepsSeals DEF SealIsSignalled
  <1>2. CASE ArenaInit
    <2>1. \A g \in Gens : gens'[g].retire = 0
      BY <1>2 DEF ArenaInit, EmptyGen
    <2> QED
      BY <1>0, <1>2, <2>1 DEF ArenaInit, SealIsSignalled
  <1>3. CASE PresentDown \/ BeginDown
    BY <1>3 DEF PresentDown, BeginDown, SealIsSignalled
  <1>4. CASE PresentBegin \/ CaptureBegin
    <2>1. UNCHANGED <<signals, completed>>
      BY <1>4, AcquireStep
    <2>2. \A g \in Gens : gens'[g].retire = 0 \/ gens'[g].retire = gens[g].retire
      BY <1>4, AcquireStep
    <2> QED
      BY <1>0, <2>1, <2>2 DEF SealIsSignalled
  <1>5. CASE EndFrame \/ Quarantine
    <2>1. /\ completed' = completed /\ signals' = Append(signals, serial + 1)
          /\ \A g \in Gens : gens'[g].retire \in {serial + 1, gens[g].retire}
      BY <1>5, SealStep
    <2>2. /\ Len(signals') = Len(signals) + 1 /\ Len(signals) \in Nat
          /\ signals'[Len(signals) + 1] = serial + 1
          /\ \A i \in 1..Len(signals) : signals'[i] = signals[i]
      BY <1>0, <2>1
    <2> QED
      BY <2>1, <2>2 DEF SealIsSignalled
  <1>6. CASE FenceAdvance
    <2>1. /\ signals # << >> /\ completed' = signals[1] /\ signals' = Tail(signals) /\ gens' = gens
      BY <1>6 DEF FenceAdvance
    <2>2. /\ Len(signals) \in Nat /\ Len(signals') = Len(signals) - 1
          /\ \A i \in 1..Len(signals) : i # 1 => i - 1 \in 1..Len(signals') /\ signals'[i - 1] = signals[i]
      BY <1>0, <2>1
    <2>3. completed < signals[1] /\ signals[1] \in Nat
      BY <1>0, <2>1 DEF SignalsOrdered
    <2>4. ASSUME NEW g \in Gens, gens[g].retire > completed'
          PROVE  \E i \in 1..Len(signals') : signals'[i] = gens[g].retire
      <3>1. gens[g].retire > completed
        BY <1>0, <2>1, <2>3, <2>4
      <3>2. PICK i \in 1..Len(signals) : signals[i] = gens[g].retire
        BY <3>1 DEF SealIsSignalled
      <3>3. i # 1
        BY <1>0, <2>1, <2>4, <3>2
      <3> QED
        BY <2>2, <3>2, <3>3
    <2> QED
      BY <2>1, <2>4 DEF SealIsSignalled
  <1> QED
    BY <1>1, <1>2, <1>3, <1>4, <1>5, <1>6 DEF Next, Reserving

-----------------------------------------------------------------------------
(* The integers behind a range and a transaction.                          *)
LEMMA Numbers ==
  ASSUME TypeOK
  PROVE  /\ \A r \in live \cup txn.ranges : r.page \in Nat /\ r.lo \in Nat /\ r.hi \in Nat
         /\ txn.startPage \in Nat /\ txn.startOffset \in Nat
         /\ txn.endPage \in Nat /\ txn.endOffset \in Nat
  <1>1. live \cup txn.ranges \subseteq RangeType
    BY DEF TypeOK
  <1>2. \A r \in RangeType : r.page \in Nat /\ r.lo \in Nat /\ r.hi \in Nat
    BY DEF RangeType
  <1>3. /\ txn.startPage \in Nat /\ txn.startOffset \in Nat
        /\ txn.endPage \in Nat /\ txn.endOffset \in Nat
    BY DEF TypeOK
  <1> QED
    BY <1>1, <1>2, <1>3

(* A range before a place shares nothing with a range after it.            *)
LEMMA Apart ==
  ASSUME NEW a, NEW b, NEW p \in Nat, NEW o \in Nat,
         a.page \in Nat, a.lo \in Nat, a.hi \in Nat,
         b.page \in Nat, b.lo \in Nat, b.hi \in Nat,
         Before(a, p, o), After(b, p, o)
  PROVE  a.page = b.page => a.hi <= b.lo
  BY DEF Before, After

(* Committed captures stay disjoint.                                       *)
LEMMA StepDisjoint ==
  TypeOK /\ OwnerState /\ CursorDivides /\ InFlightDisjoint /\ [Next]_vars => InFlightDisjoint'
  <1> SUFFICES ASSUME TypeOK, OwnerState, CursorDivides, InFlightDisjoint, [Next]_vars
               PROVE  InFlightDisjoint'
    OBVIOUS
  <1>1. CASE live' \subseteq live
    BY <1>1 DEF InFlightDisjoint
  <1>2. CASE CommitBundle
    <2>1. txn.active /\ live' \subseteq live \cup txn.ranges
      BY <1>2 DEF CommitBundle
    <2>2. ASSUME NEW a \in live, NEW b \in txn.ranges, a.gen = b.gen, a.page = b.page
          PROVE  a.hi <= b.lo
      <3>1. Before(a, txn.startPage, txn.startOffset) /\ After(b, txn.startPage, txn.startOffset)
        BY <2>1, <2>2 DEF CursorDivides
      <3> QED
        BY <2>2, <3>1, Numbers, Apart
    <2>3. \A a, b \in txn.ranges : (a # b /\ a.page = b.page) => (a.hi <= b.lo \/ b.hi <= a.lo)
      BY <2>1 DEF CursorDivides
    <2> QED
      BY <2>1, <2>2, <2>3 DEF InFlightDisjoint
  <1>3. CASE PresentBegin \/ CaptureBegin
    BY <1>1, <1>3, AcquireStep
  <1>4. CASE EndFrame \/ Quarantine
    BY <1>1, <1>4, SealStep
  <1>5. CASE Reserving \/ RollbackBundle \/ (\E n \in Sizes : ReserveRejected(n))
    BY <1>1, <1>5, ReserveStep, AbandonStep
  <1>6. CASE \/ ArenaInit \/ ArenaInitFails \/ BeginBundle \/ PresentDown \/ BeginDown
             \/ FenceAdvance \/ UNCHANGED vars
    <2>1. live' \subseteq live
      BY <1>6 DEF ArenaInit, ArenaInitFails, BeginBundle, PresentDown, BeginDown, FenceAdvance, vars
    <2> QED
      BY <1>1, <2>1
  <1> QED
    BY <1>2, <1>3, <1>4, <1>5, <1>6 DEF Next, Reserving

(* The cursor keeps dividing the open generation.                          *)
LEMMA StepCursor ==
  TypeOK /\ OwnerState /\ RangesHeld /\ CursorDivides /\ [Next]_vars => CursorDivides'
  <1> SUFFICES ASSUME TypeOK, OwnerState, RangesHeld, CursorDivides, [Next]_vars
               PROVE  CursorDivides'
    OBVIOUS
  <1>0. /\ gens \in [Gens -> GenType] /\ (current # None => current \in Gens)
        /\ current \in 1..count \cup {None} /\ completed \in Nat
    BY ArenaAssumption DEF TypeOK, Gens
  <1>1. CASE (pc' # "draw" \/ current' = None) /\ ~txn'.active
    BY <1>1 DEF CursorDivides
  <1>2. CASE ArenaInitFails \/ FenceAdvance \/ UNCHANGED vars
    <2>1. UNCHANGED <<gens, current, serial, pc, txn>> /\ live' \subseteq live
      BY <1>2 DEF ArenaInitFails, FenceAdvance, vars
    <2> QED
      BY <2>1 DEF CursorDivides, ExactOwner, Before, After
  <1>3. CASE ArenaInit
    <2>1. current' = None /\ txn' = txn /\ ~up
      BY <1>3 DEF ArenaInit
    <2> QED
      BY <1>1, <2>1 DEF OwnerState
  <1>4. CASE BeginBundle
    <2>1. /\ pc = "draw" /\ current # None /\ UNCHANGED <<gens, current, serial, pc, live>>
          /\ txn' = [active |-> TRUE, generation |-> gens[current].generation,
                startPage |-> gens[current].page, startOffset |-> gens[current].offset,
                endPage |-> gens[current].page, endOffset |-> gens[current].offset, ranges |-> {}]
      BY <1>4 DEF BeginBundle
    <2>2. gens[current].offset \in Nat
      BY <1>0, <2>1 DEF GenType
    <2>3. /\ txn'.generation = gens[current].generation /\ txn'.ranges = {}
          /\ txn'.startPage = gens[current].page /\ txn'.startOffset = gens[current].offset
          /\ txn'.endPage = gens[current].page /\ txn'.endOffset = gens[current].offset
      BY <2>1
    <2> QED
      BY <2>1, <2>2, <2>3 DEF CursorDivides, ExactOwner, Before, After
  <1>5. CASE CommitBundle
    <2>1. /\ txn.active /\ ~txn'.active /\ UNCHANGED <<gens, current, pc>>
          /\ live' \subseteq live \cup txn.ranges
      BY <1>5 DEF CommitBundle, NoTxn
    <2>2. \A r \in txn.ranges : Before(r, gens[current].page, gens[current].offset)
      BY <2>1 DEF CursorDivides, ExactOwner
    <2> QED
      BY <2>1, <2>2 DEF CursorDivides, Before
  <1>6. CASE RollbackBundle \/ \E n \in Sizes : ReserveRejected(n)
    <2>1. /\ txn.active /\ ~txn'.active /\ UNCHANGED <<current, live, pc>>
          /\ gens' = [gens EXCEPT ![current] = Rewind(gens[current])]
      BY <1>6, AbandonStep DEF NoTxn
    <2>2. current \in Gens /\ gens[current] \in GenType /\ pc = "draw" /\ current # None
      BY <1>0, <2>1 DEF OwnerState
    <2>3. /\ gens'[current].page = txn.startPage /\ gens'[current].offset = txn.startOffset
          /\ gens'[current].pages = gens[current].pages
      BY <1>0, <2>1, <2>2 DEF Rewind, GenType
    <2>4. \A r \in live : r.gen = current => Before(r, txn.startPage, txn.startOffset)
      BY <2>1 DEF CursorDivides
    <2>5. txn.startPage < gens[current].pages
      <3>1. /\ txn.startPage <= txn.endPage /\ txn.endPage = gens[current].page
            /\ gens[current].page < gens[current].pages
        BY <2>1, <2>2, Numbers DEF CursorDivides, ExactOwner
      <3>2. gens[current].pages \in Nat
        BY <2>2 DEF GenType
      <3> QED
        BY <3>1, <3>2, Numbers
    <2> QED
      BY <2>1, <2>3, <2>4, <2>5 DEF CursorDivides, Before
  <1>7. CASE EndFrame \/ Quarantine
    BY <1>1, <1>7, SealStep
  <1>8. CASE PresentDown \/ BeginDown
    <2>1. ~up /\ current' = current /\ txn' = txn
      BY <1>8 DEF PresentDown, BeginDown
    <2> QED
      BY <1>1, <2>1 DEF OwnerState
  <1>9. CASE PresentBegin \/ CaptureBegin
    <2>1. ~txn'.active /\ live' = live /\ (pc = "begin" \/ current = None)
      BY <1>9, AcquireStep
    <2>2. CASE current' = None
      BY <1>1, <2>1, <2>2
    <2>3. CASE current' # None
      <3>1. PICK g \in Gens :
                 /\ g = current' /\ (g \in 1..count => gens[g].retire <= completed)
                 /\ gens'[g].page < gens'[g].pages
        BY <1>9, <2>3, AcquireStep
      <3>2. \A r \in live : r.gen # g
        <4> SUFFICES ASSUME NEW r \in live, r.gen = g PROVE FALSE
          OBVIOUS
        <4>1. r.gen \in 1..count /\ r.frame > completed /\ gens[r.gen].retire >= r.frame
          BY <1>0, <2>1 DEF RangesHeld, None
        <4>2. r.frame \in Nat /\ gens[g].retire \in Nat
          <5>1. r \in RangeType
            BY DEF TypeOK
          <5> QED
            BY <1>0, <5>1 DEF RangeType, GenType
        <4> QED
          BY <1>0, <3>1, <4>1, <4>2
      <3> QED
        BY <2>1, <3>1, <3>2 DEF CursorDivides
    <2> QED
      BY <2>2, <2>3
  <1>10. CASE Reserving
    <2>1. PICK n \in Sizes, p \in Nat, o \in Nat, k \in Nat :
              /\ Reserve(gens[current], p, o, n, k)
              /\ p < k /\ k >= gens[current].pages
              /\ (p = txn.endPage /\ o = txn.endOffset) \/ p > txn.endPage
      BY <1>10, ReserveStep
    <2>2. txn.active /\ UNCHANGED <<current, serial, live, pc>>
      BY <1>10, ReserveStep
    <2>3. n \in Nat /\ n >= 1
      BY ArenaAssumption
    <2>4. current \in Gens /\ gens[current] \in GenType /\ pc = "draw" /\ current # None
      BY <1>0, <2>2 DEF OwnerState
    <2> DEFINE new == [gen |-> current, page |-> p, lo |-> o, hi |-> o + n, frame |-> serial + 1]
    <2>5. /\ gens'[current].page = p /\ gens'[current].offset = o + n /\ gens'[current].pages = k
          /\ gens'[current].generation = gens[current].generation
      BY <1>0, <2>1, <2>4 DEF Reserve, GenType
    <2>6. /\ txn'.active /\ txn'.generation = txn.generation
          /\ txn'.startPage = txn.startPage /\ txn'.startOffset = txn.startOffset
          /\ txn'.endPage = p /\ txn'.endOffset = o + n
          /\ txn'.ranges = txn.ranges \cup {new}
      BY <2>1, <2>2 DEF Reserve, TypeOK, NextSerial
    <2>7. new.gen = current /\ new.page = p /\ new.lo = o /\ new.hi = o + n /\ new.frame = serial + 1
      OBVIOUS
    <2> HIDE DEF new
    <2>8. ExactOwner'
      BY <2>2, <2>4, <2>5, <2>6 DEF CursorDivides, ExactOwner
    <2>9. \/ txn.startPage < txn.endPage
          \/ txn.startPage = txn.endPage /\ txn.startOffset <= txn.endOffset
      BY <2>2 DEF CursorDivides
    <2>10. After(new, txn.startPage, txn.startOffset) /\ Before(new, p, o + n) /\ new.lo < new.hi
      BY <2>1, <2>3, <2>7, <2>9, Numbers DEF After, Before
    <2>11. \A r \in txn.ranges :
             /\ r.gen = current /\ r.frame = serial + 1 /\ r.lo < r.hi
             /\ After(r, txn.startPage, txn.startOffset)
             /\ Before(r, txn.endPage, txn.endOffset)
      BY <2>2 DEF CursorDivides
    <2>12. \A r \in txn.ranges : Before(r, p, o + n) /\ (r.page = p => r.hi <= o)
      BY <2>1, <2>3, <2>11, Numbers DEF Before
    <2>13. \A r \in txn'.ranges :
             /\ r.gen = current' /\ r.frame = serial' + 1 /\ r.lo < r.hi
             /\ After(r, txn'.startPage, txn'.startOffset)
             /\ Before(r, txn'.endPage, txn'.endOffset)
      BY <2>2, <2>6, <2>7, <2>10, <2>11, <2>12
    <2>14. \A a, b \in txn.ranges :
             (a # b /\ a.page = b.page) => (a.hi <= b.lo \/ b.hi <= a.lo)
      BY <2>2 DEF CursorDivides
    <2>15. \A a, b \in txn'.ranges :
             (a # b /\ a.page = b.page) => (a.hi <= b.lo \/ b.hi <= a.lo)
      BY <2>6, <2>7, <2>12, <2>14
    <2>16. \A r \in live : r.gen = current => Before(r, txn.startPage, txn.startOffset)
      BY <2>2 DEF CursorDivides
    <2>17. \A r \in live : r.gen = current => Before(r, p, o + n)
      BY <2>1, <2>3, <2>9, <2>16, Numbers DEF Before
    <2>18. \/ txn'.startPage < txn'.endPage
           \/ txn'.startPage = txn'.endPage /\ txn'.startOffset <= txn'.endOffset
      BY <2>1, <2>3, <2>6, <2>9, Numbers
    <2> QED
      BY <2>1, <2>2, <2>5, <2>6, <2>8, <2>13, <2>15, <2>16, <2>17, <2>18
         DEF CursorDivides, After, Before
  <1> QED
    BY <1>2, <1>3, <1>4, <1>5, <1>6, <1>7, <1>8, <1>9, <1>10 DEF Next, Reserving

-----------------------------------------------------------------------------
(* The cursor and the place a bundle began follow the commits.             *)
LEMMA StepCommit ==
  TypeOK /\ SignalsOrdered /\ OwnerState /\ RangesHeld /\ CursorDivides /\ CommitKnown
    /\ [Next]_vars => CommitKnown'
  <1> SUFFICES ASSUME TypeOK, SignalsOrdered, OwnerState, RangesHeld, CursorDivides,
                      CommitKnown, [Next]_vars
               PROVE  CommitKnown'
    OBVIOUS
  <1>0. /\ gens \in [Gens -> GenType] /\ (current # None => current \in Gens)
        /\ serial \in Nat /\ completed \in Nat /\ None \notin Gens
        /\ \A r \in live : r.gen \in Gens /\ r.frame \in Nat
    BY ArenaAssumption DEF TypeOK, Gens, None, RangeType
  <1>1. CASE ArenaInitFails \/ UNCHANGED vars
    <2>1. UNCHANGED <<gens, current, serial, live, pc, txn>>
      BY <1>1 DEF ArenaInitFails, vars
    <2> QED
      BY <2>1 DEF CommitKnown, EndsAtCommit
  <1>2. CASE ArenaInit \/ PresentDown \/ BeginDown
    <2>1. /\ ~up /\ txn' = txn /\ live' = live
          /\ current' = None \/ current' = current
      BY <1>2 DEF ArenaInit, PresentDown, BeginDown
    <2>2. live' = {} /\ current' = None /\ ~txn'.active
      BY <2>1 DEF OwnerState
    <2> QED
      BY <2>2 DEF CommitKnown
  <1>3. CASE BeginBundle
    <2>1. /\ pc = "draw" /\ ~txn.active /\ current # None
          /\ UNCHANGED <<gens, current, serial, live, pc>>
          /\ txn'.startPage = gens[current].page /\ txn'.startOffset = gens[current].offset
          /\ txn'.active /\ txn'.ranges = {}
      BY <1>3 DEF BeginBundle
    <2> QED
      BY <2>1 DEF CommitKnown, EndsAtCommit
  <1>4. CASE Reserving
    <2>1. PICK n \in Sizes, p \in Nat, o \in Nat, k \in Nat : Reserve(gens[current], p, o, n, k)
      BY <1>4, ReserveStep
    <2>2. txn.active /\ UNCHANGED <<current, serial, live, pc>>
      BY <1>4, ReserveStep
    <2> DEFINE part == [gen |-> current, page |-> p, lo |-> o, hi |-> o + n,
                        frame |-> NextSerial]
    <2>3. /\ txn'.active /\ txn'.startPage = txn.startPage /\ txn'.startOffset = txn.startOffset
          /\ txn'.endPage = p /\ txn'.endOffset = o + n
          /\ txn'.ranges = txn.ranges \cup {part}
      BY <2>1, <2>2 DEF Reserve, TypeOK
    <2>4. part \in txn'.ranges /\ part.page = p /\ part.hi = o + n
      BY <2>3
    <2> HIDE DEF part
    <2> QED
      BY <2>2, <2>3, <2>4 DEF CommitKnown, EndsAtCommit
  <1>5. CASE RollbackBundle \/ \E n \in Sizes : ReserveRejected(n)
    <2>1. /\ txn.active /\ txn' = NoTxn /\ UNCHANGED <<current, serial, live, pc>>
          /\ gens' = [gens EXCEPT ![current] = Rewind(gens[current])]
      BY <1>5, AbandonStep
    <2>2. current \in Gens /\ gens[current] \in GenType
      BY <1>0, <2>1 DEF OwnerState
    <2>3. gens'[current].page = txn.startPage /\ gens'[current].offset = txn.startOffset
      BY <1>0, <2>1, <2>2 DEF Rewind, GenType
    <2> QED
      BY <2>1, <2>3 DEF CommitKnown, EndsAtCommit, NoTxn
  <1>6. CASE CommitBundle
    <2>1. /\ txn.active /\ txn.ranges # {} /\ txn' = NoTxn /\ ExactOwner
          /\ live' = live \cup txn.ranges /\ UNCHANGED <<gens, current, serial, pc>>
      BY <1>6 DEF CommitBundle, CursorDivides
    <2>2. \A r \in txn.ranges : r.gen = current /\ r.frame = serial + 1
      BY <2>1 DEF CursorDivides
    <2>3. PICK r \in txn.ranges : r.page = txn.endPage /\ r.hi = txn.endOffset
      BY <2>1 DEF CommitKnown
    <2>4. r \in live' /\ r.gen = current'
      BY <2>1, <2>2, <2>3
    <2>5. r.page = gens'[current'].page /\ r.hi = gens'[current'].offset
      BY <2>1, <2>3 DEF ExactOwner
    <2>6. EndsAtCommit(gens[current].page, gens[current].offset)'
      BY <2>4, <2>5 DEF EndsAtCommit
    <2>7. \A x \in live' : x.gen = current' /\ pc' = "draw" => x.frame = serial' + 1
      BY <2>1, <2>2 DEF CommitKnown
    <2> QED
      BY <2>1, <2>6, <2>7 DEF CommitKnown, NoTxn
  <1>7. CASE EndFrame \/ Quarantine
    <2>1. pc' = "begin" /\ ~txn.active /\ txn' = txn
      BY <1>7 DEF EndFrame, Quarantine
    <2> QED
      BY <2>1 DEF CommitKnown
  <1>8. CASE PresentBegin \/ CaptureBegin
    <2>1. /\ ~txn.active /\ pc' = "draw" /\ live' = live /\ txn' = txn
          /\ pc = "begin" \/ current = None
      BY <1>8, AcquireStep
    <2>2. CASE current' = None
      BY <1>0, <2>1, <2>2 DEF CommitKnown
    <2>3. CASE current' # None
      <3>1. /\ current' \in 1..count => gens[current'].retire <= completed
            /\ current' \in Gens
            /\ gens'[current'].page = 0 /\ gens'[current'].offset = 0
        BY <1>8, <2>3, AcquireStep
      <3>2. gens[current'].retire \in Nat
        BY <1>0, <3>1 DEF GenType
      <3>3. \A r \in live : r.gen # current'
        BY <1>0, <2>1, <3>1, <3>2 DEF RangesHeld
      <3> QED
        BY <2>1, <3>1, <3>3 DEF CommitKnown, EndsAtCommit
    <2> QED
      BY <2>2, <2>3
  <1>9. CASE FenceAdvance
    <2>1. /\ UNCHANGED <<gens, current, serial, pc, txn>>
          /\ live' = {r \in live : r.frame > completed'}
          /\ signals # << >> /\ completed' = signals[1]
      BY <1>9 DEF FenceAdvance
    <2>2. CASE pc # "draw"
      BY <2>1, <2>2 DEF CommitKnown, OwnerState
    <2>3. CASE pc = "draw"
      <3>1. 1 \in 1..Len(signals) /\ signals[1] \in Nat
        BY <2>1 DEF TypeOK
      <3>2. completed' <= serial
        BY <2>1, <2>3, <3>1 DEF SignalsOrdered
      <3>3. \A r \in live : r.gen = current => r.frame = serial + 1
        BY <2>3 DEF CommitKnown
      <3>4. {r \in live' : r.gen = current'} = {r \in live : r.gen = current}
        BY <1>0, <2>1, <3>1, <3>2, <3>3
      <3> QED
        BY <2>1, <3>4 DEF CommitKnown, EndsAtCommit
    <2> QED
      BY <2>2, <2>3
  <1> QED
    BY <1>1, <1>2, <1>3, <1>4, <1>5, <1>6, <1>7, <1>8, <1>9 DEF Next, Reserving

-----------------------------------------------------------------------------
(* The inductive invariant holds at first and is kept by every step.       *)
LEMMA ArenaInvariant == Spec => []IInv
  <1>1. Init => IInv
    <2> SUFFICES ASSUME Init PROVE IInv
      OBVIOUS
    <2>1. EmptyGen \in GenType /\ EmptyGen.retire = 0
      BY EmptyGenType DEF EmptyGen
    <2>2. NoTxn \in [active : BOOLEAN, generation : Nat, startPage : 0..FramePages,
              startOffset : 0..PageUnits, endPage : 0..FramePages,
              endOffset : 0..PageUnits, ranges : SUBSET RangeType] /\ ~NoTxn.active
      BY ArenaAssumption DEF NoTxn
    <2>3. TypeOK
      <3>1. gens \in [Gens -> GenType]
        BY <2>1 DEF Init
      <3>2. 0 \in 0..MaxGens
        BY ArenaAssumption
      <3>3. signals \in Seq(Nat) /\ live \subseteq RangeType
        BY DEF Init
      <3>4. up \in BOOLEAN
        BY Zenon DEF Init
      <3>5. /\ current = None /\ counter \in Nat /\ resident \in Int
            /\ allocFrame \in Nat /\ refusedIn = None /\ serial \in Nat /\ completed \in Nat
            /\ pc \in {"draw", "begin"} /\ txn = NoTxn /\ count = 0
        BY DEF Init
      <3> QED
        BY <2>2, <3>1, <3>2, <3>3, <3>4, <3>5 DEF TypeOK
    <2>4. SignalsOrdered
      BY DEF Init, SignalsOrdered
    <2>5. OwnerState
      BY <2>2 DEF Init, OwnerState
    <2>6. RangesHeld /\ InFlightDisjoint
      BY DEF Init, RangesHeld, InFlightDisjoint
    <2>7. CursorDivides
      BY <2>2 DEF Init, CursorDivides
    <2>8. SealIsSignalled
      BY <2>1 DEF Init, SealIsSignalled
    <2>9. CommitKnown
      BY <2>2 DEF Init, CommitKnown
    <2> QED
      BY <2>3, <2>4, <2>5, <2>6, <2>7, <2>8, <2>9 DEF IInv
  <1>2. IInv /\ [Next]_vars => IInv'
    BY StepType, StepSignals, StepOwner, StepHeld, StepCursor, StepCommit,
       StepDisjoint, StepSealed DEF IInv
  <1> QED
    BY <1>1, <1>2, PTL DEF Spec

(* Every variable of the arena keeps its type, for every configuration.    *)
THEOREM ArenaTypeCorrect == Spec => []TypeOK
  <1>1. IInv => TypeOK
    BY DEF IInv
  <1> QED
    BY <1>1, ArenaInvariant, PTL

(* No two captures whose commands may still execute share bytes of an      *)
(* arena page: sealing, the fence and rewinding fit together, for every    *)
(* number of generations and every order of Presents and transitions.      *)
THEOREM InFlightSafety == Spec => []InFlightDisjoint
  <1>1. IInv => InFlightDisjoint
    BY DEF IInv
  <1> QED
    BY <1>1, ArenaInvariant, PTL

(* Between bundles the cursor is at the end of the last committed part of  *)
(* the frame: rejects and rollbacks give back all the space their parts    *)
(* took, on however many pages, and take none of a committed capture.      *)
THEOREM CursorSafety == Spec => []CursorAtLastCommit
  <1>1. IInv => CursorAtLastCommit
    BY DEF IInv, CommitKnown, EndsAtCommit, CursorAtLastCommit
  <1> QED
    BY <1>1, ArenaInvariant, PTL

(* Whatever serial a generation waits for is in the command stream: no     *)
(* generation is stranded, also when a transition skips EndFrame.          *)
THEOREM SealSafety == Spec => []SealIsSignalled
  <1>1. IInv => SealIsSignalled
    BY DEF IInv
  <1> QED
    BY <1>1, ArenaInvariant, PTL

=============================================================================
