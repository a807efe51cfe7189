----------------------------- MODULE ShadowArena -----------------------------
(***************************************************************************)
(* The shadow arena: generations of GPU pages that captures fill during a  *)
(* frame, sealed at Present with the frame's serial and rewound for a      *)
(* later frame once the dedicated fence has passed that serial.  The owner *)
(* is the render thread; the command stream and the GPU move the fence on  *)
(* their own.  Space is counted in units of the 256-byte alignment.        *)
(***************************************************************************)
EXTENDS Integers, Sequences, FiniteSets, FiniteSetsExt

CONSTANTS
  PageUnits,      \* g_arenaPageSize
  FramePages,     \* g_arenaMaxFrameSize, in pages
  FrameCount,     \* g_arenaFrameCount, generations made warm by Init
  FixedLimit,     \* kShadowArenaFixedResidentLimitBytes, in pages
  TrimWindow,     \* frames of demand history before an idle page is dropped
  Sizes,          \* sizes of the parts of a bundle
  MaxParts,       \* kShadowArenaBundleMaxParts
  MaxGens, MaxSerial   \* bounds: generations with spills, frame serials

ASSUME ArenaAssumption ==
  /\ PageUnits \in Nat \ {0} /\ FramePages \in Nat \ {0}
  /\ FrameCount \in Nat \ {0} /\ MaxGens \in Nat /\ FrameCount <= MaxGens
  /\ FixedLimit \in Nat /\ TrimWindow \in Nat /\ MaxSerial \in Nat
  /\ Sizes \subseteq 1..PageUnits /\ MaxParts \in Nat \ {0}

VARIABLES
  up,         \* the arena is initialised for this device
  gens,       \* g_frameStates: the first `count` of 1..MaxGens exist
  count,
  current,    \* g_currentFrameIndex, None while invalid
  counter,    \* g_generationCounter
  resident,   \* g_residentBytes, in pages
  allocFrame, \* g_allocationFrameSerial
  refusedIn,  \* g_budgetRetry: frame in which growth was refused, or None
  serial,     \* m_war3ShadowPersistentFrameSerial
  signals,    \* fence signals in the command stream, oldest first
  completed,  \* m_war3ShadowArenaFence->value()
  live,       \* committed ranges whose commands have not completed
  pc,         \* "draw", or "begin" inside Present between sealing and BeginFrame
  txn         \* the open bundle transaction

vars == <<up, gens, count, current, counter, resident, allocFrame, refusedIn,
          serial, signals, completed, live, pc, txn>>

None == -1

Gens == 1..MaxGens

GenType ==
  [pages : 0..FramePages, page : 0..FramePages, offset : 0..PageUnits,
   retire : Nat, generation : Nat, frame : Nat, window : Nat, peak : Nat]

EmptyGen == [pages |-> 0, page |-> 0, offset |-> 0, retire |-> 0,
             generation |-> 0, frame |-> 0, window |-> 0, peak |-> 0]

RangeType == [gen : Gens, page : 0..FramePages, lo : Nat, hi : Nat, frame : Nat]

NoTxn == [active |-> FALSE, generation |-> 0, startPage |-> 0, startOffset |-> 0,
          endPage |-> 0, endOffset |-> 0, ranges |-> {}]

\* Frame serial of the commands recorded between two Presents.
NextSerial == serial + 1

-----------------------------------------------------------------------------
(* AllocateArenaPage.  `lim` is the resident limit that the budget policy   *)
(* gives at that moment.                                                    *)

MayGrow(pages, lim) ==
  /\ pages < FramePages
  /\ refusedIn # allocFrame
  /\ resident + 1 <= lim /\ lim <= FixedLimit

\* A failure is remembered for the frame, or not (no storage, foreign heap).
GrowthFails(pages, frame) ==
  \/ pages < FramePages /\ refusedIn' = frame
  \/ UNCHANGED refusedIn

-----------------------------------------------------------------------------
Init ==
  /\ up = FALSE /\ gens = [g \in Gens |-> EmptyGen] /\ count = 0
  /\ current = None /\ counter = 0 /\ resident = 0
  /\ allocFrame = 0 /\ refusedIn = None
  /\ serial = 0 /\ signals = << >> /\ completed = 0
  /\ live = {} /\ pc = "draw" /\ txn = NoTxn

\* ShadowArena_Init, from a capture or from Present.
ArenaInit ==
  /\ ~up /\ FrameCount <= FixedLimit
  /\ up' = TRUE /\ count' = FrameCount
  /\ gens' = [g \in Gens |-> IF g <= FrameCount THEN [EmptyGen EXCEPT !.pages = 1]
                             ELSE EmptyGen]
  /\ resident' = FrameCount
  /\ current' = None /\ counter' = 0 /\ allocFrame' = 0 /\ refusedIn' = None
  /\ UNCHANGED <<serial, signals, completed, live, pc, txn>>

\* A warm page was refused: everything is given back, a later call retries.
ArenaInitFails ==
  /\ ~up
  /\ allocFrame' = 0 /\ refusedIn' \in {None, 0}
  /\ UNCHANGED <<up, gens, count, current, counter, resident, serial, signals,
                 completed, live, pc, txn>>

-----------------------------------------------------------------------------
(* Bundles: the parts of one caster, all or nothing.                        *)

Capacity == IF up /\ current # None THEN gens[current].pages ELSE 0

BeginBundle ==
  /\ up /\ pc = "draw" /\ ~txn.active /\ current # None
  /\ LET c == gens[current]
     IN txn' = [active |-> TRUE, generation |-> c.generation,
                startPage |-> c.page, startOffset |-> c.offset,
                endPage |-> c.page, endOffset |-> c.offset, ranges |-> {}]
  /\ UNCHANGED <<up, gens, count, current, counter, resident, allocFrame, refusedIn,
                 serial, signals, completed, live, pc>>

\* The part fits the page under the cursor.
FitsHere(c, n) == c.page < c.pages /\ c.offset + n <= PageUnits

\* The page the part goes to otherwise: the one under the cursor when the
\* generation has no page there yet, else the following one.
PageFor(c) == IF c.page < c.pages THEN c.page + 1 ELSE c.page

Reserve(c, p, o, n, pages) ==
  /\ gens' = [gens EXCEPT ![current] = [c EXCEPT !.page = p, !.offset = o + n, !.pages = pages]]
  /\ txn' = [txn EXCEPT !.endPage = p, !.endOffset = o + n,
               !.ranges = @ \cup {[gen |-> current, page |-> p, lo |-> o, hi |-> o + n,
                                   frame |-> NextSerial]}]

\* TryAllocateFromCurrentGeneration: here, on an existing later page, or on a
\* page that the budget grants now.
ReserveHere(n) ==
  /\ txn.active /\ Cardinality(txn.ranges) < MaxParts
  /\ FitsHere(gens[current], n)
  /\ LET c == gens[current] IN Reserve(c, c.page, c.offset, n, c.pages)
  /\ UNCHANGED <<up, count, current, counter, resident, allocFrame, refusedIn,
                 serial, signals, completed, live, pc>>

ReserveNext(n) ==
  LET c == gens[current]
  IN /\ txn.active /\ Cardinality(txn.ranges) < MaxParts
     /\ ~FitsHere(c, n) /\ PageFor(c) < c.pages
     /\ Reserve(c, PageFor(c), 0, n, c.pages)
     /\ UNCHANGED <<up, count, current, counter, resident, allocFrame, refusedIn,
                    serial, signals, completed, live, pc>>

ReserveGrown(n, lim) ==
  LET c == gens[current]
  IN /\ txn.active /\ Cardinality(txn.ranges) < MaxParts
     /\ ~FitsHere(c, n) /\ PageFor(c) = c.pages
     /\ MayGrow(c.pages, lim)
     /\ Reserve(c, PageFor(c), 0, n, c.pages + 1)
     /\ resident' = resident + 1
     /\ UNCHANGED <<up, count, current, counter, allocFrame, refusedIn,
                    serial, signals, completed, live, pc>>

\* Mutant: the undo forgets that the bundle may have crossed pages.
RewindOffset(c) == [c EXCEPT !.offset = txn.startOffset]

\* The cursor as it was when the bundle began; pages that grew stay.
Rewind(c) == [c EXCEPT !.page = txn.startPage, !.offset = txn.startOffset]

\* The part needs a page and none is to be had: the whole bundle is rejected.
ReserveRejected(n) ==
  LET c == gens[current]
  IN /\ txn.active /\ Cardinality(txn.ranges) < MaxParts
     /\ ~FitsHere(c, n) /\ PageFor(c) = c.pages
     /\ gens' = [gens EXCEPT ![current] = Rewind(c)]
     /\ txn' = NoTxn
     /\ GrowthFails(c.pages, allocFrame)
     /\ UNCHANGED <<up, count, current, counter, resident, allocFrame,
                    serial, signals, completed, live, pc>>

\* exactOwner of CommitBundle and RollbackBundle.
ExactOwner ==
  /\ current # None
  /\ gens[current].generation = txn.generation
  /\ gens[current].page = txn.endPage /\ gens[current].offset = txn.endOffset

\* CommitBundle, and the copy commands the capture then records.
CommitBundle ==
  /\ txn.active /\ txn.ranges # {}
  /\ live' = IF ExactOwner THEN live \cup txn.ranges ELSE live
  /\ txn' = NoTxn
  /\ UNCHANGED <<up, gens, count, current, counter, resident, allocFrame, refusedIn,
                 serial, signals, completed, pc>>

\* RollbackBundle: another input of the caster failed.
RollbackBundle ==
  /\ txn.active /\ txn.ranges # {}
  /\ gens' = IF ExactOwner THEN [gens EXCEPT ![current] = Rewind(gens[current])] ELSE gens
  /\ txn' = NoTxn
  /\ UNCHANGED <<up, count, current, counter, resident, allocFrame, refusedIn,
                 serial, signals, completed, live, pc>>

-----------------------------------------------------------------------------
(* Present: seal the generation, signal the fence, take another one.       *)

\* Mutant: the generation is sealed with the serial of the frame after.
SealLate(s) == [gens EXCEPT ![current].retire = s + 1]

Seal(s) == [gens EXCEPT ![current].retire = s]

\* ShadowArena_EndFrame(NextSerial) and the signal after it.
EndFrame ==
  /\ pc = "draw" /\ ~txn.active /\ NextSerial < MaxSerial
  /\ up
  /\ gens' = IF current # None /\ gens[current].frame = NextSerial
             THEN Seal(NextSerial) ELSE gens
  /\ signals' = Append(signals, NextSerial)
  /\ pc' = "begin"
  /\ UNCHANGED <<up, count, current, counter, resident, allocFrame, refusedIn,
                 serial, completed, live, txn>>

\* War3QuarantineShadowSessionAtPresent on an epoch transition; EndFrame and
\* its signal are then skipped.
Quarantine ==
  /\ pc = "draw" /\ ~txn.active /\ NextSerial < MaxSerial
  /\ gens' = IF up /\ current # None THEN Seal(NextSerial) ELSE gens
  /\ current' = None
  /\ signals' = Append(signals, NextSerial)
  /\ pc' = "begin"
  /\ UNCHANGED <<up, count, counter, resident, allocFrame, refusedIn,
                 serial, completed, live, txn>>

\* Present while the arena cannot be initialised: no arena call at all.
PresentDown ==
  /\ pc = "draw" /\ ~up /\ NextSerial < MaxSerial
  /\ serial' = serial + 1
  /\ UNCHANGED <<up, gens, count, current, counter, resident, allocFrame, refusedIn,
                 signals, completed, live, pc, txn>>

\* After a transition with the arena down Present goes on without it.
BeginDown ==
  /\ pc = "begin" /\ ~up
  /\ serial' = serial + 1 /\ pc' = "draw"
  /\ UNCHANGED <<up, gens, count, current, counter, resident, allocFrame, refusedIn,
                 signals, completed, live, txn>>

-----------------------------------------------------------------------------
(* ShadowArena_BeginFrame(f, completed)                                    *)

\* Mutant: one frame is granted before the fence has passed it.
CanBeReusedEarly(g) == gens[g].retire <= completed + 1

\* ShadowArenaGenerationCanBeReused; serial zero is a generation never sealed.
CanBeReused(g) == gens[g].retire <= completed

Reusable == {g \in 1..count : CanBeReused(g)}

Preferred(f) == (f % FrameCount) + 1

Pick(f) == IF Preferred(f) \in Reusable THEN Preferred(f) ELSE Min(Reusable)

Used(c) == c.page * PageUnits + c.offset

PagesOf(n) == (n + PageUnits - 1) \div PageUnits

\* ArenaTrimHistory::target on a generation that was really sealed: drop at
\* most one page beyond the demand plus one.
Trim(c, f, pressure) ==
  LET peak    == IF c.peak < Used(c) THEN Used(c) ELSE c.peak
      start   == IF c.window = 0 \/ f < c.window THEN f ELSE c.window
      expired == f - start >= TrimWindow
      wanted  == PagesOf(IF pressure THEN Used(c) ELSE peak) + 1
      due     == (pressure \/ expired) /\ wanted < c.pages
  IN IF c.retire = 0 THEN c
     ELSE [c EXCEPT !.pages = IF due THEN c.pages - 1 ELSE c.pages,
                    !.window = IF expired THEN f ELSE start,
                    !.peak = IF expired THEN 0 ELSE peak]

Fresh(c, f) == [c EXCEPT !.page = 0, !.offset = 0, !.frame = f, !.retire = 0,
                         !.generation = counter + 1]

BeginReuse(f, lim) ==
  /\ Reusable # {}
  /\ LET g == Pick(f)
         c == Trim(gens[g], f, resident > lim)
     IN /\ gens' = [gens EXCEPT ![g] = Fresh(c, f)]
        /\ resident' = resident - (gens[g].pages - c.pages)
        /\ current' = g
  /\ counter' = counter + 1 /\ allocFrame' = f
  /\ UNCHANGED <<up, count, refusedIn, signals, completed, live, txn>>

\* Every generation is in flight: spill into a new one.
BeginSpill(f, lim) ==
  /\ Reusable = {} /\ count < MaxGens
  /\ refusedIn # f /\ resident + 1 <= lim /\ lim <= FixedLimit
  /\ count' = count + 1 /\ current' = count + 1
  /\ gens' = [gens EXCEPT ![count + 1] = Fresh([EmptyGen EXCEPT !.pages = 1], f)]
  /\ resident' = resident + 1
  /\ counter' = counter + 1 /\ allocFrame' = f
  /\ UNCHANGED <<up, refusedIn, signals, completed, live, txn>>

\* No generation: captures of the next frame are rejected.
BeginBusy(f) ==
  /\ Reusable = {}
  /\ current' = None /\ allocFrame' = f
  /\ GrowthFails(0, f)
  /\ UNCHANGED <<up, gens, count, counter, resident, signals, completed, live, txn>>

BeginFrame(f) ==
  \/ \E lim \in 0..FixedLimit : BeginReuse(f, lim) \/ BeginSpill(f, lim)
  \/ BeginBusy(f)

PresentBegin ==
  /\ pc = "begin" /\ up
  /\ BeginFrame(serial + 2)
  /\ serial' = serial + 1 /\ pc' = "draw"

\* War3AllocFreezeBuffer finds no current generation in mid-frame.
CaptureBegin ==
  /\ pc = "draw" /\ ~txn.active /\ up /\ Capacity = 0
  /\ BeginFrame(NextSerial)
  /\ UNCHANGED <<serial, pc>>

\* The GPU reaches the next signal of the command stream.
FenceAdvance ==
  /\ signals # << >>
  /\ completed' = Head(signals) /\ signals' = Tail(signals)
  /\ live' = {r \in live : r.frame > completed'}
  /\ UNCHANGED <<up, gens, count, current, counter, resident, allocFrame, refusedIn,
                 serial, pc, txn>>

-----------------------------------------------------------------------------
Next ==
  \/ ArenaInit \/ ArenaInitFails
  \/ BeginBundle \/ CommitBundle \/ RollbackBundle
  \/ \E n \in Sizes : ReserveHere(n) \/ ReserveNext(n) \/ ReserveRejected(n)
  \/ \E n \in Sizes, lim \in 0..FixedLimit : ReserveGrown(n, lim)
  \/ EndFrame \/ Quarantine \/ PresentDown \/ BeginDown
  \/ PresentBegin \/ CaptureBegin
  \/ FenceAdvance

\* The command stream is drained and the GPU makes progress.
Spec == Init /\ [][Next]_vars /\ WF_vars(FenceAdvance)

-----------------------------------------------------------------------------
\* Every variable has its type.
TypeOK ==
  /\ up \in BOOLEAN /\ gens \in [Gens -> GenType] /\ count \in 0..MaxGens
  /\ current \in 1..count \cup {None}
  /\ counter \in Nat /\ resident \in Int /\ allocFrame \in Nat
  /\ refusedIn \in Nat \cup {None}
  /\ serial \in Nat /\ signals \in Seq(Nat) /\ completed \in Nat
  /\ live \subseteq RangeType /\ pc \in {"draw", "begin"}
  /\ txn \in [active : BOOLEAN, generation : Nat, startPage : 0..FramePages,
              startOffset : 0..PageUnits, endPage : 0..FramePages,
              endOffset : 0..PageUnits, ranges : SUBSET RangeType]

\* Two captures whose commands may still be executing never share bytes of
\* an arena page: no generation is rewound or sealed too early, whatever the
\* order of Presents, transitions, spills, rollbacks and fence signals.
InFlightDisjoint ==
  \A a, b \in live :
    (a # b /\ a.gen = b.gen /\ a.page = b.page) => (a.hi <= b.lo \/ b.hi <= a.lo)

\* A bundle that fails leaves nothing of itself but the pages it made grow:
\* between bundles the cursor stands exactly at the end of the last committed
\* part of this frame, and at the start when nothing was committed, whatever
\* the rejects and rollbacks before, on however many pages.
CursorAtLastCommit ==
  (pc = "draw" /\ ~txn.active /\ current # None) =>
    LET c    == gens[current]
        mine == {r \in live : r.gen = current}
    IN IF mine = {} THEN c.page = 0 /\ c.offset = 0
       ELSE \E r \in mine : r.page = c.page /\ r.hi = c.offset

\* A generation that waits for the fence waits for a serial the command
\* stream is going to signal; none is stranded by a skipped signal.
SealIsSignalled ==
  \A g \in Gens : gens[g].retire > completed =>
    \E i \in 1..Len(signals) : signals[i] = gens[g].retire

\* With the command stream draining, every sealed generation becomes
\* reusable.
GenerationsRetire ==
  \A g \in Gens : \A s \in 1..MaxSerial :
    (gens[g].retire = s) ~> (completed >= s \/ gens[g].retire # s)

=============================================================================
