--------------------------- MODULE AdaptiveBudget ---------------------------
(***************************************************************************)
(* DecideAdaptiveMemoryBudget and the growth gate around it, shared by the *)
(* Stage 11 page pool and the shadow arena.  Sizes are in one unit (a      *)
(* granule or a page, as the instance likes).                              *)
(***************************************************************************)
EXTENDS Integers

CONSTANTS
  VaFloor,       \* 256 MiB: below it the process is under address pressure
  ReserveFloor   \* 512 MiB: heap space always left to other users

ASSUME BudgetAssumption == VaFloor \in Nat /\ ReserveFloor \in Nat

\* What SampleShadowMemoryBudget can observe: the driver's heap report, when
\* there is one, and the free address space (0 when the query failed).
SampleType ==
  [supported : BOOLEAN, heapSize : Nat, budget : Nat, committed : Nat, va : Nat]

LesserOf(a, b) == IF a < b THEN a ELSE b
GreaterOf(a, b) == IF a < b THEN b ELSE a
Monus(a, b) == IF a > b THEN a - b ELSE 0

\* A heap report is used only when it is about a known heap and plausible.
Trusted(s, heapKnown) ==
  s.supported /\ heapKnown /\ s.heapSize # 0 /\ s.budget # 0 /\ s.budget <= s.heapSize

Reserve(s) == GreaterOf(ReserveFloor, s.budget \div 8)

\* DecideAdaptiveMemoryBudget for a pool with `resident` units, `quota`
\* eighths of the heap and pages of `unit`.
Decide(s, heapKnown, resident, hardCap, fallbackCap, unit, quota) ==
  LET pressure == s.va < VaFloor
      trusted  == Trusted(s, heapKnown)
      fallback == LesserOf(fallbackCap, hardCap)
      headroom == IF trusted
                  THEN Monus(Monus(s.budget, s.committed), Reserve(s))
                  ELSE Monus(fallback, resident)
      wanted   == IF ~trusted THEN fallback
                  ELSE IF headroom = 0 THEN 0
                  ELSE LesserOf(hardCap, (s.budget \div 8) * quota)
  IN [pressure |-> pressure,
      target   |-> IF pressure THEN 0 ELSE wanted - (wanted % unit),
      headroom |-> IF pressure THEN 0 ELSE headroom]

\* AdaptiveBudgetDecision::canGrow
CanGrow(d, resident, n) ==
  n # 0 /\ ~d.pressure /\ n <= d.headroom /\ n <= d.target /\ resident <= d.target - n

-----------------------------------------------------------------------------
(* BudgetGrowthRetryGate: remembers, for one frame, the smallest growth    *)
(* that was refused.                                                       *)

NoRefusal == [valid |-> FALSE, frame |-> 0, least |-> 0]

Refused(gate, frame, n) == gate.valid /\ gate.frame = frame /\ n >= gate.least

Refuse(gate, frame, n) ==
  [valid |-> TRUE, frame |-> frame,
   least |-> IF gate.valid /\ gate.frame = frame THEN LesserOf(gate.least, n) ELSE n]

=============================================================================
