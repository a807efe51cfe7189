-------------------------- MODULE SnapshotGeometry --------------------------
(***************************************************************************)
(* Interval arithmetic of Stage 11 snapshot pages, in granules of          *)
(* kWar3Stage11SnapshotAlignment (256) bytes: the alignment step of the    *)
(* code rounds a byte count up to a whole number of granules.              *)
(***************************************************************************)
EXTENDS Integers

Interval(o, n) == [begin |-> o, end |-> o + n]

Disjoint(a, b) == a.end <= b.begin \/ b.end <= a.begin

\* War3PlanStage11SnapshotSuballocation(...).valid; the slice then starts at
\* used and the next cursor is used + n.
TailFits(used, capacity, n) == used <= capacity /\ n <= capacity - used

\* The offsets at which n granules fit between the occupied spans; findHole
\* returns the lowest (module HoleCensus relates this set to its loop).
HolesIn(capacity, occupied, n) ==
  {o \in 0 .. capacity :
     /\ o + n <= capacity
     /\ \A sp \in occupied : Disjoint(Interval(o, n), sp)}

=============================================================================
