----------------------------- MODULE HoleCensus -----------------------------
(***************************************************************************)
(* The walk at the end of SnapshotSliceTable::findHole: the spans of the   *)
(* taken slots, sorted by their begin, are visited with a cursor that      *)
(* stands after everything visited so far; the first gap in front of a     *)
(* span, or the rest of the page after the last one, wins.  Spans may      *)
(* overlap.  SnapshotSlices uses the reference definition HolesIn instead. *)
(***************************************************************************)
EXTENDS SnapshotGeometry, SequencesExt

NoHole == -1

\* std::sort by begin is not stable: spans with one begin come in any order.
Sorted(spans) ==
  {s \in SetToSeqs(spans) :
     \A i, j \in DOMAIN s : i < j => s[i].begin <= s[j].begin}

CursorPast(cursor, sp) == IF sp.end > cursor THEN sp.end ELSE cursor

GapBefore(cursor, sp, n) == sp.begin >= cursor /\ n <= sp.begin - cursor

\* One iteration of the loop; a walk that has found a hole has returned.
Visit(walk, sp, n) ==
  IF walk.hole # NoHole THEN walk
  ELSE IF GapBefore(walk.cursor, sp, n) THEN [walk EXCEPT !.hole = walk.cursor]
  ELSE [walk EXCEPT !.cursor = CursorPast(walk.cursor, sp)]

Walk(s, capacity, n) ==
  LET end == FoldLeft(LAMBDA walk, sp : Visit(walk, sp, n),
                      [cursor |-> 0, hole |-> NoHole], s)
  IN  IF end.hole = NoHole /\ TailFits(end.cursor, capacity, n) THEN end.cursor
      ELSE end.hole

\* The lowest of the offsets at which n granules fit.
LowestHole(spans, capacity, n) ==
  LET holes == HolesIn(capacity, spans, n)
  IN  IF holes = {} THEN NoHole ELSE CHOOSE o \in holes : \A p \in holes : o <= p

\* findHole answers with the lowest free offset, and says "no" only when the
\* request fits nowhere, whatever the spans, overlapping ones included, and
\* however the sort orders spans with one begin.
WalkIsLowest(capacity, most) ==
  LET Spans == {Interval(o, n) : o \in 0 .. capacity - 1, n \in 1 .. capacity}
      Inside == {sp \in Spans : sp.end <= capacity}
  IN  \A spans \in UNION {kSubset(k, Inside) : k \in 0 .. most}, n \in 1 .. capacity :
        \A s \in Sorted(spans) : Walk(s, capacity, n) = LowestHole(spans, capacity, n)
=============================================================================
