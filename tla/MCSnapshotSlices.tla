------------------------- MODULE MCSnapshotSlices -------------------------
(* Instances of SnapshotSlices for TLC. *)
EXTENDS SnapshotSlices, HoleCensus

CONSTANTS r1, r2

\* findHole's walk over the census is the reference definition SnapshotSlices
\* uses: for every set of up to three spans, overlapping ones included, in a
\* page of five granules, it answers the lowest offset at which the request
\* fits, or that there is none.
ASSUME FindsLowestHole == WalkIsLowest(5, 3)
=============================================================================
