--------------------------- MODULE MCEvidenceRing ---------------------------
EXTENDS EvidenceRing, TLC

\* Three events of the first session and its terminal make a lap; the next session has its
\* terminal and what late writers of the first one do.
MCTickets == <<3, 0>>

Symmetry == Permutations(Producers)
=============================================================================
