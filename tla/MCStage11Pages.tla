--------------------------- MODULE MCStage11Pages ---------------------------
(* A pool of two pages (two granules each) or one double page, two classes, *)
(* one lease slot per page so that sealing happens, and three reports:      *)
(* plenty, an exhausted heap, and no report under address pressure.         *)
EXTENDS Stage11Pages

MCSamples ==
  {[supported |-> TRUE,  heapSize |-> 64, budget |-> 64, committed |-> 0,  va |-> 8],
   [supported |-> TRUE,  heapSize |-> 64, budget |-> 64, committed |-> 60, va |-> 8],
   [supported |-> FALSE, heapSize |-> 0,  budget |-> 0,  committed |-> 0,  va |-> 0]}

=============================================================================
