--------------------------- MODULE PrepareMailbox ---------------------------
(***************************************************************************)
(* What the point-shadow prepare worker promises its owner: a mailbox with *)
(* one slot.  A request that is newer than every earlier one enters the    *)
(* empty slot, is answered there exactly once, and leaves with the owner.  *)
(* Closing the mailbox revokes what has not been taken.  There is no       *)
(* thread, no lock and no notification here: PrepareWorker has those and   *)
(* implements this module, and PointShadowReceiver is written against it.  *)
(***************************************************************************)
EXTENDS Naturals

CONSTANTS
  Gen,       \* War3PointShadowPrepareGenerationTuple
  None       \* the empty slot

VARIABLES
  open,      \* requests are still accepted
  slot,      \* None, or the generation in the slot and what became of it
  last       \* the generation accepted last

mailbox == <<open, slot, last>>

In(g, s) == [gen |-> g, state |-> s]

Working == slot # None /\ slot.state = "working"

Answered == slot # None /\ slot.state # "working"

\* Requests are ordered by renderer epoch, then by job serial.
Newer(g) ==
  \A old \in {last} \ {None} :
    g.epoch > old.epoch \/ (g.epoch = old.epoch /\ g.job > old.job)

-----------------------------------------------------------------------------
\* A worker whose thread could not be started is never open.
Init == open \in BOOLEAN /\ slot = None /\ last = None

Accept(g) ==
  /\ open /\ slot = None /\ Newer(g)
  /\ g.job # 0 /\ g.epoch # 0 /\ g.frame # 0
  /\ slot' = In(g, "working") /\ last' = g /\ UNCHANGED open

\* The processor returned or threw; after a stop only that it was cancelled.
Finish ==
  /\ Working
  /\ \E s \in (IF open THEN {"Ready", "Failed"} ELSE {"Cancelled"}) :
       slot' = In(slot.gen, s)
  /\ UNCHANGED <<open, last>>

Take == Answered /\ slot' = None /\ UNCHANGED <<open, last>>

\* The owner stops the worker.  A request still queued, and an answer not yet
\* taken, are cancelled; a job in the worker's hands goes on.
Close ==
  /\ open /\ open' = FALSE /\ UNCHANGED last
  /\ \/ slot = None /\ slot' = None
     \/ slot # None /\ slot' = In(slot.gen, "Cancelled")
     \/ Working /\ slot' = slot

\* The thread gives up: nothing is accepted any more, what it owed has failed.
Fault ==
  /\ open \/ Working
  /\ open' = FALSE /\ UNCHANGED last
  /\ slot' = IF Working THEN In(slot.gen, "Failed") ELSE slot

Next == (\E g \in Gen : Accept(g)) \/ Finish \/ Take \/ Close \/ Fault

Spec == Init /\ [][Next]_mailbox

FairSpec == Spec /\ WF_mailbox(Finish)
=============================================================================
