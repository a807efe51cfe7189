--------------------------- MODULE MCPrepareWorker ---------------------------
EXTENDS PrepareWorker

\* An invalid generation, two jobs of one renderer epoch and a job of the next.
MCGen ==
  {[job |-> j, epoch |-> e, frame |-> 1] : <<j, e>> \in {<<0, 1>>, <<1, 1>>, <<2, 1>>, <<1, 2>>}}
=============================================================================
