------------------------- MODULE PrepareWorkerProofs -------------------------
(***************************************************************************)
(* Proofs about the prepare worker, for any number of callers and any set  *)
(* of generations.                                                         *)
(***************************************************************************)
EXTENDS PrepareWorker, TLAPS

\* The worker's hands, the running flag and the worker's position agree, and
\* no request waits in its slot once the mailbox is stopping.
Linked ==
  /\ running <=> active # None
  /\ (wpc = "busy") <=> (active # None)
  /\ request # None => ~stopping
  /\ failure => stopping

Older(a, b) == a.epoch < b.epoch \/ (a.epoch = b.epoch /\ a.job < b.job)

\* The last request accepted is newer than every other one.
Ordered ==
  /\ accepted # {} => lastSubmitted # None
  /\ \A a \in accepted : a = lastSubmitted \/ Older(a, lastSubmitted)

\* The answer in the slot has a payload exactly when it is Ready.
ResultExact ==
  result # None =>
    result.payload = (IF result.state = "Ready" THEN result.gen ELSE None)

Inv == AnsweredOnce /\ Linked /\ Ordered /\ ResultExact /\ ExactDelivery /\ StopRevokes

-----------------------------------------------------------------------------
(* Types.                                                                  *)

\* TypeOK is preserved by every step.
LEMMA TypeStep == TypeOK /\ [Next]_vars => TypeOK'
<1> SUFFICES ASSUME TypeOK, [Next]_vars PROVE TypeOK'
  OBVIOUS
<1> USE WorkerAssumption DEF TypeOK, AnswerType
<1>1. ASSUME NEW c \in Callers, NEW g \in Gen, Submit(c, g) PROVE TypeOK'
  BY <1>1 DEF Submit, flags, worker
<1>2. ASSUME NEW c \in Callers, NEW g \in Gen, TryCollect(c, g) PROVE TypeOK'
  BY <1>2 DEF TryCollect, Deliver, Consume, Answer, flags, worker, callers
<1>3. ASSUME NEW c \in Callers, NEW g \in Gen, WaitAndCollect(c, g) PROVE TypeOK'
  BY <1>3 DEF WaitAndCollect, flags, slots, worker, history
<1>4. ASSUME NEW c \in Callers, CallerStep(c) PROVE TypeOK'
  <2>1. CASE SubmitNotify(c)
    BY <2>1 DEF SubmitNotify, WakeWorker, flags, slots, history
  <2>2. CASE WaitReturns(c)
    <3>1. want[c] \in Gen
      BY <2>2 DEF WaitReturns
    <3>2. CASE result # None /\ Deliver(want[c])
      BY <2>2, <3>1, <3>2 DEF WaitReturns, Deliver, Consume, Answer, flags, worker
    <3>3. CASE UNCHANGED <<result, delivered>>
      BY <2>2, <3>3 DEF WaitReturns, flags, worker
    <3>. QED
      BY <2>2, <3>2, <3>3 DEF WaitReturns
  <2>3. CASE WaitSleeps(c)
    BY <2>3 DEF WaitSleeps, flags, slots, worker, history
  <2>4. CASE ShutdownStop(c)
    <3>1. result' \in AnswerType({"Ready", "Failed", "Cancelled"}) \cup {None}
      BY <2>4 DEF ShutdownStop, CancelledResult, Answer
    <3>2. stopping' \in BOOLEAN
      <4>1. stopping' = TRUE \/ stopping' = stopping
        BY <2>4 DEF ShutdownStop
      <4>. QED BY <4>1, Zenon
    <3>. QED
      BY <2>4, <3>1, <3>2 DEF ShutdownStop, worker, history
  <2>5. CASE ShutdownWake(c)
    BY <2>5 DEF ShutdownWake, WakeWorker, NotifyResult, Asleep, flags, slots, history
  <2>6. CASE ShutdownJoin(c)
    BY <2>6 DEF ShutdownJoin, slots, worker, history
  <2>7. CASE ShutdownReturn(c)
    BY <2>7 DEF ShutdownReturn, NotifyResult, Asleep, flags, slots, worker, history
  <2>. QED
    BY <1>4, <2>1, <2>2, <2>3, <2>4, <2>5, <2>6, <2>7 DEF CallerStep
<1>5. ASSUME NEW c \in Callers, SpuriousWake(c) \/ ShutdownEnter(c) PROVE TypeOK'
  BY <1>5 DEF SpuriousWake, ShutdownEnter, flags, slots, worker, history
<1>6. CASE WorkerSleep \/ WorkerExit \/ WorkerSpuriousWake
  BY <1>6 DEF WorkerSleep, WorkerExit, WorkerSpuriousWake, flags, slots, callers, history
<1>7. CASE WorkerTake
  BY <1>7 DEF WorkerTake, callers, history
<1>8. CASE WorkerPublish
  <2>1. active \in Gen
    BY <1>8 DEF WorkerPublish
  <2>2. result' \in AnswerType({"Ready", "Failed", "Cancelled"})
    <3>1. Answer(active, "Cancelled") \in AnswerType({"Ready", "Failed", "Cancelled"})
      BY <2>1 DEF Answer
    <3>2. Answer(active, "Failed") \in AnswerType({"Ready", "Failed", "Cancelled"})
      BY <2>1 DEF Answer
    <3>3. [Answer(active, "Ready") EXCEPT !.payload = active]
             \in AnswerType({"Ready", "Failed", "Cancelled"})
      BY <2>1 DEF Answer
    <3>. QED
      BY <1>8, <3>1, <3>2, <3>3 DEF WorkerPublish
  <2>. QED
    BY <1>8, <2>2 DEF WorkerPublish, callers, history
<1>9. CASE WorkerNotify
  BY <1>9 DEF WorkerNotify, WakeWaiters, Asleep, flags, slots, history
<1>10. CASE WorkerFault
  BY <1>10 DEF WorkerFault, FaultResult, WakeWaiters, Asleep, Answer, history
<1>11. CASE UNCHANGED vars
  BY <1>11 DEF vars, flags, slots, worker, callers, history
<1>. QED
  BY <1>1, <1>2, <1>3, <1>4, <1>5, <1>6, <1>7, <1>8, <1>9, <1>10, <1>11
  DEF Next, WorkerStep, SubmitRejected

-----------------------------------------------------------------------------
(* The mailbox.                                                            *)

\* An answer fills the result slot.
LEMMA AnswerIsSome ==
  \A g \in Gen :
    /\ \A st \in {"Ready", "Failed", "Cancelled"} : Answer(g, st) # None
    /\ [Answer(g, "Ready") EXCEPT !.payload = g] # None
BY WorkerAssumption DEF Answer

\* A step that leaves the mailbox and the worker's hands alone keeps Inv.
LEMMA Quiet ==
  ASSUME Inv, UNCHANGED <<stopping, running, failure, request, result, lastSubmitted,
                          active, accepted, delivered>>,
         (wpc' = "busy") <=> (wpc = "busy")
  PROVE  Inv'
BY DEF Inv, AnsweredOnce, InFlight, Linked, Ordered, Older, ResultExact, ExactDelivery,
       StopRevokes

\* Handing out the result keeps Inv.
LEMMA DeliverStep ==
  ASSUME TypeOK, Inv, NEW g \in Gen, result # None, Deliver(g), wpc' = wpc,
         UNCHANGED <<stopping, running, failure, request, lastSubmitted, active, accepted>>
  PROVE  Inv'
<1> DEFINE d0 == [want |-> g, answer |-> Consume(g)]
<1> USE WorkerAssumption
<1>1. /\ result \in AnswerType({"Ready", "Failed", "Cancelled"})
      /\ request = None /\ active = None
  BY DEF Inv, AnsweredOnce, TypeOK
<1>2. /\ Consume(g).gen = result.gen
      /\ Consume(g).payload = (IF Consume(g).state = "Ready" THEN g ELSE None)
      /\ Consume(g).state = "Ready" => result.gen = g
  BY <1>1 DEF Consume, Answer, AnswerType, Inv, ResultExact
<1>3. /\ delivered' = delivered \cup {d0} /\ result' = None
      /\ d0.answer.gen = result.gen
  BY <1>2 DEF Deliver
<1>4. InFlight = {result.gen} /\ InFlight' = {}
  BY <1>1, <1>3 DEF InFlight, AnswerType
<1>5. AnsweredOnce'
  <2>1. \A d \in delivered : d.answer.gen # result.gen
    BY <1>4 DEF Inv, AnsweredOnce
  <2>2. {d.answer.gen : d \in delivered'} = {d.answer.gen : d \in delivered} \cup {result.gen}
    BY <1>3
  <2>3. accepted' = InFlight' \cup {d.answer.gen : d \in delivered'}
    BY <1>4, <2>2 DEF Inv, AnsweredOnce
  <2>4. \A d, e \in delivered' : d.answer.gen = e.answer.gen => d = e
    BY <1>3, <2>1 DEF Inv, AnsweredOnce
  <2>. QED
    BY <1>1, <1>3, <1>4, <2>3, <2>4 DEF AnsweredOnce
<1>6. ExactDelivery'
  BY <1>2, <1>3 DEF Inv, ExactDelivery
<1>7. Linked' /\ Ordered' /\ ResultExact' /\ StopRevokes'
  BY <1>3 DEF Inv, Linked, Ordered, Older, ResultExact, StopRevokes
<1>. QED
  BY <1>5, <1>6, <1>7 DEF Inv

\* Accepting a request that is newer than the last one keeps Inv.
LEMMA SubmitStep ==
  ASSUME TypeOK, Inv, NEW c \in Callers, NEW g \in Gen, Submit(c, g)
  PROVE  Inv'
<1> USE WorkerAssumption
<1>1. /\ ~stopping /\ request = None /\ ~running /\ result = None
      /\ ~IsStaleSubmission(lastSubmitted, g)
  BY DEF Submit, Admits, Occupied
<1>2. active = None /\ g # None
  BY <1>1 DEF Inv, Linked
<1>3. /\ request' = g /\ lastSubmitted' = g /\ accepted' = accepted \cup {g}
      /\ UNCHANGED <<available, stopping, running, failure, result, wpc, active, delivered>>
  BY DEF Submit, flags, worker
<1>4. \A a \in accepted : Older(a, g)
  <2> SUFFICES ASSUME NEW a \in accepted PROVE Older(a, g)
    OBVIOUS
  <2>1. lastSubmitted \in Gen /\ (a = lastSubmitted \/ Older(a, lastSubmitted))
    BY DEF Inv, Ordered, TypeOK
  <2>2. \A x \in {a, g, lastSubmitted} : x.job \in Nat /\ x.epoch \in Nat
    BY <2>1 DEF TypeOK
  <2>. QED
    BY <1>1, <2>1, <2>2 DEF IsStaleSubmission, Older
<1>5. g \notin accepted
  <2>1. g.job \in Nat /\ g.epoch \in Nat
    OBVIOUS
  <2>. QED
    BY <1>4, <2>1 DEF Older
<1>6. InFlight = {} /\ InFlight' = {g}
  BY <1>1, <1>2, <1>3 DEF InFlight
<1>7. AnsweredOnce'
  BY <1>1, <1>2, <1>3, <1>5, <1>6 DEF AnsweredOnce, Inv
<1>8. Ordered'
  BY <1>2, <1>3, <1>4 DEF Ordered, Older
<1>. QED
  BY <1>1, <1>2, <1>3, <1>7, <1>8 DEF Inv, Linked, ResultExact, ExactDelivery, StopRevokes

\* Cancelling what is pending or finished keeps Inv.
LEMMA StopStep ==
  ASSUME TypeOK, Inv, NEW c \in Callers, ShutdownStop(c), ~stopping
  PROVE  Inv'
<1> USE WorkerAssumption
<1>1. /\ stopping' = TRUE /\ request' = None /\ result' = CancelledResult
      /\ UNCHANGED <<running, failure, lastSubmitted, wpc, active, accepted, delivered>>
  BY DEF ShutdownStop, worker, history
<1>2. /\ InFlight' = InFlight
      /\ result' # None => result'.state = "Cancelled" /\ result'.payload = None
      /\ active # None => result' = None
  <2>1. CASE request # None
    BY <1>1, <2>1, AnswerIsSome DEF CancelledResult, Answer, Inv, AnsweredOnce, InFlight, TypeOK
  <2>2. CASE request = None /\ result # None /\ ~running
    BY <1>1, <2>2, AnswerIsSome DEF CancelledResult, Answer, Inv, AnsweredOnce, Linked, InFlight, TypeOK,
                      AnswerType
  <2>3. CASE request = None /\ ~(result # None /\ ~running)
    <3>1. result = None
      BY <2>3 DEF Inv, AnsweredOnce, Linked
    <3>. QED
      BY <1>1, <2>3, <3>1 DEF CancelledResult, InFlight
  <2>. QED
    BY <2>1, <2>2, <2>3
<1>3. AnsweredOnce'
  BY <1>1, <1>2 DEF Inv, AnsweredOnce
<1>4. Linked' /\ Ordered' /\ ExactDelivery'
  BY <1>1 DEF Inv, Linked, Ordered, Older, ExactDelivery
<1>5. ResultExact' /\ StopRevokes'
  BY <1>1, <1>2 DEF ResultExact, StopRevokes
<1>. QED
  BY <1>3, <1>4, <1>5 DEF Inv

\* Taking the request into the worker's hands keeps Inv.
LEMMA TakeStep ==
  ASSUME TypeOK, Inv, WorkerTake
  PROVE  Inv'
<1>1. /\ active' = request /\ request' = None /\ running' = TRUE /\ wpc' = "busy"
      /\ request # None /\ result = None /\ active = None
      /\ UNCHANGED <<stopping, failure, result, lastSubmitted, accepted, delivered>>
  BY DEF WorkerTake, history, Inv, AnsweredOnce
<1>2. InFlight' = InFlight
  BY <1>1 DEF InFlight
<1>. QED
  BY <1>1, <1>2 DEF Inv, AnsweredOnce, Linked, Ordered, Older, ResultExact, ExactDelivery,
                    StopRevokes

\* Putting the answer into the result slot keeps Inv.
LEMMA PublishStep ==
  ASSUME TypeOK, Inv, WorkerPublish
  PROVE  Inv'
<1> USE WorkerAssumption
<1>1. /\ active \in Gen /\ active # None /\ request = None /\ result = None
      /\ active' = None /\ running' = FALSE /\ wpc' = "notify"
      /\ UNCHANGED <<stopping, failure, request, lastSubmitted, accepted, delivered>>
  BY DEF WorkerPublish, history, Inv, AnsweredOnce, TypeOK
<1>2. /\ result' # None /\ result'.gen = active
      /\ result'.payload = (IF result'.state = "Ready" THEN active ELSE None)
      /\ stopping => result'.state = "Cancelled"
  <2>1. CASE stopping /\ result' = Answer(active, "Cancelled")
    BY <1>1, <2>1, AnswerIsSome DEF Answer
  <2>2. CASE ~stopping /\ result' = [Answer(active, "Ready") EXCEPT !.payload = active]
    BY <1>1, <2>2, AnswerIsSome DEF Answer
  <2>3. CASE ~stopping /\ result' = Answer(active, "Failed")
    BY <1>1, <2>3, AnswerIsSome DEF Answer
  <2>. QED
    BY <2>1, <2>2, <2>3 DEF WorkerPublish
<1>3. InFlight' = InFlight
  BY <1>1, <1>2 DEF InFlight
<1>. QED
  BY <1>1, <1>2, <1>3 DEF Inv, AnsweredOnce, Linked, Ordered, Older, ResultExact,
                          ExactDelivery, StopRevokes

\* A worker that gives up answers what it had, or what was waiting for it.
LEMMA FaultStep ==
  ASSUME TypeOK, Inv, WorkerFault
  PROVE  Inv'
<1> USE WorkerAssumption
<1>1. /\ stopping' = TRUE /\ failure' = TRUE /\ running' = FALSE /\ active' = None
      /\ wpc' = "exited" /\ result' = FaultResult
      /\ request' = (IF active = None /\ result = None THEN None ELSE request)
      /\ UNCHANGED <<lastSubmitted, accepted, delivered>>
  BY DEF WorkerFault, history
<1>2. request' = None
  BY <1>1 DEF Inv, AnsweredOnce
<1>3. /\ InFlight' = InFlight
      /\ result' # None => result'.payload = (IF result'.state = "Ready" THEN result'.gen ELSE None)
  <2>1. CASE active # None
    BY <1>1, <1>2, <2>1, AnswerIsSome
    DEF FaultResult, Answer, Inv, AnsweredOnce, InFlight, TypeOK
  <2>2. CASE active = None /\ request # None
    BY <1>1, <1>2, <2>2, AnswerIsSome
    DEF FaultResult, Answer, Inv, AnsweredOnce, InFlight, TypeOK
  <2>3. CASE active = None /\ request = None
    BY <1>1, <1>2, <2>3 DEF FaultResult, Inv, InFlight, ResultExact
  <2>. QED
    BY <2>1, <2>2, <2>3
<1>. QED
  BY <1>1, <1>2, <1>3 DEF Inv, AnsweredOnce, Linked, Ordered, Older, ResultExact,
                          ExactDelivery, StopRevokes

-----------------------------------------------------------------------------
\* Inv is preserved by every step.
LEMMA InvStep == TypeOK /\ Inv /\ [Next]_vars => Inv'
<1> SUFFICES ASSUME TypeOK, Inv, [Next]_vars PROVE Inv'
  OBVIOUS
<1>1. ASSUME NEW c \in Callers, NEW g \in Gen, Submit(c, g) PROVE Inv'
  BY <1>1, SubmitStep
<1>2. ASSUME NEW c \in Callers, NEW g \in Gen, TryCollect(c, g) PROVE Inv'
  BY <1>2, DeliverStep DEF TryCollect, flags, worker
<1>3. ASSUME NEW c \in Callers, NEW g \in Gen, WaitAndCollect(c, g) PROVE Inv'
  BY <1>3, Quiet DEF WaitAndCollect, flags, slots, worker, history
<1>4. ASSUME NEW c \in Callers, CallerStep(c) PROVE Inv'
  <2>1. CASE SubmitNotify(c)
    BY <2>1, Quiet DEF SubmitNotify, WakeWorker, flags, slots, history
  <2>2. CASE WaitReturns(c)
    <3>1. want[c] \in Gen
      BY <2>2, <1>4 DEF WaitReturns, TypeOK
    <3>2. CASE result # None /\ Deliver(want[c])
      BY <2>2, <3>1, <3>2, DeliverStep DEF WaitReturns, flags, worker
    <3>3. CASE UNCHANGED <<result, delivered>>
      BY <2>2, <3>3, Quiet DEF WaitReturns, flags, worker
    <3>. QED
      BY <2>2, <3>2, <3>3 DEF WaitReturns
  <2>3. CASE WaitSleeps(c)
    BY <2>3, Quiet DEF WaitSleeps, flags, slots, worker, history
  <2>4. CASE ShutdownStop(c)
    <3>1. CASE ~stopping
      BY <1>4, <2>4, <3>1, StopStep
    <3>2. CASE stopping
      BY <2>4, <3>2, Quiet DEF ShutdownStop, worker, history
    <3>. QED
      BY <3>1, <3>2
  <2>5. CASE ShutdownWake(c)
    BY <2>5, Quiet DEF ShutdownWake, WakeWorker, flags, slots, history
  <2>6. CASE ShutdownJoin(c)
    BY <2>6, Quiet DEF ShutdownJoin, slots, worker, history
  <2>7. CASE ShutdownReturn(c)
    BY <2>7, Quiet DEF ShutdownReturn, flags, slots, worker, history
  <2>. QED
    BY <1>4, <2>1, <2>2, <2>3, <2>4, <2>5, <2>6, <2>7 DEF CallerStep
<1>5. ASSUME NEW c \in Callers, SpuriousWake(c) \/ ShutdownEnter(c) PROVE Inv'
  BY <1>5, Quiet DEF SpuriousWake, ShutdownEnter, flags, slots, worker, history
<1>6. CASE WorkerSleep \/ WorkerExit \/ WorkerSpuriousWake \/ WorkerNotify
  BY <1>6, Quiet
  DEF WorkerSleep, WorkerExit, WorkerSpuriousWake, WorkerNotify, flags, slots, history
<1>7. CASE WorkerTake
  BY <1>7, TakeStep
<1>8. CASE WorkerPublish
  BY <1>8, PublishStep
<1>9. CASE WorkerFault
  BY <1>9, FaultStep
<1>10. CASE UNCHANGED vars
  BY <1>10, Quiet DEF vars, flags, slots, worker, history
<1>. QED
  BY <1>1, <1>2, <1>3, <1>4, <1>5, <1>6, <1>7, <1>8, <1>9, <1>10
  DEF Next, WorkerStep, SubmitRejected

\* Both hold initially, whether or not the thread could be started.
LEMMA InitInv == Init => TypeOK /\ Inv
<1> SUFFICES ASSUME Init PROVE TypeOK /\ Inv
  OBVIOUS
<1>1. available \in BOOLEAN /\ stopping \in BOOLEAN /\ failure \in BOOLEAN
  BY Zenon DEF Init
<1>2. TypeOK
  BY <1>1, WorkerAssumption DEF Init, TypeOK
<1>3. InFlight = {}
  BY DEF Init, InFlight
<1>4. Inv
  BY <1>3 DEF Init, Inv, AnsweredOnce, Linked, Ordered, ResultExact, ExactDelivery, StopRevokes
<1>. QED
  BY <1>2, <1>4

-----------------------------------------------------------------------------
\* Every variable keeps its type, a busy worker holds a job and a waiting
\* caller knows its generation.
THEOREM WorkerTypeCorrect == Spec => []TypeOK
BY InitInv, TypeStep, PTL DEF Spec

\* The invariant the other results follow from.
LEMMA WorkerInvariant == Spec => [](TypeOK /\ Inv)
BY InitInv, TypeStep, InvStep, PTL DEF Spec

\* Every request submit() accepted is in exactly one place until it is handed
\* out once, through cancellation, collection and failure of the worker.
THEOREM MailboxSafety == Spec => []AnsweredOnce
<1>1. Inv => AnsweredOnce
  BY DEF Inv
<1>. QED
  BY <1>1, WorkerInvariant, PTL

\* consumeResultLocked gives a payload only to the caller that asked for the
\* generation it was computed from.
THEOREM DeliverySafety == Spec => []ExactDelivery
<1>1. Inv => ExactDelivery
  BY DEF Inv
<1>. QED
  BY <1>1, WorkerInvariant, PTL

\* shutdown() leaves no payload to collect unless the worker had failed.
THEOREM StopSafety == Spec => []StopRevokes
<1>1. Inv => StopRevokes
  BY DEF Inv
<1>. QED
  BY <1>1, WorkerInvariant, PTL

\* Answers are handed out in the order of renderer epochs and job serials.
THEOREM DeliveryOrder == Spec => EpochsNeverReturn
<1>1. TypeOK /\ Inv /\ [Next]_vars => [HandsOutNewer]_vars
  <2> SUFFICES ASSUME TypeOK, Inv, [Next]_vars,
                      NEW d \in delivered' \ delivered, NEW e \in delivered
               PROVE  \/ d.answer.gen.epoch > e.answer.gen.epoch
                      \/ (/\ d.answer.gen.epoch = e.answer.gen.epoch
                          /\ d.answer.gen.job > e.answer.gen.job)
    BY DEF HandsOutNewer
  <2>1. result # None /\ d.answer.gen = result.gen
    <3>1. PICK g \in Gen \cup {None} : result # None /\ Deliver(g)
      BY DEF Next, CallerStep, WorkerStep, vars, flags, slots, worker, callers, history,
             Submit, SubmitRejected, TryCollect, WaitAndCollect, SubmitNotify, WaitReturns,
             WaitSleeps, ShutdownStop, ShutdownWake, ShutdownJoin, ShutdownReturn,
             SpuriousWake, ShutdownEnter, WorkerSleep, WorkerTake, WorkerExit, WorkerPublish,
             WorkerNotify, WorkerSpuriousWake, WorkerFault, TypeOK
    <3>2. result \in AnswerType({"Ready", "Failed", "Cancelled"})
      BY <3>1 DEF TypeOK
    <3>3. Consume(g).gen = result.gen
      BY <3>2 DEF Consume, Answer, AnswerType
    <3>. QED
      BY <3>1, <3>3 DEF Deliver
  <2>2. result.gen = lastSubmitted /\ result.gen \in Gen /\ result.gen # None
    BY <2>1, WorkerAssumption DEF Inv, AnsweredOnce, InFlight, TypeOK, AnswerType
  <2>3. e.answer.gen \in accepted /\ e.answer.gen # result.gen /\ e.answer.gen \in Gen
    BY <2>1, <2>2 DEF Inv, AnsweredOnce, InFlight, TypeOK
  <2>4. Older(e.answer.gen, result.gen)
    BY <2>2, <2>3 DEF Inv, Ordered
  <2>5. \A x \in {e.answer.gen, result.gen} : x.job \in Nat /\ x.epoch \in Nat
    BY <2>2, <2>3, WorkerAssumption
  <2>. QED
    BY <2>1, <2>4, <2>5 DEF Older
<1>. QED
  BY <1>1, WorkerInvariant, PTL DEF Spec, EpochsNeverReturn

-----------------------------------------------------------------------------
(* The worker implements the mailbox.                                      *)

\* Only a worker that is stopping is unavailable or has left its loop.
OpenUntilStop == ~available \/ wpc \in {"exited", "down"} => stopping

LEMMA OpenStep == TypeOK /\ Inv /\ OpenUntilStop /\ [Next]_vars => OpenUntilStop'
<1>. SUFFICES ASSUME TypeOK, Inv, OpenUntilStop, [Next]_vars PROVE OpenUntilStop'
  OBVIOUS
<1>. USE DEF OpenUntilStop, flags, slots, worker, callers, history
<1>1. ASSUME NEW c \in Callers, NEW g \in Gen,
             Submit(c, g) \/ SubmitRejected(c, g) \/ TryCollect(c, g) \/ WaitAndCollect(c, g)
      PROVE  OpenUntilStop'
  BY <1>1 DEF Submit, SubmitRejected, TryCollect, WaitAndCollect, vars
<1>2. ASSUME NEW c \in Callers, CallerStep(c) \/ SpuriousWake(c) \/ ShutdownEnter(c)
      PROVE  OpenUntilStop'
  BY <1>2 DEF CallerStep, SubmitNotify, WaitReturns, WaitSleeps, ShutdownStop, ShutdownWake,
     ShutdownJoin, ShutdownReturn, SpuriousWake, ShutdownEnter, WakeWorker
<1>3. CASE WorkerStep \/ WorkerSpuriousWake \/ WorkerFault
  BY <1>3 DEF WorkerStep, WorkerSleep, WorkerTake, WorkerExit, WorkerPublish, WorkerNotify,
     WorkerSpuriousWake, WorkerFault
<1>4. CASE UNCHANGED vars
  BY <1>4 DEF vars
<1>. QED
  BY <1>1, <1>2, <1>3, <1>4 DEF Next

LEMMA WorkerOpen == Spec => [](TypeOK /\ Inv /\ OpenUntilStop)
<1>1. Init => OpenUntilStop
  BY DEF Init, OpenUntilStop
<1>. QED
  BY InitInv, TypeStep, InvStep, OpenStep, <1>1, PTL DEF Spec

Open == available /\ ~stopping

MailboxStep == [Mailbox!Next]_(Mailbox!mailbox)

\* What the mailbox shows in each of its states.
LEMMA Seen ==
  ASSUME TypeOK, Inv
  PROVE  /\ request # None => SlotSeen = Mailbox!In(request, "working")
         /\ active # None => SlotSeen = Mailbox!In(active, "working")
         /\ result # None => SlotSeen = Mailbox!In(result.gen, result.state)
         /\ request = None /\ active = None /\ result = None => SlotSeen = None
         /\ SlotSeen # None <=> request # None \/ active # None \/ result # None
<1>1. \A g \in Gen : g # None
  BY WorkerAssumption
<1>2. \A g \in Gen, s \in {"working", "Ready", "Failed", "Cancelled"} : Mailbox!In(g, s) # None
  BY WorkerAssumption DEF Mailbox!In
<1>3. request \in Gen \cup {None} /\ active \in Gen \cup {None}
      /\ (result # None => result.gen \in Gen /\ result.state \in {"Ready", "Failed", "Cancelled"})
  BY DEF TypeOK, AnswerType
<1>4. /\ request # None => active = None /\ result = None
      /\ active # None => result = None
  BY DEF Inv, AnsweredOnce
<1>. QED
  BY <1>1, <1>2, <1>3, <1>4 DEF SlotSeen, Mailbox!In

\* A step that moves neither a slot nor a flag is a stutter of the mailbox.
LEMMA UnseenStep ==
  ASSUME UNCHANGED <<request, active, result, lastSubmitted>>, Open' = Open
  PROVE  MailboxStep
BY DEF MailboxStep, Mailbox!mailbox, SlotSeen, Open

LEMMA SubmitSeen ==
  ASSUME TypeOK, Inv, NEW c \in Callers, NEW g \in Gen, Submit(c, g), TypeOK', Inv'
  PROVE  MailboxStep
<1>1. /\ Open /\ Open' = Open /\ request' = g /\ lastSubmitted' = g /\ Valid(g)
      /\ ~IsStaleSubmission(lastSubmitted, g)
      /\ request = None /\ ~running /\ result = None
  BY DEF Submit, Admits, Occupied, Open, flags
<1>2. SlotSeen = None
  BY <1>1, Seen DEF Inv, Linked
<1>3. SlotSeen' = Mailbox!In(g, "working")
  <2>1. g # None
    BY WorkerAssumption
  <2>. QED
    BY <1>1, <2>1 DEF SlotSeen, Mailbox!In
<1>4. Mailbox!Newer(g)
  BY <1>1, WorkerAssumption DEF IsStaleSubmission, Mailbox!Newer, TypeOK
<1>. QED
  BY <1>1, <1>2, <1>3, <1>4
     DEF MailboxStep, Mailbox!Next, Mailbox!Accept, Open, Valid

LEMMA DeliverSeen ==
  ASSUME TypeOK, Inv, NEW g, Deliver(g), result # None, Open' = Open,
         UNCHANGED <<request, active, lastSubmitted>>
  PROVE  MailboxStep
<1>1. SlotSeen = Mailbox!In(result.gen, result.state) /\ SlotSeen # None
  BY Seen
<1>2. SlotSeen' = None
  BY DEF SlotSeen, Deliver, Inv, AnsweredOnce
<1>3. result.state # "working"
  BY DEF TypeOK, AnswerType
<1>. QED
  BY <1>1, <1>2, <1>3
     DEF MailboxStep, Mailbox!Next, Mailbox!Take, Mailbox!Answered, Mailbox!In, Open

LEMMA StopSeen ==
  ASSUME TypeOK, Inv, OpenUntilStop, NEW c \in Callers, ShutdownStop(c), ~stopping
  PROVE  MailboxStep
<1>1. /\ Open /\ ~Open' /\ request' = None /\ result' = CancelledResult
      /\ active' = active /\ lastSubmitted' = lastSubmitted
  BY DEF ShutdownStop, worker, Open, OpenUntilStop
<1>2. \A g \in Gen : Answer(g, "Cancelled") # None
  BY AnswerIsSome
<1>3. CASE request # None
  <2>1. SlotSeen = Mailbox!In(request, "working") /\ SlotSeen # None /\ active = None
    BY <1>3, Seen DEF Inv, AnsweredOnce
  <2>2. SlotSeen' = Mailbox!In(request, "Cancelled")
    BY <1>1, <1>2, <1>3, <2>1 DEF SlotSeen, CancelledResult, Answer, Mailbox!In, TypeOK
  <2>. QED
    BY <1>1, <2>1, <2>2
       DEF MailboxStep, Mailbox!Next, Mailbox!Close, Mailbox!In, Open
<1>4. CASE request = None /\ active # None
  <2>1. result = None /\ result' = None
    BY <1>1, <1>4 DEF CancelledResult, Inv, AnsweredOnce
  <2>2. SlotSeen' = SlotSeen /\ SlotSeen = Mailbox!In(active, "working") /\ SlotSeen # None
    BY <1>1, <1>4, <2>1, Seen DEF SlotSeen
  <2>. QED
    BY <1>1, <2>2
       DEF MailboxStep, Mailbox!Next, Mailbox!Close, Mailbox!Working, Mailbox!In, Open
<1>5. CASE request = None /\ active = None /\ result # None
  <2>1. result' = Answer(result.gen, "Cancelled") /\ result.gen \in Gen
    BY <1>1, <1>5 DEF CancelledResult, Inv, Linked, TypeOK, AnswerType
  <2>2. SlotSeen = Mailbox!In(result.gen, result.state) /\ SlotSeen # None
    BY <1>5, Seen
  <2>3. SlotSeen' = Mailbox!In(result.gen, "Cancelled")
    BY <1>1, <1>2, <1>5, <2>1 DEF SlotSeen, Answer, Mailbox!In
  <2>. QED
    BY <1>1, <2>2, <2>3
       DEF MailboxStep, Mailbox!Next, Mailbox!Close, Mailbox!In, Open
<1>6. CASE request = None /\ active = None /\ result = None
  <2>1. SlotSeen = None /\ SlotSeen' = None
    BY <1>1, <1>6 DEF SlotSeen, CancelledResult
  <2>. QED
    BY <1>1, <2>1 DEF MailboxStep, Mailbox!Next, Mailbox!Close, Open
<1>. QED
  BY <1>3, <1>4, <1>5, <1>6

LEMMA TakeSeen ==
  ASSUME TypeOK, Inv, WorkerTake
  PROVE  MailboxStep
<1>1. SlotSeen' = SlotSeen
  BY DEF WorkerTake, SlotSeen
<1>. QED
  BY <1>1 DEF WorkerTake, MailboxStep, Mailbox!mailbox

LEMMA PublishSeen ==
  ASSUME TypeOK, Inv, OpenUntilStop, WorkerPublish
  PROVE  MailboxStep
<1>1. /\ active \in Gen /\ active # None /\ request = None /\ request' = None /\ active' = None
      /\ lastSubmitted' = lastSubmitted /\ Open' = Open /\ (Open <=> ~stopping)
  BY DEF WorkerPublish, Inv, AnsweredOnce, TypeOK, Open, OpenUntilStop
<1>2. SlotSeen = Mailbox!In(active, "working") /\ SlotSeen # None
  BY <1>1, Seen
<1>3. PICK st \in {"Ready", "Failed", "Cancelled"} :
        /\ result' # None /\ result'.gen = active /\ result'.state = st
        /\ IF stopping THEN st = "Cancelled" ELSE st \in {"Ready", "Failed"}
  BY <1>1, AnswerIsSome DEF WorkerPublish, Answer
<1>4. SlotSeen' = Mailbox!In(active, st)
  BY <1>1, <1>3 DEF SlotSeen, Mailbox!In
<1>. QED
  BY <1>1, <1>2, <1>3, <1>4
     DEF MailboxStep, Mailbox!Next, Mailbox!Finish, Mailbox!Working, Mailbox!In, Open

LEMMA FaultSeen ==
  ASSUME TypeOK, Inv, OpenUntilStop, WorkerFault
  PROVE  MailboxStep
<1>1. /\ ~Open' /\ result' = FaultResult /\ active' = None /\ request' = None
      /\ lastSubmitted' = lastSubmitted
  BY DEF WorkerFault, Open, Inv, AnsweredOnce
<1>2. CASE request # None \/ active # None
  <2>1. PICK g \in Gen : /\ SlotSeen = Mailbox!In(g, "working") /\ SlotSeen # None
                         /\ result' = Answer(g, "Failed")
    <3>1. CASE active # None
      <4>1. active \in Gen /\ result = None /\ SlotSeen = Mailbox!In(active, "working")
        BY <3>1, Seen DEF Inv, AnsweredOnce, TypeOK
      <4>. QED
        BY <1>1, <3>1, <4>1, Seen DEF FaultResult
    <3>2. CASE active = None
      <4>1. request \in Gen /\ request # None /\ result = None
            /\ SlotSeen = Mailbox!In(request, "working")
        BY <1>2, <3>2, Seen DEF Inv, AnsweredOnce, TypeOK
      <4>. QED
        BY <1>1, <3>2, <4>1, Seen DEF FaultResult
    <3>. QED
      BY <3>1, <3>2
  <2>2. result' # None /\ result'.gen = g /\ result'.state = "Failed"
    BY <2>1, AnswerIsSome DEF Answer
  <2>3. SlotSeen' = Mailbox!In(g, "Failed")
    BY <1>1, <2>2 DEF SlotSeen, Mailbox!In
  <2>. QED
    BY <1>1, <2>1, <2>3
       DEF MailboxStep, Mailbox!Next, Mailbox!Fault, Mailbox!Working, Mailbox!In, Open
<1>3. CASE request = None /\ active = None
  <2>1. SlotSeen' = SlotSeen
    BY <1>1, <1>3 DEF SlotSeen, FaultResult
  <2>2. ~Mailbox!Working
    BY <1>3, Seen DEF Mailbox!Working, Mailbox!In, TypeOK, AnswerType
  <2>. QED
    BY <1>1, <2>1, <2>2
       DEF MailboxStep, Mailbox!Next, Mailbox!Fault, Mailbox!mailbox, Open
<1>. QED
  BY <1>2, <1>3

LEMMA NextSeen == TypeOK /\ Inv /\ OpenUntilStop /\ [Next]_vars => MailboxStep
<1>. SUFFICES ASSUME TypeOK, Inv, OpenUntilStop, [Next]_vars PROVE MailboxStep
  OBVIOUS
<1>. USE DEF flags, slots, worker, callers, history
<1>1. ASSUME NEW c \in Callers, NEW g \in Gen, Submit(c, g) PROVE MailboxStep
  BY <1>1, SubmitSeen, TypeStep, InvStep
<1>2. ASSUME NEW c \in Callers, NEW g \in Gen, TryCollect(c, g) PROVE MailboxStep
  BY <1>2, DeliverSeen DEF TryCollect, Open
<1>3. ASSUME NEW c \in Callers, NEW g \in Gen, WaitAndCollect(c, g) PROVE MailboxStep
  BY <1>3, UnseenStep DEF WaitAndCollect, Open
<1>4. ASSUME NEW c \in Callers, WaitReturns(c) PROVE MailboxStep
  <2>1. CASE result # None /\ Deliver(want[c])
    BY <1>4, <2>1, DeliverSeen DEF WaitReturns, Open
  <2>2. CASE UNCHANGED <<result, delivered>>
    BY <1>4, <2>2, UnseenStep DEF WaitReturns, Open
  <2>. QED
    BY <1>4, <2>1, <2>2 DEF WaitReturns
<1>5. ASSUME NEW c \in Callers, ShutdownStop(c) PROVE MailboxStep
  <2>1. CASE ~stopping
    BY <1>5, <2>1, StopSeen
  <2>2. CASE stopping
    BY <1>5, <2>2, UnseenStep DEF ShutdownStop, Open
  <2>. QED
    BY <2>1, <2>2
<1>6. ASSUME NEW c \in Callers, ShutdownJoin(c) PROVE MailboxStep
  BY <1>6, UnseenStep DEF ShutdownJoin, Open, OpenUntilStop
<1>7. ASSUME NEW c \in Callers,
             \/ SubmitNotify(c) \/ WaitSleeps(c) \/ SpuriousWake(c)
             \/ ShutdownEnter(c) \/ ShutdownWake(c) \/ ShutdownReturn(c)
      PROVE  MailboxStep
  BY <1>7, UnseenStep DEF SubmitNotify, WaitSleeps, SpuriousWake, ShutdownEnter, ShutdownWake,
     ShutdownReturn, Open
<1>8. CASE WorkerSleep \/ WorkerExit \/ WorkerNotify \/ WorkerSpuriousWake \/ UNCHANGED vars
  BY <1>8, UnseenStep DEF WorkerSleep, WorkerExit, WorkerNotify, WorkerSpuriousWake, vars, Open
<1>9. CASE WorkerTake \/ WorkerPublish \/ WorkerFault
  BY <1>9, TakeSeen, PublishSeen, FaultSeen
<1>. QED
  BY <1>1, <1>2, <1>3, <1>4, <1>5, <1>6, <1>7, <1>8, <1>9
     DEF Next, CallerStep, WorkerStep, SubmitRejected

\* The safety part of ImplementsMailbox: whatever callers, notifications and
\* faults do, submit(), the collections and shutdown() show the owner a mailbox
\* with one slot, for any number of callers and any set of generations.
THEOREM MailboxRefinement == Spec => Mailbox!Spec
<1>1. Init => Mailbox!Init
  <2>1. SUFFICES ASSUME Init PROVE Mailbox!Init
    OBVIOUS
  <2>2. (available /\ ~stopping) \in BOOLEAN
    OBVIOUS
  <2>3. SlotSeen = None /\ lastSubmitted = None
    BY <2>1 DEF Init, SlotSeen
  <2>. QED
    BY <2>2, <2>3 DEF Mailbox!Init
<1>2. TypeOK /\ Inv /\ OpenUntilStop /\ [Next]_vars => [Mailbox!Next]_(Mailbox!mailbox)
  BY NextSeen DEF MailboxStep
<1>. QED
  BY WorkerOpen, <1>1, <1>2, PTL DEF Spec, Mailbox!Spec
=============================================================================
