---------------------------- MODULE PrepareWorker ----------------------------
(***************************************************************************)
(* The point-shadow prepare worker: one persistent thread behind a mailbox *)
(* with one request slot and one result slot.  Callers submit a frozen     *)
(* request under a generation, collect the answer of exactly that          *)
(* generation, with or without waiting, and shut the worker down.          *)
(* One action is one critical section of the mailbox mutex, or one         *)
(* notification, which the code makes after it unlocks.                    *)
(***************************************************************************)
EXTENDS Naturals

CONSTANTS
  Callers,              \* threads of the owner
  Gen,                  \* War3PointShadowPrepareGenerationTuple
  None                  \* an empty slot

ASSUME WorkerAssumption ==
  /\ Gen \subseteq [job : Nat, epoch : Nat, frame : Nat]
  /\ None \notin Callers \cup Gen
  /\ None \notin [gen : Gen, state : {"Ready", "Failed", "Cancelled"},
                  payload : Gen \cup {None}]
  /\ None \notin [gen : Gen, state : {"working", "Ready", "Failed", "Cancelled"}]

VARIABLES
  available, stopping, running, failure,   \* flags; failure: startupFailure
  request,         \* generation in the request slot
  result,          \* answer in the result slot
  lastSubmitted,
  wpc, active,     \* the worker thread and its activeGeneration
  pc, want,        \* each caller, and the generation it waits for
  shutdownMutex,   \* caller inside shutdown()
  accepted, delivered   \* history: requests taken, answers handed out

flags == <<available, stopping, running, failure>>
slots == <<request, result, lastSubmitted>>
worker == <<wpc, active>>
callers == <<pc, want, shutdownMutex>>
history == <<accepted, delivered>>

vars == <<flags, slots, worker, callers, history>>

\* A generation is valid when no part of it is 0.  frame stands for the frame
\* serial and the light generation, which are only ever compared.
Valid(g) == g.job # 0 /\ g.epoch # 0 /\ g.frame # 0

Answer(g, s) == [gen |-> g, state |-> s, payload |-> None]

\* Nothing of a request with this generation may follow the previous one.
IsStaleSubmission(previous, g) ==
  /\ previous # None
  /\ IF g.epoch # previous.epoch THEN g.epoch < previous.epoch
                                 ELSE g.job <= previous.job

Occupied == request # None \/ running \/ result # None

Asleep == {c \in Callers : pc[c] = "asleep"}

\* resultAvailable.notify_all, with caller c moving on to next.
NotifyResult(c, next) ==
  [d \in Callers |-> IF d = c THEN next ELSE IF d \in Asleep THEN "wait" ELSE pc[d]]

WakeWaiters == [d \in Callers |-> IF d \in Asleep THEN "wait" ELSE pc[d]]

\* workAvailable.notify: only the worker waits there.
WakeWorker == IF wpc = "asleep" THEN "wait" ELSE wpc

-----------------------------------------------------------------------------
\* The constructor starts the thread, or records that it could not.
Init ==
  /\ wpc \in {"wait", "down"} /\ active = None
  /\ available = (wpc = "wait")
  /\ stopping = (wpc = "down") /\ failure = (wpc = "down")
  /\ running = FALSE
  /\ request = None /\ result = None /\ lastSubmitted = None
  /\ pc = [c \in Callers |-> "idle"] /\ want = [c \in Callers |-> None]
  /\ shutdownMutex = None
  /\ accepted = {} /\ delivered = {}

-----------------------------------------------------------------------------
(* The callers.                                                            *)

Admits(g) ==
  /\ Valid(g) /\ ~stopping /\ available
  /\ ~IsStaleSubmission(lastSubmitted, g) /\ ~Occupied

Submit(c, g) ==
  /\ pc[c] = "idle" /\ Admits(g)
  /\ lastSubmitted' = g /\ request' = g
  /\ pc' = [pc EXCEPT ![c] = "notify"]
  /\ accepted' = accepted \cup {g}
  /\ UNCHANGED <<flags, result, worker, want, shutdownMutex, delivered>>

\* Every other status leaves the request with the caller.
SubmitRejected(c, g) == pc[c] = "idle" /\ ~Admits(g) /\ UNCHANGED vars

SubmitNotify(c) ==
  /\ pc[c] = "notify"
  /\ wpc' = WakeWorker /\ pc' = [pc EXCEPT ![c] = "idle"]
  /\ UNCHANGED <<flags, slots, active, want, shutdownMutex, history>>

\* Mutant: whatever is there is the answer.
ConsumeAny(g) == result

\* consumeResultLocked: only the exact generation keeps its payload.
Consume(g) == IF result.gen = g THEN result ELSE Answer(result.gen, "Stale")

Deliver(g) ==
  /\ result' = None
  /\ delivered' = delivered \cup {[want |-> g, answer |-> Consume(g)]}

TryCollect(c, g) ==
  /\ pc[c] = "idle" /\ Valid(g) /\ result # None
  /\ Deliver(g)
  /\ UNCHANGED <<flags, request, lastSubmitted, worker, callers, accepted>>

WaitAndCollect(c, g) ==
  /\ pc[c] = "idle" /\ Valid(g)
  /\ pc' = [pc EXCEPT ![c] = "wait"] /\ want' = [want EXCEPT ![c] = g]
  /\ UNCHANGED <<flags, slots, worker, shutdownMutex, history>>

\* No answer can come any more.
Abandoned == ~available /\ ~running /\ request = None

WaitReturns(c) ==
  /\ pc[c] = "wait"
  /\ \/ result # None /\ Deliver(want[c])
     \/ result = None /\ Abandoned /\ UNCHANGED <<result, delivered>>
  /\ pc' = [pc EXCEPT ![c] = "idle"] /\ want' = [want EXCEPT ![c] = None]
  /\ UNCHANGED <<flags, request, lastSubmitted, worker, shutdownMutex, accepted>>

WaitSleeps(c) ==
  /\ pc[c] = "wait" /\ result = None /\ ~Abandoned
  /\ pc' = [pc EXCEPT ![c] = "asleep"]
  /\ UNCHANGED <<flags, slots, worker, want, shutdownMutex, history>>

SpuriousWake(c) ==
  /\ pc[c] = "asleep" /\ pc' = [pc EXCEPT ![c] = "wait"]
  /\ UNCHANGED <<flags, slots, worker, want, shutdownMutex, history>>

-----------------------------------------------------------------------------
(* shutdown(), serialized by its own mutex.                                *)

ShutdownEnter(c) ==
  /\ pc[c] = "idle" /\ shutdownMutex = None
  /\ shutdownMutex' = c /\ pc' = [pc EXCEPT ![c] = "stop"]
  /\ UNCHANGED <<flags, slots, worker, want, history>>

\* cancelPendingRequestLocked and cancelCompletedResultLocked.
CancelledResult ==
  IF request # None THEN Answer(request, "Cancelled")
  ELSE IF result # None /\ ~running THEN Answer(result.gen, "Cancelled")
  ELSE result

ShutdownStop(c) ==
  /\ pc[c] = "stop" /\ pc' = [pc EXCEPT ![c] = "wake"]
  /\ \/ ~stopping /\ stopping' = TRUE /\ request' = None /\ result' = CancelledResult
     \/ stopping /\ UNCHANGED <<stopping, request, result>>
  /\ UNCHANGED <<available, running, failure, lastSubmitted, worker, want,
                 shutdownMutex, history>>

\* Mutant: only the callers are notified.
ShutdownWakeCallers(c) ==
  /\ pc[c] = "wake" /\ pc' = NotifyResult(c, "join")
  /\ UNCHANGED <<flags, slots, worker, want, shutdownMutex, history>>

ShutdownWake(c) ==
  /\ pc[c] = "wake"
  /\ wpc' = WakeWorker /\ pc' = NotifyResult(c, "join")
  /\ UNCHANGED <<flags, slots, active, want, shutdownMutex, history>>

ShutdownJoin(c) ==
  /\ pc[c] = "join" /\ wpc \in {"exited", "down"}
  /\ available' = FALSE /\ pc' = [pc EXCEPT ![c] = "release"]
  /\ UNCHANGED <<stopping, running, failure, slots, worker, want, shutdownMutex, history>>

\* Mutant: the second notification is taken for redundant.
ShutdownReturnSilent(c) ==
  /\ pc[c] = "release" /\ pc' = [pc EXCEPT ![c] = "idle"] /\ shutdownMutex' = None
  /\ UNCHANGED <<flags, slots, worker, want, history>>

ShutdownReturn(c) ==
  /\ pc[c] = "release"
  /\ pc' = NotifyResult(c, "idle") /\ shutdownMutex' = None
  /\ UNCHANGED <<flags, slots, worker, want, history>>

-----------------------------------------------------------------------------
(* workerLoop.                                                             *)

WorkerSleep ==
  /\ wpc = "wait" /\ ~stopping /\ request = None /\ wpc' = "asleep"
  /\ UNCHANGED <<flags, slots, active, callers, history>>

WorkerSpuriousWake ==
  /\ wpc = "asleep" /\ wpc' = "wait"
  /\ UNCHANGED <<flags, slots, active, callers, history>>

WorkerTake ==
  /\ wpc = "wait" /\ request # None
  /\ active' = request /\ request' = None /\ running' = TRUE /\ wpc' = "busy"
  /\ UNCHANGED <<available, stopping, failure, result, lastSubmitted, callers, history>>

WorkerExit ==
  /\ wpc = "wait" /\ stopping /\ request = None /\ wpc' = "exited"
  /\ UNCHANGED <<flags, slots, active, callers, history>>

\* Mutant: the answer of a job that outlives the stop is kept.
WorkerPublishLate ==
  /\ wpc = "busy" /\ wpc' = "notify"
  /\ \/ result' = [Answer(active, "Ready") EXCEPT !.payload = active]
     \/ result' = Answer(active, "Failed")
  /\ running' = FALSE /\ active' = None
  /\ UNCHANGED <<available, stopping, failure, request, lastSubmitted, callers, history>>

\* The processor returns or throws; a stop in the meantime revokes its answer.
WorkerPublish ==
  /\ wpc = "busy" /\ wpc' = "notify"
  /\ \/ stopping /\ result' = Answer(active, "Cancelled")
     \/ ~stopping /\ result' = [Answer(active, "Ready") EXCEPT !.payload = active]
     \/ ~stopping /\ result' = Answer(active, "Failed")
  /\ running' = FALSE /\ active' = None
  /\ UNCHANGED <<available, stopping, failure, request, lastSubmitted, callers, history>>

WorkerNotify ==
  /\ wpc = "notify" /\ wpc' = "wait" /\ pc' = WakeWaiters
  /\ UNCHANGED <<flags, slots, active, want, shutdownMutex, history>>

\* Mutant: the request that is still pending is forgotten.
FaultResultActiveOnly ==
  IF active # None /\ result = None THEN Answer(active, "Failed") ELSE result

\* The job in hand, or the one still in its slot, is answered with the failure.
FaultResult ==
  IF active # None /\ result = None THEN Answer(active, "Failed")
  ELSE IF request # None /\ result = None THEN Answer(request, "Failed")
  ELSE result

\* Locking the mutex throws: the thread gives up.
WorkerFault ==
  /\ wpc \in {"wait", "busy"} /\ wpc' = "exited"
  /\ available' = FALSE /\ stopping' = TRUE /\ running' = FALSE /\ failure' = TRUE
  /\ result' = FaultResult
  /\ request' = IF active = None /\ result = None THEN None ELSE request
  /\ active' = None /\ pc' = WakeWaiters
  /\ UNCHANGED <<lastSubmitted, want, shutdownMutex, history>>

-----------------------------------------------------------------------------
\* What a caller has begun, and the worker's own steps.
CallerStep(c) ==
  \/ SubmitNotify(c) \/ WaitReturns(c) \/ WaitSleeps(c)
  \/ ShutdownStop(c) \/ ShutdownWake(c) \/ ShutdownJoin(c) \/ ShutdownReturn(c)

WorkerStep == WorkerSleep \/ WorkerTake \/ WorkerExit \/ WorkerPublish \/ WorkerNotify

Next ==
  \/ \E c \in Callers, g \in Gen :
       Submit(c, g) \/ SubmitRejected(c, g) \/ TryCollect(c, g) \/ WaitAndCollect(c, g)
  \/ \E c \in Callers : CallerStep(c) \/ SpuriousWake(c) \/ ShutdownEnter(c)
  \/ WorkerStep \/ WorkerSpuriousWake \/ WorkerFault

Spec == Init /\ [][Next]_vars

\* A processor is a finite computation, a thread that has begun a call goes on,
\* and nobody has to call.  Spurious wake-ups and faults owe nothing.
FairSpec == Spec /\ WF_vars(WorkerStep) /\ \A c \in Callers : WF_vars(CallerStep(c))

-----------------------------------------------------------------------------
AnswerType(states) ==
  [gen : Gen, state : states, payload : Gen \cup {None}]

\* The flags, the slots and both program counters have their types; a busy
\* worker holds a job and a waiting caller knows which answer it waits for.
TypeOK ==
  /\ available \in BOOLEAN /\ stopping \in BOOLEAN
  /\ running \in BOOLEAN /\ failure \in BOOLEAN
  /\ request \in Gen \cup {None} /\ lastSubmitted \in Gen \cup {None}
  /\ result \in AnswerType({"Ready", "Failed", "Cancelled"}) \cup {None}
  /\ wpc \in {"down", "wait", "asleep", "busy", "notify", "exited"}
  /\ active \in Gen \cup {None}
  /\ pc \in [Callers -> {"idle", "notify", "wait", "asleep",
                         "stop", "wake", "join", "release"}]
  /\ want \in [Callers -> Gen \cup {None}]
  /\ wpc = "busy" => active # None
  /\ \A c \in Callers : pc[c] \in {"wait", "asleep"} => want[c] # None
  /\ shutdownMutex \in Callers \cup {None}
  /\ accepted \subseteq Gen
  /\ delivered \subseteq
       [want : Gen, answer : AnswerType({"Ready", "Failed", "Cancelled", "Stale"})]

InFlight == {request, active, IF result = None THEN None ELSE result.gen} \ {None}

\* A request the mailbox accepted is in exactly one place, its slot, the
\* worker's hands or the result slot, and is the last one accepted, until it is
\* handed out, once.  submit refuses while any place is taken, so neither a
\* pending nor a completed generation is overwritten or lost, whatever the
\* order of collections, cancellations and worker faults.
AnsweredOnce ==
  /\ InFlight \subseteq {lastSubmitted}
  /\ request # None => active = None /\ result = None
  /\ active # None => result = None
  /\ accepted = InFlight \cup {d.answer.gen : d \in delivered}
  /\ \A d \in delivered : d.answer.gen \notin InFlight
  /\ \A d, e \in delivered : d.answer.gen = e.answer.gen => d = e

\* A caller is handed a payload only by a Ready answer of exactly the
\* generation it asked for, computed from that very request: consumeResultLocked
\* drops the payload of anything else.
ExactDelivery ==
  \A d \in delivered :
    /\ d.answer.payload = (IF d.answer.state = "Ready" THEN d.want ELSE None)
    /\ d.answer.state = "Ready" => d.answer.gen = d.want

\* Once the owner has asked for the stop no payload remains to be collected:
\* a finished one is revoked and a running job ends Cancelled.  A worker that
\* gave up by itself is the exception: it sets stopping, so shutdown skips the
\* revocation.
StopRevokes ==
  stopping /\ ~failure => result = None \/ result.state = "Cancelled"

HandsOutNewer ==
  \A d \in delivered' \ delivered, e \in delivered :
    \/ d.answer.gen.epoch > e.answer.gen.epoch
    \/ d.answer.gen.epoch = e.answer.gen.epoch /\ d.answer.gen.job > e.answer.gen.job

\* Answers are handed out in the order the owner numbers its requests: by
\* renderer epoch, then by job serial.  submit refuses a generation that is
\* not newer than the last one, even when the mailbox is empty.
EpochsNeverReturn == [][HandsOutNewer]_vars

-----------------------------------------------------------------------------
\* The promise seen through the implementation: the request slot, the worker's
\* hands and the result slot are one slot, and the two flags are one.
SlotSeen ==
  IF request # None THEN [gen |-> request, state |-> "working"]
  ELSE IF active # None THEN [gen |-> active, state |-> "working"]
  ELSE IF result # None THEN [gen |-> result.gen, state |-> result.state]
  ELSE None

Mailbox == INSTANCE PrepareMailbox
             WITH open <- available /\ ~stopping, slot <- SlotSeen, last <- lastSubmitted

\* The worker implements the mailbox it promises, its liveness included: an
\* accepted request is answered (neither the notification after the unlock nor
\* a worker about to sleep loses it), a closed mailbox answers only Cancelled,
\* and no interleaving of callers, notifications and faults shows anything else.
ImplementsMailbox == Mailbox!FairSpec

\* A caller that got the shutdown mutex returns: the worker it joins wakes up,
\* finishes its job and leaves its loop.
ShutdownReturns ==
  \A c \in Callers : (pc[c] \in {"stop", "wake", "join", "release"}) ~> (pc[c] = "idle")

\* A stop lets every waiting caller go, also one for whom no answer is left.
\* That needs the notification after the join, since only then is the mailbox
\* unavailable.
StopReleasesWaiters ==
  \A c \in Callers : (pc[c] \in {"wait", "asleep"} /\ stopping) ~> (pc[c] = "idle")
=============================================================================
