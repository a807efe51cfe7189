---------------------------- MODULE AsyncScreenshot ----------------------------
(***************************************************************************)
(* Screenshots without a GPU wait.  The game thread claims a slot, Present *)
(* gives it a buffer and a fence of its own and records a copy, the worker *)
(* polls the fence and encodes the file, and the next Present recycles the *)
(* slot.  The slot state, moved by compare-and-swap, is all the three      *)
(* threads share; the registry mutex keeps requests away from a reset.     *)
(***************************************************************************)
EXTENDS Naturals, FiniteSets, FiniteSetsExt

CONSTANTS
  SlotCount, BurstLength,   \* 3 and 3 in the code
  Readbacks,              \* frame-history exports, HistoryReadback
  None,
  MaxShots, MaxRequests   \* bounds

ASSUME ScreenshotAssumption ==
  /\ {SlotCount, BurstLength} \subseteq Nat \ {0} /\ MaxShots \in Nat /\ MaxRequests \in Nat
  /\ None \notin Readbacks

VARIABLES
  slotState, \* Slot::state
  shot,      \* Slot::serial, which names its buffer and fence; 0 if none
  history,   \* Slot::history
  late,      \* submitted more than ten seconds ago
  available, fault, stop, sourceReady, burst,   \* Impl
  inFlight,
  deviceOk,  \* getDeviceStatus
  emitted, completed,   \* copies recorded, copies whose fence has signalled
  queued, done,         \* flags of the readbacks
  pc, index,     \* Present's thread and its slot
  gpc,           \* slot the game thread looks at next, 0 outside request()
  wpc, windex,   \* the worker and its slot
  serial, handled, ended   \* fileSerial; requests answered true, requests settled

device == <<deviceOk, emitted, completed>>
slots == <<slotState, shot, history, late>>
flags == <<available, fault, stop, sourceReady, burst>>
readbacks == <<queued, done>>
threads == <<pc, index, gpc, wpc, windex>>
counts == <<inFlight, serial, handled, ended>>

vars == <<device, slots, flags, readbacks, threads, counts>>

Slots == 1 .. SlotCount

In(st) == {s \in Slots : slotState[s] = st}

\* The first slot on which Claim, a compare-and-swap from st, succeeds.
First(st) == Min(In(st))

Set(S, st) == [s \in Slots |-> IF s \in S THEN st ELSE slotState[s]]

RegistryFree == gpc = 0

Init ==
  /\ slotState = [s \in Slots |-> "Retired"] /\ shot = [s \in Slots |-> 0]
  /\ history = [s \in Slots |-> None] /\ late = [s \in Slots |-> FALSE]
  /\ available = FALSE /\ fault = FALSE /\ stop = FALSE /\ sourceReady = FALSE
  /\ burst = 0 /\ inFlight = 0
  /\ deviceOk = TRUE /\ emitted = {} /\ completed = {}
  /\ queued = {} /\ done = {}
  /\ pc = "out" /\ index = 0 /\ gpc = 0 /\ wpc = "poll" /\ windex = 0
  /\ serial = 0 /\ handled = 0 /\ ended = 0

-----------------------------------------------------------------------------
(* The game thread.                                                        *)

RequestBegin ==
  /\ gpc = 0 /\ pc \notin {"join", "gone"}
  /\ available /\ ~fault /\ handled < MaxRequests
  /\ gpc' = 1
  /\ UNCHANGED <<device, slots, flags, readbacks, pc, index, wpc, windex, counts>>

\* One compare-and-swap; after the last slot the request is counted rejected.
RequestScan ==
  /\ gpc # 0
  /\ \/ /\ gpc \in Slots /\ slotState[gpc] = "Free"
        /\ slotState' = [slotState EXCEPT ![gpc] = "Requested"]
        /\ gpc' = 0 /\ handled' = handled + 1 /\ UNCHANGED ended
     \/ /\ gpc \in Slots /\ slotState[gpc] # "Free"
        /\ gpc' = gpc + 1 /\ UNCHANGED <<slotState, handled, ended>>
     \/ /\ gpc \notin Slots
        /\ gpc' = 0 /\ handled' = handled + 1 /\ ended' = ended + 1
        /\ UNCHANGED slotState
  /\ UNCHANGED <<device, shot, history, late, flags, readbacks, pc, index, wpc, windex,
                 inFlight, serial>>

ArmBurst ==
  /\ RegistryFree /\ pc \notin {"join", "gone"}
  /\ available /\ ~fault /\ In("Free") = Slots /\ burst = 0
  /\ handled + BurstLength <= MaxRequests
  /\ burst' = BurstLength
  /\ UNCHANGED <<device, slots, available, fault, stop, sourceReady, readbacks,
                 threads, counts>>

-----------------------------------------------------------------------------
(* Present, under the device lock.                                         *)

\* Mutant: slots whose copy timed out are recycled too.
ReleasableTimedOut == In("Retired") \cup In("Quarantined")

Releasable == In("Retired")

\* releaseRetiredSlots: a retired slot drops its buffer, fence and readback.
ReleasedTo(st) ==
  /\ slotState' = st
  /\ shot' = [s \in Slots |-> IF s \in Releasable THEN 0 ELSE shot[s]]
  /\ history' = [s \in Slots |-> IF s \in Releasable THEN None ELSE history[s]]
  /\ UNCHANGED late

Released == ReleasedTo(Set(Releasable, "Free"))

BeginPresent ==
  /\ pc = "out" /\ Released /\ pc' = "present"
  /\ UNCHANGED <<device, flags, readbacks, index, gpc, wpc, windex, counts>>

\* Mutant: a copy under way is cancelled as well.
ResettableSubmitted == In("Requested") \cup In("Free") \cup In("Submitted")

Resettable == In("Requested") \cup In("Free")

\* reset(), once it has the registry mutex.
ResetSlots ==
  /\ RegistryFree
  /\ available' = FALSE /\ sourceReady' = FALSE /\ burst' = 0
  /\ slotState' = Set(Resettable, "Retired")
  /\ ended' = ended + Cardinality(In("Requested"))
  /\ UNCHANGED <<fault, stop>>

\* An early return, a failed Present, a missing image or D3D9 Reset.
Reset ==
  /\ pc \in {"out", "present", "afterUi"} /\ ResetSlots /\ pc' = "out"
  /\ UNCHANGED <<device, shot, history, late, readbacks, index, gpc, wpc, windex,
                 inFlight, serial, handled>>

\* prepare() of an image it does not support, or after a fault.
PrepareUnsupported ==
  /\ pc \in {"present", "afterUi"} /\ ResetSlots
  /\ pc' = IF pc = "present" THEN "afterUi" ELSE "out"
  /\ UNCHANGED <<device, shot, history, late, readbacks, index, gpc, wpc, windex,
                 inFlight, serial, handled>>

\* prepare() passes its checks; the first Present or a new size resets.
PrepareSupported ==
  /\ pc \in {"present", "afterUi"} /\ ~fault /\ deviceOk
  /\ \/ ResetSlots
     \/ sourceReady /\ UNCHANGED <<flags, slotState, ended>>
  /\ pc' = IF pc = "present" THEN "ready" ELSE "readyUi"
  /\ UNCHANGED <<device, shot, history, late, readbacks, index, gpc, wpc, windex,
                 inFlight, serial, handled>>

\* The rest of prepare(), where by now the worker may have found a fault: the
\* call before the UI also advances a burst, which needs a free slot.
PrepareReady ==
  /\ pc = "ready" /\ pc' = "history"
  /\ sourceReady' = TRUE /\ available' = TRUE
  /\ LET free == In("Free") \cup Releasable
     IN \/ burst = 0 /\ Released /\ UNCHANGED <<burst, handled>>
        \/ /\ burst > 0 /\ free # {} /\ burst' = burst - 1 /\ handled' = handled + 1
           /\ ReleasedTo([Set(Releasable, "Free") EXCEPT ![Min(free)] = "Requested"])
        \/ burst > 0 /\ free = {} /\ burst' = 0 /\ Released /\ UNCHANGED handled
  /\ UNCHANGED <<device, fault, stop, readbacks, index, gpc, wpc, windex,
                 inFlight, serial, ended>>

PrepareReadyUi ==
  /\ pc = "readyUi" /\ pc' = "take" /\ index' = 1 /\ Released
  /\ sourceReady' = TRUE /\ available' = TRUE
  /\ UNCHANGED <<device, fault, stop, burst, readbacks, gpc, wpc, windex, counts>>

\* prepareRequestedSlot, which may find the fault or run out of memory.
GiveBuffer(s) ==
  /\ ~fault /\ serial < MaxShots
  /\ serial' = serial + 1 /\ shot' = [shot EXCEPT ![s] = serial + 1]
  /\ UNCHANGED <<available, fault>>

NoBuffer ==
  /\ fault' = TRUE /\ available' \in (IF fault THEN {available} ELSE {FALSE})
  /\ UNCHANGED <<serial, shot>>

TakeHistory(j) ==
  /\ pc = "history" /\ j \notin queued /\ available /\ In("Free") # {}
  /\ LET s == First("Free")
     IN \/ /\ GiveBuffer(s) /\ index' = s /\ pc' = "emitHistory"
           /\ slotState' = Set({s}, "Preparing")
           /\ history' = [history EXCEPT ![s] = j] /\ queued' = queued \cup {j}
           /\ UNCHANGED done
        \/ /\ NoBuffer /\ slotState' = Set({s}, "Quarantined") /\ done' = done \cup {j}
           /\ pc' = "afterUi" /\ UNCHANGED <<index, history, queued>>
  /\ UNCHANGED <<device, late, stop, sourceReady, burst, gpc, wpc, windex,
                 inFlight, handled, ended>>

NoHistory ==
  /\ pc = "history" /\ pc' = "afterUi"
  /\ UNCHANGED <<device, slots, flags, readbacks, index, gpc, wpc, windex, counts>>

Take ==
  /\ pc = "take" /\ index \in Slots /\ slotState[index] = "Requested"
  /\ \/ /\ GiveBuffer(index) /\ slotState' = Set({index}, "Preparing")
        /\ pc' = "emit" /\ UNCHANGED <<index, ended>>
     \/ /\ NoBuffer /\ slotState' = Set({index}, "Quarantined")
        /\ ended' = ended + 1 /\ index' = index + 1 /\ UNCHANGED pc
  /\ UNCHANGED <<device, history, late, stop, sourceReady, burst, readbacks, gpc, wpc,
                 windex, inFlight, handled>>

TakeSkips ==
  /\ pc = "take" /\ index \in Slots /\ slotState[index] # "Requested"
  /\ index' = index + 1
  /\ UNCHANGED <<device, slots, flags, readbacks, pc, gpc, wpc, windex, counts>>

\* Present goes on to PresentImage and returns, or a late failure resets.
TakeEnds ==
  /\ pc = "take" /\ index \notin Slots
  /\ \/ UNCHANGED <<flags, slotState, ended>>
     \/ ResetSlots
  /\ pc' = "out" /\ index' = 0
  /\ UNCHANGED <<device, shot, history, late, readbacks, gpc, wpc, windex,
                 inFlight, serial, handled>>

AfterEmit == IF pc = "emitHistory" THEN "afterUi" ELSE "take"
AfterIndex == IF pc = "emitHistory" THEN 0 ELSE index + 1

\* EmitCs records the copy and the signal of its fence, and submitted() hands
\* the slot to the worker ...
Emit ==
  /\ pc \in {"emit", "emitHistory"} /\ emitted' = emitted \cup {shot[index]}
  /\ inFlight' = inFlight + 1 /\ slotState' = Set({index}, "Submitted")
  /\ pc' = AfterEmit /\ index' = AfterIndex
  /\ UNCHANGED <<deviceOk, completed, shot, history, late, flags, readbacks, gpc, wpc,
                 windex, serial, handled, ended>>

\* ... or EmitCs throws, perhaps after it recorded them: quarantine().
EmitThrows ==
  /\ pc \in {"emit", "emitHistory"}
  /\ emitted' \in {emitted, emitted \cup {shot[index]}}
  /\ done' = done \cup ({history[index]} \ {None})
  /\ fault' = TRUE /\ available' = FALSE /\ slotState' = Set({index}, "Quarantined")
  /\ ended' = IF history[index] = None THEN ended + 1 ELSE ended
  /\ pc' = AfterEmit /\ index' = AfterIndex
  /\ UNCHANGED <<deviceOk, completed, shot, history, late, stop, sourceReady, burst,
                 queued, gpc, wpc, windex, inFlight, serial, handled>>

\* A second swapchain makes the owner ambiguous.
CreateAnother ==
  /\ RegistryFree /\ pc # "gone" /\ pc # "join"
  /\ fault' = TRUE /\ available' = FALSE
  /\ UNCHANGED <<device, slots, stop, sourceReady, burst, readbacks, threads, counts>>

\* The destructor takes the registry mutex, sets stop and joins.
Destroy ==
  /\ pc = "out" /\ RegistryFree /\ pc' = "join" /\ stop' = TRUE
  /\ UNCHANGED <<device, slots, available, fault, sourceReady, burst, readbacks, index,
                 gpc, wpc, windex, counts>>

Join ==
  /\ pc = "join" /\ wpc \in {"exited", "dead"} /\ pc' = "gone"
  /\ UNCHANGED <<device, slots, flags, readbacks, index, gpc, wpc, windex, counts>>

-----------------------------------------------------------------------------
(* The GPU, the clock and the worker.                                      *)

GpuCompletes(n) ==
  /\ deviceOk /\ n \in emitted \ completed /\ completed' = completed \cup {n}
  /\ UNCHANGED <<deviceOk, emitted, slots, flags, readbacks, threads, counts>>

DeviceLost ==
  /\ deviceOk /\ deviceOk' = FALSE
  /\ UNCHANGED <<emitted, completed, slots, flags, readbacks, threads, counts>>

TenSeconds(s) ==
  /\ slotState[s] = "Submitted" /\ ~late[s] /\ late' = [late EXCEPT ![s] = TRUE]
  /\ UNCHANGED <<device, slotState, shot, history, flags, readbacks, threads, counts>>

WorkerWakes ==
  /\ wpc = "poll"
  /\ \/ stop /\ wpc' = "exited" /\ UNCHANGED windex
     \/ ~stop /\ wpc' = "scan" /\ windex' = 1
  /\ UNCHANGED <<device, slots, flags, readbacks, pc, index, gpc, counts>>

\* Mutant: the fence is not asked once the copy is ten seconds old.
ReadableLate(s) == deviceOk /\ (shot[s] \in completed \/ late[s])

Readable(s) == deviceOk /\ shot[s] \in completed

\* Mutant: no time limit.
GivenUpNever(s) == ~deviceOk

GivenUp(s) == ~deviceOk \/ late[s]

WorkerSkips ==
  /\ wpc = "scan" /\ windex \in Slots
  /\ \/ slotState[windex] # "Submitted"
     \/ ~Readable(windex) /\ ~GivenUp(windex)
  /\ windex' = windex + 1
  /\ UNCHANGED <<device, slots, flags, readbacks, pc, index, gpc, wpc, counts>>

\* The readback is told that this slot has nothing more to say.
Tell(s) == done' = done \cup ({history[s]} \ {None})

WorkerQuarantines ==
  /\ wpc = "scan" /\ windex \in Slots /\ slotState[windex] = "Submitted"
  /\ ~Readable(windex) /\ GivenUp(windex)
  /\ fault' = TRUE /\ available' = FALSE /\ slotState' = Set({windex}, "Quarantined")
  /\ inFlight' = inFlight - 1 /\ Tell(windex)
  /\ ended' = IF history[windex] = None THEN ended + 1 ELSE ended
  /\ windex' = windex + 1 /\ late' = [late EXCEPT ![windex] = FALSE]
  /\ UNCHANGED <<device, shot, history, stop, sourceReady, burst, queued, pc, index,
                 gpc, wpc, serial, handled>>

WorkerSaves ==
  /\ wpc = "scan" /\ windex \in Slots /\ slotState[windex] = "Submitted" /\ Readable(windex)
  /\ wpc' = "save"
  /\ UNCHANGED <<device, slots, flags, readbacks, pc, index, gpc, windex, counts>>

\* Written, failed or cancelled: the slot is retired.
WorkerRetires ==
  /\ wpc = "save" /\ wpc' = "scan" /\ windex' = windex + 1
  /\ late' = [late EXCEPT ![windex] = FALSE]
  /\ Tell(windex) /\ inFlight' = inFlight - 1 /\ slotState' = Set({windex}, "Retired")
  /\ ended' = IF history[windex] = None THEN ended + 1 ELSE ended
  /\ UNCHANGED <<device, shot, history, flags, queued, pc, index, gpc, serial, handled>>

WorkerRests ==
  /\ wpc = "scan" /\ windex \notin Slots /\ wpc' = "poll" /\ windex' = 0
  /\ UNCHANGED <<device, slots, flags, readbacks, pc, index, gpc, counts>>

\* An exception outside save() ends the thread.
WorkerDies ==
  /\ wpc \in {"poll", "scan"} /\ wpc' = "dead" /\ fault' = TRUE /\ available' = FALSE
  /\ UNCHANGED <<device, slots, stop, sourceReady, burst, readbacks, pc, index, gpc,
                 windex, counts>>

-----------------------------------------------------------------------------
WorkerStep ==
  WorkerWakes \/ WorkerSkips \/ WorkerQuarantines \/ WorkerSaves \/ WorkerRetires \/ WorkerRests

PresentStep ==
  \/ BeginPresent \/ Reset \/ PrepareUnsupported \/ PrepareSupported \/ PrepareReady
  \/ PrepareReadyUi \/ (\E j \in Readbacks : TakeHistory(j)) \/ NoHistory
  \/ Take \/ TakeSkips \/ TakeEnds \/ Emit \/ EmitThrows
  \/ CreateAnother \/ Destroy \/ Join

Next ==
  \/ RequestBegin \/ RequestScan \/ ArmBurst \/ PresentStep \/ WorkerStep \/ WorkerDies
  \/ DeviceLost \/ \E n \in 1 .. MaxShots : GpuCompletes(n)
  \/ \E s \in Slots : TenSeconds(s)

Spec == Init /\ [][Next]_vars

\* The worker's waits are bounded and save() returns; the clock advances.
\* Neither the GPU nor Present owes anything.
FairSpec == Spec /\ WF_vars(WorkerStep) /\ \A s \in Slots : WF_vars(TenSeconds(s))

-----------------------------------------------------------------------------
\* While the worker reads a mapped buffer its slot is still Submitted and its
\* own copy has completed: no frame delay and no age authorizes a read, and
\* neither Present nor Reset takes the slot away.
ReadsCompleted ==
  wpc = "save" => slotState[windex] = "Submitted" /\ shot[windex] \in completed

\* A copy the GPU may still write belongs to a slot that is not recycled: a
\* timeout, a device loss or an ambiguous enqueue retains the buffer.
NothingRecycledUnderCopy ==
  \A n \in emitted \ completed :
    \E s \in Slots : shot[s] = n /\ slotState[s] \in {"Preparing", "Submitted", "Quarantined"}

\* A request the game was told is handled holds one slot or has been settled,
\* once: written, failed, quarantined, cancelled by a reset, or rejected.  And a
\* readback in the queue and not yet done is still held by a slot that will answer
\* for it: the recorder is never left waiting for a slot that moved on.
RequestsAccounted ==
  /\ handled = ended + Cardinality({s \in Slots :
       slotState[s] \in {"Requested", "Preparing", "Submitted"} /\ history[s] = None})
  /\ \A j \in queued \ done :
       \E s \in Slots : history[s] = j /\ slotState[s] \in {"Preparing", "Submitted"}

\* A submitted copy leaves that state without waiting for the GPU, unless the
\* worker itself has ended: the ten-second limit settles what never completes.
SubmittedSettles ==
  \A s \in Slots : (slotState[s] = "Submitted") ~>
    (slotState[s] # "Submitted" \/ wpc \in {"exited", "dead"})
=============================================================================
