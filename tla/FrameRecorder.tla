--------------------------- MODULE FrameRecorder ---------------------------
(***************************************************************************)
(* The frame recorder: a history of presented images in a ring of slots,   *)
(* the lock-free mailbox through which hotkeys trigger it, the commands of *)
(* FrameHistoryControl, the export of the retained images, and, in a       *)
(* self-contained build, the worker that arms, exports and signs the       *)
(* manifest.  The CPU evidence it runs beside is EvidenceSession.  The      *)
(* Present thread owns captures and exports; the owner's mutex is held     *)
(* over several steps only where a lock-free party can step in.            *)
(***************************************************************************)
EXTENDS Naturals, Sequences, FiniteSets

CONSTANTS
  Keys,         \* threads that deliver the hotkey
  Pre, Post,    \* slots before and after the trigger
  MaxSession,   \* bound: CPU sessions
  MaxSerial     \* bound: images captured before the trigger

ASSUME RecorderAssumption == Pre \in Nat \ {0} /\ Post \in Nat \ {0}

Frames == 0 .. Pre + Post - 1

VARIABLES
  phase, session, active, game,     \* the CPU evidence (EvidenceSession)
  state, bound,                     \* image lifecycle, and the session it records
  trigger, cancelled, stopping,     \* flags of the owner
  ring,                             \* head, filled, written (post), serial
  frames,                           \* the readback request of each slot
  order,                            \* the retained slots, oldest first
  manifest,                         \* manifest.json is written
  shots,                            \* the screenshot service has not failed
  box,                              \* TriggerMailbox: active and pending session
  keys,                             \* the hotkey threads inside request()
  holder, present, asked,           \* the mutex, the Present thread inside capture,
                                    \*   and the session it is asking a trigger for
  owner,                            \* live, joining or gone
  selfContained, worker, token,     \* the build has the recorder worker; where it
                                    \*   is and its session
  stale                             \* history: hotkeys that read before the last arm

cpu == <<phase, session, active, game>>
image == <<ring, frames, order>>
life == <<state, bound, trigger>>
halts == <<cancelled, stopping>>
files == <<manifest, shots>>
hot == <<box, keys>>
lock == <<holder, present, asked>>
local == <<owner, selfContained, worker, token>>
recorder_vars == <<cpu, image, life, halts, files, hot, lock, local, stale>>

Cpu == INSTANCE EvidenceSession

NoJob == [ord |-> 0, queued |-> FALSE, done |-> FALSE, ok |-> FALSE]

EmptyRing == [head |-> 0, filled |-> 0, written |-> 0, serial |-> 0]

Free == holder = "none"

\* Create; a self-contained owner starts its worker.
RecorderInit ==
  /\ Cpu!Init
  /\ state = "Idle" /\ bound = 0 /\ trigger = FALSE /\ cancelled = FALSE /\ stopping = FALSE
  /\ ring = EmptyRing /\ frames = [i \in Frames |-> NoJob] /\ order = <<>>
  /\ manifest = FALSE /\ shots = TRUE
  /\ box = [active |-> 0, pending |-> 0]
  /\ keys = [k \in Keys |-> [pc |-> "idle", read |-> 0]]
  /\ holder = "none" /\ present = "idle" /\ asked = 0 /\ owner = "live"
  /\ selfContained \in BOOLEAN /\ token = 0
  /\ worker = (IF selfContained THEN "loop" ELSE "none")
  /\ stale = {}

-----------------------------------------------------------------------------
(* The hotkey: TriggerMailbox::request, without any lock.                  *)

KeyRead(k) ==
  /\ keys[k].pc = "idle" /\ box.active # 0
  /\ keys' = [keys EXCEPT ![k] = [pc |-> "swap", read |-> box.active]]
  /\ UNCHANGED <<cpu, image, life, halts, files, box, lock, local, stale>>

\* Mutant: a plain store instead of the guarded exchange.
KeySwapStore(k) ==
  /\ keys[k].pc = "swap" /\ box' = [box EXCEPT !.pending = keys[k].read]
  /\ keys' = [keys EXCEPT ![k].pc = "answer"]
  /\ UNCHANGED <<cpu, image, life, halts, files, lock, local, stale>>

\* The loop of exchanges ends by replacing an older request, or by seeing one that
\* is not older.
KeySwap(k) ==
  /\ keys[k].pc = "swap" /\ keys' = [keys EXCEPT ![k].pc = "answer"]
  /\ \/ box.pending >= keys[k].read /\ UNCHANGED box
     \/ box.pending < keys[k].read /\ box' = [box EXCEPT !.pending = keys[k].read]
  /\ UNCHANGED <<cpu, image, life, halts, files, lock, local, stale>>

\* TRUE only when the session it read is still the one armed.
KeyAnswer(k) ==
  /\ keys[k].pc = "answer"
  /\ stale' = stale \ {k}
  /\ keys' = [keys EXCEPT ![k] = [pc |-> "idle", read |-> 0]]
  /\ UNCHANGED <<cpu, image, life, halts, files, box, lock, local>>

-----------------------------------------------------------------------------
(* FrameHistory::capture, once a frame, unless somebody holds the mutex.   *)

\* Impl::fail.
Fail == state' = "Fault" /\ box' = [box EXCEPT !.active = 0]

Holds(pc) == holder' = "present" /\ present' = pc /\ UNCHANGED asked

Drops == holder' = "none" /\ present' = "idle" /\ asked' = 0

CanCapture == owner = "live" /\ present = "idle" /\ Free

CaptureDiscard ==
  /\ CanCapture /\ state = "Discard"
  /\ state' = "Idle" /\ cancelled' = FALSE /\ frames' = [i \in Frames |-> NoJob]
  /\ UNCHANGED <<cpu, ring, order, bound, trigger, stopping, files, hot, lock, local,
                 stale>>

CaptureCancelled ==
  /\ CanCapture /\ state \notin {"Discard", "Idle", "Fault"} /\ cancelled /\ Fail
  /\ UNCHANGED <<cpu, image, bound, trigger, halts, files, keys, lock, local, stale>>

Capturing == CanCapture /\ ~cancelled /\ state \in {"PendingArm", "Armed", "Triggered"}

CpuEnded == state # "Triggered" /\ active # bound

\* The CPU session is over; or the source is missing or unsuitable, its extent or
\* epochs have changed, the images do not fit or cannot be created.
CaptureRejected ==
  /\ Capturing /\ Fail
  /\ frames' = IF state = "PendingArm" THEN [i \in Frames |-> NoJob] ELSE frames
  /\ UNCHANGED <<cpu, ring, order, bound, trigger, halts, files, keys, lock, local,
                 stale>>

\* The slots are allocated and TriggerMailbox::arm clears the mailbox ...
CaptureAllocate ==
  /\ Capturing /\ state = "PendingArm" /\ ~CpuEnded
  /\ state' = "Armed" /\ frames' = [i \in Frames |-> NoJob]
  /\ box' = [box EXCEPT !.pending = 0] /\ Holds("open")
  /\ UNCHANGED <<cpu, ring, order, bound, trigger, halts, files, keys, local, stale>>

\* ... and opens it.
BoxOpen ==
  /\ present = "open" /\ box' = [box EXCEPT !.active = bound] /\ Holds("consume")
  /\ UNCHANGED <<cpu, image, life, halts, files, keys, local, stale>>

\* TriggerMailbox::consume.
Consumes == bound # 0 /\ box.pending = bound

\* At the bound only a frame that will trigger is captured.
CaptureFrame ==
  /\ Capturing /\ state # "PendingArm" /\ ~CpuEnded
  /\ state = "Armed" => ring.serial < MaxSerial \/ trigger \/ Consumes
  /\ Holds("consume")
  /\ UNCHANGED <<cpu, image, life, halts, files, hot, local, stale>>

\* The last n images of the ring, then the ones after the trigger.
Gather(r, n) ==
  [i \in 1 .. n + r.written |->
     IF i <= n THEN (r.head + Pre - n + i - 1) % Pre ELSE Pre + i - n - 1]

\* The duration asked for keeps at least one of the images before the trigger.
Kept(r) == IF r.filled = 0 THEN {0} ELSE 1 .. r.filled

\* The image goes into the ring, or behind the trigger.
Stores(index) == frames' = [frames EXCEPT ![index].ord = ring.serial + 1] /\ Drops

StoresBefore ==
  /\ Stores(ring.head)
  /\ ring' = [ring EXCEPT !.serial = @ + 1, !.head = (@ + 1) % Pre,
                          !.filled = IF @ < Pre THEN @ + 1 ELSE @]
  /\ UNCHANGED <<state, order>>

\* The last one freezes the history.
StoresAfter ==
  /\ Stores(Pre + ring.written)
  /\ ring' = [ring EXCEPT !.serial = @ + 1, !.written = @ + 1]
  /\ \/ ring.written + 1 < Post /\ state' = "Triggered" /\ UNCHANGED order
     \/ /\ ring.written + 1 = Post /\ state' = "Frozen"
        /\ \E n \in Kept(ring') : order' = Gather(ring', n)

Triggers == state = "Armed" /\ (trigger \/ Consumes)

Consume ==
  /\ present = "consume" /\ trigger' = FALSE
  /\ box' = IF Consumes THEN [box EXCEPT !.pending = 0] ELSE box
  /\ \/ Triggers /\ Holds("disarm") /\ UNCHANGED <<image, state>>
     \/ ~Triggers /\ state = "Armed" /\ StoresBefore
     \/ state = "Triggered" /\ StoresAfter
  /\ UNCHANGED <<cpu, bound, halts, files, keys, local, stale>>

Disarm ==
  /\ present = "disarm" /\ box' = [box EXCEPT !.active = 0] /\ Holds("trigger")
  /\ UNCHANGED <<cpu, image, life, halts, files, keys, local, stale>>

\* The evidence, if its gate is open, is asked to trigger ...
TriggerLoad ==
  /\ present = "trigger" /\ asked' = active /\ holder' = "present" /\ present' = "ask"
  /\ UNCHANGED <<cpu, image, life, halts, files, hot, local, stale>>

\* ... whatever becomes of its session before the request is stored.
TriggerCpu ==
  /\ present = "ask" /\ StoresAfter
  /\ Cpu!Request(asked) \/ (asked = 0 /\ UNCHANGED cpu)
  /\ UNCHANGED <<bound, trigger, halts, files, hot, local, stale>>

-----------------------------------------------------------------------------
(* The export of the retained images.                                      *)

Jobs == {frames[order[i]] : i \in DOMAIN order}

Count(P(_)) == Cardinality({i \in DOMAIN order : P(frames[order[i]])})

Dones == Count(LAMBDA j : j.done)

\* Mutant: images that could not be saved are not looked at.
OutcomeIgnoringFailures ==
  IF order = <<>> \/ Dones > Count(LAMBDA j : j.queued) THEN "InvalidProgress"
  ELSE IF Dones < Len(order) THEN "Pending"
  ELSE "Complete"

\* Mutant: a failed readback leaves the export waiting for it.
OutcomeWaitingForSuccess ==
  IF order = <<>> \/ Dones > Count(LAMBDA j : j.queued) THEN "InvalidProgress"
  ELSE IF Dones < Len(order) \/ (\E j \in Jobs : ~j.ok) THEN "Pending"
  ELSE "Complete"

\* ClassifyExportProgress over one sample.  Each job is read once, done first,
\* and its flags only rise, so a sample taken at once stands for all of them.
Outcome ==
  IF order = <<>> \/ Dones > Count(LAMBDA j : j.queued) THEN "InvalidProgress"
  ELSE IF Dones < Len(order) THEN "Pending"
  ELSE IF \E j \in Jobs : j.done /\ ~j.ok THEN "ReadbackFailed"
  ELSE "Complete"

\* SettleExportCommit on an owner that is exporting; nothing is revived.
Settles ==
  /\ ~cancelled /\ ~stopping
  /\ \/ Outcome = "Complete" /\ state' = "Complete" /\ UNCHANGED box
     \/ Outcome \in {"ReadbackFailed", "InvalidProgress"} /\ Fail

\* nextExport, once a frame, or the status of any command.
Settle ==
  /\ owner # "gone" /\ Free /\ state = "Exporting" /\ Settles
  /\ UNCHANGED <<cpu, image, bound, trigger, halts, files, keys, lock, local, stale>>

Exports == CanCapture /\ ~cancelled

NextExportBegin ==
  /\ Exports /\ state = "Frozen" /\ state' = "Exporting"
  /\ UNCHANGED <<cpu, image, bound, trigger, halts, files, hot, lock, local, stale>>

\* The first job nobody has taken is handed to the screenshot slots: it is queued,
\* or the slot cannot be prepared and the job is done without it, or the copy
\* cannot be enqueued and the history is cancelled.
NextExportJob(outcome) ==
  /\ Exports /\ state = "Exporting" /\ ~stopping /\ shots /\ Outcome = "Pending"
  /\ \E i \in DOMAIN order :
       /\ ~frames[order[i]].done /\ ~frames[order[i]].queued
       /\ \A h \in 1 .. i - 1 : frames[order[h]].done \/ frames[order[h]].queued
       /\ frames' = [frames EXCEPT ![order[i]].queued = (outcome # "unprepared"),
                                 ![order[i]].done = (outcome = "unprepared")]
  /\ cancelled' = (outcome = "throws") /\ shots' = (outcome = "queued")
  /\ UNCHANGED <<cpu, ring, order, life, stopping, manifest, hot, lock, local, stale>>

\* A query, a time limit or an allocation fails: no slot is ever handed out again.
\* Only an export looks at it.
ShotsFail ==
  /\ state = "Exporting" /\ shots /\ shots' = FALSE
  /\ UNCHANGED <<cpu, image, life, halts, manifest, hot, lock, local, stale>>

\* The screenshot worker publishes the result, then done.
ReadbackDone(i, ok) ==
  /\ frames[i].queued /\ ~frames[i].done
  /\ frames' = [frames EXCEPT ![i].done = TRUE, ![i].ok = ok]
  /\ UNCHANGED <<cpu, ring, order, life, halts, files, hot, lock, local, stale>>

\* cancel: Reset, a missing source image, an exception, or a second swapchain.
Cancel ==
  /\ owner = "live" /\ present = "idle"
  /\ cancelled' = TRUE
  /\ UNCHANGED <<cpu, image, life, stopping, files, hot, lock, local, stale>>

-----------------------------------------------------------------------------
(* FrameHistoryControl: the worker's commands in a self-contained build, a *)
(* client's otherwise.  Any client may ask for the status, which settles.  *)

Registered == owner # "gone" /\ Free

\* The command names the session of the gate ...
ArmCheck(named) ==
  /\ Registered /\ state = "Idle" /\ named # 0 /\ named = active
  /\ holder' = "control"
  /\ UNCHANGED <<cpu, image, life, halts, files, hot, present, asked, stale>>

\* ... and the gate is read again for the session to record.
ArmBinds(session_) ==
  /\ holder = "control" /\ bound' = session_
  /\ holder' = "none" /\ UNCHANGED <<present, asked>>

ArmBind ==
  /\ ArmBinds(active)
  /\ state' = "PendingArm" /\ trigger' = FALSE /\ cancelled' = FALSE
  /\ ring' = EmptyRing /\ order' = <<>> /\ manifest' = FALSE
  /\ stale' = {k \in Keys : keys[k].read = active /\ active # 0}
  /\ UNCHANGED <<cpu, frames, stopping, shots, hot>>

\* The output directory cannot be created.
ArmNoDirectory ==
  /\ ArmBinds(active)
  /\ UNCHANGED <<cpu, image, state, trigger, halts, files, hot, stale>>

\* The status of the command settles the export first.
WriteManifest ==
  /\ Registered /\ bound # 0 /\ ~manifest /\ manifest' = TRUE
  /\ \/ state = "Complete" /\ UNCHANGED <<state, box>>
     \/ state = "Exporting" /\ Settles /\ state' = "Complete"
  /\ UNCHANGED <<cpu, image, bound, trigger, halts, shots, keys, lock, stale>>

ClientArmCheck ==
  ~selfContained /\ ArmCheck(active) /\ UNCHANGED local

ClientArmBind == ~selfContained /\ (ArmBind \/ ArmNoDirectory) /\ UNCHANGED local

ClientTrigger ==
  /\ ~selfContained /\ Registered /\ bound # 0 /\ state = "Armed"
  /\ trigger' = TRUE
  /\ UNCHANGED <<cpu, image, state, bound, halts, files, hot, lock, local, stale>>

ClientDiscard ==
  /\ ~selfContained /\ Registered /\ bound # 0 /\ state \in {"Complete", "Fault"}
  /\ state' = "Discard"
  /\ UNCHANGED <<cpu, image, bound, trigger, halts, files, hot, lock, local, stale>>

ClientManifest == ~selfContained /\ WriteManifest /\ UNCHANGED local

-----------------------------------------------------------------------------
(* runRecorder, the worker of a self-contained build: one arm, one         *)
(* incident.  Every wait is timed, so a notification may be missed.        *)

WorkerGoes(from, to) == worker = from /\ worker' = to /\ UNCHANGED <<owner, selfContained>>

others == <<image, life, files, hot, lock, stale>>

\* Mutant: only the loss of an armed session ends the loop.
StopSeenArmed == cancelled /\ token # 0

StopSeen == stopping \/ (cancelled /\ token # 0)

WorkerStop ==
  /\ WorkerGoes("loop", "exit") /\ (StopSeen \/ (token # 0 /\ state = "Fault"))
  /\ UNCHANGED <<cpu, halts, others, token>>

WorkerArm ==
  /\ WorkerGoes("loop", "publish") /\ token = 0 /\ ~StopSeen /\ session < MaxSession
  /\ Cpu!Arm /\ UNCHANGED <<halts, others, token>>

WorkerPublish ==
  /\ WorkerGoes("publish", "images") /\ Cpu!Publish /\ token' = session
  /\ UNCHANGED <<halts, others>>

\* No disk space, no memory, or the evidence is not idle.
WorkerArmFails ==
  /\ WorkerGoes("loop", "fail") /\ token = 0 /\ ~StopSeen
  /\ UNCHANGED <<cpu, halts, others, token>>

WorkerArmImages ==
  /\ WorkerGoes("images", "bind") /\ ~stopping /\ ArmCheck(token) /\ UNCHANGED token

WorkerArmRefused ==
  /\ WorkerGoes("images", "fail") /\ Free
  /\ stopping \/ active # token \/ state # "Idle"
  /\ UNCHANGED <<cpu, halts, others, token>>

WorkerArmBind ==
  /\ \/ WorkerGoes("bind", "loop") /\ ArmBind
     \/ WorkerGoes("bind", "fail") /\ ArmNoDirectory
  /\ UNCHANGED token

WorkerExport ==
  /\ WorkerGoes("loop", "manifest") /\ ~StopSeen
  /\ state = "Complete" /\ phase = "Frozen" /\ session = token
  /\ UNCHANGED <<cpu, halts, others, token>>

WorkerManifest ==
  WorkerGoes("manifest", "export") /\ ~stopping /\ WriteManifest /\ UNCHANGED token

\* Control(export): the ring is frozen and the gate is shut for good.
WorkerCpuExport ==
  /\ WorkerGoes("export", "sign") /\ ~stopping /\ phase = "Frozen" /\ active' = 0
  /\ UNCHANGED <<phase, session, game, halts, others, token>>

\* The package is signed only when its last file is written and nobody stops.
WorkerSign ==
  /\ WorkerGoes("sign", "exit") /\ ~stopping
  /\ UNCHANGED <<cpu, halts, others, token>>

\* A command is refused or a file cannot be written.
WorkerExportFails ==
  /\ \E step \in {"manifest", "export", "sign"} : WorkerGoes(step, "fail")
  /\ UNCHANGED <<cpu, halts, others, token>>

WorkerFail ==
  /\ WorkerGoes("fail", "exit") /\ Free /\ Fail
  /\ UNCHANGED <<cpu, image, bound, trigger, halts, files, keys, lock, stale, token>>

\* The evidence still recording is frozen, never discarded.
WorkerExit ==
  /\ WorkerGoes("exit", "none")
  /\ \/ /\ token # 0 /\ active = token /\ phase' = "Frozen" /\ active' = 0
        /\ UNCHANGED <<session, game>>
     \/ ~(token # 0 /\ active = token) /\ UNCHANGED cpu
  /\ UNCHANGED <<halts, others, token>>

\* The worker waits for the game to be ready before its one attempt.
WorkerAttempt == WorkerArm \/ WorkerArmFails

RecorderStep ==
  \/ WorkerStop \/ WorkerPublish \/ WorkerArmImages \/ WorkerArmRefused \/ WorkerArmBind
  \/ WorkerExport \/ WorkerManifest \/ WorkerCpuExport \/ WorkerSign \/ WorkerExportFails
  \/ WorkerFail \/ WorkerExit

-----------------------------------------------------------------------------
(* Release and Create, and the evidence on its own.                        *)

\* cancel under the registry's lock, then stopRecorder.
Release ==
  /\ owner = "live" /\ present = "idle" /\ holder # "control"
  /\ owner' = "joining" /\ cancelled' = TRUE /\ stopping' = TRUE
  /\ UNCHANGED <<cpu, others, selfContained, worker, token>>

\* The worker is joined outside every lock, and only then is the owner removed.
ReleaseJoin ==
  /\ owner = "joining" /\ worker = "none" /\ Free /\ owner' = "gone"
  /\ box' = [box EXCEPT !.active = 0]
  /\ UNCHANGED <<cpu, halts, image, life, files, keys, lock, stale, selfContained,
                 worker, token>>

\* A new swapchain.  A self-contained owner claims the evidence only when idle.
Create ==
  /\ owner = "gone" /\ (selfContained => phase = "Idle")
  /\ owner' = "live"
  /\ state' = "Idle" /\ bound' = 0 /\ trigger' = FALSE
  /\ cancelled' = FALSE /\ stopping' = FALSE /\ manifest' = FALSE
  /\ stale' = {}
  /\ ring' = EmptyRing /\ frames' = [i \in Frames |-> NoJob] /\ order' = <<>>
  /\ worker' = (IF selfContained THEN "loop" ELSE "none") /\ token' = 0
  /\ UNCHANGED <<cpu, shots, hot, lock, selfContained>>

\* What the recording threads and, in a build without the worker, a client of
\* Control do.  The worker's session is triggered by the game's request alone.
CpuStep ==
  /\ \/ ~selfContained /\ state = "Idle" /\ session < MaxSession /\ Cpu!Arm
     \/ ~selfContained /\ Cpu!Publish
     \/ ~selfContained /\ state \in {"Idle", "Complete", "Fault"} /\ Cpu!Discard
     \/ Cpu!TakeRequest \/ Cpu!Cut
     \/ Cpu!Trigger /\ (selfContained => bound = session /\ game # session
                                          /\ state \notin {"PendingArm", "Armed"})
     \/ Cpu!Freeze /\ (selfContained => phase = "Triggered")
  /\ UNCHANGED <<halts, others, local>>

CaptureStep ==
  \/ CaptureDiscard \/ CaptureCancelled \/ CaptureAllocate \/ BoxOpen
  \/ CaptureFrame \/ Consume \/ Disarm \/ TriggerLoad \/ TriggerCpu
  \/ NextExportBegin \/ (\E o \in {"queued", "unprepared", "throws"} : NextExportJob(o))

KeyStep(k) == KeySwap(k) \/ KeyAnswer(k)

Readback == \E i \in Frames, ok \in BOOLEAN : ReadbackDone(i, ok)

RecorderNext ==
  \/ \E k \in Keys : KeyRead(k) \/ KeyStep(k)
  \/ CaptureStep \/ CaptureRejected \/ Settle \/ Readback \/ ShotsFail \/ Cancel
  \/ ClientArmCheck \/ ClientArmBind \/ ClientTrigger \/ ClientDiscard \/ ClientManifest
  \/ WorkerAttempt \/ RecorderStep \/ Release \/ ReleaseJoin \/ Create \/ CpuStep

RecorderSpec == RecorderInit /\ [][RecorderNext]_recorder_vars

\* The game keeps presenting, and a mutex or a screenshot slot that is free again
\* and again is got; readbacks end; the worker runs; a release goes through.
Fairness ==
  /\ SF_recorder_vars(CaptureStep \/ Settle) /\ WF_recorder_vars(Readback)
  /\ SF_recorder_vars(RecorderStep) /\ WF_recorder_vars(ClientArmBind)
  /\ SF_recorder_vars(ReleaseJoin)

FairRecorderSpec == RecorderSpec /\ Fairness

-----------------------------------------------------------------------------
\* A hotkey that is told TRUE is not lost: its request is in the mailbox or has
\* just been consumed, and no step but the capture's own takes it out again,
\* whatever an older hotkey preempted in the middle of request() still does.
HotkeyKept ==
  [][/\ \A k \in Keys \ stale :
          keys[k].pc = "answer" /\ keys'[k] # keys[k] /\ box.active = keys[k].read
            => box.pending = keys[k].read \/ present = "disarm"
     /\ state = "Armed" /\ bound # 0 /\ box.pending = bound /\ box'.pending # bound
          => state' = "Fault" \/ present = "consume"]_recorder_vars

\* A complete history is whole: every retained image was read back and saved, and
\* they are consecutive captures that end with all those after the trigger.
CompleteIsWhole ==
  state = "Complete" =>
    /\ \A j \in Jobs : j.done /\ j.ok
    /\ Len(order) >= Post
    /\ \A i \in DOMAIN order : frames[order[i]].ord = ring.serial - Len(order) + i

\* A triggered recording settles: the images after the trigger are taken, every
\* retained one is exported or the history fails, unless the swapchain goes or
\* the screenshot service does; then jobs nobody takes keep the export waiting.
RecordingSettles ==
  state \in {"Triggered", "Frozen", "Exporting"}
    ~> state \in {"Complete", "Fault", "Idle"} \/ owner # "live" \/ ~shots

\* Release returns: the worker it joins sees the stop wherever it is, also inside
\* a command that needs the locks Release has given back.
ReleaseReturns == owner = "joining" ~> owner = "gone"
=============================================================================
