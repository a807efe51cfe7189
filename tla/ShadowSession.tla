---------------------------- MODULE ShadowSession ----------------------------
(***************************************************************************)
(* Epoch transitions of the shadow session.  A map unload, on any thread,  *)
(* or a device reset closes the producers; Present, on the render thread,  *)
(* retires the session behind the arena fence, tells the receiver on the   *)
(* command stream the new epochs and opens the producers again.            *)
(* The command stream and the GPU are one queue: the render thread sees    *)
(* nothing of them but the fence.                                          *)
(***************************************************************************)
EXTENDS Naturals, Sequences, FiniteSets

CONSTANTS
  MaxSerial, MaxRequests, MaxResets, MaxOverflows, MaxStream   \* bounds

ASSUME SessionAssumption ==
  {MaxSerial, MaxRequests, MaxResets, MaxOverflows, MaxStream} \subseteq Nat

VARIABLES
  ready,         \* m_war3ShadowSessionReady
  requested, applied,        \* map reset serials
  devRequested, devApplied,  \* device epochs of the shadow session
  rebindPending, \* m_war3ShadowDeviceRebindPending
  mapEpoch, deviceEpoch,     \* m_war3GpuSkin{Map,Device}Epoch
  pendingEpoch,  \* epoch the GPU-skin manager is to be bound to, 0 if Ready
  active,        \* this is the published device
  session,       \* the caches and allocators in use, named by a number
  retired,       \* m_war3RetiredShadowSessions
  scene,         \* m_war3Scene: casters captured and not yet handed over
  inserted,      \* HasInsertedBeforeUi
  serial,        \* m_war3ShadowPersistentFrameSerial
  stream,        \* commands emitted and not yet executed
  receiver,      \* epochs of the receiver pass
  completed,     \* value of the arena fence
  pc,            \* where the render thread is
  present        \* locals of PresentEx; arena is IsShadowArenaCaptureEnabled,
                 \* fixed for the process

gate == <<requested, applied, devRequested, devApplied, rebindPending>>
epochs == <<mapEpoch, deviceEpoch, pendingEpoch>>
caches == <<session, retired, scene>>
queue == <<stream, receiver, completed>>

vars == <<ready, gate, epochs, active, caches, inserted, serial, queue, pc, present>>

Tuple == [map |-> mapEpoch, dev |-> deviceEpoch]

\* copy: a capture's copies; run: the receiver draws a scene; invalidate: the
\* receiver takes new epochs; signal: the arena fence.
Command(op, casters, value) ==
  [op |-> op, tuple |-> Tuple, casters |-> casters, value |-> value]

NoPresent(arena) == [moved |-> FALSE, open |-> FALSE, owned |-> FALSE, arena |-> arena]

-----------------------------------------------------------------------------
Init ==
  /\ ready = TRUE /\ requested = 0 /\ applied = 0
  /\ devRequested = 1 /\ devApplied = 1 /\ rebindPending = FALSE
  /\ mapEpoch = 1 /\ deviceEpoch = 1 /\ pendingEpoch \in {0, 1}
  /\ active = TRUE
  /\ session = 0 /\ retired = {} /\ scene = {} /\ inserted = FALSE
  /\ serial = 0 /\ stream = << >> /\ receiver = Tuple /\ completed = 0
  /\ pc = "draw" /\ present \in {NoPresent(arena) : arena \in BOOLEAN}

FullyApplied ==
  requested = applied /\ devRequested = devApplied /\ ~rebindPending

\* The check every producer makes.
Admitted == ready /\ FullyApplied

\* s_activePublicationMutex is held by Present's transaction.
MutexFree == pc # "device"

Room(n) == Len(stream) + n <= MaxStream

-----------------------------------------------------------------------------
(* The other threads.                                                      *)

\* ResetWar3RuntimeState on the unload hook.
RequestMapReset ==
  /\ MutexFree /\ active /\ requested < MaxRequests
  /\ requested' = requested + 1 /\ ready' = FALSE
  /\ UNCHANGED <<applied, devRequested, devApplied, rebindPending, epochs, active,
                 caches, inserted, serial, queue, pc, present>>

\* Another device publishes itself.
LoseActive ==
  /\ MutexFree /\ active /\ active' = FALSE
  /\ UNCHANGED <<ready, gate, epochs, caches, inserted, serial, queue, pc, present>>

\* The next command is recorded, and executed by the GPU.
StreamStep ==
  /\ stream # << >> /\ stream' = Tail(stream)
  /\ LET c == Head(stream)
     IN /\ receiver' = IF c.op = "invalidate" THEN c.tuple ELSE receiver
        /\ completed' = IF c.op = "signal" THEN c.value ELSE completed
  /\ UNCHANGED <<ready, gate, epochs, active, caches, inserted, serial, pc, present>>

-----------------------------------------------------------------------------
(* The frame.                                                              *)

\* A producer stores a caster of the current epochs in the scene and the
\* caches, and records its copies.
Capture ==
  /\ pc = "draw" /\ Admitted /\ Room(1)
  /\ LET c == [tuple |-> Tuple, session |-> session]
     IN /\ scene' = scene \cup {c}
        /\ stream' = Append(stream, Command("copy", {c}, 0))
  /\ UNCHANGED <<ready, gate, epochs, active, session, retired, inserted, serial,
                 receiver, completed, pc, present>>

\* The gate is closed: the producer counts the rejection and returns.
CaptureRejected == pc = "draw" /\ ~Admitted /\ UNCHANGED vars

\* Mutant: the casters captured so far survive.
ResetSessionKeepsScene(s) ==
  /\ retired' = retired \cup {[session |-> session, serial |-> s]}
  /\ session' = session + 1 /\ scene' = scene

\* War3ResetShadowSessionState: the containers move behind the fence as one.
ResetSession(s) ==
  /\ retired' = retired \cup {[session |-> session, serial |-> s]}
  /\ session' = session + 1 /\ scene' = {}

\* War3DrainShadowCasterTombstones when removals were lost.
TombstoneOverflow ==
  /\ pc = "draw" /\ Admitted /\ session < MaxOverflows
  /\ ResetSession(serial + 1)
  /\ UNCHANGED <<ready, gate, epochs, active, inserted, serial, queue, pc, present>>

\* War3MaybeInsertBeforeUi, up to its last check of the gate.
InsertCheck ==
  /\ pc = "draw" /\ ~inserted /\ Admitted
  /\ pc' = "publish"
  /\ UNCHANGED <<ready, gate, epochs, active, caches, inserted, serial, queue, present>>

\* The scene moves into a receiver run.
InsertPublish ==
  /\ pc = "publish" /\ Room(1)
  /\ stream' = Append(stream, Command("run", scene, 0))
  /\ scene' = {} /\ inserted' = TRUE /\ pc' = "draw"
  /\ UNCHANGED <<ready, gate, epochs, active, session, retired, serial,
                 receiver, completed, present>>

-----------------------------------------------------------------------------
(* GPU-skin device binding.                                                *)

\* War3RetryGpuSkinDeviceRebind for epoch e: SetDevice fails, or the epoch is
\* published and a shadow transition requested (unless it is the applied one).
Rebind(e) ==
  \/ /\ pendingEpoch' = e
     /\ UNCHANGED <<deviceEpoch, devRequested>>
  \/ /\ deviceEpoch' = e /\ pendingEpoch' = 0
     /\ devRequested' = IF e # deviceEpoch /\ e # devApplied THEN e ELSE devRequested

\* War3RequestShadowDeviceEpochTransition also closes the gate.
RebindCloses == devRequested' # devRequested

\* War3ResetGpuSkinDeviceEpoch at the end of Reset or ResetEx.
DeviceReset ==
  /\ pc = "draw"
  /\ LET e == (IF pendingEpoch # 0 THEN pendingEpoch ELSE deviceEpoch) + 1
     IN e <= MaxResets + 1 /\ Rebind(e)
  /\ rebindPending' = TRUE /\ ready' = FALSE
  /\ UNCHANGED <<requested, applied, devApplied, mapEpoch, active, caches, inserted,
                 serial, queue, pc, present>>

\* War3GpuSkinDeviceReady
DeviceReady == pendingEpoch = 0

-----------------------------------------------------------------------------
(* PresentEx.                                                              *)

TransitionPending ==
  requested # applied \/ rebindPending \/ devRequested # devApplied

\* Mutant: the receiver is told the epochs in force before the transition.
TransitionCommandsStale(map, dev) ==
  Append(Append(stream, Command("signal", {}, serial + 1)), Command("invalidate", {}, 0))

\* War3QuarantineShadowSessionAtPresent's signal, then
\* War3InvalidateShadowReceiverEpochOnCs.
TransitionCommands(map, dev) ==
  Append(Append(stream, Command("signal", {}, serial + 1)),
         [op |-> "invalidate", tuple |-> [map |-> map, dev |-> dev],
          casters |-> {}, value |-> 0])

\* Mutant: the map reset leaves the rebind to the device transition.
RebindLeftPending == rebindPending

\* m_war3ShadowDeviceRebindPending after a map reset.
RebindAfterMapReset == rebindPending /\ ~(devRequested = deviceEpoch /\ DeviceReady)

\* War3ApplyShadowMapEpochResetAtPresent.
PresentMapReset ==
  /\ pc = "draw" /\ serial < MaxSerial /\ Room(2)
  /\ TransitionPending /\ active /\ requested # applied
  /\ ready' = FALSE
  /\ ResetSession(serial + 1)
  /\ mapEpoch' = mapEpoch + 1
  /\ stream' = TransitionCommands(mapEpoch + 1, deviceEpoch)
  /\ devApplied' = deviceEpoch
  /\ rebindPending' = RebindAfterMapReset
  /\ applied' = requested
  /\ pc' = "device" /\ present' = [present EXCEPT !.moved = TRUE]
  /\ UNCHANGED <<requested, devRequested, deviceEpoch, pendingEpoch, active, inserted,
                 serial, receiver, completed>>

\* No map reset requested; the transaction goes on to the device.
PresentNoMapReset ==
  /\ pc = "draw" /\ serial < MaxSerial
  /\ TransitionPending /\ active /\ requested = applied
  /\ pc' = "device"
  /\ UNCHANGED <<ready, gate, epochs, active, caches, inserted, serial, queue, present>>

\* Nothing pending, or no longer the published device.
PresentNoTransition ==
  /\ pc = "draw" /\ serial < MaxSerial
  /\ ~(TransitionPending /\ active)
  /\ ready' = (ready /\ ~TransitionPending)
  /\ pc' = "maintain"
  /\ UNCHANGED <<gate, epochs, active, caches, inserted, serial, queue, present>>

\* War3ApplyShadowDeviceEpochTransitionAtPresent may go ahead.
DeviceCommitted ==
  /\ devRequested # devApplied
  /\ devRequested = deviceEpoch /\ DeviceReady

PresentDevice ==
  /\ pc = "device" /\ DeviceCommitted /\ Room(2)
  /\ ready' = FALSE
  /\ ResetSession(serial + 1)
  /\ stream' = TransitionCommands(mapEpoch, devRequested)
  /\ devApplied' = devRequested /\ rebindPending' = FALSE
  /\ pc' = "maintain" /\ present' = [present EXCEPT !.moved = TRUE]
  /\ UNCHANGED <<requested, applied, devRequested, epochs, active, inserted, serial,
                 receiver, completed>>

PresentNoDevice ==
  /\ pc = "device" /\ ~DeviceCommitted
  /\ ready' = (ready /\ ~rebindPending /\ devRequested = devApplied)
  /\ pc' = "maintain"
  /\ UNCHANGED <<gate, epochs, active, caches, inserted, serial, queue, present>>

\* GpuSkinMaintenance: one more attempt.
PresentMaintain ==
  /\ pc = "maintain" /\ pc' = "arena"
  /\ \/ pendingEpoch = 0 /\ UNCHANGED <<deviceEpoch, pendingEpoch, devRequested, ready>>
     \/ /\ pendingEpoch # 0 /\ Rebind(pendingEpoch)
        /\ ready' = (ready /\ ~RebindCloses)
  /\ UNCHANGED <<requested, applied, devApplied, rebindPending, mapEpoch, active,
                 caches, inserted, serial, queue, present>>

\* Mutant: a session is collected one frame too early.
CollectEarly == {r \in retired : ~(r.serial <= completed + 1)}

\* War3CollectRetiredShadowSessions
Collect == {r \in retired : ~(r.serial <= completed)}

\* Mutant: frames without a transition do not signal.
SignalsHereNot(owned) == FALSE

\* The signal that ends an ordinary frame.
SignalsHere(owned) == owned /\ ~present.moved

\* ShadowArenaBeginFrame with arena capture: seal and signal the frame, collect
\* what has completed, take a generation (or not) and decide on the gate.
PresentArena ==
  /\ pc = "arena" /\ present.arena /\ Room(1)
  /\ \E owned, arenaReady \in BOOLEAN :
       /\ present.owned => owned
       /\ arenaReady => owned
       /\ stream' = IF SignalsHere(owned)
                    THEN Append(stream, Command("signal", {}, serial + 1)) ELSE stream
       /\ present' = [present EXCEPT !.owned = owned, !.open = arenaReady /\ FullyApplied]
  /\ retired' = Collect
  /\ pc' = "open"
  /\ UNCHANGED <<ready, gate, epochs, active, session, scene, inserted, serial,
                 receiver, completed>>

\* The same with the legacy capture path.
PresentLegacy ==
  /\ pc = "arena" /\ ~present.arena
  /\ retired' = Collect
  /\ present' = [present EXCEPT !.open = FullyApplied]
  /\ pc' = "open"
  /\ UNCHANGED <<ready, gate, epochs, active, session, scene, inserted, serial, queue>>

\* The gate is stored, the scene of a frame without insertion is dropped, and
\* the next frame begins.
PresentOpen ==
  /\ pc = "open"
  /\ ready' = present.open
  /\ scene' = IF inserted THEN scene ELSE {}
  /\ inserted' = FALSE /\ serial' = serial + 1
  /\ pc' = "draw" /\ present' = [present EXCEPT !.moved = FALSE, !.open = FALSE]
  /\ UNCHANGED <<gate, epochs, active, session, retired, queue>>

-----------------------------------------------------------------------------
Next ==
  \/ RequestMapReset \/ LoseActive \/ StreamStep
  \/ Capture \/ CaptureRejected \/ TombstoneOverflow \/ InsertCheck \/ InsertPublish \/ DeviceReset
  \/ PresentMapReset \/ PresentNoMapReset \/ PresentNoTransition
  \/ PresentDevice \/ PresentNoDevice \/ PresentMaintain
  \/ PresentArena \/ PresentLegacy \/ PresentOpen

Spec == Init /\ [][Next]_vars /\ WF_vars(StreamStep)

-----------------------------------------------------------------------------
\* The receiver's epochs when the command stream comes to position i are t.
Governs(i, t) ==
  \/ /\ receiver = t
     /\ \A k \in 1..(i - 1) : stream[k].op # "invalidate"
  \/ \E j \in 1..(i - 1) :
       /\ stream[j].op = "invalidate" /\ stream[j].tuple = t
       /\ \A k \in (j + 1)..(i - 1) : stream[k].op # "invalidate"

\* A receiver run always finds the receiver at its own epochs, however
\* unloads, resets and failed rebinds fall: the stale-epoch exit of Run is
\* never taken for a run of this device.
ReceiverAgrees ==
  \A i \in 1..Len(stream) :
    stream[i].op = "run" => Governs(i, stream[i].tuple)

\* No scene handed to the receiver mixes casters of two epochs.
SceneUnmixed ==
  \A i \in 1..Len(stream) :
    stream[i].op = "run" => \A c \in stream[i].casters : c.tuple = stream[i].tuple

\* The buffers a queued or executing command reads are owned by the session
\* in use or by a retired one that is still kept.
SessionOutlivesUse ==
  \A i \in 1..Len(stream) : \A c \in stream[i].casters :
    c.session = session \/ \E r \in retired : r.session = c.session

AllSignalled ==
  \A r \in retired : (completed < r.serial /\ r.serial <= serial) =>
    \E i \in 1..Len(stream) : stream[i].op = "signal" /\ stream[i].value >= r.serial

\* With arena capture, a retired session waits for a serial that has been
\* signalled: the fence releases it, whichever way the session was retired.
RetiredSignalled ==
  (pc = "draw" /\ present.arena /\ present.owned) => AllSignalled

\* The same in either capture mode, as War3ResetShadowSessionState says.
RetiredSignalledInAnyMode ==
  (pc = "draw" /\ (present.arena => present.owned)) => AllSignalled

\* A rebind that has succeeded always has a transition under way that clears
\* it, so the producers never stay closed for good.
RebindResolves ==
  (pc = "draw" /\ rebindPending /\ pendingEpoch = 0) => DeviceCommitted

=============================================================================
