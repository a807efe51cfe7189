-------------------------- MODULE ShadowSessionProofs --------------------------
(***************************************************************************)
(* Proofs about the shadow session: epochs, scenes and retired sessions,   *)
(* for any number of frames, unloads, resets and commands in the stream.   *)
(***************************************************************************)
EXTENDS ShadowSession, SequenceTheorems, TLAPS

Tuples == [map : Nat, dev : Nat]

Casters == [tuple : Tuples, session : Nat]

Commands ==
  [op : {"copy", "run", "invalidate", "signal"}, tuple : Tuples,
   casters : SUBSET Casters, value : Nat]

Typed ==
  /\ requested \in Nat /\ applied \in Nat /\ devRequested \in Nat /\ devApplied \in Nat
  /\ mapEpoch \in Nat /\ deviceEpoch \in Nat /\ pendingEpoch \in Nat
  /\ session \in Nat /\ serial \in Nat /\ completed \in Nat
  /\ rebindPending \in BOOLEAN
  /\ stream \in Seq(Commands) /\ receiver \in Tuples
  /\ scene \subseteq Casters /\ retired \subseteq [session : Nat, serial : Nat]
  /\ pc \in {"draw", "publish", "device", "maintain", "arena", "open"}
  /\ present \in [moved : BOOLEAN, open : BOOLEAN, owned : BOOLEAN, arena : BOOLEAN]

\* A transition is requested for every epoch the manager was bound to, and one is
\* under way, or still to be requested, as long as a rebind is pending.
Bindings ==
  /\ devRequested = deviceEpoch /\ devApplied <= deviceEpoch
  /\ pendingEpoch # 0 => pendingEpoch >= deviceEpoch
  /\ rebindPending => IF pendingEpoch = 0 THEN devApplied < deviceEpoch
                                          ELSE pendingEpoch > deviceEpoch
  /\ pc = "publish" => devApplied = deviceEpoch

\* The epochs of the last transition: what the receiver has once it has executed
\* everything emitted so far.
Ruling == [map |-> mapEpoch, dev |-> devApplied]

Flow == ReceiverAgrees /\ Governs(Len(stream) + 1, Ruling)

Casting ==
  SceneUnmixed /\ \A c \in scene : c.tuple = Ruling /\ c.session = session

\* The fence has not reached n when the stream comes to position i.
Before(i, n) ==
  completed < n /\ \A j \in 1 .. i - 1 : stream[j].op = "signal" => stream[j].value < n

\* Buffers are kept until the fence has passed the commands that read them.
Kept ==
  \A i \in 1 .. Len(stream) : \A c \in stream[i].casters :
    \/ c.session = session /\ Before(i, serial + 1)
    \/ \E r \in retired : r.session = c.session /\ Before(i, r.serial)

\* The fence only grows, and not past the frame under way.
Ordered ==
  /\ completed <= serial + 1
  /\ \A i \in 1 .. Len(stream) : stream[i].op = "signal" =>
       /\ completed <= stream[i].value /\ stream[i].value <= serial + 1
       /\ \A j \in 1 .. i - 1 : stream[j].op = "signal" => stream[j].value <= stream[i].value
  /\ pc \in {"draw", "publish"} => Before(Len(stream) + 1, serial + 1)

\* The fence has reached n, or will by the commands in the stream.
Signalled(n) ==
  completed >= n \/ \E i \in 1 .. Len(stream) : stream[i].op = "signal" /\ stream[i].value >= n

Signals ==
  /\ present.moved => Signalled(serial + 1)
  /\ present.arena /\ present.owned =>
       Signalled(serial) /\ (pc = "open" => Signalled(serial + 1))

Inv == Typed /\ Bindings /\ Flow /\ Casting /\ Kept /\ Ordered /\ Signals

-----------------------------------------------------------------------------
(* What steps do to the stream.                                            *)

\* Commands are emitted and none is executed.
Grows ==
  /\ Len(stream') >= Len(stream) /\ receiver' = receiver /\ completed' = completed
  /\ \A i \in 1 .. Len(stream) : stream'[i] = stream[i]

Emits(c) ==
  /\ stream' = Append(stream, c) /\ receiver' = receiver /\ completed' = completed

\* The commands of a transition, which starts a session.
Turns ==
  /\ stream' = Append(Append(stream, Command("signal", {}, serial + 1)),
                      [op |-> "invalidate", tuple |-> Ruling', casters |-> {}, value |-> 0])
  /\ receiver' = receiver /\ completed' = completed
  /\ ResetSession(serial + 1) /\ serial' = serial /\ present'.moved

Rests == stream' = stream /\ receiver' = receiver /\ completed' = completed

LEMMA RestsGrow == ASSUME Typed, Rests PROVE Grows /\ Len(stream') = Len(stream)
<1>1. Len(stream) \in Nat
  BY LenProperties DEF Typed
<1>. QED
  BY <1>1 DEF Rests, Grows

LEMMA EmitsGrow ==
  ASSUME Typed, NEW c \in Commands, Emits(c)
  PROVE  /\ Grows /\ Len(stream') = Len(stream) + 1 /\ stream'[Len(stream) + 1] = c
         /\ stream' \in Seq(Commands)
<1>1. Len(stream) \in Nat /\ stream \in Seq(Commands)
  BY LenProperties DEF Typed
<1>2. /\ Append(stream, c) \in Seq(Commands) /\ Len(Append(stream, c)) = Len(stream) + 1
      /\ \A i \in 1 .. Len(stream) : Append(stream, c)[i] = stream[i]
      /\ Append(stream, c)[Len(stream) + 1] = c
  BY <1>1, AppendProperties
<1>. QED
  BY <1>1, <1>2 DEF Emits, Grows

LEMMA TurnsGrow ==
  ASSUME Typed, Turns, Ruling' \in Tuples
  PROVE  /\ Grows /\ Len(stream') = Len(stream) + 2 /\ stream' \in Seq(Commands)
         /\ stream'[Len(stream) + 1] = Command("signal", {}, serial + 1)
         /\ stream'[Len(stream) + 2].op = "invalidate"
         /\ stream'[Len(stream) + 2].tuple = Ruling' /\ stream'[Len(stream) + 2].casters = {}
<1> DEFINE a == Command("signal", {}, serial + 1)
           b == [op |-> "invalidate", tuple |-> Ruling', casters |-> {}, value |-> 0]
           mid == Append(stream, a)
<1>1. Len(stream) \in Nat /\ stream \in Seq(Commands)
  BY LenProperties DEF Typed
<1>2. a \in Commands /\ b \in Commands
  BY DEF Command, Tuple, Tuples, Commands, Typed
<1>3. /\ mid \in Seq(Commands) /\ Len(mid) = Len(stream) + 1
      /\ \A i \in 1 .. Len(stream) : mid[i] = stream[i]
      /\ mid[Len(stream) + 1] = a
  BY <1>1, <1>2, AppendProperties
<1>4. /\ Append(mid, b) \in Seq(Commands) /\ Len(Append(mid, b)) = Len(mid) + 1
      /\ \A i \in 1 .. Len(mid) : Append(mid, b)[i] = mid[i]
      /\ Append(mid, b)[Len(mid) + 1] = b
  BY <1>2, <1>3, AppendProperties
<1>5. b.op = "invalidate" /\ b.tuple = Ruling' /\ b.casters = {}
  OBVIOUS
<1>6. stream' = Append(mid, b) /\ receiver' = receiver /\ completed' = completed
  BY DEF Turns
<1>. HIDE DEF a, b, mid
<1>7. /\ Grows /\ Len(stream') = Len(stream) + 2 /\ stream' \in Seq(Commands)
      /\ stream'[Len(stream) + 1] = a /\ stream'[Len(stream) + 2] = b
  BY <1>1, <1>3, <1>4, <1>6 DEF Grows
<1>. QED
  BY <1>5, <1>7 DEF a

\* The oldest command is executed.
LEMMA StreamTail ==
  ASSUME Typed, StreamStep
  PROVE  /\ Len(stream) \in Nat \ {0} /\ stream[1] \in Commands /\ stream' \in Seq(Commands)
         /\ Len(stream') = Len(stream) - 1
         /\ \A i \in 1 .. Len(stream) - 1 : stream'[i] = stream[i + 1]
         /\ receiver' = IF stream[1].op = "invalidate" THEN stream[1].tuple ELSE receiver
         /\ completed' = IF stream[1].op = "signal" THEN stream[1].value ELSE completed
<1>1. stream \in Seq(Commands) /\ stream # << >> /\ Len(stream) \in Nat
  BY LenProperties DEF Typed, StreamStep
<1>2. Len(stream) # 0
  BY <1>1, EmptySeq
<1>3. /\ Tail(stream) \in Seq(Commands) /\ Len(Tail(stream)) = Len(stream) - 1
      /\ \A i \in 1 .. Len(Tail(stream)) : Tail(stream)[i] = stream[i + 1]
  BY <1>1, HeadTailProperties
<1>4. Head(stream) = stream[1] /\ stream[1] \in Commands
  BY <1>1, <1>2, ElementOfSeq
<1>. QED
  BY <1>1, <1>2, <1>3, <1>4 DEF StreamStep

\* Actions that neither emit nor execute a command.
Silent ==
  \/ RequestMapReset \/ LoseActive \/ CaptureRejected \/ TombstoneOverflow \/ InsertCheck
  \/ DeviceReset \/ PresentNoMapReset \/ PresentNoTransition \/ PresentNoDevice
  \/ PresentMaintain \/ PresentLegacy \/ PresentOpen

Caster == [tuple |-> Tuple, session |-> session]

LEMMA SilentStep == Silent => Rests
BY DEF Silent, RequestMapReset, LoseActive, CaptureRejected, TombstoneOverflow, InsertCheck,
   DeviceReset, PresentNoMapReset, PresentNoTransition, PresentNoDevice, PresentMaintain,
   PresentLegacy, PresentOpen, Rests, queue, vars

LEMMA CaptureEmits == Capture => Emits(Command("copy", {Caster}, 0))
BY DEF Capture, Emits, Caster

LEMMA InsertEmits == InsertPublish => Emits(Command("run", scene, 0))
BY DEF InsertPublish, Emits

LEMMA ArenaEmits ==
  PresentArena => \/ Rests /\ (present'.owned => present.moved)
                  \/ Emits(Command("signal", {}, serial + 1))
BY DEF PresentArena, SignalsHere, Emits, Rests

LEMMA TransitionTurns ==
  ASSUME Typed, Bindings, PresentMapReset \/ PresentDevice
  PROVE  Turns
<1>1. present'.moved
  BY DEF Typed, PresentMapReset, PresentDevice
<1>2. CASE PresentMapReset
  BY <1>1, <1>2 DEF PresentMapReset, TransitionCommands, Turns, Ruling
<1>3. CASE PresentDevice
  BY <1>1, <1>3 DEF PresentDevice, TransitionCommands, Turns, Ruling, epochs
<1>. QED
  BY <1>2, <1>3

LEMMA Emitted ==
  ASSUME Typed
  PROVE  /\ Command("copy", {Caster}, 0) \in Commands
         /\ Command("run", scene, 0) \in Commands
         /\ Command("signal", {}, serial + 1) \in Commands
<1>1. Tuple \in Tuples /\ Caster \in Casters
  BY DEF Typed, Tuple, Tuples, Caster, Casters
<1>. QED
  BY <1>1 DEF Command, Commands, Typed

-----------------------------------------------------------------------------
(* Types and epochs.                                                       *)

LEMMA TypedStep ==
  ASSUME Typed, Bindings, [Next]_vars
  PROVE  Typed'
<1>1. Caster \in Casters
  BY DEF Typed, Tuple, Tuples, Caster, Casters
<1>2. ASSUME NEW n \in Nat
      PROVE  retired \cup {[session |-> session, serial |-> n]} \subseteq [session : Nat, serial : Nat]
  BY DEF Typed
<1>3. CASE Silent
  <2>1. stream' = stream /\ receiver' = receiver /\ completed' = completed
    BY <1>3, SilentStep DEF Rests
  <2>2. present' \in [moved : BOOLEAN, open : BOOLEAN, owned : BOOLEAN, arena : BOOLEAN]
    <3>1. FullyApplied \in BOOLEAN
      BY DEF FullyApplied
    <3>2. CASE PresentLegacy
      BY <3>1, <3>2 DEF PresentLegacy, Typed
    <3>3. CASE PresentOpen
      BY <3>3 DEF PresentOpen, Typed
    <3>4. CASE present' = present
      BY <3>4 DEF Typed
    <3>. QED
      BY <1>3, <3>2, <3>3, <3>4 DEF Silent, RequestMapReset, LoseActive, CaptureRejected,
         TombstoneOverflow, InsertCheck, DeviceReset, PresentNoMapReset, PresentNoTransition,
         PresentNoDevice, PresentMaintain, vars
  <2>3. retired' \subseteq [session : Nat, serial : Nat] /\ session' \in Nat /\ scene' \subseteq Casters
    BY <1>2, <1>3 DEF Silent, RequestMapReset, LoseActive, CaptureRejected, TombstoneOverflow,
       InsertCheck, DeviceReset, PresentNoMapReset, PresentNoTransition, PresentNoDevice,
       PresentMaintain, PresentLegacy, Collect, PresentOpen, ResetSession, Typed, vars, caches
  <2>4. /\ devRequested' \in Nat /\ deviceEpoch' \in Nat /\ pendingEpoch' \in Nat
        /\ requested' \in Nat /\ serial' \in Nat
    BY <1>3 DEF Silent, RequestMapReset, LoseActive, CaptureRejected, TombstoneOverflow,
       InsertCheck, DeviceReset, Rebind, PresentNoMapReset, PresentNoTransition, PresentNoDevice,
       PresentMaintain, PresentLegacy, PresentOpen, Typed, vars, gate, epochs
  <2>5. /\ devApplied' = devApplied /\ applied' = applied /\ mapEpoch' = mapEpoch
        /\ rebindPending' \in BOOLEAN
        /\ pc' \in {"draw", "publish", "device", "maintain", "arena", "open"}
    BY <1>3 DEF Silent, RequestMapReset, LoseActive, CaptureRejected, TombstoneOverflow,
       InsertCheck, DeviceReset, PresentNoMapReset, PresentNoTransition, PresentNoDevice,
       PresentMaintain, PresentLegacy, PresentOpen, Typed, vars, gate, epochs
  <2>. QED
    BY <2>1, <2>2, <2>3, <2>4, <2>5 DEF Typed
<1>4. CASE Capture
  <2>1. stream' \in Seq(Commands)
    BY <1>4, Emitted, CaptureEmits, EmitsGrow
  <2>. QED
    BY <1>1, <1>4, <2>1 DEF Capture, Caster, Typed, gate, epochs
<1>5. CASE InsertPublish
  <2>1. stream' \in Seq(Commands)
    BY <1>5, Emitted, InsertEmits, EmitsGrow
  <2>. QED
    BY <1>5, <2>1 DEF InsertPublish, Typed, gate, epochs
<1>6. CASE PresentArena
  <2>2. stream' \in Seq(Commands)
    BY <1>6, Emitted, ArenaEmits, EmitsGrow DEF Rests, Typed
  <2>3. present' \in [moved : BOOLEAN, open : BOOLEAN, owned : BOOLEAN, arena : BOOLEAN]
    BY <1>6 DEF PresentArena, Typed, FullyApplied
  <2>. QED
    BY <1>6, <2>2, <2>3 DEF PresentArena, Collect, Typed, gate, epochs
<1>7. CASE PresentMapReset
  <2>1. Ruling' \in Tuples
    BY <1>7 DEF PresentMapReset, Ruling, Tuples, Typed
  <2>2. stream' \in Seq(Commands)
    BY <1>7, <2>1, TransitionTurns, TurnsGrow
  <2>3. present' \in [moved : BOOLEAN, open : BOOLEAN, owned : BOOLEAN, arena : BOOLEAN]
    BY <1>7 DEF PresentMapReset, Typed
  <2>4. retired' \subseteq [session : Nat, serial : Nat] /\ session' \in Nat /\ scene' \subseteq Casters
    BY <1>2, <1>7 DEF PresentMapReset, ResetSession, Typed
  <2>5. rebindPending' \in BOOLEAN
    BY <1>7 DEF PresentMapReset, RebindAfterMapReset
  <2>. QED
    BY <1>7, <2>2, <2>3, <2>4, <2>5 DEF PresentMapReset, Typed
<1>8. CASE PresentDevice
  <2>1. Ruling' \in Tuples
    BY <1>8 DEF PresentDevice, Ruling, Tuples, Typed, epochs
  <2>2. stream' \in Seq(Commands)
    BY <1>8, <2>1, TransitionTurns, TurnsGrow
  <2>3. present' \in [moved : BOOLEAN, open : BOOLEAN, owned : BOOLEAN, arena : BOOLEAN]
    BY <1>8 DEF PresentDevice, Typed
  <2>4. retired' \subseteq [session : Nat, serial : Nat] /\ session' \in Nat /\ scene' \subseteq Casters
    BY <1>2, <1>8 DEF PresentDevice, ResetSession, Typed
  <2>. QED
    BY <1>8, <2>2, <2>3, <2>4 DEF PresentDevice, Typed, epochs
<1>9. CASE StreamStep
  <2>1. stream' \in Seq(Commands) /\ receiver' \in Tuples /\ completed' \in Nat
    BY <1>9, StreamTail DEF Commands, Typed
  <2>. QED
    BY <1>9, <2>1 DEF StreamStep, Typed, gate, epochs, caches
<1>10. CASE UNCHANGED vars
  BY <1>10 DEF vars, gate, epochs, caches, queue, Typed
<1>. QED
  BY <1>3, <1>4, <1>5, <1>6, <1>7, <1>8, <1>9, <1>10 DEF Next, Silent

LEMMA BindingsStep ==
  ASSUME Typed, Bindings, [Next]_vars
  PROVE  Bindings'
<1>. USE DEF Typed, Bindings
<1>1. CASE DeviceReset
  BY <1>1 DEF DeviceReset, Rebind
<1>2. CASE PresentMaintain
  BY <1>2 DEF PresentMaintain, Rebind
<1>3. CASE PresentMapReset
  <2>1. rebindPending' => pendingEpoch # 0 /\ rebindPending
    <3>1. rebindPending' = RebindAfterMapReset
      BY <1>3 DEF PresentMapReset
    <3>2. RebindAfterMapReset => pendingEpoch # 0 /\ rebindPending
      BY DEF RebindAfterMapReset, DeviceReady
    <3>. QED
      BY ONLY <3>1, <3>2
  <2>. QED
    BY <1>3, <2>1 DEF PresentMapReset
<1>4. CASE PresentDevice
  BY <1>4 DEF PresentDevice, DeviceCommitted, epochs
<1>5. CASE InsertCheck
  BY <1>5 DEF InsertCheck, Admitted, FullyApplied, gate, epochs
<1>6. CASE \/ RequestMapReset \/ LoseActive \/ CaptureRejected \/ TombstoneOverflow
           \/ PresentNoMapReset \/ PresentNoTransition \/ PresentNoDevice \/ PresentLegacy
           \/ PresentOpen \/ Capture \/ InsertPublish \/ PresentArena \/ StreamStep
           \/ UNCHANGED vars
  <2>1. /\ UNCHANGED <<devRequested, devApplied, deviceEpoch, pendingEpoch, rebindPending>>
        /\ pc' = "publish" => pc = "publish"
    BY <1>6 DEF RequestMapReset, LoseActive, CaptureRejected, TombstoneOverflow,
     PresentNoMapReset, PresentNoTransition, PresentNoDevice, PresentLegacy, PresentOpen,
     Capture, InsertPublish, PresentArena, StreamStep, vars, gate, epochs
  <2>. QED
    BY <2>1
<1>. QED
  BY <1>1, <1>2, <1>3, <1>4, <1>5, <1>6 DEF Next

-----------------------------------------------------------------------------
(* Who governs the receiver.                                               *)

LEMMA GovernsGrows ==
  ASSUME Typed, Grows, NEW t, NEW i \in 1 .. Len(stream) + 1, Governs(i, t)
  PROVE  Governs(i, t)'
<1>1. Len(stream) \in Nat
  BY LenProperties DEF Typed
<1>2. \A k \in 1 .. i - 1 : stream'[k] = stream[k]
  BY <1>1 DEF Grows
<1>3. CASE receiver = t /\ \A k \in 1 .. i - 1 : stream[k].op # "invalidate"
  BY <1>2, <1>3 DEF Governs, Grows
<1>4. ASSUME NEW j \in 1 .. i - 1, stream[j].op = "invalidate", stream[j].tuple = t,
             \A k \in j + 1 .. i - 1 : stream[k].op # "invalidate"
      PROVE  Governs(i, t)'
  BY <1>1, <1>2, <1>4 DEF Governs
<1>. QED
  BY <1>3, <1>4 DEF Governs

\* A command that is no invalidation leaves the last one in force.
LEMMA GovernsOn ==
  ASSUME Typed, Grows, NEW t, NEW n, n = Len(stream), Governs(n + 1, t),
         stream'[n + 1].op # "invalidate"
  PROVE  Governs(n + 2, t)'
<1>1. n \in Nat
  BY LenProperties DEF Typed
<1>2. \A k \in 1 .. n : stream'[k] = stream[k]
  BY DEF Grows
<1>3. CASE receiver = t /\ \A k \in 1 .. n : stream[k].op # "invalidate"
  <2>1. \A k \in 1 .. n + 1 : stream'[k].op # "invalidate"
    BY <1>1, <1>2, <1>3
  <2>. QED
    BY <1>1, <1>3, <2>1 DEF Governs, Grows
<1>4. ASSUME NEW j \in 1 .. n, stream[j].op = "invalidate", stream[j].tuple = t,
             \A k \in j + 1 .. n : stream[k].op # "invalidate"
      PROVE  Governs(n + 2, t)'
  <2>1. \A k \in j + 1 .. n + 1 : stream'[k].op # "invalidate"
    BY <1>1, <1>2, <1>4
  <2>2. j \in 1 .. n + 1 /\ stream'[j] = stream[j] /\ (n + 2) - 1 = n + 1
    BY <1>1, <1>2
  <2>. QED
    BY <1>4, <2>1, <2>2 DEF Governs
<1>. QED
  BY <1>1, <1>3, <1>4 DEF Governs

\* Execution brings every later position one closer.
LEMMA GovernsTail ==
  ASSUME Typed, StreamStep, NEW t, NEW i \in 1 .. Len(stream), Governs(i + 1, t)
  PROVE  Governs(i, t)'
<1>1. /\ Len(stream) \in Nat \ {0}
      /\ \A k \in 1 .. Len(stream) - 1 : stream'[k] = stream[k + 1]
      /\ receiver' = IF stream[1].op = "invalidate" THEN stream[1].tuple ELSE receiver
  BY StreamTail
<1>2. CASE receiver = t /\ \A k \in 1 .. i : stream[k].op # "invalidate"
  <2>1. receiver' = t
    BY <1>1, <1>2
  <2>2. ASSUME NEW k \in 1 .. i - 1 PROVE stream'[k].op # "invalidate"
    BY <1>1, <1>2
  <2>. QED
    BY <2>1, <2>2 DEF Governs
<1>3. ASSUME NEW j \in 1 .. i, stream[j].op = "invalidate", stream[j].tuple = t,
             \A k \in j + 1 .. i : stream[k].op # "invalidate"
      PROVE  Governs(i, t)'
  <2>1. CASE j = 1
    <3>1. receiver' = t
      BY <1>1, <1>3, <2>1
    <3>2. ASSUME NEW k \in 1 .. i - 1 PROVE stream'[k].op # "invalidate"
      BY <1>1, <1>3, <2>1
    <3>. QED
      BY <3>1, <3>2 DEF Governs
  <2>2. CASE j # 1
    <3>1. j - 1 \in 1 .. i - 1 /\ stream'[j - 1] = stream[j]
      BY <1>1, <2>2
    <3>2. ASSUME NEW k \in (j - 1) + 1 .. i - 1 PROVE stream'[k].op # "invalidate"
      <4>1. k \in 1 .. Len(stream) - 1 /\ k + 1 \in j + 1 .. i
        BY <1>1
      <4>. QED
        BY <1>1, <1>3, <4>1
    <3>. QED
      BY <1>3, <3>1, <3>2 DEF Governs
  <2>. QED
    BY <2>1, <2>2
<1>. QED
  BY <1>2, <1>3 DEF Governs

\* Runs emitted earlier keep their epochs.
LEMMA RunsGrow ==
  ASSUME Typed, Grows, ReceiverAgrees, NEW i \in 1 .. Len(stream), stream'[i].op = "run"
  PROVE  Governs(i, stream[i].tuple)'
<1>1. Len(stream) \in Nat /\ stream'[i] = stream[i]
  BY LenProperties DEF Typed, Grows
<1>2. PICK t : t = stream'[i].tuple
  OBVIOUS
<1>3. Governs(i, t)
  BY <1>1, <1>2 DEF ReceiverAgrees
<1>4. Governs(i, t)'
  BY <1>1, <1>3, GovernsGrows
<1>. QED
  BY <1>2, <1>4 DEF Governs

LEMMA FlowStep ==
  ASSUME Inv, Typed', [Next]_vars
  PROVE  Flow'
<1>1. Typed /\ Flow /\ Len(stream) \in Nat /\ Ruling \in Tuples
  BY LenProperties DEF Inv, Typed, Ruling, Tuples
<1>2. CASE Rests /\ Ruling' = Ruling
  BY <1>1, <1>2 DEF Rests, Flow, ReceiverAgrees, Governs
<1>3. ASSUME NEW c \in Commands, Emits(c), c.op # "invalidate", Ruling' = Ruling,
             c.op = "run" => c.tuple = Ruling
      PROVE  Flow'
  <2>1. PICK n \in Nat : n = Len(stream)
    BY <1>1
  <2>2. Grows /\ Len(stream') = n + 1 /\ stream'[n + 1] = c
    BY <1>1, <1>3, <2>1, EmitsGrow
  <2>3. PICK r : r = Ruling
    OBVIOUS
  <2>4. Governs(n + 1, r)' /\ Governs(n + 2, r)'
    <3>1. Governs(n + 1, r) /\ n + 1 \in 1 .. Len(stream) + 1
      BY <1>1, <2>1, <2>3 DEF Flow
    <3>2. Governs(n + 1, r)'
      BY <1>1, <2>2, <3>1, GovernsGrows
    <3>3. Governs(n + 2, r)'
      BY <1>1, <1>3, <2>1, <2>2, <3>1, GovernsOn
    <3>. QED
      BY <3>2, <3>3
  <2>5. ASSUME NEW i \in 1 .. n + 1, stream'[i].op = "run"
        PROVE  Governs(i, stream[i].tuple)'
    <3>1. CASE i \in 1 .. n
      BY <1>1, <2>1, <2>2, <2>5, <3>1, RunsGrow DEF Flow
    <3>2. CASE i = n + 1
      BY <1>3, <2>2, <2>3, <2>4, <2>5, <3>2 DEF Governs
    <3>. QED
      BY <2>1, <3>1, <3>2
  <2>6. ReceiverAgrees'
    BY <2>2, <2>5 DEF ReceiverAgrees
  <2>7. Governs(Len(stream) + 1, Ruling)'
    <3>1. Len(stream') + 1 = n + 2 /\ Ruling' = r
      BY <1>3, <2>1, <2>2, <2>3
    <3>. QED
      BY <2>4, <3>1 DEF Governs
  <2>. QED
    BY <2>6, <2>7 DEF Flow
<1>4. CASE Turns
  <2>1. PICK n \in Nat : n = Len(stream)
    BY <1>1
  <2>2. Ruling' \in Tuples
    BY DEF Ruling, Tuples, Typed
  <2>3. /\ Grows /\ Len(stream') = n + 2
        /\ stream'[n + 1].op = "signal"
        /\ stream'[n + 2].op = "invalidate" /\ stream'[n + 2].tuple = Ruling'
    BY <1>1, <1>4, <2>1, <2>2, TurnsGrow DEF Command
  <2>4. ASSUME NEW i \in 1 .. n + 2, stream'[i].op = "run"
        PROVE  Governs(i, stream[i].tuple)'
    <3>1. i \in 1 .. n
      BY <2>1, <2>3, <2>4
    <3>. QED
      BY <1>1, <2>1, <2>3, <2>4, <3>1, RunsGrow DEF Flow
  <2>5. ReceiverAgrees'
    BY <2>3, <2>4 DEF ReceiverAgrees
  <2>6. Governs(Len(stream) + 1, Ruling)'
    <3>1. n + 2 \in 1 .. (Len(stream') + 1) - 1 /\ (n + 2) + 1 .. (Len(stream') + 1) - 1 = {}
      BY <2>1, <2>3
    <3>. QED
      BY <2>3, <3>1 DEF Governs
  <2>. QED
    BY <2>5, <2>6 DEF Flow
<1>5. CASE StreamStep
  <2>1. /\ Len(stream) \in Nat \ {0} /\ Len(stream') = Len(stream) - 1
        /\ \A i \in 1 .. Len(stream) - 1 : stream'[i] = stream[i + 1]
    BY <1>1, <1>5, StreamTail
  <2>2. ASSUME NEW i \in 1 .. Len(stream) - 1, stream'[i].op = "run"
        PROVE  Governs(i, stream[i].tuple)'
    <3>1. PICK t : t = stream'[i].tuple
      OBVIOUS
    <3>2. i + 1 \in 1 .. Len(stream) /\ i \in 1 .. Len(stream) /\ stream[i + 1] = stream'[i]
      BY <2>1
    <3>3. Governs(i + 1, t)
      BY <1>1, <2>2, <3>1, <3>2 DEF Flow, ReceiverAgrees
    <3>4. Governs(i, t)'
      BY <1>1, <1>5, <3>2, <3>3, GovernsTail
    <3>. QED
      BY <3>1, <3>4 DEF Governs
  <2>3. ReceiverAgrees'
    BY <2>1, <2>2 DEF ReceiverAgrees
  <2>4. PICK n \in 1 .. Len(stream) : n = Len(stream)
    BY <2>1
  <2>5. PICK r : r = Ruling /\ r = Ruling'
    BY <1>5 DEF StreamStep, gate, epochs, Ruling
  <2>6. Governs(n, r)'
    BY <1>1, <1>5, <2>4, <2>5, GovernsTail DEF Flow
  <2>7. Governs(Len(stream) + 1, Ruling)'
    BY <2>1, <2>4, <2>5, <2>6 DEF Governs
  <2>. QED
    BY <2>3, <2>7 DEF Flow
<1>6. CASE Silent
  <2>1. Ruling' = Ruling
    BY <1>6 DEF Silent, RequestMapReset, LoseActive, CaptureRejected, TombstoneOverflow,
       InsertCheck, DeviceReset, PresentNoMapReset, PresentNoTransition, PresentNoDevice,
       PresentMaintain, PresentLegacy, PresentOpen, Ruling, vars, gate, epochs
  <2>. QED
    BY <1>2, <1>6, <2>1, SilentStep
<1>8. CASE Capture
  <2>1. PICK c \in Commands : c = Command("copy", {Caster}, 0) /\ c.op = "copy"
    BY <1>1, Emitted DEF Command
  <2>2. Ruling' = Ruling
    BY <1>8 DEF Capture, Ruling, gate, epochs
  <2>. QED
    BY <1>3, <1>8, <2>1, <2>2, CaptureEmits
<1>9. CASE InsertPublish
  <2>1. PICK c \in Commands : c = Command("run", scene, 0) /\ c.op = "run" /\ c.tuple = Tuple
    BY <1>1, Emitted DEF Command
  <2>2. Ruling' = Ruling /\ Tuple = Ruling
    BY <1>9 DEF InsertPublish, Ruling, Tuple, Inv, Bindings, gate, epochs
  <2>. QED
    BY <1>3, <1>9, <2>1, <2>2, InsertEmits
<1>10. CASE PresentArena
  <2>1. PICK c \in Commands : c = Command("signal", {}, serial + 1) /\ c.op = "signal"
    BY <1>1, Emitted DEF Command
  <2>2. Ruling' = Ruling
    BY <1>10 DEF PresentArena, Ruling, gate, epochs
  <2>. QED
    BY <1>2, <1>3, <1>10, <2>1, <2>2, ArenaEmits
<1>11. CASE PresentMapReset \/ PresentDevice
  BY <1>4, <1>11, TransitionTurns DEF Inv
<1>12. CASE UNCHANGED vars
  BY <1>2, <1>12 DEF vars, gate, epochs, queue, Rests, Ruling
<1>. QED
  BY <1>5, <1>6, <1>8, <1>9, <1>10, <1>11, <1>12 DEF Next, Silent

-----------------------------------------------------------------------------
(* What a scene is made of.                                                *)

LEMMA AdmittedTuple == ASSUME Bindings, Admitted PROVE Tuple = Ruling
BY DEF Bindings, Admitted, FullyApplied, Tuple, Ruling

LEMMA UnmixedGrows ==
  ASSUME Typed, Grows, SceneUnmixed,
         \A i \in Len(stream) + 1 .. Len(stream') : stream'[i].op = "run" =>
           \A c \in stream'[i].casters : c.tuple = stream'[i].tuple
  PROVE  SceneUnmixed'
<1>1. Len(stream) \in Nat
  BY LenProperties DEF Typed
<1>2. ASSUME NEW i \in 1 .. Len(stream'), stream'[i].op = "run"
      PROVE  \A c \in stream'[i].casters : c.tuple = stream'[i].tuple
  <2>1. CASE i \in 1 .. Len(stream)
    BY <1>2, <2>1 DEF Grows, SceneUnmixed
  <2>2. CASE i \notin 1 .. Len(stream)
    <3>1. i \in Len(stream) + 1 .. Len(stream')
      BY <1>1, <2>2
    <3>. QED
      BY <1>2, <3>1
  <2>. QED
    BY <2>1, <2>2
<1>. QED
  BY <1>2 DEF SceneUnmixed

LEMMA CastingStep ==
  ASSUME Inv, Typed', [Next]_vars
  PROVE  Casting'
<1>1. Typed /\ Bindings /\ Casting /\ Len(stream) \in Nat
  BY LenProperties DEF Inv, Typed
<1>2. CASE Silent \/ UNCHANGED vars
  <2>1. stream' = stream /\ Ruling' = Ruling
    BY <1>2, SilentStep DEF Silent, RequestMapReset, LoseActive, CaptureRejected,
       TombstoneOverflow, InsertCheck, DeviceReset, PresentNoMapReset, PresentNoTransition,
       PresentNoDevice, PresentMaintain, PresentLegacy, PresentOpen, Ruling, Rests, vars, gate,
       epochs, queue
  <2>2. scene' = {} \/ (scene' = scene /\ session' = session)
    BY <1>2 DEF Silent, RequestMapReset, LoseActive, CaptureRejected,
       TombstoneOverflow, ResetSession, InsertCheck, DeviceReset, PresentNoMapReset,
       PresentNoTransition, PresentNoDevice, PresentMaintain, PresentLegacy, PresentOpen, vars,
       caches
  <2>. QED
    BY <1>1, <2>1, <2>2 DEF Casting, SceneUnmixed
<1>3. ASSUME NEW c \in Commands, Emits(c),
             c.op = "run" => \A d \in c.casters : d.tuple = c.tuple
      PROVE  SceneUnmixed'
  <2>1. Grows /\ Len(stream') = Len(stream) + 1 /\ stream'[Len(stream) + 1] = c
    BY <1>1, <1>3, EmitsGrow
  <2>2. \A i \in Len(stream) + 1 .. Len(stream') : stream'[i] = c
    BY <1>1, <2>1
  <2>. QED
    BY <1>1, <1>3, <2>1, <2>2, UnmixedGrows DEF Casting
<1>4. CASE Capture
  <2>1. PICK c \in Commands : c = Command("copy", {Caster}, 0) /\ c.op = "copy"
    BY <1>1, Emitted DEF Command
  <2>2. SceneUnmixed'
    BY <1>3, <1>4, <2>1, CaptureEmits
  <2>3. Caster.tuple = Ruling /\ Caster.session = session
    BY <1>1, <1>4, AdmittedTuple DEF Caster, Capture
  <2>4. scene' = scene \cup {Caster} /\ session' = session /\ Ruling' = Ruling
    BY <1>4 DEF Capture, Caster, Ruling, gate, epochs
  <2>. QED
    BY <1>1, <2>2, <2>3, <2>4 DEF Casting
<1>5. CASE InsertPublish
  <2>1. PICK c \in Commands : /\ c = Command("run", scene, 0) /\ c.op = "run" /\ c.tuple = Tuple
                              /\ c.casters = scene
    BY <1>1, Emitted DEF Command
  <2>2. Tuple = Ruling
    BY <1>1, <1>5 DEF InsertPublish, Bindings, Tuple, Ruling
  <2>3. SceneUnmixed'
    BY <1>1, <1>3, <1>5, <2>1, <2>2, InsertEmits DEF Casting
  <2>4. scene' = {}
    BY <1>5 DEF InsertPublish
  <2>. QED
    BY <2>3, <2>4 DEF Casting
<1>6. CASE PresentArena
  <2>1. PICK c \in Commands : c = Command("signal", {}, serial + 1) /\ c.op = "signal"
    BY <1>1, Emitted DEF Command
  <2>2. SceneUnmixed'
    BY <1>1, <1>3, <1>6, <2>1, ArenaEmits DEF Rests, Casting, SceneUnmixed
  <2>3. scene' = scene /\ session' = session /\ Ruling' = Ruling
    BY <1>6 DEF PresentArena, Ruling, gate, epochs
  <2>. QED
    BY <1>1, <2>2, <2>3 DEF Casting
<1>7. CASE PresentMapReset \/ PresentDevice
  <2>1. Turns /\ Ruling' \in Tuples
    BY <1>1, <1>7, TransitionTurns DEF Ruling, Tuples, Typed
  <2>2. /\ Grows /\ Len(stream') = Len(stream) + 2
        /\ stream'[Len(stream) + 1].op = "signal" /\ stream'[Len(stream) + 2].op = "invalidate"
    BY <1>1, <2>1, TurnsGrow DEF Command
  <2>3. \A i \in Len(stream) + 1 .. Len(stream') : stream'[i].op # "run"
    BY <1>1, <2>2
  <2>4. SceneUnmixed'
    BY <1>1, <2>2, <2>3, UnmixedGrows DEF Casting
  <2>. QED
    BY <2>1, <2>4 DEF Casting, Turns, ResetSession
<1>8. CASE StreamStep
  <2>1. /\ Len(stream') = Len(stream) - 1
        /\ \A i \in 1 .. Len(stream) - 1 : stream'[i] = stream[i + 1]
    BY <1>1, <1>8, StreamTail
  <2>2. \A i \in 1 .. Len(stream) - 1 : i + 1 \in 1 .. Len(stream)
    BY <1>1
  <2>3. SceneUnmixed'
    BY <1>1, <2>1, <2>2 DEF Casting, SceneUnmixed
  <2>4. scene' = scene /\ session' = session /\ Ruling' = Ruling
    BY <1>8 DEF StreamStep, Ruling, gate, epochs, caches
  <2>. QED
    BY <1>1, <2>3, <2>4 DEF Casting
<1>. QED
  BY <1>2, <1>4, <1>5, <1>6, <1>7, <1>8 DEF Next, Silent

-----------------------------------------------------------------------------
(* The fence and the buffers behind it.                                    *)

LEMMA BeforeGrows ==
  ASSUME Typed, Grows, NEW i \in 1 .. Len(stream) + 1, NEW n \in Nat, NEW m \in Nat, n <= m,
         Before(i, n)
  PROVE  Before(i, m)'
<1>1. Len(stream) \in Nat /\ completed \in Nat /\ \A j \in 1 .. Len(stream) : stream[j].value \in Nat
  <2>1. ASSUME NEW j \in 1 .. Len(stream) PROVE stream[j].value \in Nat
    <3>1. stream[j] \in Commands
      BY ElementOfSeq DEF Typed
    <3>. QED
      BY <3>1 DEF Commands
  <2>. QED
    BY <2>1, LenProperties DEF Typed
<1>2. ASSUME NEW j \in 1 .. i - 1, stream'[j].op = "signal" PROVE stream'[j].value < m
  <2>1. j \in 1 .. Len(stream)
    BY <1>1
  <2>. QED
    BY <1>1, <1>2, <2>1 DEF Before, Grows
<1>. QED
  BY <1>1, <1>2 DEF Before, Grows

LEMMA BeforeTail ==
  ASSUME Typed, StreamStep, NEW i \in 1 .. Len(stream), NEW n \in Nat, Before(i + 1, n)
  PROVE  Before(i, n)'
<1>1. /\ Len(stream) \in Nat \ {0}
      /\ \A k \in 1 .. Len(stream) - 1 : stream'[k] = stream[k + 1]
      /\ completed' = IF stream[1].op = "signal" THEN stream[1].value ELSE completed
  BY StreamTail
<1>2. 1 \in 1 .. (i + 1) - 1
  BY <1>1
<1>3. completed' < n
  BY <1>1, <1>2 DEF Before
<1>4. ASSUME NEW j \in 1 .. i - 1, stream'[j].op = "signal" PROVE stream'[j].value < n
  <2>1. j \in 1 .. Len(stream) - 1 /\ j + 1 \in 1 .. (i + 1) - 1
    BY <1>1
  <2>. QED
    BY <1>1, <1>4, <2>1 DEF Before
<1>. QED
  BY <1>3, <1>4 DEF Before

\* Buffers stay with the session in use, or are retired with it.
LEMMA KeptGrows ==
  ASSUME Typed, Typed', Kept, Grows, serial <= serial',
         \/ session' = session
         \/ \E r \in retired' : r.session = session /\ r.serial = serial + 1,
         \A r \in retired : r \in retired' \/ r.serial <= completed,
         \A i \in Len(stream) + 1 .. Len(stream') : \A c \in stream'[i].casters :
           i = Len(stream) + 1 /\ c.session = session' /\ Before(i, serial + 1)
  PROVE  Kept'
<1>1. Len(stream) \in Nat /\ serial \in Nat /\ serial' \in Nat /\ completed \in Nat
      /\ \A r \in retired : r.serial \in Nat
  BY LenProperties DEF Typed
<1>2. ASSUME NEW i \in 1 .. Len(stream'), NEW c \in stream'[i].casters
      PROVE  \/ c.session = session' /\ Before(i, serial + 1)'
             \/ \E r \in retired' : r.session = c.session /\ Before(i, r.serial)'
  <2>1. PICK s, m : s = serial + 1 /\ m = serial' + 1 /\ s \in Nat /\ m \in Nat /\ s <= m
    BY <1>1
  <2>2. CASE i \in 1 .. Len(stream)
    <3>1. c \in stream[i].casters /\ i \in 1 .. Len(stream) + 1
      BY <1>1, <1>2, <2>2 DEF Grows
    <3>2. CASE c.session = session /\ Before(i, serial + 1)
      <4>1. Before(i, s)' /\ Before(i, m)'
        BY <2>1, <3>1, <3>2, BeforeGrows
      <4>2. Before(i, serial + 1)'
        BY <2>1, <4>1 DEF Before
      <4>3. CASE session' = session
        BY <3>2, <4>2, <4>3
      <4>4. ASSUME NEW r \in retired', r.session = session, r.serial = serial + 1
            PROVE  \E q \in retired' : q.session = c.session /\ Before(i, q.serial)'
        BY <2>1, <3>2, <4>1, <4>4
      <4>. QED
        BY <4>3, <4>4
    <3>3. ASSUME NEW r \in retired, r.session = c.session, Before(i, r.serial)
          PROVE  r \in retired' /\ Before(i, r.serial)'
      <4>1. Before(i, r.serial)'
        BY <1>1, <3>1, <3>3, BeforeGrows
      <4>2. completed < r.serial
        BY <3>3 DEF Before
      <4>. QED
        BY <1>1, <4>1, <4>2
    <3>. QED
      BY <2>2, <3>1, <3>2, <3>3 DEF Kept
  <2>3. CASE i \notin 1 .. Len(stream)
    <3>1. i = Len(stream) + 1 /\ c.session = session' /\ Before(i, s)
      BY <1>1, <1>2, <2>1, <2>3
    <3>2. Before(i, m)'
      BY <1>1, <2>1, <3>1, BeforeGrows
    <3>3. Before(i, serial + 1)'
      BY <2>1, <3>2 DEF Before
    <3>. QED
      BY <3>1, <3>3
  <2>. QED
    BY <2>2, <2>3
<1>. QED
  BY <1>2 DEF Kept

LEMMA Retires ==
  ASSUME NEW n, ResetSession(n)
  PROVE  /\ \E r \in retired' : r.session = session /\ r.serial = n
         /\ \A r \in retired : r \in retired'
<1>1. PICK q : q = [session |-> session, serial |-> n]
  OBVIOUS
<1>2. q.session = session /\ q.serial = n
  BY <1>1
<1>3. retired' = retired \cup {q}
  BY <1>1 DEF ResetSession
<1>. QED
  BY <1>2, <1>3

LEMMA KeptStep ==
  ASSUME Inv, Typed', [Next]_vars
  PROVE  Kept'
<1>1. Typed /\ Kept /\ Casting /\ Len(stream) \in Nat /\ serial \in Nat /\ completed \in Nat
  BY LenProperties DEF Inv, Typed
<1>2. ASSUME NEW r \in retired, retired' = Collect \/ r \in retired'
      PROVE  r \in retired' \/ r.serial <= completed
  BY <1>2 DEF Collect
<1>3. CASE Silent \/ UNCHANGED vars
  <2>1. Grows /\ Len(stream') = Len(stream)
    BY <1>1, <1>3, SilentStep, RestsGrow DEF vars, queue, Rests
  <2>2. serial <= serial'
    BY <1>1, <1>3 DEF Silent, RequestMapReset, LoseActive, CaptureRejected,
       TombstoneOverflow, InsertCheck, DeviceReset, PresentNoMapReset, PresentNoTransition,
       PresentNoDevice, PresentMaintain, PresentLegacy, PresentOpen, vars
  <2>3. CASE TombstoneOverflow
    <3>1. ResetSession(serial + 1)
      BY <2>3 DEF TombstoneOverflow
    <3>2. /\ \E r \in retired' : r.session = session /\ r.serial = serial + 1
          /\ \A r \in retired : r \in retired'
      BY <3>1, Retires
    <3>. QED
      BY <1>1, <2>1, <2>2, <3>2, KeptGrows
  <2>4. CASE ~TombstoneOverflow
    <3>1. session' = session /\ (retired' = Collect \/ retired' = retired)
      BY <1>3, <2>4 DEF Silent, RequestMapReset, LoseActive, CaptureRejected, InsertCheck,
         DeviceReset, PresentNoMapReset, PresentNoTransition, PresentNoDevice, PresentMaintain,
         PresentLegacy, PresentOpen, vars, caches
    <3>2. \A r \in retired : r \in retired' \/ r.serial <= completed
      BY <1>2, <3>1
    <3>. QED
      BY <1>1, <2>1, <2>2, <3>1, <3>2, KeptGrows
  <2>. QED
    BY <2>3, <2>4
<1>4. ASSUME NEW c \in Commands, Emits(c), serial' = serial, session' = session,
             retired' = Collect \/ retired' = retired,
             \A d \in c.casters : d.session = session,
             c.casters # {} => pc \in {"draw", "publish"}
      PROVE  Kept'
  <2>1. Grows /\ Len(stream') = Len(stream) + 1 /\ stream'[Len(stream) + 1] = c
    BY <1>1, <1>4, EmitsGrow
  <2>2. c.casters # {} => Before(Len(stream) + 1, serial + 1)
    BY <1>4 DEF Inv, Ordered
  <2>3. \A i \in Len(stream) + 1 .. Len(stream') : i = Len(stream) + 1
    BY <1>1, <2>1
  <2>4. \A i \in Len(stream) + 1 .. Len(stream') : \A d \in stream'[i].casters :
          i = Len(stream) + 1 /\ d.session = session' /\ Before(i, serial + 1)
    BY <1>4, <2>1, <2>2, <2>3
  <2>5. \A r \in retired : r \in retired' \/ r.serial <= completed
    BY <1>2, <1>4
  <2>6. serial <= serial'
    BY <1>1, <1>4
  <2>. QED
    BY <1>1, <1>4, <2>1, <2>4, <2>5, <2>6, KeptGrows
<1>5. CASE Capture
  <2>1. PICK c \in Commands : c = Command("copy", {Caster}, 0) /\ c.casters = {Caster}
    BY <1>1, Emitted DEF Command
  <2>2. Caster.session = session
    BY DEF Caster
  <2>3. serial' = serial /\ session' = session /\ retired' = retired /\ pc = "draw"
    BY <1>5 DEF Capture
  <2>. QED
    BY <1>4, <1>5, <2>1, <2>2, <2>3, CaptureEmits
<1>6. CASE InsertPublish
  <2>1. PICK c \in Commands : c = Command("run", scene, 0) /\ c.casters = scene
    BY <1>1, Emitted DEF Command
  <2>2. \A d \in scene : d.session = session
    BY <1>1 DEF Casting
  <2>3. serial' = serial /\ session' = session /\ retired' = retired /\ pc = "publish"
    BY <1>6 DEF InsertPublish
  <2>. QED
    BY <1>4, <1>6, <2>1, <2>2, <2>3, InsertEmits
<1>7. CASE PresentArena
  <2>1. PICK c \in Commands : c = Command("signal", {}, serial + 1) /\ c.casters = {}
    BY <1>1, Emitted DEF Command
  <2>2. serial' = serial /\ session' = session /\ retired' = Collect
    BY <1>7 DEF PresentArena
  <2>3. CASE Rests
    <3>1. Grows /\ Len(stream') = Len(stream)
      BY <1>1, <2>3, RestsGrow
    <3>2. \A r \in retired : r \in retired' \/ r.serial <= completed
      BY <1>2, <2>2
    <3>3. Len(stream) + 1 .. Len(stream') = {} /\ serial <= serial'
      BY <1>1, <2>2, <3>1
    <3>. QED
      BY <1>1, <2>2, <3>1, <3>2, <3>3, KeptGrows
  <2>. QED
    BY <1>4, <1>7, <2>1, <2>2, <2>3, ArenaEmits
<1>8. CASE PresentMapReset \/ PresentDevice
  <2>1. Turns /\ Ruling' \in Tuples
    BY <1>1, <1>8, TransitionTurns DEF Ruling, Tuples, Typed, Inv
  <2>2. /\ Grows /\ Len(stream') = Len(stream) + 2
        /\ stream'[Len(stream) + 1].casters = {} /\ stream'[Len(stream) + 2].casters = {}
    BY <1>1, <2>1, TurnsGrow DEF Command
  <2>3. \A i \in Len(stream) + 1 .. Len(stream') : stream'[i].casters = {}
    BY <1>1, <2>2
  <2>4. /\ \E r \in retired' : r.session = session /\ r.serial = serial + 1
        /\ \A r \in retired : r \in retired'
        /\ serial <= serial'
    BY <1>1, <2>1, Retires DEF Turns
  <2>. QED
    BY <1>1, <2>2, <2>3, <2>4, KeptGrows
<1>9. CASE StreamStep
  <2>1. /\ Len(stream') = Len(stream) - 1
        /\ \A i \in 1 .. Len(stream) - 1 : stream'[i] = stream[i + 1]
    BY <1>1, <1>9, StreamTail
  <2>2. session' = session /\ retired' = retired /\ serial' = serial
    BY <1>9 DEF StreamStep, caches
  <2>3. ASSUME NEW i \in 1 .. Len(stream'), NEW c \in stream'[i].casters
        PROVE  \/ c.session = session' /\ Before(i, serial + 1)'
               \/ \E r \in retired' : r.session = c.session /\ Before(i, r.serial)'
    <3>1. i \in 1 .. Len(stream) /\ i + 1 \in 1 .. Len(stream) /\ c \in stream[i + 1].casters
      BY <1>1, <2>1
    <3>2. PICK s \in Nat : s = serial + 1
      BY <1>1
    <3>3. CASE c.session = session /\ Before(i + 1, serial + 1)
      <4>1. Before(i, s)'
        BY <1>1, <1>9, <3>1, <3>2, <3>3, BeforeTail
      <4>2. Before(i, serial + 1)'
        BY <2>2, <3>2, <4>1 DEF Before
      <4>. QED
        BY <2>2, <3>3, <4>2
    <3>4. ASSUME NEW r \in retired, r.session = c.session, Before(i + 1, r.serial)
          PROVE  r \in retired' /\ Before(i, r.serial)'
      <4>1. r.serial \in Nat
        BY <1>1 DEF Typed
      <4>2. PICK n \in Nat : n = r.serial
        BY <4>1
      <4>3. Before(i, n)'
        BY <1>1, <1>9, <3>1, <3>4, <4>2, BeforeTail
      <4>. QED
        BY <2>2, <4>2, <4>3 DEF Before
    <3>. QED
      BY <1>1, <3>1, <3>3, <3>4 DEF Kept
  <2>. QED
    BY <2>3 DEF Kept
<1>. QED
  BY <1>3, <1>5, <1>6, <1>7, <1>8, <1>9 DEF Next, Silent

\* The two lasting parts of Ordered.
Monotone ==
  /\ completed <= serial + 1
  /\ \A i \in 1 .. Len(stream) : stream[i].op = "signal" =>
       /\ completed <= stream[i].value /\ stream[i].value <= serial + 1
       /\ \A j \in 1 .. i - 1 : stream[j].op = "signal" => stream[j].value <= stream[i].value

LEMMA Values ==
  ASSUME Typed
  PROVE  /\ Len(stream) \in Nat /\ completed \in Nat /\ serial \in Nat
         /\ \A i \in 1 .. Len(stream) : stream[i].value \in Nat
<1>1. ASSUME NEW i \in 1 .. Len(stream) PROVE stream[i].value \in Nat
  <2>1. stream[i] \in Commands
    BY ElementOfSeq DEF Typed
  <2>. QED
    BY <2>1 DEF Commands
<1>. QED
  BY <1>1, LenProperties DEF Typed

LEMMA LaterFrame ==
  ASSUME NEW c \in Nat, NEW s \in Nat, NEW m \in Nat, c <= s + 1, s <= m
  PROVE  c <= m + 1
OBVIOUS

LEMMA MonotoneGrows ==
  ASSUME Typed, Typed', Monotone, Grows, serial <= serial',
         \A i \in Len(stream) + 1 .. Len(stream') :
           stream'[i].op = "signal" => stream'[i].value = serial + 1
  PROVE  Monotone'
<1>1. /\ Len(stream) \in Nat /\ completed \in Nat /\ serial \in Nat
      /\ \A i \in 1 .. Len(stream) : stream[i].value \in Nat
  BY Values
<1>2. Len(stream') \in Nat /\ serial' \in Nat /\ completed' = completed
  BY LenProperties DEF Typed, Grows
<1>3. completed' <= serial' + 1
  <2>1. completed <= serial + 1
    BY DEF Monotone
  <2>. QED
    BY <1>1, <1>2, <2>1, LaterFrame
<1>4. ASSUME NEW i \in 1 .. Len(stream'), stream'[i].op = "signal"
      PROVE  \/ i \in 1 .. Len(stream) /\ stream'[i] = stream[i]
             \/ i \in Len(stream) + 1 .. Len(stream') /\ stream'[i].value = serial + 1
  BY <1>1, <1>2, <1>4 DEF Grows
<1>5. ASSUME NEW i \in 1 .. Len(stream'), stream'[i].op = "signal"
      PROVE  completed' <= stream'[i].value /\ stream'[i].value <= serial' + 1
  BY <1>1, <1>2, <1>4, <1>5 DEF Monotone
<1>6. ASSUME NEW i \in 1 .. Len(stream'), stream'[i].op = "signal",
             NEW j \in 1 .. i - 1, stream'[j].op = "signal"
      PROVE  stream'[j].value <= stream'[i].value
  <2>1. j \in 1 .. Len(stream')
    BY <1>2
  <2>2. CASE i \in 1 .. Len(stream) /\ stream'[i] = stream[i]
    <3>1. j \in 1 .. Len(stream) /\ stream'[j] = stream[j]
      BY <1>1, <2>2 DEF Grows
    <3>. QED
      BY <1>6, <2>2, <3>1 DEF Monotone
  <2>3. CASE stream'[i].value = serial + 1
    <3>1. CASE j \in 1 .. Len(stream) /\ stream'[j] = stream[j]
      BY <1>6, <2>3, <3>1 DEF Monotone
    <3>2. CASE stream'[j].value = serial + 1
      BY <1>1, <2>3, <3>2
    <3>. QED
      BY <1>4, <1>6, <2>1, <3>1, <3>2
  <2>. QED
    BY <1>4, <1>6, <2>2, <2>3
<1>. QED
  BY <1>3, <1>5, <1>6 DEF Monotone

LEMMA OrderedStep ==
  ASSUME Inv, Typed', [Next]_vars
  PROVE  Ordered'
<1>1. /\ Typed /\ Monotone /\ Len(stream) \in Nat /\ completed \in Nat /\ serial \in Nat
      /\ \A i \in 1 .. Len(stream) : stream[i].value \in Nat
  BY Values DEF Inv, Ordered, Monotone
<1>2. pc \in {"draw", "publish"} => Before(Len(stream) + 1, serial + 1)
  BY DEF Inv, Ordered
<1>3. SUFFICES Monotone' /\ (pc' \in {"draw", "publish"} => Before(Len(stream) + 1, serial + 1)')
  BY DEF Ordered, Monotone
<1>4. CASE Silent \/ UNCHANGED vars
  <2>1. Rests /\ Grows /\ Len(stream') = Len(stream)
    BY <1>1, <1>4, SilentStep, RestsGrow DEF vars, queue, Rests
  <2>2. CASE PresentOpen
    <3>1. serial' = serial + 1
      BY <2>2 DEF PresentOpen
    <3>2. Monotone'
      BY <1>1, <2>1, <3>1, MonotoneGrows
    <3>3. \A j \in 1 .. Len(stream) : stream[j].op = "signal" => stream[j].value < serial' + 1
      BY <1>1, <3>1 DEF Monotone
    <3>4. completed < serial' + 1
      BY <1>1, <3>1 DEF Monotone
    <3>5. \A j \in 1 .. (Len(stream) + 1) - 1 : j \in 1 .. Len(stream)
      BY <1>1
    <3>. QED
      BY <2>1, <3>2, <3>3, <3>4, <3>5 DEF Before, Rests
  <2>3. CASE ~PresentOpen
    <3>1. /\ serial' = serial
          /\ pc' \in {"draw", "publish"} => pc \in {"draw", "publish"}
      BY <1>4, <2>3 DEF Silent, RequestMapReset, LoseActive, CaptureRejected, TombstoneOverflow,
         InsertCheck, DeviceReset, PresentNoMapReset, PresentNoTransition, PresentNoDevice,
         PresentMaintain, PresentLegacy, vars
    <3>2. Monotone'
      BY <1>1, <2>1, <3>1, MonotoneGrows
    <3>. QED
      BY <1>2, <2>1, <3>1, <3>2 DEF Before, Rests
  <2>. QED
    BY <2>2, <2>3
<1>5. ASSUME NEW c \in Commands, Emits(c), serial' = serial,
             c.op = "signal" => c.value = serial + 1
      PROVE  Monotone'
  <2>1. Grows /\ Len(stream') = Len(stream) + 1 /\ stream'[Len(stream) + 1] = c
    BY <1>1, <1>5, EmitsGrow
  <2>2. \A i \in Len(stream) + 1 .. Len(stream') : stream'[i] = c
    BY <1>1, <2>1
  <2>. QED
    BY <1>1, <1>5, <2>1, <2>2, MonotoneGrows
<1>6. ASSUME NEW c \in Commands, Emits(c), serial' = serial, c.op # "signal",
             pc \in {"draw", "publish"}
      PROVE  Before(Len(stream) + 1, serial + 1)'
  <2>1. Grows /\ Len(stream') = Len(stream) + 1 /\ stream'[Len(stream) + 1] = c
    BY <1>1, <1>6, EmitsGrow
  <2>2. completed' < serial' + 1
    BY <1>2, <1>6, <2>1 DEF Before, Grows
  <2>3. ASSUME NEW j \in 1 .. (Len(stream') + 1) - 1, stream'[j].op = "signal"
        PROVE  stream'[j].value < serial' + 1
    <3>1. j \in 1 .. (Len(stream) + 1) - 1 /\ j \in 1 .. Len(stream)
      BY <1>1, <1>6, <2>1, <2>3
    <3>2. stream'[j] = stream[j]
      BY <2>1, <3>1 DEF Grows
    <3>. QED
      BY <1>2, <1>6, <2>3, <3>1, <3>2 DEF Before
  <2>. QED
    BY <2>2, <2>3 DEF Before
<1>7. CASE Capture
  <2>1. PICK c \in Commands : c = Command("copy", {Caster}, 0) /\ c.op = "copy"
    BY <1>1, Emitted DEF Command
  <2>2. serial' = serial /\ pc = "draw"
    BY <1>7 DEF Capture
  <2>. QED
    BY <1>5, <1>6, <1>7, <2>1, <2>2, CaptureEmits
<1>8. CASE InsertPublish
  <2>1. PICK c \in Commands : c = Command("run", scene, 0) /\ c.op = "run"
    BY <1>1, Emitted DEF Command
  <2>2. serial' = serial /\ pc = "publish"
    BY <1>8 DEF InsertPublish
  <2>. QED
    BY <1>5, <1>6, <1>8, <2>1, <2>2, InsertEmits
<1>9. CASE PresentArena
  <2>1. PICK c \in Commands : c = Command("signal", {}, serial + 1) /\ c.value = serial + 1
    BY <1>1, Emitted DEF Command
  <2>2. serial' = serial /\ pc' = "open"
    BY <1>9 DEF PresentArena
  <2>3. CASE Rests
    <3>1. Grows /\ Len(stream') = Len(stream)
      BY <1>1, <2>3, RestsGrow
    <3>2. Len(stream) + 1 .. Len(stream') = {} /\ serial <= serial'
      BY <1>1, <2>2, <3>1
    <3>. QED
      BY <1>1, <2>2, <3>1, <3>2, MonotoneGrows
  <2>. QED
    BY <1>5, <1>9, <2>1, <2>2, <2>3, ArenaEmits
<1>10. CASE PresentMapReset \/ PresentDevice
  <2>1. Turns /\ Ruling' \in Tuples
    BY <1>1, <1>10, TransitionTurns DEF Ruling, Tuples, Typed, Inv
  <2>2. /\ Grows /\ Len(stream') = Len(stream) + 2
        /\ stream'[Len(stream) + 1].value = serial + 1
        /\ stream'[Len(stream) + 2].op = "invalidate"
    BY <1>1, <2>1, TurnsGrow DEF Command
  <2>3. \A i \in Len(stream) + 1 .. Len(stream') :
          stream'[i].op = "signal" => stream'[i].value = serial + 1
    BY <1>1, <2>2
  <2>4. serial <= serial' /\ pc' \in {"device", "maintain"}
    BY <1>1, <1>10 DEF PresentMapReset, PresentDevice
  <2>. QED
    BY <1>1, <2>2, <2>3, <2>4, MonotoneGrows
<1>11. CASE StreamStep
  <2>1. /\ Len(stream) \in Nat \ {0} /\ Len(stream') = Len(stream) - 1
        /\ \A i \in 1 .. Len(stream) - 1 : stream'[i] = stream[i + 1]
        /\ completed' = IF stream[1].op = "signal" THEN stream[1].value ELSE completed
    BY <1>1, <1>11, StreamTail
  <2>2. serial' = serial /\ pc' = pc /\ 1 \in 1 .. Len(stream)
    BY <1>11, <2>1 DEF StreamStep
  <2>3. completed' <= serial' + 1
    BY <1>1, <2>1, <2>2 DEF Monotone
  <2>4. ASSUME NEW i \in 1 .. Len(stream'), stream'[i].op = "signal"
        PROVE  /\ completed' <= stream'[i].value /\ stream'[i].value <= serial' + 1
               /\ \A j \in 1 .. i - 1 :
                    stream'[j].op = "signal" => stream'[j].value <= stream'[i].value
    <3>1. i + 1 \in 1 .. Len(stream) /\ stream'[i] = stream[i + 1] /\ 1 \in 1 .. (i + 1) - 1
      BY <2>1
    <3>2. \A j \in 1 .. i - 1 : j + 1 \in 1 .. (i + 1) - 1 /\ stream'[j] = stream[j + 1]
      BY <2>1
    <3>. QED
      BY <1>1, <2>1, <2>2, <2>4, <3>1, <3>2 DEF Monotone
  <2>5. PICK n, s : n = Len(stream) /\ s = serial + 1 /\ n \in 1 .. Len(stream) /\ s \in Nat
    BY <1>1, <2>1
  <2>6. pc' \in {"draw", "publish"} => Before(n, s)'
    BY <1>1, <1>2, <1>11, <2>2, <2>5, BeforeTail
  <2>7. pc' \in {"draw", "publish"} => Before(Len(stream) + 1, serial + 1)'
    BY <2>1, <2>2, <2>5, <2>6 DEF Before
  <2>. QED
    BY <2>3, <2>4, <2>7 DEF Monotone
<1>. QED
  BY <1>4, <1>7, <1>8, <1>9, <1>10, <1>11 DEF Next, Silent

-----------------------------------------------------------------------------
(* The signals that retired sessions wait for.                             *)

LEMMA SignalledGrows ==
  ASSUME Typed, Grows, NEW n \in Nat, NEW m \in Nat, m <= n, Signalled(n)
  PROVE  Signalled(m)'
<1>1. /\ Len(stream) \in Nat /\ completed \in Nat
      /\ \A i \in 1 .. Len(stream) : stream[i].value \in Nat
  BY Values
<1>2. CASE completed >= n
  BY <1>1, <1>2 DEF Grows, Signalled
<1>3. ASSUME NEW i \in 1 .. Len(stream), stream[i].op = "signal", stream[i].value >= n
      PROVE  Signalled(m)'
  <2>1. i \in 1 .. Len(stream') /\ stream'[i] = stream[i]
    BY <1>1 DEF Grows
  <2>2. stream'[i].value >= m
    BY <1>1, <1>3, <2>1
  <2>. QED
    BY <1>3, <2>1, <2>2 DEF Signalled
<1>. QED
  BY <1>2, <1>3 DEF Signalled

LEMMA SignalledTail ==
  ASSUME Typed, Monotone, StreamStep, NEW n \in Nat, Signalled(n)
  PROVE  Signalled(n)'
<1>1. /\ Len(stream) \in Nat \ {0} /\ Len(stream') = Len(stream) - 1
      /\ \A i \in 1 .. Len(stream) - 1 : stream'[i] = stream[i + 1]
      /\ completed' = IF stream[1].op = "signal" THEN stream[1].value ELSE completed
  BY StreamTail
<1>2. completed \in Nat /\ \A i \in 1 .. Len(stream) : stream[i].value \in Nat
  BY Values
<1>3. CASE completed >= n
  <2>1. 1 \in 1 .. Len(stream)
    BY <1>1
  <2>2. stream[1].op = "signal" => completed <= stream[1].value
    BY <2>1 DEF Monotone
  <2>3. completed' >= n
    BY <1>1, <1>2, <1>3, <2>1, <2>2
  <2>. QED
    BY <2>3 DEF Signalled
<1>4. ASSUME NEW i \in 1 .. Len(stream), stream[i].op = "signal", stream[i].value >= n
      PROVE  Signalled(n)'
  <2>1. CASE i = 1
    BY <1>1, <1>4, <2>1 DEF Signalled
  <2>2. CASE i # 1
    <3>1. i - 1 \in 1 .. Len(stream') /\ stream'[i - 1] = stream[i]
      BY <1>1, <2>2
    <3>. QED
      BY <1>4, <3>1 DEF Signalled
  <2>. QED
    BY <2>1, <2>2
<1>. QED
  BY <1>3, <1>4 DEF Signalled

\* A signal of the frame that has just been emitted.
LEMMA SignalledNow ==
  ASSUME Typed, NEW i \in 1 .. Len(stream'), stream'[i] = Command("signal", {}, serial + 1)
  PROVE  \A m \in Nat : m <= serial + 1 => Signalled(m)'
<1>1. stream'[i].op = "signal" /\ stream'[i].value = serial + 1 /\ serial \in Nat
  BY DEF Command, Typed
<1>2. ASSUME NEW m \in Nat, m <= serial + 1 PROVE Signalled(m)'
  <2>1. stream'[i].value >= m
    BY <1>1, <1>2
  <2>. QED
    BY <1>1, <2>1 DEF Signalled
<1>. QED
  BY <1>2

LEMMA SignalsStep ==
  ASSUME Inv, Typed', [Next]_vars
  PROVE  Signals'
<1>1. Typed /\ Monotone /\ Signals /\ serial \in Nat /\ Len(stream) \in Nat
  BY Values DEF Inv, Ordered, Monotone
<1>2. PICK s, t \in Nat : s = serial /\ t = serial + 1 /\ s <= t
  BY <1>1
<1>3. /\ present.moved => Signalled(t)
      /\ present.arena /\ present.owned => Signalled(s) /\ (pc = "open" => Signalled(t))
  BY <1>1, <1>2 DEF Signals
<1>4. ASSUME serial' = serial, present' = present, pc' = "open" => pc = "open",
             \A n \in Nat : Signalled(n) => Signalled(n)'
      PROVE  Signals'
  <2>1. /\ present'.moved => Signalled(t)'
        /\ present'.arena /\ present'.owned =>
             Signalled(s)' /\ (pc' = "open" => Signalled(t)')
    BY <1>3, <1>4
  <2>. QED
    BY <1>2, <1>4, <2>1 DEF Signals, Signalled
<1>5. ASSUME Grows PROVE \A n \in Nat : Signalled(n) => Signalled(n)'
  BY <1>1, <1>5, SignalledGrows
<1>6. CASE Silent \/ UNCHANGED vars
  <2>1. Grows
    BY <1>1, <1>6, SilentStep, RestsGrow DEF vars, queue, Rests
  <2>2. CASE PresentOpen
    <3>1. /\ serial' = t /\ pc' = "draw" /\ pc = "open" /\ ~present'.moved
          /\ present'.arena = present.arena /\ present'.owned = present.owned
      BY <1>2, <2>2 DEF PresentOpen, Typed, Inv
    <3>2. present'.arena /\ present'.owned => Signalled(t)'
      BY <1>3, <1>5, <2>1, <3>1
    <3>. QED
      BY <3>1, <3>2 DEF Signals, Signalled
  <2>3. CASE PresentLegacy
    <3>1. serial' = s /\ ~present'.arena /\ present'.moved = present.moved
      BY <1>2, <2>3 DEF PresentLegacy, Typed, Inv
    <3>2. present'.moved => Signalled(t)'
      BY <1>3, <1>5, <2>1, <3>1
    <3>. QED
      BY <1>2, <3>1, <3>2 DEF Signals, Signalled
  <2>4. CASE ~PresentOpen /\ ~PresentLegacy
    <3>1. serial' = serial /\ present' = present /\ (pc' = "open" => pc = "open")
      BY <1>6, <2>4 DEF Silent, RequestMapReset, LoseActive, CaptureRejected, TombstoneOverflow,
         InsertCheck, DeviceReset, PresentNoMapReset, PresentNoTransition, PresentNoDevice,
         PresentMaintain, vars
    <3>. QED
      BY <1>4, <1>5, <2>1, <3>1
  <2>. QED
    BY <2>2, <2>3, <2>4
<1>7. CASE Capture
  <2>1. Grows
    BY <1>1, <1>7, Emitted, CaptureEmits, EmitsGrow
  <2>2. serial' = serial /\ present' = present /\ pc' = pc
    BY <1>7 DEF Capture
  <2>. QED
    BY <1>4, <1>5, <2>1, <2>2
<1>8. CASE InsertPublish
  <2>1. Grows
    BY <1>1, <1>8, Emitted, InsertEmits, EmitsGrow
  <2>2. serial' = serial /\ present' = present /\ pc' = "draw"
    BY <1>8 DEF InsertPublish
  <2>. QED
    BY <1>4, <1>5, <2>1, <2>2
<1>9. CASE PresentArena
  <2>1. serial' = serial /\ pc' = "open" /\ present'.moved = present.moved
    BY <1>9 DEF PresentArena, Typed, Inv
  <2>2. PICK c \in Commands : c = Command("signal", {}, serial + 1)
    BY <1>1, Emitted
  <2>3. CASE Rests /\ (present'.owned => present.moved)
    <3>1. Grows
      BY <1>1, <2>3, RestsGrow
    <3>2. present.moved => Signalled(t)' /\ Signalled(s)'
      BY <1>1, <1>2, <1>3, <3>1, SignalledGrows
    <3>. QED
      BY <1>2, <2>1, <2>3, <3>2 DEF Signals, Signalled
  <2>4. CASE Emits(c)
    <3>1. Len(stream') = Len(stream) + 1 /\ stream'[Len(stream) + 1] = c
      BY <1>1, <2>4, EmitsGrow
    <3>2. Len(stream) + 1 \in 1 .. Len(stream')
      BY <1>1, <3>1
    <3>3. Signalled(t)' /\ Signalled(s)'
      BY <1>1, <1>2, <2>2, <3>1, <3>2, SignalledNow
    <3>. QED
      BY <1>2, <2>1, <3>3 DEF Signals, Signalled
  <2>. QED
    BY <1>9, <2>2, <2>3, <2>4, ArenaEmits
<1>10. CASE PresentMapReset \/ PresentDevice
  <2>1. Turns /\ Ruling' \in Tuples
    BY <1>1, <1>10, TransitionTurns DEF Ruling, Tuples, Typed, Inv
  <2>2. /\ Len(stream') = Len(stream) + 2
        /\ stream'[Len(stream) + 1] = Command("signal", {}, serial + 1)
    BY <1>1, <2>1, TurnsGrow
  <2>3. Len(stream) + 1 \in 1 .. Len(stream')
    BY <1>1, <2>2
  <2>4. Signalled(t)' /\ Signalled(s)'
    BY <1>1, <1>2, <2>2, <2>3, SignalledNow
  <2>5. serial' = serial
    BY <2>1 DEF Turns
  <2>. QED
    BY <1>2, <2>4, <2>5 DEF Signals, Signalled
<1>11. CASE StreamStep
  <2>1. \A n \in Nat : Signalled(n) => Signalled(n)'
    BY <1>1, <1>11, SignalledTail
  <2>2. serial' = serial /\ present' = present /\ pc' = pc
    BY <1>11 DEF StreamStep
  <2>. QED
    BY <1>4, <2>1, <2>2
<1>. QED
  BY <1>6, <1>7, <1>8, <1>9, <1>10, <1>11 DEF Next, Silent

-----------------------------------------------------------------------------
(* The theorems.                                                           *)

LEMMA InitInv == Init => Inv
<1>. SUFFICES ASSUME Init PROVE Inv
  OBVIOUS
<1>1. stream = << >> /\ Len(stream) = 0 /\ 1 .. Len(stream) = {} /\ stream \in Seq(Commands)
  BY EmptySeq DEF Init
<1>2. Typed
  <2>1. receiver \in Tuples
    BY DEF Init, Tuple, Tuples
  <2>2. present \in [moved : BOOLEAN, open : BOOLEAN, owned : BOOLEAN, arena : BOOLEAN]
    <3>1. PICK arena \in BOOLEAN : present = NoPresent(arena)
      BY DEF Init
    <3>. QED
      BY <3>1 DEF NoPresent
  <2>3. /\ requested = 0 /\ applied = 0 /\ devRequested = 1 /\ devApplied = 1 /\ mapEpoch = 1
        /\ deviceEpoch = 1 /\ pendingEpoch \in {0, 1} /\ session = 0 /\ serial = 0
        /\ completed = 0 /\ rebindPending = FALSE /\ scene = {} /\ retired = {} /\ pc = "draw"
    BY DEF Init
  <2>4. /\ requested \in Nat /\ applied \in Nat /\ devRequested \in Nat /\ devApplied \in Nat
        /\ mapEpoch \in Nat /\ deviceEpoch \in Nat /\ pendingEpoch \in Nat
        /\ session \in Nat /\ serial \in Nat /\ completed \in Nat
    BY <2>3
  <2>8. rebindPending \in BOOLEAN
    BY <2>3
  <2>5. scene \subseteq Casters /\ retired \subseteq [session : Nat, serial : Nat]
    BY <2>3
  <2>6. pc \in {"draw", "publish", "device", "maintain", "arena", "open"}
    BY <2>3
  <2>7. stream \in Seq(Commands)
    BY <1>1
  <2>. QED
    BY <2>1, <2>2, <2>4, <2>5, <2>6, <2>7, <2>8 DEF Typed
<1>3. Bindings
  BY DEF Init, Bindings
<1>4. Flow
  <2>1. receiver = Ruling /\ 1 .. (Len(stream) + 1) - 1 = {}
    BY <1>1 DEF Init, Ruling, Tuple
  <2>. QED
    BY <1>1, <2>1 DEF Flow, ReceiverAgrees, Governs
<1>5. Casting /\ Kept
  BY <1>1 DEF Init, Casting, SceneUnmixed, Kept
<1>6. Ordered
  <2>1. completed = 0 /\ serial = 0 /\ 1 .. (Len(stream) + 1) - 1 = {}
    BY <1>1 DEF Init
  <2>. QED
    BY <1>1, <2>1 DEF Ordered, Before
<1>7. Signals
  BY DEF Init, NoPresent, Signals, Signalled
<1>. QED
  BY <1>2, <1>3, <1>4, <1>5, <1>6, <1>7 DEF Inv

LEMMA NextInv == Inv /\ [Next]_vars => Inv'
<1>. SUFFICES ASSUME Inv, [Next]_vars PROVE Inv'
  OBVIOUS
<1>1. Typed' /\ Bindings'
  BY TypedStep, BindingsStep DEF Inv
<1>2. Flow' /\ Casting' /\ Kept' /\ Ordered' /\ Signals'
  BY <1>1, FlowStep, CastingStep, KeptStep, OrderedStep, SignalsStep
<1>. QED
  BY <1>1, <1>2 DEF Inv

LEMMA InvHolds == Spec => []Inv
BY InitInv, NextInv, PTL DEF Spec

\* The receiver is at the epochs of every run it comes to, for any number of
\* unloads, device resets, failed rebinds and commands in flight: the epochs of
\* the last transition rule what is emitted, and a run is emitted only when the
\* epochs in force are those.
THEOREM ReceiverSafety == Spec => []ReceiverAgrees
<1>1. Inv => ReceiverAgrees
  BY DEF Inv, Flow
<1>. QED
  BY <1>1, InvHolds, PTL

\* War3ResetShadowSessionState clears the scene with the epochs that its casters
\* were captured in: no scene mixes two epochs.
THEOREM SceneSafety == Spec => []SceneUnmixed
<1>1. Inv => SceneUnmixed
  BY DEF Inv, Casting
<1>. QED
  BY <1>1, InvHolds, PTL

\* War3CollectRetiredShadowSessions never drops a session that a queued or
\* executing command still reads: the serial it waits for is signalled after
\* every such command.
THEOREM OutlivesSafety == Spec => []SessionOutlivesUse
<1>1. Inv => SessionOutlivesUse
  BY DEF Inv, Kept, SessionOutlivesUse
<1>. QED
  BY <1>1, InvHolds, PTL

\* With the arena capture path, the serial that a retired session waits for has
\* been signalled once its frame is over, by the transition or by
\* ShadowArenaBeginFrame.
THEOREM SignalledSafety == Spec => []RetiredSignalled
<1>1. ASSUME Inv, pc = "draw", present.arena, present.owned PROVE AllSignalled
  <2>1. /\ Typed /\ completed \in Nat /\ serial \in Nat
        /\ \A i \in 1 .. Len(stream) : stream[i].value \in Nat
    BY <1>1, Values DEF Inv
  <2>2. Signalled(serial)
    BY <1>1 DEF Inv, Signals
  <2>3. ASSUME NEW r \in retired, completed < r.serial, r.serial <= serial
        PROVE  \E i \in 1 .. Len(stream) : stream[i].op = "signal" /\ stream[i].value >= r.serial
    <3>1. r.serial \in Nat
      BY <2>1 DEF Typed
    <3>2. ~(completed >= serial)
      BY <2>1, <2>3, <3>1
    <3>3. PICK i \in 1 .. Len(stream) : stream[i].op = "signal" /\ stream[i].value >= serial
      BY <2>2, <3>2 DEF Signalled
    <3>4. stream[i].value >= r.serial
      BY <2>1, <2>3, <3>1, <3>3
    <3>. QED
      BY <3>3, <3>4
  <2>. QED
    BY <2>3 DEF AllSignalled
<1>2. Inv => RetiredSignalled
  BY <1>1 DEF RetiredSignalled
<1>. QED
  BY <1>2, InvHolds, PTL

\* A rebind whose SetDevice has succeeded always has an uncommitted device
\* transition that will clear the pending mark, whether or not a map reset came
\* first.
THEOREM RebindSafety == Spec => []RebindResolves
<1>1. Inv => RebindResolves
  BY DEF Inv, Typed, Bindings, RebindResolves, DeviceCommitted, DeviceReady
<1>. QED
  BY <1>1, InvHolds, PTL
=============================================================================
