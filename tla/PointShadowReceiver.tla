------------------------ MODULE PointShadowReceiver ------------------------
(***************************************************************************)
(* The point-shadow cube of War3ShadowReceiverPass: one run per frame on   *)
(* the CS thread plans the cube, records some of its faces and publishes   *)
(* it, or lets the previous publication stand.  A plan is made by the run  *)
(* itself, by a std::async call, or by the persistent prepare worker,      *)
(* whose mailbox is PrepareMailbox (implemented by PrepareWorker).         *)
(*                                                                         *)
(* One cube stands for the cubes of all lights.  A scene is what the faces *)
(* show: casters that hash to its shape, and the pose of the ones that are *)
(* skinned, which the hash does not see.  Lights are named by who made the *)
(* list and its generation; the two kinds count apart.                     *)
(***************************************************************************)
EXTENDS Naturals, FiniteSets

CONSTANTS
  NFaces,        \* faces of a cube
  Scenes,        \* records [shape, pose, dynamic]
  Policies,      \* settings: records [period, budget, resolution]
  Modes,         \* PointShadowPersistentMode, chosen once
  None,
  MaxFrame,      \* frames
  MaxAuthored,   \* generations of the light manager
  MaxEpoch       \* map and device epochs

Faces == 0 .. NFaces - 1

ASSUME ReceiverAssumption ==
  /\ NFaces \in Nat \ {0}
  /\ Modes \subseteq {"Off", "Observe", "Consume"}
  /\ Policies \subseteq [period : Nat \ {0}, budget : 1 .. NFaces, resolution : Nat]
  /\ None \notin Scenes

\* The shape hashes the palettes and the buffers, ranges and matrix of every caster
\* (7389-7459): when nothing is skinned it is all the faces show.
ASSUME ShapeAssumption ==
  /\ \A s, t \in Scenes : s.shape = t.shape /\ ~t.dynamic => s = t
  /\ \A s \in Scenes : s.shape # None /\ s.dynamic \in BOOLEAN

VARIABLES
  mode,
  frame,         \* input.frameSerial of the run in progress, or of the last one
  epoch,         \* m_shadowMapEpoch and m_shadowDeviceEpoch
  authored,      \* generation of War3LightManager
  pc,            \* where the run is
  in,            \* War3PipelineInput of the run
  plan,          \* m_pointShadowCpuPlan
  hist,          \* the publication as the planner sees it
  pub,           \* m_pointShadowPublished*
  cube,          \* the image: resource generation and resolution
  data,          \* m_pointShadowData: the lights whose matrices it holds
  drawn,         \* what each face of the image shows
  future,        \* m_pointShadowPrepareFuture is valid
  made,          \* m_pointShadowPersistentWorker exists
  pending,       \* m_pointShadowPersistentPendingGeneration, or None
  job,           \* the frozen request: what the worker reads
  serial,        \* m_pointShadowPersistentJobSerial
  renderer,      \* m_pointShadowPersistentRendererEpoch
  open, slot, last   \* the mailbox

run == <<frame, authored, pc, in>>
image == <<cube, drawn>>
published == <<hist, pub>>
mailbox == <<open, slot, last>>
worker == <<made, pending, job, serial, mailbox>>
owner == <<mode, epoch, renderer>>

vars == <<owner, run, plan, published, image, data, future, worker>>

Generations == [job : Nat, epoch : Nat, frame : Nat, light : Nat]

Slots == [gen : Generations, state : {"working", "Ready", "Failed", "Cancelled"}]

Lists == [by : {"native", "author"}, gen : Nat]

\* What a face may show.
Views == [scene : Scenes, lights : Lists]

\* An empty slot is neither a request nor an answer, an empty face shows nothing.
ASSUME EmptyAssumption == None \notin Generations /\ None \notin Slots /\ None \notin Views

Mailbox == INSTANCE PrepareMailbox WITH Gen <- Generations

-----------------------------------------------------------------------------
(* One run's input.                                                        *)

\* The author's list is numbered by the manager; a native list takes the frame
\* serial for its generation.
ListOf(native, f) ==
  IF native THEN [by |-> "native", gen |-> f] ELSE [by |-> "author", gen |-> authored]

\* A run with native lights has settings of its own, without reuse.
Policy == IF in.native THEN [in.policy EXCEPT !.period = 1] ELSE in.policy

Incremental(p) == p.period > 1 \/ p.budget < NFaces

\* Only a policy that may keep faces pays for looking at the casters.
Shape(p, scene) == IF Incremental(p) THEN scene.shape ELSE None

SignatureByGeneration(l, p, scene) ==   \* Mutant: lights by generation alone
  [lights |-> l.gen, resolution |-> p.resolution, shape |-> Shape(p, scene)]

Signature(l, p, scene) ==
  [lights |-> l, resolution |-> p.resolution, shape |-> Shape(p, scene)]

Dynamic(p, scene) == Incremental(p) /\ scene.dynamic

(* Plans and publications.                                                 *)

NoPlan == [ready |-> FALSE, failed |-> FALSE, render |-> FALSE, reuse |-> FALSE,
           frame |-> 0, light |-> 0, sig |-> None, mask |-> {}]

Named(p) == [p EXCEPT !.frame = frame, !.light = in.lights.gen]

\* A plan made for this run and its lights.
ReadyPlan(render, reuse, sig, mask) ==
  [ready |-> TRUE, failed |-> FALSE, render |-> render, reuse |-> reuse,
   frame |-> frame, light |-> in.lights.gen, sig |-> sig, mask |-> mask]

FailedPlan == [ReadyPlan(FALSE, FALSE, None, {}) EXCEPT !.failed = TRUE]

NoHistory == [ready |-> FALSE, sig |-> None, age |-> 0, valid |-> {},
              faceAge |-> [f \in Faces |-> 0]]

NoPub == [light |-> 0, frame |-> 0, epoch |-> 0, cube |-> 0, policy |-> None]

\* invalidatePointShadowPublishedState
Revoke == hist' = NoHistory /\ pub' = NoPub

\* pointShadowPublishedStateMatchesCurrentPlan
Matches ==
  /\ pub.epoch = epoch /\ pub.cube = cube.gen /\ pub.cube # 0
  /\ hist.ready /\ plan.ready /\ ~plan.failed
  /\ \/ pub.frame = plan.frame
     \/ (plan.reuse /\ pub.frame < plan.frame)
  /\ pub.frame # 0 /\ plan.light # 0
  /\ plan.sig = hist.sig /\ plan.light = pub.light

(* Planning.  The owner's planner and the worker's are two functions.      *)

Heavier(w, f, g) == w[f] > w[g] \/ (w[f] = w[g] /\ f < g)

\* The n faces that waited longest; one that is not valid comes first.
Oldest(n, w) == {f \in Faces : Cardinality({g \in Faces : Heavier(w, g, f)}) < n}

Weights(valid, ages) ==
  [f \in Faces |-> ages[f] + IF f \in valid THEN 0 ELSE 1000]

\* preparePointShadowCpuPlan: the plan, and what it does to the owner's state.
Canonical ==
  LET sig == Signature(in.lights, Policy, in.scene)
      dynamic == Dynamic(Policy, in.scene)
      unchanged == cube.gen # 0 /\ hist.ready /\ hist.sig = sig
      force == ~unchanged \/ dynamic
      valid == IF force THEN {} ELSE hist.valid
      mask == IF force THEN Faces
              ELSE Oldest(Policy.budget, Weights(valid, hist.faceAge))
  IN  IF unchanged /\ ~dynamic /\ hist.age + 1 < Policy.period
      THEN [plan |-> ReadyPlan(FALSE, TRUE, sig, {}),
            hist |-> [hist EXCEPT !.age = @ + 1], data |-> data]
      ELSE [plan |-> ReadyPlan(TRUE, FALSE, sig, mask),
            hist |-> [hist EXCEPT !.age = 0, !.valid = valid],
            data |-> in.lights]

\* beginPointShadowPersistentPrepare: the value snapshot a request carries.
Freeze ==
  [scene |-> in.scene, lights |-> in.lights, policy |-> Policy,
   cube |-> cube.gen # 0, hist |-> hist]

\* BuildWar3PointShadowCpuPlan, the worker's planner, on what was frozen for it.
ProposalAged(j) ==   \* Mutant: the last reuse of a period is one too late
  LET sig == Signature(j.lights, j.policy, j.scene)
      unchanged == j.cube /\ j.hist.ready /\ j.hist.sig = sig
      reuse == unchanged /\ ~Dynamic(j.policy, j.scene) /\ j.hist.age < j.policy.period
  IN  [reuse |-> reuse, sig |-> sig, force |-> ~reuse,
       age |-> IF reuse THEN j.hist.age + 1 ELSE 0, mask |-> IF reuse THEN {} ELSE Faces]

Proposal(j) ==
  LET sig == Signature(j.lights, j.policy, j.scene)
      dynamic == Dynamic(j.policy, j.scene)
      unchanged == j.cube /\ j.hist.ready /\ j.hist.sig = sig
      reuse == unchanged /\ ~dynamic /\ j.hist.age + 1 < j.policy.period
      force == ~unchanged \/ dynamic
      chosen == IF force THEN Faces
                ELSE Oldest(j.policy.budget, Weights(j.hist.valid, j.hist.faceAge))
  IN  [reuse |-> reuse, sig |-> sig, force |-> force,
       age |-> IF reuse THEN j.hist.age + 1 ELSE 0,
       mask |-> IF reuse THEN {} ELSE chosen]

\* Everything frozen is compared with the present, and its seals too.
Exact(j) == j = Freeze

\* A reuse needs a publication of the same lights, by an earlier frame.
ReuseExact(p) ==
  p.reuse => pub.light = in.lights.gen /\ pub.frame # 0 /\ pub.frame < frame

\* adoptPointShadowPersistent*Proposal: what becomes of the owner's state.
Adopted(p) ==
  [plan |-> ReadyPlan(~p.reuse, p.reuse, p.sig, p.mask),
   hist |-> [hist EXCEPT !.age = p.age, !.valid = IF p.force THEN {} ELSE @],
   data |-> IF p.reuse THEN data ELSE in.lights]

Becomes(r) == plan' = r.plan /\ hist' = r.hist /\ data' = r.data

-----------------------------------------------------------------------------
Init ==
  /\ mode \in Modes
  /\ frame = 0 /\ epoch = 1 /\ authored = 1 /\ renderer = 1
  /\ pc = "idle" /\ in = None
  /\ plan = NoPlan /\ hist = NoHistory /\ pub = NoPub
  /\ cube = [gen |-> 0, resolution |-> 0]
  /\ data = None /\ drawn = [f \in Faces |-> None]
  /\ future = FALSE
  /\ made = FALSE /\ pending = None /\ job = None /\ serial = 0
  /\ open = FALSE /\ slot = None /\ last = None

\* War3LightManager: a change is seen by the snapshot of a later frame.
LightsChange ==
  /\ pc = "idle" /\ authored < MaxAuthored
  /\ authored' = authored + 1
  /\ UNCHANGED <<owner, frame, pc, in, plan, published, image, data, future, worker>>

\* InvalidateMapEpoch, in command-stream order between two runs.  The worker is
\* joined and dropped with whatever it held.
InvalidateMapEpoch ==
  /\ pc \in {"idle", "disabled"} /\ epoch < MaxEpoch
  /\ epoch' = epoch + 1 /\ renderer' = renderer + 1
  /\ made' = FALSE /\ pending' = None /\ job' = None
  /\ open' = FALSE /\ slot' = None /\ last' = None
  /\ plan' = NoPlan /\ Revoke
  /\ UNCHANGED <<mode, run, image, data, future, serial>>

-----------------------------------------------------------------------------
(* The run up to the recording.                                            *)

NextFrame == frame < MaxFrame /\ frame' = frame + 1

\* A frame without a run, or one that leaves before point shadows are looked at,
\* with the old plan or, for want of a camera, with none.
RunLeavesEarly ==
  /\ pc = "idle" /\ NextFrame
  /\ Revoke \/ UNCHANGED published
  /\ plan' \in {plan, NoPlan}
  /\ UNCHANGED <<owner, authored, pc, in, image, data, future, worker>>

\* Point shadows are off, there is no light, or the scene's producer was not
\* complete: then a plan begun has failed, unnamed, and no cube is drawn.
RunDisabled ==
  /\ pc = "idle" /\ NextFrame
  /\ Revoke /\ plan' \in {NoPlan, [NoPlan EXCEPT !.failed = TRUE]}
  /\ UNCHANGED <<owner, authored, pc, in, image, data, future, worker>>

\* The casters may be gone, and a removal or a policy change revokes the history.
Enter(scene, policy, native) ==
  /\ pc = "idle" /\ NextFrame
  /\ in' = [scene |-> scene, policy |-> policy, native |-> native,
            lights |-> ListOf(native, frame + 1), canonical |-> FALSE]
  /\ pc' = "entered" /\ plan' = NoPlan
  /\ Revoke \/ UNCHANGED published
  /\ UNCHANGED <<owner, authored, image, data, future, worker>>

\* beginPointShadowCpuPrepare is not reached, or finds nothing to do.
BeginNothing ==
  /\ pc = "entered" /\ pc' = "begun"
  /\ UNCHANGED <<owner, frame, authored, in, plan, published, image, data, future, worker>>

Worth == pc = "entered" /\ in.scene # None

Persistent == mode # "Off" /\ ~in.native

BeginAsync ==
  /\ Worth /\ ~Persistent
  /\ pc' = "begun" /\ future' = TRUE /\ plan' = Named(NoPlan)
  /\ UNCHANGED <<owner, frame, authored, in, published, image, data, worker>>

\* The asynchronous planner finishes at some time before the run waits for it.
AsyncPlans ==
  /\ future /\ future' = FALSE /\ Becomes(Canonical)
  /\ UNCHANGED <<owner, run, pub, image, worker>>

\* It throws, or could not be launched: a named plan that fails closed.
AsyncFails ==
  /\ future /\ future' = FALSE
  /\ plan' = FailedPlan /\ Revoke
  /\ UNCHANGED <<owner, run, image, data, worker>>

\* The worker is created by the first run that wants it; its thread may not start.
CreateWorker ==
  /\ Worth /\ Persistent /\ ~made
  /\ made' = TRUE /\ open' \in BOOLEAN
  /\ UNCHANGED <<owner, run, plan, published, image, data, future,
                 pending, job, serial, slot, last>>

Wanted == Worth /\ Persistent /\ made

\* A request of an earlier frame is reclaimed before a new one is made.
BeginReclaims ==
  /\ Wanted /\ pending # None /\ Mailbox!Answered /\ slot.gen = pending
  /\ Mailbox!Take /\ pending' = None /\ job' = None
  /\ UNCHANGED <<owner, run, plan, published, image, data, future, made, serial>>

NextGeneration == [job |-> serial + 1, epoch |-> renderer, frame |-> frame,
                   light |-> in.lights.gen]

BeginSubmits ==
  /\ Wanted /\ pending = None
  /\ Mailbox!Accept(NextGeneration)
  /\ pending' = NextGeneration /\ job' = Freeze
  /\ serial' = serial + 1
  /\ pc' = "begun" /\ plan' = Named(NoPlan)
  /\ UNCHANGED <<owner, frame, authored, in, published, image, data, future, made>>

\* The worker cannot be made, the earlier request is still in work, the freeze
\* ran out of memory or the worker refused; then the serial is spent all the same.
BeginRejected ==
  /\ Worth /\ Persistent
  /\ \/ (made => pending # None /\ ~Mailbox!Answered) /\ UNCHANGED serial
     \/ made /\ pending = None /\ serial' \in {serial, serial + 1}
  /\ pc' = "begun" /\ plan' = Named(NoPlan)
  /\ UNCHANGED <<owner, frame, authored, in, published, image, data, future,
                 made, pending, job, mailbox>>

\* The worker's side of the mailbox.
WorkerStep ==
  /\ Mailbox!Finish \/ Mailbox!Fault
  /\ UNCHANGED <<owner, run, plan, published, image, data, future,
                 made, pending, job, serial>>

-----------------------------------------------------------------------------
(* renderPointShadow.                                                      *)

Planning == pc = "begun" /\ ~future

Ours == pending # None /\ pending.frame = frame /\ pending.light = in.lights.gen

\* A request of this run that has been answered.
Collectable ==
  /\ Planning /\ Persistent /\ ~in.canonical /\ Ours
  /\ Mailbox!Answered /\ slot.gen = pending

Accepted ==
  /\ slot.state = "Ready" /\ Exact(job) /\ ReuseExact(Proposal(job))

PlanNamesSnapshot ==
  /\ ~in.canonical /\ plan.ready
  /\ plan.light = in.lights.gen /\ plan.frame = frame

\* Without draws there is nothing to plan, and nothing stays published.
PlanHere ==
  IF PlanNamesSnapshot THEN UNCHANGED <<plan, published, data>>
  ELSE IF in.scene = None
  THEN plan' = ReadyPlan(FALSE, FALSE, None, {}) /\ Revoke /\ UNCHANGED data
  ELSE Becomes(Canonical) /\ UNCHANGED pub

PlanForgets ==   \* Mutant: the request is forgotten although it is not ready
  /\ Planning /\ ~Collectable
  /\ PlanHere
  /\ pc' = "planned" /\ pending' = None /\ job' = None
  /\ UNCHANGED <<owner, frame, authored, in, image, future, made, serial, mailbox>>

\* Nothing to collect: another frame's request, or one still in work.
PlanWithoutProposal ==
  /\ Planning /\ ~Collectable
  /\ PlanHere
  /\ pc' = "planned"
  /\ UNCHANGED <<owner, frame, authored, in, image, future, worker>>

\* The proposal is used, compared with the canonical plan, or thrown away.
PlanWithProposal ==
  /\ Collectable
  /\ Mailbox!Take /\ pending' = None /\ job' = None
  /\ IF Accepted /\ mode = "Consume"
     THEN Becomes(Adopted(Proposal(job))) /\ UNCHANGED pub
     ELSE PlanHere
  /\ pc' = "planned"
  /\ UNCHANGED <<owner, frame, authored, in, image, future, made, serial>>

Planned == pc = "planned"

\* The plan failed, or draws nothing: the old cube stays if it is exactly it.
KeepOrRevoke ==
  /\ Planned /\ ~plan.render
  /\ IF ~plan.failed /\ Matches THEN UNCHANGED published ELSE Revoke
  /\ pc' = "rendered"
  /\ UNCHANGED <<owner, frame, authored, in, plan, image, data, future, worker>>

\* No cube is drawn: a draw is stale, the resources are missing or in their
\* retry delay, a pipeline or a view is missing, or the palette is.
RenderRefused ==
  /\ pc \in {"planned", "ensured"} /\ plan.render
  /\ Revoke /\ plan' = [plan EXCEPT !.render = FALSE]
  /\ pc' = "rendered"
  /\ UNCHANGED <<owner, frame, authored, in, image, data, future, worker>>

\* ensurePointShadowResources: a new image has no face.
EnsureCube ==
  /\ Planned /\ plan.render /\ pc' = "ensured"
  /\ IF cube.gen # 0 /\ cube.resolution = Policy.resolution
     THEN UNCHANGED <<image, published>>
     ELSE /\ cube' = [gen |-> cube.gen + 1, resolution |-> Policy.resolution]
          /\ drawn' = [f \in Faces |-> None]
          /\ Revoke
  /\ UNCHANGED <<owner, frame, authored, in, plan, data, future, worker>>

\* War3GpuCanHoldPointShadowLastComplete, which compares the lights one by one.
CanHold ==
  /\ pub.epoch = epoch /\ pub.cube = cube.gen /\ hist.ready /\ hist.valid = Faces
  /\ pub.light = in.lights.gen /\ data = in.lights /\ pub.policy = Policy

\* The governor has no budget for the whole batch: the last complete cube is
\* named by the plan, or revoked.
BudgetRejects ==
  /\ pc = "ensured" /\ pc' = "rendered"
  /\ IF CanHold
     THEN /\ plan' = ReadyPlan(FALSE, TRUE, hist.sig, {})
          /\ hist' = [hist EXCEPT !.age = @ + 1]
          /\ UNCHANGED pub
     ELSE Revoke /\ plan' = [plan EXCEPT !.render = FALSE]
  /\ UNCHANGED <<owner, frame, authored, in, image, data, future, worker>>

Show == [scene |-> in.scene, lights |-> data]

Drawing(S) == drawn' = [f \in Faces |-> IF f \in S THEN Show ELSE drawn[f]]

Record ==
  /\ pc = "ensured" /\ pc' = "rendered"
  /\ Drawing(plan.mask)
  /\ LET valid == hist.valid \cup plan.mask IN
       hist' = [hist EXCEPT !.valid = valid, !.ready = (valid = Faces), !.sig = plan.sig,
                  !.faceAge = [f \in Faces |-> IF f \in plan.mask THEN 0 ELSE @[f] + 1]]
  /\ pub' = [light |-> plan.light, frame |-> frame, epoch |-> epoch,
             cube |-> cube.gen, policy |-> Policy]
  /\ UNCHANGED <<owner, frame, authored, in, plan, cube, data, future, worker>>

\* A command throws after some faces: everything is revoked and the pipeline
\* disables the pass.
RecordThrows ==
  /\ pc = "ensured" /\ pc' = "disabled"
  /\ \E S \in SUBSET plan.mask : Drawing(S)
  /\ Revoke
  /\ UNCHANGED <<owner, frame, authored, in, plan, cube, data, future, worker>>

\* Another part of the pass throws, before the cube or after it.
RunThrows ==
  /\ pc \in {"entered", "begun", "rendered"} /\ ~in.canonical /\ ~future
  /\ pc' = "disabled"
  /\ UNCHANGED <<owner, frame, authored, in, plan, published, image, data, future, worker>>

-----------------------------------------------------------------------------
(* The end of the run.                                                     *)

NativeComplete ==
  Matches /\ pub.frame = frame /\ pub.light = in.lights.gen /\ hist.valid = Faces

Leave ==
  /\ pc = "rendered" /\ pc' = "idle"
  /\ in.native => NativeComplete
  /\ UNCHANGED <<owner, frame, authored, in, plan, published, image, data, future, worker>>

\* The native lights are given up in the middle of the run; the author's lights
\* get one canonical attempt of their own, or have no shadow.
AuthorFallback ==
  /\ pc = "rendered" /\ in.native
  /\ in' = [in EXCEPT !.native = FALSE, !.canonical = TRUE, !.lights = ListOf(FALSE, frame)]
  /\ \/ pc' = "begun" /\ UNCHANGED published
     \/ pc' = "rendered" /\ Revoke
  /\ UNCHANGED <<owner, frame, authored, plan, image, data, future, worker>>

Next ==
  \/ LightsChange \/ InvalidateMapEpoch
  \/ RunLeavesEarly \/ RunDisabled
  \/ \E scene \in Scenes \cup {None}, policy \in Policies, native \in BOOLEAN :
       Enter(scene, policy, native)
  \/ BeginNothing \/ BeginAsync \/ AsyncPlans \/ AsyncFails
  \/ CreateWorker \/ BeginReclaims \/ BeginSubmits \/ BeginRejected
  \/ WorkerStep
  \/ PlanWithoutProposal \/ PlanWithProposal
  \/ KeepOrRevoke \/ RenderRefused \/ EnsureCube \/ BudgetRejects
  \/ Record \/ RecordThrows \/ RunThrows
  \/ Leave \/ AuthorFallback

Spec == Init /\ [][Next]_vars
-----------------------------------------------------------------------------
(* Properties.                                                             *)

\* The receiver draws with the cube, and the volumetric pass after it.
Sampled ==
  pc \in {"idle", "disabled"} /\ Matches /\ plan.frame = frame

\* A cube that ignores the casters is named again for want of budget.
Held == plan.reuse /\ ~Incremental(Policy)

\* A cube that is sampled has every face, all faces show one scene under the
\* lights whose matrices are uploaded with it, and these are the lights and,
\* unless the last complete cube was held, the scene of this frame: faces kept
\* from earlier frames (8407, 8704), plans made elsewhere, native lists given up
\* in mid-run and a pass that throws never mix two of them.
CubeWhole ==
  Sampled =>
    /\ data = in.lights
    /\ \A f \in Faces :
         /\ drawn[f] # None /\ drawn[f] = drawn[0] /\ drawn[f].lights = in.lights
         /\ Held \/ drawn[f].scene = in.scene

\* Whenever a proposal passes the owner's comparisons (6710-6945), adopting it
\* leaves the plan, the history and the matrices exactly as planning in this
\* frame would have: the two planners agree, also in Observe mode.
ProposalIsCanonical ==
  Collectable /\ Accepted => Adopted(Proposal(job)) = Canonical

\* While a request is pending it is the one in the worker's slot, and otherwise
\* the slot is empty: no request is orphaned there, where it would refuse every
\* later one (6512-6532), through rejections, epochs and a worker that gives up.
PendingIsTheSlot ==
  /\ pending = None <=> slot = None
  /\ pending # None => slot.gen = pending /\ made /\ pending.epoch = renderer

=============================================================================
