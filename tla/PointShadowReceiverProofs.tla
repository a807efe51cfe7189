---------------------- MODULE PointShadowReceiverProofs ----------------------
(***************************************************************************)
(* Proofs about the point-shadow receiver, for any scenes, policies and    *)
(* number of faces, and without the bounds on frames, lights and epochs.   *)
(***************************************************************************)
EXTENDS PointShadowReceiver, FiniteSetTheorems, TLAPS

Inputs ==
  [scene : Scenes \cup {None}, policy : Policies, native : BOOLEAN,
   lights : Lists, canonical : BOOLEAN]

\* The parts of the state a generation is made from, and the places it is kept.
Typed ==
  /\ frame \in Nat /\ authored \in Nat /\ serial \in Nat /\ renderer \in Nat
  /\ pc # "idle" => in \in Inputs
  /\ pending \in Generations \cup {None}
  /\ slot \in Slots \cup {None}

Inv == Typed /\ PendingIsTheSlot

\* Only these five are what Inv reads of the worker.
line == <<pending, slot, made, serial, renderer>>

-----------------------------------------------------------------------------
\* A run's steps that leave the worker alone.
LEMMA RunStep ==
  ASSUME Inv, UNCHANGED line,
         frame' \in Nat, authored' \in Nat, pc' # "idle" => in' \in Inputs
  PROVE  Inv'
BY DEF Inv, Typed, PendingIsTheSlot, line

\* The generation of a run's request is one of Generations.
LEMMA NextGenerationType ==
  ASSUME Typed, pc # "idle" PROVE NextGeneration \in Generations
BY DEF Typed, Inputs, Lists, NextGeneration, Generations

\* The author's list and the native one are both numbered.
LEMMA ListType ==
  ASSUME NEW native \in BOOLEAN, NEW f \in Nat, authored \in Nat
  PROVE  ListOf(native, f) \in Lists
BY DEF ListOf, Lists

\* The worker answers in place: the slot stays taken, by the same request.
LEMMA WorkerStepInv == Inv /\ WorkerStep => Inv'
<1> SUFFICES ASSUME Inv, WorkerStep PROVE Inv'
  OBVIOUS
<1>1. UNCHANGED <<frame, authored, serial, renderer, pc, in, pending, made>>
  BY DEF WorkerStep, owner, run
<1>2. \/ slot' = slot
      \/ slot # None /\ \E s \in {"Ready", "Failed", "Cancelled"} :
           slot' = [gen |-> slot.gen, state |-> s]
  BY DEF WorkerStep, Mailbox!Finish, Mailbox!Fault, Mailbox!Working, Mailbox!In
<1>3. CASE slot' = slot
  BY <1>1, <1>3 DEF Inv, Typed, PendingIsTheSlot
<1>4. ASSUME slot # None, NEW s \in {"Ready", "Failed", "Cancelled"},
             slot' = [gen |-> slot.gen, state |-> s]
      PROVE  Inv'
  <2>1. slot' \in Slots /\ slot'.gen = slot.gen
    BY <1>4 DEF Inv, Typed, Slots
  <2>2. slot' # None
    BY <2>1, EmptyAssumption
  <2>. QED
    BY <1>1, <1>4, <2>1, <2>2 DEF Inv, Typed, PendingIsTheSlot
<1>. QED
  BY <1>2, <1>3, <1>4

\* A request enters the slot and the owner's hands in one step.
LEMMA SubmitInv == Inv /\ BeginSubmits => Inv'
<1> SUFFICES ASSUME Inv, BeginSubmits PROVE Inv'
  OBVIOUS
<1>1. NextGeneration \in Generations
  BY NextGenerationType DEF Inv, BeginSubmits, Wanted, Worth
<1>2. /\ pending' = NextGeneration /\ slot' = [gen |-> NextGeneration, state |-> "working"]
      /\ serial' = serial + 1 /\ pc' = "begun" /\ made
      /\ UNCHANGED <<frame, authored, renderer, in, made>>
  BY DEF BeginSubmits, Wanted, Mailbox!Accept, Mailbox!In, owner
<1>3. slot' \in Slots /\ slot'.gen = pending'
  BY <1>1, <1>2 DEF Slots
<1>4. pending' # None /\ slot' # None
  BY <1>1, <1>2, <1>3, EmptyAssumption
<1>5. pending'.epoch = renderer'
  BY <1>2 DEF NextGeneration
<1>6. Typed'
  <2>1. in \in Inputs
    BY DEF Inv, Typed, BeginSubmits, Wanted, Worth
  <2>. QED
    BY <1>1, <1>2, <1>3, <2>1 DEF Inv, Typed
<1>. QED
  BY <1>2, <1>3, <1>4, <1>5, <1>6 DEF Inv, PendingIsTheSlot

\* An answer leaves the slot and the owner's hands in one step.
LEMMA TakeInv ==
  ASSUME Inv, Mailbox!Take, pending' = None,
         UNCHANGED <<frame, authored, serial, renderer, made, in>>,
         pc # "idle"
  PROVE  Inv'
BY DEF Inv, Typed, PendingIsTheSlot, Mailbox!Take

-----------------------------------------------------------------------------
LEMMA InitInv == Init => Inv
BY DEF Init, Inv, Typed, PendingIsTheSlot

\* Every step preserves the invariant.
LEMMA StepInv == Inv /\ [Next]_vars => Inv'
<1> SUFFICES ASSUME Inv, [Next]_vars PROVE Inv'
  OBVIOUS
<1> USE DEF Inv, Typed
<1>1. CASE LightsChange
  BY <1>1, RunStep DEF LightsChange, owner, worker, mailbox, line
<1>2. CASE InvalidateMapEpoch
  BY <1>2 DEF InvalidateMapEpoch, run, PendingIsTheSlot
<1>3. CASE RunLeavesEarly \/ RunDisabled
  BY <1>3, RunStep DEF RunLeavesEarly, RunDisabled, NextFrame, owner, worker, mailbox, line
<1>4. ASSUME NEW scene \in Scenes \cup {None}, NEW policy \in Policies,
             NEW native \in BOOLEAN, Enter(scene, policy, native)
      PROVE  Inv'
  <2>1. frame + 1 \in Nat /\ frame' = frame + 1
    BY <1>4 DEF Enter, NextFrame
  <2>2. in' \in Inputs
    BY <1>4, <2>1, ListType DEF Enter, Inputs
  <2>. QED
    BY <1>4, <2>1, <2>2, RunStep DEF Enter, owner, worker, mailbox, line
<1>5. CASE BeginNothing \/ BeginAsync \/ AsyncPlans \/ AsyncFails
  BY <1>5, RunStep
     DEF BeginNothing, BeginAsync, Worth, AsyncPlans, AsyncFails, owner, run, worker,
         mailbox, line
<1>6. CASE CreateWorker
  BY <1>6 DEF CreateWorker, PendingIsTheSlot, owner, run
<1>7. CASE BeginReclaims
  BY <1>7, TakeInv DEF BeginReclaims, Wanted, Worth, owner, run
<1>8. CASE BeginSubmits
  BY <1>8, SubmitInv
<1>9. CASE BeginRejected
  BY <1>9 DEF BeginRejected, Worth, PendingIsTheSlot, owner, mailbox
<1>10. CASE WorkerStep
  BY <1>10, WorkerStepInv
<1>11. CASE PlanWithoutProposal
  BY <1>11, RunStep DEF PlanWithoutProposal, Planning, owner, worker, mailbox, line
<1>12. CASE PlanWithProposal
  BY <1>12, TakeInv DEF PlanWithProposal, Collectable, Planning, owner
<1>13. CASE KeepOrRevoke \/ RenderRefused \/ EnsureCube \/ BudgetRejects
  BY <1>13, RunStep
     DEF KeepOrRevoke, RenderRefused, EnsureCube, BudgetRejects, Planned, owner, worker,
         mailbox, line
<1>14. CASE Record \/ RecordThrows \/ RunThrows
  BY <1>14, RunStep DEF Record, RecordThrows, RunThrows, owner, worker, mailbox, line
<1>15. CASE Leave
  BY <1>15, RunStep DEF Leave, owner, worker, mailbox, line
<1>16. CASE AuthorFallback
  <2>1. in' \in Inputs
    BY <1>16, ListType DEF AuthorFallback, Inputs
  <2>. QED
    BY <1>16, <2>1, RunStep DEF AuthorFallback, owner, worker, mailbox, line
<1>17. CASE UNCHANGED vars
  BY <1>17, RunStep DEF vars, owner, run, worker, mailbox, line
<1>. QED
  BY <1>1, <1>2, <1>3, <1>4, <1>5, <1>6, <1>7, <1>8, <1>9, <1>10, <1>11, <1>12, <1>13,
     <1>14, <1>15, <1>16, <1>17 DEF Next

\* A pending request is always the one in the worker's slot, under the epoch of
\* the receiver, and without one the slot is empty (6512-6532 of d3d9_war3_shadow.cpp).
THEOREM PendingSafety == Spec => []PendingIsTheSlot
<1>1. Inv => PendingIsTheSlot
  BY DEF Inv
<1>. QED
  BY InitInv, StepInv, <1>1, PTL DEF Spec

-----------------------------------------------------------------------------
(* The two planners.                                                       *)

Signatures ==
  [lights : Lists, resolution : Nat, shape : {s.shape : s \in Scenes} \cup {None}]

Histories ==
  [ready : BOOLEAN, sig : Signatures \cup {None}, age : Nat, valid : SUBSET Faces,
   faceAge : [Faces -> Nat]]

Plans ==
  [ready : BOOLEAN, failed : BOOLEAN, render : BOOLEAN, reuse : BOOLEAN,
   frame : Nat, light : Nat, sig : Signatures \cup {None}, mask : SUBSET Faces]

\* The worker's plan for what is present, adopted, is the owner's own plan.
LEMMA AdoptedIsCanonical ==
  ASSUME hist \in Histories, job = Freeze
  PROVE  Adopted(Proposal(job)) = Canonical
<1>. DEFINE sig == Signature(in.lights, Policy, in.scene)
            dynamic == Dynamic(Policy, in.scene)
            unchanged == cube.gen # 0 /\ hist.ready /\ hist.sig = sig
            reuse == unchanged /\ ~dynamic /\ hist.age + 1 < Policy.period
            force == ~unchanged \/ dynamic
            valid == IF force THEN {} ELSE hist.valid
            chosen == IF force THEN Faces
                      ELSE Oldest(Policy.budget, Weights(hist.valid, hist.faceAge))
            p == [reuse |-> reuse, sig |-> sig, force |-> force,
                  age |-> IF reuse THEN hist.age + 1 ELSE 0,
                  mask |-> IF reuse THEN {} ELSE chosen]
<1>1. /\ job.scene = in.scene /\ job.lights = in.lights /\ job.policy = Policy
      /\ job.cube = (cube.gen # 0) /\ job.hist = hist
  BY DEF Freeze
<1>2. Proposal(job) = p
  BY <1>1 DEF Proposal
<1>3. Canonical = IF reuse
                  THEN [plan |-> ReadyPlan(FALSE, TRUE, sig, {}),
                        hist |-> [hist EXCEPT !.age = hist.age + 1], data |-> data]
                  ELSE [plan |-> ReadyPlan(TRUE, FALSE, sig, chosen),
                        hist |-> [hist EXCEPT !.age = 0, !.valid = valid],
                        data |-> in.lights]
  <2>1. chosen = IF force THEN Faces
                 ELSE Oldest(Policy.budget, Weights(valid, hist.faceAge))
    OBVIOUS
  <2>. QED
    BY <2>1 DEF Canonical
<1>4. (reuse => ~force) /\ force \in BOOLEAN /\ reuse \in BOOLEAN
  OBVIOUS
<1>5. hist = [ready |-> hist.ready, sig |-> hist.sig, age |-> hist.age, valid |-> hist.valid,
              faceAge |-> hist.faceAge]
  BY DEF Histories
<1>. HIDE DEF sig, reuse, force, chosen
<1>6. CASE reuse
  <2>1. p.reuse = TRUE /\ (~p.reuse) = FALSE /\ p.force = FALSE /\ p.mask = {}
        /\ p.sig = sig /\ p.age = hist.age + 1
    BY <1>4, <1>6
  <2>. HIDE DEF p
  <2>2. [hist EXCEPT !.age = p.age, !.valid = IF p.force THEN {} ELSE @]
          = [hist EXCEPT !.age = hist.age + 1]
    BY <2>1, <1>5
  <2>3. Adopted(p) = [plan |-> ReadyPlan(FALSE, TRUE, sig, {}),
                      hist |-> [hist EXCEPT !.age = hist.age + 1], data |-> data]
    BY <2>1, <2>2 DEF Adopted
  <2>. QED
    BY <1>2, <1>3, <1>6, <2>3
<1>7. CASE ~reuse
  <2>1. p.reuse = FALSE /\ (~p.reuse) = TRUE /\ p.force = force /\ p.mask = chosen
        /\ p.sig = sig /\ p.age = 0
    BY <1>4, <1>7
  <2>. HIDE DEF p
  <2>2. [hist EXCEPT !.age = p.age, !.valid = IF p.force THEN {} ELSE @]
          = [hist EXCEPT !.age = 0, !.valid = valid]
    BY <2>1, <1>5
  <2>3. Adopted(p) = [plan |-> ReadyPlan(TRUE, FALSE, sig, chosen),
                      hist |-> [hist EXCEPT !.age = 0, !.valid = valid],
                      data |-> in.lights]
    BY <2>1, <2>2 DEF Adopted
  <2>. QED
    BY <1>2, <1>3, <1>7, <2>3
<1>. QED
  BY <1>6, <1>7

-----------------------------------------------------------------------------
(* One whole cube.                                                         *)

\* The publication h, with matrices d, names a cube whose faces all show one scene.
Whole(h, d) ==
  h.ready =>
    /\ h.valid = Faces
    /\ cube.gen # 0 /\ cube.resolution = h.sig.resolution
    /\ d = h.sig.lights
    /\ \A f \in Faces :
         /\ drawn[f] \in Views /\ drawn[f] = drawn[0]
         /\ drawn[f].lights = h.sig.lights
         /\ h.sig.shape # None => drawn[f].scene.shape = h.sig.shape

\* A plan for the lights and the casters of this run.
Current(p) ==
  in.scene \in Scenes /\ p.sig = Signature(in.lights, Policy, in.scene)

\* A plan that draws: every face anew, or some faces of a cube that shows this scene.
Redraws(p, h, d) ==
  /\ Current(p) /\ d = in.lights /\ ~p.reuse
  /\ \/ p.mask = Faces /\ h.valid = {}
     \/ /\ Whole(h, d) /\ h.ready /\ h.sig = p.sig
        /\ IF Incremental(Policy) THEN ~in.scene.dynamic ELSE p.mask = Faces

\* A plan that keeps the cube.
Keeps(p, h) ==
  Current(p) /\ h.sig = p.sig /\ Incremental(Policy) /\ ~in.scene.dynamic

\* What a plan of this run is, with the history and the matrices it leaves.
Fits(p, h, d) ==
  /\ p.ready /\ p.frame = frame /\ p.light = in.lights.gen
  /\ p.render => Redraws(p, h, d)
  /\ ~p.render => Whole(h, d)
  /\ p.reuse => Keeps(p, h)
  /\ ~p.render /\ ~p.reuse => ~h.ready

\* A plan of this run is in force and not yet carried out.
PlanOpen ==
  pc \in {"planned", "ensured"} \/ (pc = "begun" /\ ~in.canonical /\ plan.ready)

RunTyped ==
  /\ hist \in Histories /\ plan \in Plans /\ cube.gen \in Nat
  /\ plan.frame <= frame /\ pub.frame \in Nat /\ pub.frame <= frame

\* Only a run after its recording has a publication of its own frame.
Timing ==
  /\ pc = "entered" => ~plan.ready /\ ~in.canonical
  /\ pc \in {"entered", "begun"} /\ ~in.canonical => pub.frame < frame
  /\ pc = "begun" /\ ~in.canonical /\ plan.ready => ~Persistent
  /\ future => /\ pc = "begun" /\ ~in.canonical /\ ~plan.ready
               /\ ~Persistent /\ in.scene \in Scenes
  /\ pending # None => job.scene \in Scenes

\* The image a plan that draws was given.
Ensured ==
  pc = "ensured" => plan.render /\ cube.gen # 0 /\ cube.resolution = Policy.resolution

\* The faces show this frame's lights and, unless they are held, its scene.
Shown ==
  /\ data = in.lights
  /\ \A f \in Faces :
       /\ drawn[f] # None /\ drawn[f] = drawn[0] /\ drawn[f].lights = in.lights
       /\ Held \/ drawn[f].scene = in.scene

Showing ==
  pc \in {"rendered", "idle", "disabled"} /\ Matches /\ plan.frame = frame => Shown

CubeInv ==
  /\ RunTyped /\ Timing
  /\ PlanOpen => Fits(plan, hist, data)
  /\ ~PlanOpen /\ pc # "disabled" => Whole(hist, data)
  /\ Ensured /\ Showing

\* The settings of a run are those of a policy, native lights or not.
LEMMA PolicyType ==
  ASSUME in \in Inputs
  PROVE  Policy \in [period : Nat \ {0}, budget : 1 .. NFaces, resolution : Nat]
BY ReceiverAssumption DEF Inputs, Policy

\* What a signature of a run names.
LEMMA SignatureType ==
  ASSUME in \in Inputs, in.scene \in Scenes
  PROVE  LET sig == Signature(in.lights, Policy, in.scene)
         IN  /\ sig \in Signatures
             /\ sig.lights = in.lights /\ sig.resolution = Policy.resolution
             /\ Incremental(Policy) => sig.shape = in.scene.shape
             /\ ~Incremental(Policy) => sig.shape = None
<1>1. Shape(Policy, in.scene) \in {t.shape : t \in Scenes} \cup {None}
  BY DEF Shape
<1>2. in.lights \in Lists /\ Policy.resolution \in Nat
  BY PolicyType DEF Inputs
<1>. QED
  BY <1>1, <1>2 DEF Signature, Signatures, Shape

LEMMA FacesFinite ==
  /\ IsFiniteSet(Faces) /\ Cardinality(Faces) = NFaces
  /\ 0 \in Faces /\ Faces # {}
<1>1. NFaces \in Nat /\ NFaces >= 1
  BY ReceiverAssumption
<1>2. 0 \in Int /\ NFaces - 1 \in Int
  BY <1>1
<1>3. /\ IsFiniteSet(0 .. NFaces - 1)
      /\ Cardinality(0 .. NFaces - 1) = IF 0 > NFaces - 1 THEN 0 ELSE (NFaces - 1) - 0 + 1
  BY <1>2, FS_Interval
<1>. QED
  BY <1>1, <1>3 DEF Faces

\* The oldest NFaces faces are all of them.
LEMMA OldestAll ==
  ASSUME NEW w \in [Faces -> Nat]
  PROVE  Oldest(NFaces, w) = Faces
<1> SUFFICES ASSUME NEW f \in Faces
             PROVE  Cardinality({g \in Faces : Heavier(w, g, f)}) < NFaces
  BY DEF Oldest
<1>. DEFINE S == {g \in Faces : Heavier(w, g, f)}
<1>1. f \in Nat /\ w[f] \in Nat
  BY ReceiverAssumption DEF Faces
<1>2. S \subseteq Faces \ {f}
  BY <1>1 DEF Heavier
<1>3. IsFiniteSet(Faces \ {f}) /\ Cardinality(Faces \ {f}) = NFaces - 1
  BY FacesFinite, FS_RemoveElement
<1>4. Cardinality(S) <= NFaces - 1 /\ Cardinality(S) \in Nat
  <2>1. IsFiniteSet(S) /\ Cardinality(S) <= Cardinality(Faces \ {f})
    BY <1>2, <1>3, FS_Subset
  <2>. QED
    BY <1>3, <2>1, FS_CardinalityType
<1>5. NFaces \in Nat
  BY ReceiverAssumption
<1>. QED
  BY <1>4, <1>5

LEMMA ReadyPlanType ==
  ASSUME frame \in Nat, in \in Inputs, NEW render \in BOOLEAN, NEW reuse \in BOOLEAN,
         NEW sig \in Signatures \cup {None}, NEW mask \in SUBSET Faces
  PROVE  ReadyPlan(render, reuse, sig, mask) \in Plans
BY DEF ReadyPlan, Plans, Inputs, Lists

\* Only the publication's readiness, faces and signature make it whole.
LEMMA WholeOfParts ==
  ASSUME NEW h, NEW d, NEW g, Whole(h, d),
         g.ready = h.ready, g.valid = h.valid, g.sig = h.sig
  PROVE  Whole(g, d)
BY DEF Whole

\* The owner's planner makes a plan of this run from a whole publication.
LEMMA CanonicalFits ==
  ASSUME frame \in Nat, in \in Inputs, in.scene \in Scenes, hist \in Histories,
         Whole(hist, data)
  PROVE  /\ Canonical.plan \in Plans /\ Canonical.hist \in Histories
         /\ Fits(Canonical.plan, Canonical.hist, Canonical.data)
<1>. DEFINE sig == Signature(in.lights, Policy, in.scene)
            dynamic == Dynamic(Policy, in.scene)
            unchanged == cube.gen # 0 /\ hist.ready /\ hist.sig = sig
            reuse == unchanged /\ ~dynamic /\ hist.age + 1 < Policy.period
            force == ~unchanged \/ dynamic
            valid == IF force THEN {} ELSE hist.valid
            mask == IF force THEN Faces
                    ELSE Oldest(Policy.budget, Weights(valid, hist.faceAge))
<1>1. Canonical = IF reuse
                  THEN [plan |-> ReadyPlan(FALSE, TRUE, sig, {}),
                        hist |-> [hist EXCEPT !.age = @ + 1], data |-> data]
                  ELSE [plan |-> ReadyPlan(TRUE, FALSE, sig, mask),
                        hist |-> [hist EXCEPT !.age = 0, !.valid = valid],
                        data |-> in.lights]
  BY DEF Canonical
<1>2. /\ sig \in Signatures
      /\ sig.lights = in.lights
  BY SignatureType
<1>3. Policy \in [period : Nat \ {0}, budget : 1 .. NFaces, resolution : Nat]
  BY PolicyType
<1>4. mask \in SUBSET Faces /\ valid \in SUBSET Faces
  BY DEF Oldest, Histories
<1>5. ~Incremental(Policy) /\ ~force => mask = Faces
  <2>1. SUFFICES ASSUME ~Incremental(Policy), ~force
                 PROVE  Oldest(Policy.budget, Weights(valid, hist.faceAge)) = Faces
    OBVIOUS
  <2>2. Policy.budget = NFaces
    BY <1>3, <2>1, ReceiverAssumption DEF Incremental
  <2>3. Weights(valid, hist.faceAge) \in [Faces -> Nat]
    BY DEF Weights, Histories
  <2>. QED
    BY <2>2, <2>3, OldestAll
<1>6. Incremental(Policy) /\ ~dynamic => ~in.scene.dynamic
  BY DEF Dynamic
<1>7. reuse => Incremental(Policy)
  BY <1>3 DEF Incremental, Histories
<1>8. CASE reuse
  <2>. DEFINE h == [hist EXCEPT !.age = @ + 1]
              p == ReadyPlan(FALSE, TRUE, sig, {})
  <2>1. Canonical.plan = p /\ Canonical.hist = h /\ Canonical.data = data
    BY <1>1, <1>8
  <2>2. h \in Histories /\ h.ready = hist.ready /\ h.valid = hist.valid /\ h.sig = hist.sig
    BY DEF Histories
  <2>3. p \in Plans
    BY <1>2, ReadyPlanType
  <2>4. /\ p.ready = TRUE /\ p.frame = frame /\ p.light = in.lights.gen /\ p.render = FALSE
        /\ p.reuse = TRUE /\ p.sig = sig
    BY DEF ReadyPlan
  <2>. HIDE DEF h, p
  <2>5. Whole(h, data)
    BY <2>2, WholeOfParts
  <2>6. Keeps(p, h)
    BY <1>6, <1>7, <1>8, <2>2, <2>4 DEF Keeps, Current
  <2>. QED
    BY <2>1, <2>2, <2>3, <2>4, <2>5, <2>6 DEF Fits
<1>9. CASE ~reuse
  <2>. DEFINE h == [hist EXCEPT !.age = 0, !.valid = valid]
              p == ReadyPlan(TRUE, FALSE, sig, mask)
  <2>1. Canonical.plan = p /\ Canonical.hist = h /\ Canonical.data = in.lights
    BY <1>1, <1>9
  <2>2. h \in Histories /\ h.ready = hist.ready /\ h.valid = valid /\ h.sig = hist.sig
    BY <1>4 DEF Histories
  <2>3. p \in Plans
    BY <1>2, <1>4, ReadyPlanType
  <2>4. /\ p.ready = TRUE /\ p.frame = frame /\ p.light = in.lights.gen /\ p.render = TRUE
        /\ p.reuse = FALSE /\ p.sig = sig /\ p.mask = mask
    BY DEF ReadyPlan
  <2>5. Current(p)
    BY <2>4 DEF Current
  <2>6. \/ p.mask = Faces /\ h.valid = {}
        \/ /\ Whole(h, in.lights) /\ h.ready /\ h.sig = p.sig
           /\ IF Incremental(Policy) THEN ~in.scene.dynamic ELSE p.mask = Faces
    <3>. HIDE DEF h, p
    <3>1. CASE force
      BY <2>2, <2>4, <3>1
    <3>2. CASE ~force
      <4>1. hist.ready /\ hist.sig = sig /\ ~dynamic
        BY <3>2
      <4>2. data = in.lights
        BY <1>2, <4>1 DEF Whole
      <4>3. Whole(h, in.lights)
        BY <2>2, <3>2, <4>2, WholeOfParts
      <4>. QED
        BY <1>5, <1>6, <2>2, <2>4, <3>2, <4>1, <4>3
    <3>. QED
      BY <3>1, <3>2
  <2>. HIDE DEF h, p
  <2>. QED
    BY <2>1, <2>2, <2>3, <2>4, <2>5, <2>6 DEF Fits, Redraws
<1>. QED
  BY <1>8, <1>9

-----------------------------------------------------------------------------
(* What a step has to show.                                                *)

\* The image stays, and what is published with it fits.
LEMMA WholeStays ==
  ASSUME UNCHANGED <<cube, drawn>>, Whole(hist', data')
  PROVE  Whole(hist, data)'
BY DEF Whole

\* The run's input and the image stay, and the plan is one of this run.
LEMMA FitsStays ==
  ASSUME UNCHANGED <<in, frame, cube, drawn>>, Fits(plan', hist', data')
  PROVE  Fits(plan, hist, data)'
<1>1. Policy' = Policy /\ Incremental(Policy)' = Incremental(Policy)
  BY DEF Policy, Incremental
<1>2. Signature(in.lights, Policy, in.scene)' = Signature(in.lights, Policy, in.scene)
  BY <1>1 DEF Signature, Shape, Incremental
<1>3. Current(plan)' = Current(plan')
  BY <1>2 DEF Current
<1>4. Whole(hist, data)' = Whole(hist', data')
  BY DEF Whole
<1>5. Redraws(plan, hist, data)' = Redraws(plan', hist', data')
  BY <1>1, <1>3, <1>4 DEF Redraws
<1>6. Keeps(plan, hist)' = Keeps(plan', hist')
  BY <1>1, <1>3 DEF Keeps
<1>. QED
  BY <1>4, <1>5, <1>6 DEF Fits

\* Without a publication nothing is sampled.
LEMMA Revoked ==
  ASSUME Revoke
  PROVE  /\ hist' \in Histories /\ ~hist'.ready /\ hist'.valid = {}
         /\ pub'.frame = 0 /\ (\A d : Whole(hist', d)) /\ Whole(hist, data)' /\ ~Matches'
<1>1. hist' = NoHistory /\ pub' = NoPub
  BY DEF Revoke
<1>2. hist' \in Histories /\ hist'.ready = FALSE /\ hist'.valid = {} /\ pub'.frame = 0
  BY <1>1 DEF NoHistory, NoPub, Histories
<1>. QED
  BY <1>2 DEF Whole, Matches

\* A run has the plan it will carry out.
LEMMA ToPlanned ==
  ASSUME pc' = "planned", UNCHANGED <<in, frame, cube, drawn>>,
         frame \in Nat, cube.gen \in Nat, plan' \in Plans, hist' \in Histories,
         pub'.frame \in Nat, pub'.frame <= frame,
         Fits(plan', hist', data'), ~future',
         pending' # None => job'.scene \in Scenes
  PROVE  CubeInv'
<1>1. Fits(plan, hist, data)'
  BY FitsStays
<1>2. plan'.frame = frame
  BY DEF Fits
<1>. QED
  BY <1>1, <1>2 DEF CubeInv, RunTyped, Timing, PlanOpen, Ensured, Showing

\* A run has drawn, or not; its plan is closed.
LEMMA ToClosed ==
  ASSUME pc' \in {"rendered", "idle", "disabled"}, RunTyped',
         pc' # "disabled" => Whole(hist, data)', Showing', ~future',
         pending' # None => job'.scene \in Scenes
  PROVE  CubeInv'
BY DEF CubeInv, Timing, PlanOpen, Ensured

\* The run, its plan and the image stay as they are.
LEMMA Undisturbed ==
  ASSUME CubeInv,
         UNCHANGED <<mode, epoch, frame, pc, in, plan, hist, pub, cube, data, drawn, future>>,
         pending' # None => job'.scene \in Scenes
  PROVE  CubeInv'
<1>1. RunTyped' /\ Timing'
  BY DEF CubeInv, RunTyped, Timing, Persistent
<1>2. PlanOpen' = PlanOpen
  BY DEF PlanOpen
<1>3. PlanOpen' => Fits(plan, hist, data)'
  BY <1>2, FitsStays DEF CubeInv
<1>4. ~PlanOpen' /\ pc' # "disabled" => Whole(hist, data)'
  BY <1>2, WholeStays DEF CubeInv
<1>5. Policy' = Policy /\ Held' = Held
  BY DEF Policy, Held, Incremental
<1>6. Ensured' /\ Showing'
  BY <1>5 DEF CubeInv, Ensured, Showing, Shown, Matches
<1>. QED
  BY <1>1, <1>3, <1>4, <1>6 DEF CubeInv

\* A run begins, and has no plan yet.
LEMMA ToBegun ==
  ASSUME CubeInv, pc = "entered", pc' = "begun",
         future' => ~Persistent /\ in.scene \in Scenes,
         plan' \in {plan, Named(NoPlan)}, frame \in Nat, in \in Inputs,
         UNCHANGED <<mode, frame, in, hist, pub, cube, data, drawn>>,
         pending' # None => job'.scene \in Scenes
  PROVE  CubeInv'
<1>1. plan' \in Plans /\ plan'.frame <= frame /\ ~plan'.ready
  <2>1. NoPlan \in Plans /\ ~NoPlan.ready
    BY DEF NoPlan, Plans
  <2>2. in.lights.gen \in Nat
    BY DEF Inputs, Lists
  <2>3. Named(NoPlan) \in Plans /\ Named(NoPlan).frame = frame /\ ~Named(NoPlan).ready
    BY <2>1, <2>2 DEF Named, Plans
  <2>. QED
    BY <2>3 DEF CubeInv, RunTyped, Timing
<1>2. ~PlanOpen /\ ~PlanOpen'
  BY <1>1 DEF PlanOpen
<1>3. Whole(hist, data)'
  BY <1>2, WholeStays DEF CubeInv
<1>4. RunTyped'
  BY <1>1 DEF CubeInv, RunTyped
<1>5. Timing'
  BY <1>1 DEF CubeInv, Timing, Persistent
<1>. QED
  BY <1>1, <1>2, <1>3, <1>4, <1>5 DEF CubeInv, Ensured, Showing

-----------------------------------------------------------------------------
(* The steps of a run.                                                     *)

\* A cube whose signature is the one of this run shows its lights and its scene.
LEMMA SameSignatureShows ==
  ASSUME in \in Inputs, in.scene \in Scenes, Whole(hist, data), hist.ready,
         hist.sig = Signature(in.lights, Policy, in.scene),
         Incremental(Policy) => ~in.scene.dynamic
  PROVE  /\ data = in.lights
         /\ \A f \in Faces :
              /\ drawn[f] \in Views /\ drawn[f] = drawn[0] /\ drawn[f].lights = in.lights
              /\ Incremental(Policy) => drawn[f].scene = in.scene
<1>1. /\ hist.sig.lights = in.lights
      /\ Incremental(Policy) => hist.sig.shape = in.scene.shape
  BY SignatureType
<1>2. ASSUME NEW f \in Faces, Incremental(Policy) PROVE drawn[f].scene = in.scene
  <2>1. hist.sig.shape # None
    BY <1>1, <1>2, ShapeAssumption
  <2>2. drawn[f] \in Views /\ drawn[f].scene.shape = in.scene.shape
    BY <1>1, <1>2, <2>1 DEF Whole
  <2>3. drawn[f].scene \in Scenes
    BY <2>2 DEF Views
  <2>. QED
    BY <1>2, <2>2, <2>3, ShapeAssumption
<1>. QED
  BY <1>1, <1>2 DEF Whole

\* A run that plans for itself, or already has a plan, has one that fits.
LEMMA PlanHereFits ==
  ASSUME Inv, CubeInv, Planning, PlanHere
  PROVE  /\ plan' \in Plans /\ hist' \in Histories
         /\ pub'.frame \in Nat /\ pub'.frame <= frame
         /\ Fits(plan', hist', data')
<1>1. frame \in Nat /\ in \in Inputs /\ pc = "begun"
  BY DEF Inv, Typed, Planning
<1>2. RunTyped
  BY DEF CubeInv
<1>3. CASE PlanNamesSnapshot
  <2>1. UNCHANGED <<plan, hist, pub, data>>
    BY <1>3 DEF PlanHere, published
  <2>2. PlanOpen
    BY <1>1, <1>3 DEF PlanOpen, PlanNamesSnapshot
  <2>. QED
    BY <1>2, <2>1, <2>2 DEF CubeInv, RunTyped
<1>4. CASE ~PlanNamesSnapshot
  <2>1. Whole(hist, data)
    <3>1. ~PlanOpen
      BY <1>1, <1>4 DEF CubeInv, PlanOpen, Fits, PlanNamesSnapshot
    <3>. QED
      BY <1>1, <3>1 DEF CubeInv
  <2>2. CASE in.scene = None
    <3>1. plan' = ReadyPlan(FALSE, FALSE, None, {}) /\ Revoke
      BY <1>4, <2>2 DEF PlanHere
    <3>2. plan' \in Plans
      BY <1>1, <3>1, ReadyPlanType
    <3>3. /\ plan'.ready = TRUE /\ plan'.frame = frame /\ plan'.light = in.lights.gen
          /\ plan'.render = FALSE /\ plan'.reuse = FALSE
      BY <3>1 DEF ReadyPlan
    <3>4. hist' \in Histories /\ ~hist'.ready /\ Whole(hist', data') /\ pub'.frame = 0
      BY <3>1, Revoked
    <3>. QED
      BY <1>1, <3>2, <3>3, <3>4 DEF Fits
  <2>3. CASE in.scene # None
    <3>1. /\ plan' = Canonical.plan /\ hist' = Canonical.hist /\ data' = Canonical.data
          /\ pub' = pub
      BY <1>4, <2>3 DEF PlanHere, Becomes
    <3>2. in.scene \in Scenes
      BY <1>1, <2>3 DEF Inputs
    <3>. QED
      BY <1>1, <1>2, <2>1, <3>1, <3>2, CanonicalFits DEF RunTyped
  <2>. QED
    BY <2>2, <2>3
<1>. QED
  BY <1>3, <1>4

LEMMA PlanSteps ==
  ASSUME Inv, CubeInv, PlanWithoutProposal \/ PlanWithProposal
  PROVE  CubeInv'
<1>1. /\ Planning /\ pc' = "planned" /\ UNCHANGED <<in, frame, cube, drawn, future>>
      /\ frame \in Nat /\ in \in Inputs /\ cube.gen \in Nat /\ ~future
  BY DEF PlanWithoutProposal, PlanWithProposal, Collectable, Planning, image, CubeInv, RunTyped,
         Inv, Typed
<1>2. pending' # None => job'.scene \in Scenes
  BY DEF PlanWithoutProposal, PlanWithProposal, worker, CubeInv, Timing
<1>3. /\ plan' \in Plans /\ hist' \in Histories
      /\ pub'.frame \in Nat /\ pub'.frame <= frame
      /\ Fits(plan', hist', data')
  <2>1. CASE PlanHere
    BY <1>1, <2>1, PlanHereFits
  <2>2. CASE ~PlanHere
    <3>1. /\ Collectable /\ Accepted
          /\ Becomes(Adopted(Proposal(job))) /\ UNCHANGED pub
      BY <2>2 DEF PlanWithoutProposal, PlanWithProposal
    <3>2. hist \in Histories /\ RunTyped /\ pending # None
      BY <3>1 DEF CubeInv, RunTyped, Collectable, Ours
    <3>3. job = Freeze
      BY <3>1 DEF Accepted, Exact
    <3>4. in.scene \in Scenes
      <4>1. job.scene = in.scene
        BY <3>3 DEF Freeze
      <4>. QED
        BY <3>2, <4>1 DEF CubeInv, Timing
    <3>5. Whole(hist, data)
      <4>1. pc = "begun" /\ ~plan.ready /\ ~in.canonical
        BY <3>1 DEF Collectable, Planning, CubeInv, Timing
      <4>. QED
        BY <4>1 DEF CubeInv, PlanOpen
    <3>6. plan' = Canonical.plan /\ hist' = Canonical.hist /\ data' = Canonical.data
      BY <3>1, <3>2, <3>3, AdoptedIsCanonical DEF Becomes
    <3>. QED
      BY <1>1, <3>1, <3>2, <3>4, <3>5, <3>6, CanonicalFits DEF RunTyped
  <2>. QED
    BY <2>1, <2>2
<1>. QED
  BY <1>1, <1>2, <1>3, ToPlanned

\* The asynchronous planner leaves a plan, or a failed one.
LEMMA AsyncSteps ==
  ASSUME Inv, CubeInv, AsyncPlans \/ AsyncFails
  PROVE  CubeInv'
<1>1. /\ pc = "begun" /\ ~in.canonical /\ ~plan.ready /\ ~Persistent /\ in.scene \in Scenes
      /\ future' = FALSE
      /\ UNCHANGED <<mode, pc, in, frame, cube, drawn, pending, job>>
      /\ frame \in Nat /\ in \in Inputs /\ cube.gen \in Nat /\ hist \in Histories
      /\ pub.frame \in Nat /\ pub.frame < frame
  BY DEF AsyncPlans, AsyncFails, CubeInv, Timing, RunTyped, owner, run, image, worker, Inv, Typed
<1>2. /\ plan' \in Plans /\ hist' \in Histories /\ Fits(plan', hist', data')
      /\ pub'.frame \in Nat /\ pub'.frame < frame
  <2>1. CASE AsyncPlans
    <3>1. /\ plan' = Canonical.plan /\ hist' = Canonical.hist /\ data' = Canonical.data
          /\ pub' = pub
      BY <2>1 DEF AsyncPlans, Becomes
    <3>2. Whole(hist, data)
      BY <1>1 DEF CubeInv, PlanOpen
    <3>. QED
      BY <1>1, <3>1, <3>2, CanonicalFits
  <2>2. CASE AsyncFails
    <3>1. plan' = FailedPlan /\ Revoke
      BY <2>2 DEF AsyncFails
    <3>2. ReadyPlan(FALSE, FALSE, None, {}) \in Plans
      BY <1>1, ReadyPlanType
    <3>3. plan' \in Plans
      BY <3>1, <3>2 DEF FailedPlan, Plans
    <3>4. /\ plan'.ready = TRUE /\ plan'.frame = frame /\ plan'.light = in.lights.gen
          /\ plan'.render = FALSE /\ plan'.reuse = FALSE
      BY <3>1 DEF FailedPlan, ReadyPlan
    <3>5. hist' \in Histories /\ ~hist'.ready /\ Whole(hist', data') /\ pub'.frame = 0
      BY <3>1, Revoked
    <3>. QED
      BY <1>1, <3>3, <3>4, <3>5 DEF Fits
  <2>. QED
    BY <2>1, <2>2
<1>3. Fits(plan, hist, data)' /\ plan'.frame = frame /\ plan'.ready
  BY <1>1, <1>2, FitsStays DEF Fits
<1>4. RunTyped' /\ Timing'
  BY <1>1, <1>2, <1>3 DEF CubeInv, RunTyped, Timing, Persistent
<1>5. PlanOpen'
  BY <1>1, <1>3 DEF PlanOpen
<1>. QED
  BY <1>1, <1>3, <1>4, <1>5 DEF CubeInv, Ensured, Showing

\* What is unchanged when a plan is carried out or refused.
LEMMA CarriedOut ==
  ASSUME Inv, CubeInv,
         KeepOrRevoke \/ RenderRefused \/ EnsureCube \/ BudgetRejects \/ Record \/ RecordThrows
  PROVE  /\ UNCHANGED <<in, frame, data, future, mode, epoch, pending, job>>
         /\ pc \in {"planned", "ensured"} /\ Fits(plan, hist, data) /\ ~future
         /\ frame \in Nat /\ in \in Inputs /\ RunTyped /\ ~future'
         /\ pending' # None => job'.scene \in Scenes
<1>1. /\ UNCHANGED <<in, frame, data, future, mode, epoch, pending, job>>
      /\ pc \in {"planned", "ensured"}
  BY DEF KeepOrRevoke, RenderRefused, EnsureCube, BudgetRejects, Record, RecordThrows, Planned,
         owner, worker
<1>. QED
  BY <1>1 DEF CubeInv, PlanOpen, Timing, Inv, Typed

LEMMA KeepOrRevokeInv == Inv /\ CubeInv /\ KeepOrRevoke => CubeInv'
<1> SUFFICES ASSUME Inv, CubeInv, KeepOrRevoke PROVE CubeInv'
  OBVIOUS
<1>1. /\ UNCHANGED <<in, frame, data, cube, drawn, plan, epoch, future, mode>>
      /\ Fits(plan, hist, data) /\ in \in Inputs /\ RunTyped /\ frame \in Nat
      /\ ~plan.render /\ pc' = "rendered"
  BY CarriedOut DEF KeepOrRevoke, image
<1>2. ~future' /\ (pending' # None => job'.scene \in Scenes)
  BY CarriedOut
<1>3. CASE Revoke
  <2>1. RunTyped'
    BY <1>1, <1>3, Revoked DEF RunTyped
  <2>. QED
    BY <1>1, <1>2, <1>3, <2>1, Revoked, ToClosed DEF Showing
<1>4. CASE Matches /\ UNCHANGED published
  <2>1. hist.ready /\ plan.reuse /\ hist' = hist /\ pub' = pub
    BY <1>1, <1>4 DEF Matches, Fits, published
  <2>2. Keeps(plan, hist) /\ Whole(hist, data)
    BY <1>1, <2>1 DEF Fits
  <2>3. /\ data = in.lights
        /\ \A f \in Faces :
              /\ drawn[f] \in Views /\ drawn[f] = drawn[0] /\ drawn[f].lights = in.lights
              /\ drawn[f].scene = in.scene
    BY <1>1, <2>1, <2>2, SameSignatureShows DEF Keeps, Current
  <2>4. Shown'
    BY <1>1, <2>3, EmptyAssumption DEF Shown
  <2>5. RunTyped' /\ Whole(hist, data)'
    BY <1>1, <2>1, <2>2, WholeStays DEF RunTyped
  <2>. QED
    BY <1>1, <1>2, <2>4, <2>5, ToClosed DEF Showing
<1>. QED
  BY <1>3, <1>4 DEF KeepOrRevoke

LEMMA RefusedInv == Inv /\ CubeInv /\ RenderRefused => CubeInv'
<1> SUFFICES ASSUME Inv, CubeInv, RenderRefused PROVE CubeInv'
  OBVIOUS
<1>1. /\ UNCHANGED <<frame, cube>> /\ RunTyped /\ pc' = "rendered" /\ Revoke /\ frame \in Nat
      /\ plan' = [plan EXCEPT !.render = FALSE]
  BY CarriedOut DEF RenderRefused, image
<1>2. ~future' /\ (pending' # None => job'.scene \in Scenes)
  BY CarriedOut
<1>3. plan' \in Plans /\ plan'.frame = plan.frame
  BY <1>1 DEF RunTyped, Plans
<1>4. RunTyped'
  BY <1>1, <1>3, Revoked DEF RunTyped
<1>. QED
  BY <1>1, <1>2, <1>4, Revoked, ToClosed DEF Showing

LEMMA EnsureInv == Inv /\ CubeInv /\ EnsureCube => CubeInv'
<1> SUFFICES ASSUME Inv, CubeInv, EnsureCube PROVE CubeInv'
  OBVIOUS
<1>1. /\ UNCHANGED <<in, frame, data, plan>> /\ Fits(plan, hist, data) /\ RunTyped
      /\ in \in Inputs /\ frame \in Nat
      /\ plan.render /\ pc' = "ensured"
  BY CarriedOut DEF EnsureCube
<1>2. ~future' /\ (pending' # None => job'.scene \in Scenes)
  BY CarriedOut
<1>3. Policy' = Policy /\ Policy.resolution \in Nat
  BY <1>1, PolicyType DEF Policy
<1>4. PlanOpen' /\ Timing'
  BY <1>1, <1>2 DEF PlanOpen, Timing
<1>5. CASE UNCHANGED <<image, published>> /\ cube.gen # 0 /\ cube.resolution = Policy.resolution
  <2>1. UNCHANGED <<cube, drawn, hist, pub>>
    BY <1>5 DEF image, published
  <2>2. Fits(plan, hist, data)'
    BY <1>1, <2>1, FitsStays
  <2>3. RunTyped' /\ Ensured'
    BY <1>1, <1>3, <1>5, <2>1 DEF RunTyped, Ensured
  <2>. QED
    BY <1>1, <1>4, <2>2, <2>3 DEF CubeInv, Showing
<1>6. CASE /\ ~(cube.gen # 0 /\ cube.resolution = Policy.resolution)
           /\ cube' = [gen |-> cube.gen + 1, resolution |-> Policy.resolution]
           /\ Revoke
  <2>1. cube'.gen \in Nat /\ cube'.gen # 0 /\ cube'.resolution = Policy.resolution
    BY <1>1, <1>6 DEF RunTyped
  <2>2. RunTyped' /\ Ensured'
    BY <1>1, <1>3, <1>6, <2>1, Revoked DEF RunTyped, Ensured
  <2>3. Redraws(plan, hist, data)
    BY <1>1 DEF Fits
  <2>4. plan.mask = Faces
    <3>1. SUFFICES ASSUME Whole(hist, data), hist.ready, hist.sig = plan.sig PROVE FALSE
      BY <2>3 DEF Redraws
    <3>2. plan.sig.resolution = Policy.resolution
      BY <1>1, <2>3, SignatureType DEF Redraws, Current
    <3>. QED
      BY <1>6, <3>1, <3>2 DEF Whole
  <2>5. hist'.valid = {}
    BY <1>6, Revoked
  <2>6. Current(plan)'
    BY <1>1, <1>3, <2>3 DEF Redraws, Current, Signature, Shape, Incremental
  <2>7. Redraws(plan, hist, data)'
    BY <1>1, <2>3, <2>4, <2>5, <2>6 DEF Redraws
  <2>8. Fits(plan, hist, data)'
    BY <1>1, <2>3, <2>7 DEF Fits, Redraws
  <2>. QED
    BY <1>1, <1>4, <2>2, <2>8 DEF CubeInv, Showing
<1>. QED
  BY <1>5, <1>6 DEF EnsureCube

LEMMA BudgetInv == Inv /\ CubeInv /\ BudgetRejects => CubeInv'
<1> SUFFICES ASSUME Inv, CubeInv, BudgetRejects PROVE CubeInv'
  OBVIOUS
<1>1. /\ UNCHANGED <<in, frame, data, cube, drawn>> /\ Fits(plan, hist, data) /\ RunTyped
      /\ in \in Inputs /\ frame \in Nat /\ plan.render /\ pc' = "rendered"
  BY CarriedOut DEF BudgetRejects, image, CubeInv, Ensured
<1>2. ~future' /\ (pending' # None => job'.scene \in Scenes)
  BY CarriedOut
<1>3. CASE CanHold
  <2>1. /\ plan' = ReadyPlan(FALSE, TRUE, hist.sig, {})
        /\ hist' = [hist EXCEPT !.age = @ + 1] /\ pub' = pub
    BY <1>3 DEF BudgetRejects
  <2>2. /\ Whole(hist, data) /\ hist.ready /\ hist.sig = plan.sig /\ Current(plan)
        /\ Incremental(Policy) => ~in.scene.dynamic
    BY <1>1, <1>3, FacesFinite DEF CanHold, Fits, Redraws
  <2>3. /\ data = in.lights
        /\ \A f \in Faces :
              /\ drawn[f] \in Views /\ drawn[f] = drawn[0] /\ drawn[f].lights = in.lights
              /\ Incremental(Policy) => drawn[f].scene = in.scene
    BY <1>1, <2>2, SameSignatureShows DEF Current
  <2>4. /\ hist' \in Histories /\ hist'.ready = hist.ready /\ hist'.valid = hist.valid
        /\ hist'.sig = hist.sig
    BY <1>1, <2>1 DEF RunTyped, Histories
  <2>5. /\ plan' \in Plans /\ plan'.frame = frame /\ plan'.reuse = TRUE
    <3>1. hist.sig \in Signatures \cup {None}
      BY <1>1 DEF RunTyped, Histories
    <3>2. plan' \in Plans
      BY <1>1, <2>1, <3>1, ReadyPlanType
    <3>. QED
      BY <2>1, <3>2 DEF ReadyPlan
  <2>6. RunTyped'
    <3>1. frame' = frame /\ cube' = cube /\ pub' = pub
      BY <1>1, <2>1
    <3>2. hist' \in Histories /\ plan' \in Plans /\ plan'.frame <= frame
      BY <1>1, <2>4, <2>5
    <3>3. cube.gen \in Nat /\ pub.frame \in Nat /\ pub.frame <= frame
      BY <1>1 DEF RunTyped
    <3>. QED
      BY <3>1, <3>2, <3>3 DEF RunTyped
  <2>7. Whole(hist', data)
    BY <2>2, <2>4, WholeOfParts
  <2>8. Whole(hist, data)'
    BY <1>1, <2>7, WholeStays
  <2>9. Held' <=> ~Incremental(Policy)
    BY <1>1, <2>5 DEF Held, Policy, Incremental
  <2>10. Shown'
    BY <1>1, <2>3, <2>9, EmptyAssumption DEF Shown
  <2>. QED
    BY <1>1, <1>2, <2>6, <2>8, <2>10, ToClosed DEF Showing
<1>4. CASE Revoke /\ plan' = [plan EXCEPT !.render = FALSE]
  <2>1. plan' \in Plans /\ plan'.frame = plan.frame
    BY <1>1, <1>4 DEF RunTyped, Plans
  <2>2. RunTyped'
    BY <1>1, <1>4, <2>1, Revoked DEF RunTyped
  <2>. QED
    BY <1>1, <1>2, <1>4, <2>2, Revoked, ToClosed DEF Showing
<1>. QED
  BY <1>3, <1>4 DEF BudgetRejects

\* The recording makes every face show this run's lights and scene.
LEMMA RecordInv == Inv /\ CubeInv /\ Record => CubeInv'
<1> SUFFICES ASSUME Inv, CubeInv, Record PROVE CubeInv'
  OBVIOUS
<1>. DEFINE valid == hist.valid \cup plan.mask
<1>1. /\ UNCHANGED <<in, frame, data, cube, plan, mode, epoch>> /\ Fits(plan, hist, data)
      /\ RunTyped /\ in \in Inputs /\ frame \in Nat /\ pc' = "rendered"
      /\ plan.render /\ cube.gen # 0 /\ cube.resolution = Policy.resolution
  BY CarriedOut DEF Record, CubeInv, Ensured
<1>2. ~future' /\ (pending' # None => job'.scene \in Scenes)
  BY CarriedOut
<1>3. Redraws(plan, hist, data) /\ Current(plan) /\ data = in.lights /\ in.scene \in Scenes
  BY <1>1 DEF Fits, Redraws, Current
<1>4. /\ plan.sig \in Signatures /\ plan.sig.lights = in.lights
      /\ plan.sig.resolution = Policy.resolution
      /\ Incremental(Policy) => plan.sig.shape = in.scene.shape
      /\ ~Incremental(Policy) => plan.sig.shape = None
  BY <1>1, <1>3, SignatureType DEF Current
<1>5. Show \in Views /\ Show.scene = in.scene /\ Show.lights = in.lights
  BY <1>1, <1>3 DEF Show, Views, Inputs
<1>6. \A f \in Faces : drawn'[f] = IF f \in plan.mask THEN Show ELSE drawn[f]
  BY DEF Record, Drawing
<1>7. pub' = [light |-> plan.light, frame |-> frame, epoch |-> epoch,
              cube |-> cube.gen, policy |-> Policy]
  BY DEF Record
<1>8. /\ hist' \in Histories
      /\ hist'.valid = valid /\ hist'.ready = (valid = Faces) /\ hist'.sig = plan.sig
  <2>1. /\ hist \in Histories /\ plan.mask \in SUBSET Faces
    BY <1>1 DEF RunTyped, Plans
  <2>2. [f \in Faces |-> IF f \in plan.mask THEN 0 ELSE hist.faceAge[f] + 1] \in [Faces -> Nat]
    BY <2>1 DEF Histories
  <2>3. (valid = Faces) \in BOOLEAN /\ valid \in SUBSET Faces
    BY <2>1 DEF Histories
  <2>4. hist' = [hist EXCEPT !.valid = valid, !.ready = (valid = Faces), !.sig = plan.sig,
                   !.faceAge = [f \in Faces |-> IF f \in plan.mask THEN 0 ELSE @[f] + 1]]
    BY DEF Record
  <2>. DEFINE whole == (valid = Faces)
  <2>5. hist' = [hist EXCEPT !.valid = valid, !.ready = whole, !.sig = plan.sig,
                   !.faceAge = [f \in Faces |-> IF f \in plan.mask THEN 0 ELSE hist.faceAge[f] + 1]]
    BY <2>1, <2>4 DEF Histories
  <2>6. whole \in BOOLEAN
    OBVIOUS
  <2>. HIDE DEF whole, valid
  <2>7. /\ hist' \in Histories
        /\ hist'.valid = valid /\ hist'.ready = whole /\ hist'.sig = plan.sig
    BY <1>4, <2>1, <2>2, <2>3, <2>5, <2>6 DEF Histories
  <2>. QED
    BY <2>7 DEF whole, valid
<1>9. RunTyped'
  BY <1>1, <1>7, <1>8 DEF RunTyped
<1>10. \A f \in Faces :
         /\ drawn'[f] \in Views /\ drawn'[f].lights = in.lights /\ drawn'[f].scene = in.scene
  <2>1. CASE plan.mask = Faces
    BY <1>5, <1>6, <2>1
  <2>2. CASE plan.mask # Faces
    <3>1. /\ Whole(hist, data) /\ hist.ready /\ hist.sig = plan.sig
          /\ Incremental(Policy) /\ ~in.scene.dynamic
      BY <1>3, <2>2 DEF Redraws
    <3>2. \A f \in Faces :
            drawn[f] \in Views /\ drawn[f].lights = in.lights /\ drawn[f].scene = in.scene
      BY <1>1, <1>3, <3>1, SameSignatureShows DEF Current
    <3>. QED
      BY <1>5, <1>6, <3>2
  <2>. QED
    BY <2>1, <2>2
<1>11. \A f \in Faces : drawn'[f] = drawn'[0]
  BY <1>10, FacesFinite DEF Views
<1>12. Whole(hist, data)'
  <2>1. cube'.gen # 0 /\ cube'.resolution = hist'.sig.resolution /\ data' = hist'.sig.lights
    BY <1>1, <1>3, <1>4, <1>8
  <2>2. plan.sig.shape # None => plan.sig.shape = in.scene.shape
    BY <1>4
  <2>. QED
    BY <1>4, <1>8, <1>10, <1>11, <2>1, <2>2 DEF Whole
<1>13. Shown'
  BY <1>1, <1>3, <1>10, <1>11, EmptyAssumption DEF Shown
<1>. QED
  BY <1>1, <1>2, <1>9, <1>12, <1>13, ToClosed DEF Showing

\* A recording that throws leaves no publication; a pass that throws elsewhere
\* leaves one of an earlier frame, which only a plan that keeps it matches.
LEMMA ThrowsInv == Inv /\ CubeInv /\ (RecordThrows \/ RunThrows) => CubeInv'
<1> SUFFICES ASSUME Inv, CubeInv, RecordThrows \/ RunThrows PROVE CubeInv'
  OBVIOUS
<1>1. CASE RecordThrows
  <2>1. /\ UNCHANGED <<frame, cube, plan>> /\ RunTyped /\ pc' = "disabled" /\ Revoke
        /\ ~future' /\ (pending' # None => job'.scene \in Scenes) /\ frame \in Nat
    BY <1>1, CarriedOut DEF RecordThrows
  <2>2. RunTyped'
    BY <2>1, Revoked DEF RunTyped
  <2>. QED
    BY <2>1, <2>2, Revoked, ToClosed DEF Showing
<1>2. CASE RunThrows
  <2>1. /\ UNCHANGED <<frame, in, cube, drawn, data, plan, hist, pub, epoch, pending, job>>
        /\ pc \in {"entered", "begun", "rendered"} /\ ~in.canonical /\ ~future /\ ~future'
        /\ pc' = "disabled" /\ frame \in Nat /\ in \in Inputs
    BY <1>2 DEF RunThrows, image, published, owner, worker, Inv, Typed
  <2>2. RunTyped' /\ (pending' # None => job'.scene \in Scenes)
    BY <2>1 DEF CubeInv, RunTyped, Timing
  <2>3. Matches' = Matches /\ Shown' = Shown
    BY <2>1 DEF Matches, Shown, Held, Policy, Incremental
  <2>4. ASSUME Matches, plan.frame = frame PROVE Shown
    <3>1. CASE pc = "entered"
      BY <2>4, <3>1 DEF CubeInv, Timing, Matches
    <3>2. CASE pc = "begun"
      <4>1. plan.ready /\ hist.ready /\ pub.frame < frame /\ pub.frame \in Nat
        BY <2>1, <2>4, <3>2 DEF Matches, CubeInv, Timing, RunTyped
      <4>2. plan.reuse
        BY <2>1, <2>4, <4>1 DEF Matches
      <4>3. Fits(plan, hist, data)
        BY <2>1, <3>2, <4>1 DEF CubeInv, PlanOpen
      <4>4. Keeps(plan, hist) /\ Whole(hist, data)
        BY <4>2, <4>3 DEF Fits, Redraws
      <4>5. /\ data = in.lights
            /\ \A f \in Faces :
                  /\ drawn[f] \in Views /\ drawn[f] = drawn[0] /\ drawn[f].lights = in.lights
                  /\ drawn[f].scene = in.scene
        BY <2>1, <4>1, <4>4, SameSignatureShows DEF Keeps, Current
      <4>. QED
        BY <4>5, EmptyAssumption DEF Shown
    <3>3. CASE pc = "rendered"
      BY <2>4, <3>3 DEF CubeInv, Showing
    <3>. QED
      BY <2>1, <3>1, <3>2, <3>3
  <2>. QED
    BY <2>1, <2>2, <2>3, <2>4, ToClosed DEF Showing
<1>. QED
  BY <1>1, <1>2

\* A run leaves with what it drew, or goes back to plan for the author's lights.
LEMMA LeaveInv == Inv /\ CubeInv /\ (Leave \/ AuthorFallback) => CubeInv'
<1> SUFFICES ASSUME Inv, CubeInv, Leave \/ AuthorFallback PROVE CubeInv'
  OBVIOUS
<1>1. /\ UNCHANGED <<frame, cube, drawn, data, plan, epoch, pending, job, future, mode>>
      /\ pc = "rendered" /\ ~future /\ frame \in Nat /\ in \in Inputs /\ Whole(hist, data)
      /\ RunTyped /\ (pending' # None => job'.scene \in Scenes)
  BY DEF Leave, AuthorFallback, image, owner, worker, Inv, Typed, CubeInv, Timing, PlanOpen
<1>2. CASE Leave
  <2>1. UNCHANGED <<in, hist, pub>> /\ pc' = "idle"
    BY <1>2 DEF Leave, published
  <2>2. Matches' = Matches /\ Shown' = Shown
    BY <1>1, <2>1 DEF Matches, Shown, Held, Policy, Incremental
  <2>3. Showing' /\ RunTyped'
    BY <1>1, <2>1, <2>2 DEF CubeInv, Showing, RunTyped
  <2>4. Whole(hist, data)'
    BY <1>1, <2>1, WholeStays
  <2>. QED
    BY <1>1, <2>1, <2>3, <2>4, ToClosed
<1>3. CASE AuthorFallback /\ pc' = "rendered"
  <2>1. Revoke
    BY <1>3 DEF AuthorFallback
  <2>2. RunTyped'
    BY <1>1, <2>1, Revoked DEF RunTyped
  <2>. QED
    BY <1>1, <1>3, <2>1, <2>2, Revoked, ToClosed DEF Showing
<1>4. CASE AuthorFallback /\ pc' = "begun"
  <2>1. /\ UNCHANGED <<hist, pub>>
        /\ in' = [in EXCEPT !.native = FALSE, !.canonical = TRUE, !.lights = ListOf(FALSE, frame)]
    BY <1>4 DEF AuthorFallback, published
  <2>2. in'.canonical = TRUE
    BY <1>1, <2>1 DEF Inputs
  <2>3. Whole(hist, data)'
    BY <1>1, <2>1, WholeStays
  <2>. QED
    BY <1>1, <1>4, <2>1, <2>2, <2>3
       DEF CubeInv, RunTyped, Timing, PlanOpen, Ensured, Showing
<1>. QED
  BY <1>2, <1>3, <1>4 DEF AuthorFallback

\* A frame begins: what is sampled belongs to an earlier one.
LEMMA EnterInv ==
  ASSUME NEW scene \in Scenes \cup {None}, NEW policy \in Policies, NEW native \in BOOLEAN,
         Inv, CubeInv, Enter(scene, policy, native)
  PROVE  CubeInv'
<1>1. /\ pc = "idle" /\ pc' = "entered" /\ frame' = frame + 1 /\ plan' = NoPlan
      /\ UNCHANGED <<cube, drawn, data, pending, job, future>>
      /\ Whole(hist, data) /\ RunTyped /\ ~future /\ frame \in Nat
      /\ (pending' # None => job'.scene \in Scenes)
  BY DEF Enter, NextFrame, image, worker, CubeInv, PlanOpen, Timing, Inv, Typed
<1>2. in'.canonical = FALSE
  BY DEF Enter
<1>3. plan' \in Plans /\ plan'.frame = 0 /\ ~plan'.ready
  BY <1>1 DEF NoPlan, Plans
<1>4. /\ hist' \in Histories /\ pub'.frame \in Nat /\ pub'.frame <= frame
      /\ Whole(hist, data)'
  <2>1. CASE Revoke
    BY <1>1, <2>1, Revoked
  <2>2. CASE UNCHANGED published
    BY <1>1, <2>2, WholeStays DEF published, RunTyped
  <2>. QED
    BY <2>1, <2>2 DEF Enter
<1>. QED
  BY <1>1, <1>2, <1>3, <1>4 DEF CubeInv, RunTyped, Timing, PlanOpen, Ensured, Showing

\* A frame passes without a cube.
LEMMA SkippedInv == Inv /\ CubeInv /\ (RunLeavesEarly \/ RunDisabled) => CubeInv'
<1> SUFFICES ASSUME Inv, CubeInv, RunLeavesEarly \/ RunDisabled PROVE CubeInv'
  OBVIOUS
<1>1. /\ pc = "idle" /\ pc' = "idle" /\ frame' = frame + 1
      /\ UNCHANGED <<cube, drawn, data, pending, job, future>>
      /\ plan' \in {plan, NoPlan, [NoPlan EXCEPT !.failed = TRUE]}
      /\ Revoke \/ UNCHANGED published
  BY DEF RunLeavesEarly, RunDisabled, NextFrame, image, worker
<1>2. /\ Whole(hist, data) /\ RunTyped /\ ~future' /\ frame \in Nat
      /\ (pending' # None => job'.scene \in Scenes)
  BY <1>1 DEF CubeInv, PlanOpen, Timing, Inv, Typed
<1>3. plan' \in Plans /\ plan'.frame <= frame
  <2>1. NoPlan \in Plans /\ NoPlan.frame = 0
    BY DEF NoPlan, Plans
  <2>. DEFINE failed == [NoPlan EXCEPT !.failed = TRUE]
  <2>2. failed \in Plans /\ failed.frame = 0
    BY <2>1 DEF Plans
  <2>3. plan' = plan \/ plan' = NoPlan \/ plan' = failed
    BY <1>1
  <2>4. plan \in Plans /\ plan.frame <= frame /\ 0 <= frame
    BY <1>2 DEF RunTyped
  <2>. HIDE DEF failed
  <2>. QED
    BY <2>1, <2>2, <2>3, <2>4
<1>4. /\ hist' \in Histories /\ pub'.frame \in Nat /\ pub'.frame <= frame
      /\ Whole(hist, data)'
  <2>1. CASE Revoke
    BY <1>2, <2>1, Revoked
  <2>2. CASE UNCHANGED published
    BY <1>1, <1>2, <2>2, WholeStays DEF published, RunTyped
  <2>. QED
    BY <1>1, <2>1, <2>2
<1>5. RunTyped'
  <2>1. frame' = frame + 1 /\ cube' = cube /\ frame \in Nat
    BY <1>1, <1>2
  <2>2. plan'.frame \in Nat
    BY <1>3 DEF Plans
  <2>3. hist' \in Histories /\ pub'.frame \in Nat /\ pub'.frame <= frame
    BY <1>4
  <2>. QED
    BY <1>2, <1>3, <2>1, <2>2, <2>3 DEF RunTyped
<1>6. plan'.frame # frame'
  <2>1. plan'.frame \in Nat /\ plan'.frame <= frame
    BY <1>3 DEF Plans
  <2>2. frame' = frame + 1 /\ frame \in Nat
    BY <1>1, <1>2
  <2>. QED
    BY <2>1, <2>2
<1>. QED
  BY <1>1, <1>2, <1>4, <1>5, <1>6, ToClosed DEF Showing

LEMMA EpochInv == Inv /\ CubeInv /\ InvalidateMapEpoch => CubeInv'
<1> SUFFICES ASSUME Inv, CubeInv, InvalidateMapEpoch PROVE CubeInv'
  OBVIOUS
<1>1. /\ pc' = pc /\ pc \in {"idle", "disabled"} /\ frame' = frame /\ plan' = NoPlan
      /\ UNCHANGED <<cube, drawn, data, future>> /\ pending' = None /\ Revoke
  BY DEF InvalidateMapEpoch, run, image
<1>2. RunTyped /\ ~future' /\ frame \in Nat
  BY <1>1 DEF CubeInv, Timing, Inv, Typed
<1>3. plan' \in Plans /\ plan'.frame = 0
  BY <1>1 DEF NoPlan, Plans
<1>4. RunTyped'
  BY <1>1, <1>2, <1>3, Revoked DEF RunTyped
<1>. QED
  BY <1>1, <1>2, <1>4, Revoked, ToClosed DEF Showing

LEMMA BeginSteps ==
  Inv /\ CubeInv /\ (BeginNothing \/ BeginAsync \/ BeginSubmits \/ BeginRejected) => CubeInv'
<1> SUFFICES ASSUME Inv, CubeInv, BeginNothing \/ BeginAsync \/ BeginSubmits \/ BeginRejected
             PROVE  CubeInv'
  OBVIOUS
<1>1. /\ pc = "entered" /\ pc' = "begun" /\ plan' \in {plan, Named(NoPlan)}
      /\ UNCHANGED <<mode, frame, in, hist, pub, cube, data, drawn>>
      /\ frame \in Nat /\ in \in Inputs /\ ~future
  BY DEF BeginNothing, BeginAsync, BeginSubmits, BeginRejected, Worth, Wanted, owner, published,
         image, Inv, Typed, CubeInv, Timing
<1>2. future' => ~Persistent /\ in.scene \in Scenes
  <2>1. CASE BeginAsync
    BY <1>1, <2>1 DEF BeginAsync, Worth, Inputs
  <2>2. CASE BeginNothing \/ BeginSubmits \/ BeginRejected
    BY <1>1, <2>2 DEF BeginNothing, BeginSubmits, BeginRejected
  <2>. QED
    BY <2>1, <2>2
<1>3. pending' # None => job'.scene \in Scenes
  <2>1. CASE BeginSubmits
    <3>1. job' = Freeze /\ in.scene # None
      BY <2>1 DEF BeginSubmits, Wanted, Worth
    <3>. QED
      BY <1>1, <3>1 DEF Freeze, Inputs
  <2>2. CASE BeginNothing \/ BeginAsync \/ BeginRejected
    BY <2>2 DEF BeginNothing, BeginAsync, BeginRejected, worker, CubeInv, Timing
  <2>. QED
    BY <2>1, <2>2
<1>. QED
  BY <1>1, <1>2, <1>3, ToBegun

-----------------------------------------------------------------------------
LEMMA InitCube == Init => CubeInv
<1> SUFFICES ASSUME Init PROVE CubeInv
  OBVIOUS
<1>1. /\ pc = "idle" /\ frame = 0 /\ plan = NoPlan /\ hist = NoHistory /\ pub = NoPub
      /\ cube = [gen |-> 0, resolution |-> 0] /\ future = FALSE /\ pending = None
  BY DEF Init
<1>2. hist \in Histories /\ ~hist.ready
  BY <1>1 DEF NoHistory, Histories
<1>3. plan \in Plans /\ plan.frame = 0 /\ ~plan.ready
  BY <1>1 DEF NoPlan, Plans
<1>. QED
  BY <1>1, <1>2, <1>3
     DEF NoPub, CubeInv, RunTyped, Timing, PlanOpen, Whole, Ensured, Showing, Matches

LEMMA StepCube == Inv /\ CubeInv /\ [Next]_vars => CubeInv'
<1> SUFFICES ASSUME Inv, CubeInv, [Next]_vars PROVE CubeInv'
  OBVIOUS
<1>1. CASE LightsChange \/ CreateWorker \/ BeginReclaims \/ WorkerStep \/ UNCHANGED vars
  <2>1. UNCHANGED <<mode, epoch, frame, pc, in, plan, hist, pub, cube, data, drawn, future>>
    BY <1>1 DEF LightsChange, CreateWorker, BeginReclaims, WorkerStep, vars, owner, run,
                published, image
  <2>2. pending' # None => job'.scene \in Scenes
    BY <1>1 DEF LightsChange, CreateWorker, BeginReclaims, WorkerStep, vars, worker, CubeInv,
                Timing
  <2>. QED
    BY <2>1, <2>2, Undisturbed
<1>2. CASE InvalidateMapEpoch
  BY <1>2, EpochInv
<1>3. CASE RunLeavesEarly \/ RunDisabled
  BY <1>3, SkippedInv
<1>4. ASSUME NEW scene \in Scenes \cup {None}, NEW policy \in Policies,
             NEW native \in BOOLEAN, Enter(scene, policy, native)
      PROVE  CubeInv'
  BY <1>4, EnterInv
<1>5. CASE BeginNothing \/ BeginAsync \/ BeginSubmits \/ BeginRejected
  BY <1>5, BeginSteps
<1>6. CASE AsyncPlans \/ AsyncFails
  BY <1>6, AsyncSteps
<1>7. CASE PlanWithoutProposal \/ PlanWithProposal
  BY <1>7, PlanSteps
<1>8. CASE KeepOrRevoke \/ RenderRefused
  BY <1>8, KeepOrRevokeInv, RefusedInv
<1>9. CASE EnsureCube \/ BudgetRejects
  BY <1>9, EnsureInv, BudgetInv
<1>10. CASE Record \/ RecordThrows \/ RunThrows
  BY <1>10, RecordInv, ThrowsInv
<1>11. CASE Leave \/ AuthorFallback
  BY <1>11, LeaveInv
<1>. QED
  BY <1>1, <1>2, <1>3, <1>4, <1>5, <1>6, <1>7, <1>8, <1>9, <1>10, <1>11 DEF Next

\* The parts of the cube fit together in every reachable state.
THEOREM CubeInvariance == Spec => [](Inv /\ CubeInv)
<1>1. Init => Inv /\ CubeInv
  BY InitInv, InitCube
<1>2. Inv /\ CubeInv /\ [Next]_vars => (Inv /\ CubeInv)'
  BY StepInv, StepCube
<1>. QED
  BY <1>1, <1>2, PTL DEF Spec

\* The cube that is sampled has every face, and all of them show one scene under
\* the lights of this frame: faces kept from earlier frames, plans made elsewhere,
\* a native list given up in mid-run and a pass that throws never mix two (8407,
\* 8704 of d3d9_war3_shadow.cpp).
THEOREM CubeSafety == Spec => []CubeWhole
<1>1. Inv /\ CubeInv => CubeWhole
  BY DEF CubeInv, Showing, Shown, CubeWhole, Sampled
<1>. QED
  BY <1>1, CubeInvariance, PTL

\* A proposal of the prepare worker that passes the owner's comparisons is what
\* the owner's own planner would have made of this frame (6710-6945).
THEOREM PlannersAgree == Spec => []ProposalIsCanonical
<1>1. Inv /\ CubeInv => ProposalIsCanonical
  <2> SUFFICES ASSUME CubeInv, Collectable, Accepted
               PROVE  Adopted(Proposal(job)) = Canonical
    BY DEF ProposalIsCanonical
  <2>1. hist \in Histories /\ job = Freeze
    BY DEF CubeInv, RunTyped, Accepted, Exact
  <2>. QED
    BY <2>1, AdoptedIsCanonical
<1>. QED
  BY <1>1, CubeInvariance, PTL
=============================================================================
