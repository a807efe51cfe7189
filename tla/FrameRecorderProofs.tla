------------------------ MODULE FrameRecorderProofs ------------------------
(***************************************************************************)
(* Proofs about the frame recorder, for any number of hotkey threads, any  *)
(* size of the ring, any number of sessions and of images; about the       *)
(* screenshot service that its exports go through, for any number of       *)
(* slots, requests and readbacks; and that a step of the service on a      *)
(* readback is what the recorder assumes of it.  The two specifications    *)
(* have no variable in common.                                             *)
(***************************************************************************)
EXTENDS FrameRecorder, AsyncScreenshot, FiniteSetTheorems, WellFoundedInduction, TLAPS

-----------------------------------------------------------------------------
(* Types, the mutex, and what a state of the lifecycle says.               *)

Rings == [head : 0 .. Pre - 1, filled : 0 .. Pre, written : 0 .. Post, serial : Nat]

JobRecords == [ord : Nat, queued : BOOLEAN, done : BOOLEAN, ok : BOOLEAN]

KeyRecords == [pc : {"idle", "swap", "answer"}, read : Nat]

HotTyped ==
  /\ session \in Nat /\ active \in Nat /\ bound \in Nat
  /\ box \in [active : Nat, pending : Nat] /\ keys \in [Keys -> KeyRecords]

\* Only Present holds the mutex while it is inside capture, and only on a live
\* owner; a command that is arming holds it in Idle.
Locked ==
  /\ present # "idle" <=> holder = "present"
  /\ present # "idle" => owner = "live"
  /\ owner = "gone" => Free /\ box.active = 0
  /\ holder = "control" => state = "Idle"
  /\ present \in {"open", "disarm", "trigger", "ask"} => state = "Armed"
  /\ present = "consume" => state \in {"Armed", "Triggered"}
  /\ present \in {"open", "trigger", "ask"} => box.active = 0

-----------------------------------------------------------------------------
(* The mailbox.                                                            *)

\* No party holds a session later than the gate's, or than the one recorded.
NotAhead(s) ==
  /\ box.active <= s /\ box.pending <= s
  /\ \A k \in Keys : keys[k].read <= s

Sessions ==
  /\ active <= session /\ bound <= session /\ NotAhead(session)
  /\ active # 0 => bound <= active /\ NotAhead(active)
  /\ bound # 0 => NotAhead(bound)

\* The mailbox is open only for the session of armed images.
BoxBound ==
  /\ box.active # 0 => state = "Armed" /\ box.active = bound
  /\ \A k \in Keys : keys[k].pc # "idle" => keys[k].read # 0

\* Until the mailbox opens, whoever names its session read it before the arm.
OldRequests ==
  (state = "PendingArm" \/ present = "open") /\ bound # 0
    => \A k \in Keys : keys[k].read = bound => k \in stale

Answers ==
  \A k \in Keys \ stale :
     keys[k].pc = "answer" /\ box.active = keys[k].read
       => box.pending = keys[k].read \/ present = "disarm"

HotInv == HotTyped /\ Locked /\ Sessions /\ BoxBound /\ OldRequests /\ Answers

-----------------------------------------------------------------------------
(* The ring.                                                               *)

\* The slot of the j-th last image before the trigger.
At(r, j) == (r.head + Pre - j) % Pre

Before(r) ==
  \A j \in 1 .. r.filled : frames[At(r, j)].ord + r.written + j = r.serial + 1

After(r) ==
  \A w \in 0 .. r.written - 1 : frames[Pre + w].ord + r.written = r.serial + w + 1

Consecutive ==
  /\ order \in Seq(Frames) /\ Len(order) >= Post
  /\ \A i \in DOMAIN order : frames[order[i]].ord + Len(order) = ring.serial + i

Saved == \A j \in Jobs : j.done /\ j.ok

RingInv ==
  /\ ring \in Rings /\ frames \in [Frames -> JobRecords]
  /\ state = "PendingArm" => ring = EmptyRing
  /\ state = "Armed" => ring.written = 0
  /\ state = "Triggered" => ring.written < Post
  /\ state \in {"PendingArm", "Armed", "Triggered"} => Before(ring) /\ After(ring)
  /\ state \in {"Frozen", "Exporting", "Complete"} => Consecutive
  /\ state = "Complete" => Saved

-----------------------------------------------------------------------------
(* Each action keeps the mailbox.                                          *)

LEMMA HotInit == ASSUME RecorderInit PROVE HotInv
  BY DEF RecorderInit, Cpu!Init, HotInv, HotTyped, KeyRecords, Locked, Sessions, NotAhead,
     BoxBound, OldRequests, Answers, Free

\* The steps that do not touch the mailbox, or shut it with the end of the recording.
LEMMA HotLife ==
  ASSUME HotInv, UNCHANGED <<session, active, bound, keys, lock, owner, stale>>,
         \/ state' = state /\ box' = box
         \/ /\ Free /\ state' \notin {"PendingArm", "Armed"}
            /\ \/ box' = [box EXCEPT !.active = 0]
               \/ box' = box /\ state # "Armed"
  PROVE  HotInv'
<1>1. CASE state' = state /\ box' = box
  BY <1>1 DEF HotInv, HotTyped, Locked, Sessions, NotAhead, BoxBound, OldRequests, Answers,
     lock, Free
<1>2. CASE /\ Free /\ state' \notin {"PendingArm", "Armed"}
           /\ \/ box' = [box EXCEPT !.active = 0]
              \/ box' = box /\ state # "Armed"
  <2>1. /\ box' \in [active : Nat, pending : Nat]
        /\ box'.active = 0 /\ box'.pending = box.pending
    BY <1>2 DEF HotInv, HotTyped, BoxBound
  <2>2. present' = "idle" /\ holder' = "none" /\ present = "idle"
    BY <1>2 DEF HotInv, Locked, lock, Free
  <2>3. HotTyped' /\ Locked'
    BY <1>2, <2>1, <2>2 DEF HotInv, HotTyped, Locked, lock, Free
  <2>4. Sessions'
    BY <2>1 DEF HotInv, HotTyped, Sessions, NotAhead
  <2>5. BoxBound' /\ OldRequests' /\ Answers'
    BY <1>2, <2>1, <2>2 DEF HotInv, BoxBound, OldRequests, Answers
  <2>. QED
    BY <2>3, <2>4, <2>5 DEF HotInv
<1>. QED
  BY <1>1, <1>2

\* The gate moves to the session published, or shuts.
LEMMA HotCpu ==
  ASSUME HotInv, UNCHANGED <<state, bound, box, keys, lock, owner, stale>>,
         session' \in {session, session + 1}, active' \in {active, 0, session}
  PROVE  HotInv'
<1>1. HotTyped' /\ Locked' /\ BoxBound' /\ OldRequests' /\ Answers'
  BY DEF HotInv, HotTyped, Locked, BoxBound, OldRequests, Answers, lock, Free
<1>2. \A k \in Keys : keys[k].read \in Nat
  BY DEF HotInv, HotTyped, KeyRecords
<1>3. box.active \in Nat /\ box.pending \in Nat
  BY DEF HotInv, HotTyped
<1>4. Sessions'
  BY <1>2, <1>3 DEF HotInv, HotTyped, Sessions, NotAhead
<1>. QED
  BY <1>1, <1>4 DEF HotInv

LEMMA HotKey ==
  ASSUME HotInv, NEW k \in Keys, KeyRead(k) \/ KeySwap(k) \/ KeyAnswer(k)
  PROVE  HotInv'
<1>1. /\ UNCHANGED <<session, active, bound, state, lock, owner>>
      /\ box' \in [active : Nat, pending : Nat] /\ box'.active = box.active
      /\ box'.pending = box.pending \/ box'.pending = keys[k].read
      /\ keys' \in [Keys -> KeyRecords]
      /\ keys'[k].read \in {keys[k].read, box.active, 0}
      /\ \A j \in Keys \ {k} : keys'[j] = keys[j]
      /\ stale' \subseteq stale /\ stale \ {k} \subseteq stale'
  BY DEF KeyRead, KeySwap, KeyAnswer, HotInv, HotTyped, KeyRecords, cpu, life, lock, local
<1>2. HotTyped' /\ Locked'
  BY <1>1 DEF HotInv, HotTyped, Locked, lock, Free
<1>3. Sessions'
  BY <1>1 DEF HotInv, HotTyped, KeyRecords, Sessions, NotAhead
<1>4. BoxBound'
  BY <1>1 DEF HotInv, HotTyped, KeyRecords, BoxBound, KeyRead, KeySwap, KeyAnswer
<1>5. OldRequests'
  BY <1>1 DEF HotInv, HotTyped, KeyRecords, BoxBound, Locked, OldRequests, KeyRead, KeySwap,
     KeyAnswer, lock
<1>6. Answers'
  <2>1. SUFFICES ASSUME NEW j \in Keys \ stale', keys'[j].pc = "answer",
                        box'.active = keys'[j].read
                 PROVE  box'.pending = keys'[j].read \/ present' = "disarm"
    BY DEF Answers
  <2>2. keys[j].pc # "idle" /\ keys'[j].read = keys[j].read /\ j \notin stale
    BY <1>1, <2>1 DEF HotInv, HotTyped, KeyRecords, KeyRead, KeySwap, KeyAnswer
  <2>3. bound # 0 /\ keys[j].read = bound
    BY <1>1, <2>1, <2>2 DEF HotInv, BoxBound
  <2>4. box.pending <= bound /\ keys[k].read <= bound /\ box.pending \in Nat /\ bound \in Nat
    BY <2>3 DEF HotInv, HotTyped, Sessions, NotAhead
  <2>5. CASE KeySwap(k)
    BY <1>1, <2>1, <2>2, <2>3, <2>4, <2>5
    DEF KeySwap, HotInv, HotTyped, KeyRecords, Answers, lock
  <2>6. CASE KeyRead(k) \/ KeyAnswer(k)
    BY <1>1, <2>1, <2>2, <2>6 DEF KeyRead, KeyAnswer, HotInv, HotTyped, KeyRecords, Answers, lock
  <2>. QED
    BY <2>5, <2>6
<1>. QED
  BY <1>2, <1>3, <1>4, <1>5, <1>6 DEF HotInv

\* The mailbox is cleared while it is shut, and then opened.
LEMMA HotArm == ASSUME HotInv, CaptureAllocate \/ BoxOpen PROVE HotInv'
<1>1. /\ UNCHANGED <<session, active, bound, keys, owner, stale>> /\ holder' = "present"
      /\ box' \in [active : Nat, pending : Nat] /\ state' = "Armed"
      /\ owner = "live" /\ box.active = 0
  BY DEF CaptureAllocate, BoxOpen, Capturing, CanCapture, Holds, HotInv, HotTyped, Locked,
     BoxBound, cpu, life, local
<1>2. CASE CaptureAllocate
  <2>1. box'.active = 0 /\ box'.pending = 0 /\ present' = "open" /\ state = "PendingArm"
    BY <1>1, <1>2 DEF CaptureAllocate, Holds, HotInv, HotTyped
  <2>2. HotTyped' /\ Locked'
    BY <1>1, <2>1 DEF HotInv, HotTyped, Locked, Free
  <2>3. Sessions'
    BY <1>1, <2>1 DEF HotInv, HotTyped, KeyRecords, Sessions, NotAhead
  <2>4. BoxBound' /\ OldRequests' /\ Answers'
    BY <1>1, <2>1 DEF HotInv, BoxBound, OldRequests, Answers, HotTyped, KeyRecords
  <2>. QED
    BY <2>2, <2>3, <2>4 DEF HotInv
<1>3. CASE BoxOpen
  <2>1. box'.active = bound /\ box'.pending = box.pending /\ present' = "consume"
        /\ present = "open" /\ state = "Armed"
    BY <1>1, <1>3 DEF BoxOpen, Holds, HotInv, HotTyped, Locked
  <2>2. HotTyped' /\ Locked'
    BY <1>1, <2>1 DEF HotInv, HotTyped, Locked, Free
  <2>3. Sessions'
    BY <1>1, <2>1 DEF HotInv, HotTyped, KeyRecords, Sessions, NotAhead
  <2>4. BoxBound' /\ OldRequests' /\ Answers'
    BY <1>1, <2>1 DEF HotInv, BoxBound, OldRequests, Answers, HotTyped, KeyRecords
  <2>. QED
    BY <2>2, <2>3, <2>4 DEF HotInv
<1>. QED
  BY <1>2, <1>3

\* A capture consumes a request only of its own session, and of every answered one.
LEMMA HotCapture ==
  ASSUME HotInv, CaptureFrame \/ Consume \/ Disarm \/ TriggerLoad \/ TriggerCpu
  PROVE  HotInv'
<1>1. CASE CaptureFrame
  <2>1. /\ UNCHANGED <<session, active, bound, state, box, keys, owner, stale>>
        /\ holder' = "present" /\ present' = "consume" /\ owner = "live"
        /\ present = "idle" /\ state \in {"Armed", "Triggered"}
    BY <1>1 DEF CaptureFrame, Capturing, CanCapture, Holds, cpu, life, hot, local
  <2>. QED
    BY <2>1 DEF HotInv, HotTyped, Locked, Sessions, NotAhead, BoxBound, OldRequests, Answers, Free
<1>2. CASE Consume
  <2>1. /\ UNCHANGED <<session, active, bound, keys, owner, stale>>
        /\ present = "consume" /\ holder = "present" /\ owner = "live"
        /\ state \in {"Armed", "Triggered"}
    BY <1>2 DEF Consume, HotInv, Locked, cpu, local
  <2>2. /\ box' \in [active : Nat, pending : Nat] /\ box'.active = box.active
        /\ box'.pending = IF Consumes THEN 0 ELSE box.pending
    BY <1>2 DEF Consume, HotInv, HotTyped
  <2>3. \/ Triggers /\ holder' = "present" /\ present' = "disarm" /\ state' = state
        \/ /\ ~Triggers /\ state = "Armed" /\ state' = state
           /\ holder' = "none" /\ present' = "idle"
        \/ /\ state = "Triggered" /\ state' \in {"Triggered", "Frozen"}
           /\ holder' = "none" /\ present' = "idle"
    BY <1>2 DEF Consume, Holds, Drops, Stores, StoresBefore, StoresAfter
  <2>4. HotTyped' /\ Locked'
    BY <2>1, <2>2, <2>3 DEF HotInv, HotTyped, Locked, Free, Triggers
  <2>5. Sessions'
    BY <2>1, <2>2 DEF HotInv, HotTyped, KeyRecords, Sessions, NotAhead
  <2>6. BoxBound' /\ OldRequests'
    BY <2>1, <2>2, <2>3 DEF HotInv, BoxBound, OldRequests
  <2>7. Answers'
    BY <2>1, <2>2, <2>3 DEF HotInv, HotTyped, KeyRecords, BoxBound, Answers, Triggers, Consumes
  <2>. QED
    BY <2>4, <2>5, <2>6, <2>7 DEF HotInv
<1>3. CASE Disarm
  <2>1. /\ UNCHANGED <<session, active, bound, state, keys, owner, stale>>
        /\ present = "disarm" /\ holder' = "present" /\ present' = "trigger"
        /\ box' \in [active : Nat, pending : Nat] /\ box'.active = 0
        /\ box'.pending = box.pending
    BY <1>3 DEF Disarm, Holds, HotInv, HotTyped, cpu, life, local
  <2>2. HotTyped' /\ Locked'
    BY <2>1 DEF HotInv, HotTyped, Locked, Free
  <2>3. Sessions'
    BY <2>1 DEF HotInv, HotTyped, KeyRecords, Sessions, NotAhead
  <2>4. BoxBound' /\ OldRequests' /\ Answers'
    BY <2>1 DEF HotInv, BoxBound, OldRequests, Answers, HotTyped, KeyRecords, Locked
  <2>. QED
    BY <2>2, <2>3, <2>4 DEF HotInv
<1>4. CASE TriggerCpu
  <2>1. /\ UNCHANGED <<session, active, bound, box, keys, owner, stale>>
        /\ present = "ask" /\ state' \in {"Triggered", "Frozen"}
        /\ holder' = "none" /\ present' = "idle"
    BY <1>4 DEF TriggerCpu, StoresAfter, Stores, Drops, Cpu!Request, cpu, hot, local
  <2>. QED
    BY <2>1 DEF HotInv, HotTyped, Locked, Sessions, NotAhead, BoxBound, OldRequests, Answers, Free
<1>5. CASE TriggerLoad
  <2>1. /\ UNCHANGED <<session, active, bound, state, box, keys, owner, stale>>
        /\ present = "trigger" /\ holder' = "present" /\ present' = "ask"
    BY <1>5 DEF TriggerLoad, cpu, life, hot, local
  <2>. QED
    BY <2>1 DEF HotInv, HotTyped, Locked, Sessions, NotAhead, BoxBound, OldRequests, Answers, Free
<1>. QED
  BY <1>1, <1>2, <1>3, <1>4, <1>5

\* A command names the session, and the gate is read again for the one recorded.
LEMMA HotCheck ==
  ASSUME HotInv, NEW named, ArmCheck(named), UNCHANGED owner
  PROVE  HotInv'
<1>1. /\ UNCHANGED <<session, active, bound, state, box, keys, present, stale>>
      /\ holder = "none" /\ holder' = "control" /\ state = "Idle" /\ owner # "gone"
  BY DEF ArmCheck, Registered, Free, cpu, life, hot
<1>. QED
  BY <1>1 DEF HotInv, HotTyped, Locked, Sessions, NotAhead, BoxBound, OldRequests, Answers, Free

LEMMA HotBind ==
  ASSUME HotInv, ArmBind \/ ArmNoDirectory, UNCHANGED owner
  PROVE  HotInv'
<1>1. /\ UNCHANGED <<session, active, box, keys, present, owner>>
      /\ holder = "control" /\ holder' = "none" /\ bound' = active
  BY DEF ArmBind, ArmNoDirectory, ArmBinds, cpu, hot
<1>2. state = "Idle" /\ box.active = 0 /\ present = "idle"
  BY <1>1 DEF HotInv, Locked, BoxBound
<1>3. HotTyped' /\ Locked'
  BY <1>1, <1>2 DEF HotInv, HotTyped, Locked, Free
<1>4. Sessions'
  BY <1>1 DEF HotInv, HotTyped, Sessions, NotAhead
<1>5. BoxBound' /\ Answers'
  BY <1>1, <1>2 DEF HotInv, HotTyped, KeyRecords, BoxBound, Answers
<1>6. OldRequests'
  BY <1>1, <1>2 DEF OldRequests, ArmBind, ArmNoDirectory
<1>. QED
  BY <1>3, <1>4, <1>5, <1>6 DEF HotInv

LEMMA HotOwner == ASSUME HotInv, Release \/ ReleaseJoin \/ Create PROVE HotInv'
<1>1. CASE Release
  <2>1. /\ UNCHANGED <<session, active, bound, state, box, keys, lock, stale>>
        /\ present = "idle" /\ owner' = "joining"
    BY <1>1 DEF Release, cpu, others, life, hot, files
  <2>. QED
    BY <2>1 DEF HotInv, HotTyped, Locked, Sessions, NotAhead, BoxBound, OldRequests, Answers,
       Free, lock
<1>2. CASE ReleaseJoin
  <2>1. /\ UNCHANGED <<session, active, bound, state, keys, holder, present, stale>>
        /\ holder = "none" /\ owner' = "gone"
        /\ box' \in [active : Nat, pending : Nat] /\ box'.active = 0
        /\ box'.pending = box.pending
    BY <1>2 DEF ReleaseJoin, cpu, life, lock, Free, HotInv, HotTyped
  <2>2. HotTyped' /\ Locked'
    BY <2>1 DEF HotInv, HotTyped, Locked, Free
  <2>3. Sessions'
    BY <2>1 DEF HotInv, HotTyped, KeyRecords, Sessions, NotAhead
  <2>4. BoxBound' /\ OldRequests' /\ Answers'
    BY <2>1 DEF HotInv, BoxBound, OldRequests, Answers, HotTyped, KeyRecords
  <2>. QED
    BY <2>2, <2>3, <2>4 DEF HotInv
<1>3. CASE Create
  <2>1. /\ UNCHANGED <<session, active, box, keys, holder, present>>
        /\ owner = "gone" /\ owner' = "live" /\ state' = "Idle" /\ bound' = 0
    BY <1>3 DEF Create, cpu, hot, lock
  <2>2. holder = "none" /\ present = "idle" /\ box.active = 0
    BY <2>1 DEF HotInv, Locked, Free
  <2>3. HotTyped' /\ Locked'
    BY <2>1, <2>2 DEF HotInv, HotTyped, Locked, Free
  <2>4. Sessions'
    BY <2>1 DEF HotInv, HotTyped, Sessions, NotAhead
  <2>5. BoxBound' /\ OldRequests' /\ Answers'
    BY <2>1, <2>2 DEF HotInv, HotTyped, KeyRecords, BoxBound, OldRequests, Answers
  <2>. QED
    BY <2>3, <2>4, <2>5 DEF HotInv
<1>. QED
  BY <1>1, <1>2, <1>3

LEMMA HotClients ==
  ASSUME HotInv,
         \/ ClientArmCheck \/ ClientArmBind \/ ClientTrigger \/ ClientDiscard \/ ClientManifest
  PROVE  HotInv'
<1>1. CASE ClientArmCheck
  BY <1>1, HotCheck DEF ClientArmCheck, local
<1>2. CASE ClientArmBind
  BY <1>2, HotBind DEF ClientArmBind, local
<1>3. CASE ClientTrigger
  BY <1>3, HotLife DEF ClientTrigger, cpu, hot, local
<1>4. CASE ClientDiscard
  BY <1>4, HotLife DEF ClientDiscard, Registered, cpu, hot, local
<1>5. CASE ClientManifest
  BY <1>5, HotLife DEF ClientManifest, WriteManifest, Registered, Settles, Fail, cpu, local
<1>. QED
  BY <1>1, <1>2, <1>3, <1>4, <1>5

LEMMA HotWorker == ASSUME HotInv, WorkerAttempt \/ RecorderStep PROVE HotInv'
<1>1. CASE WorkerStop \/ WorkerArmFails \/ WorkerArmRefused \/ WorkerExport \/ WorkerSign
           \/ WorkerExportFails
  BY <1>1, HotLife DEF WorkerStop, WorkerArmFails, WorkerArmRefused, WorkerExport, WorkerSign,
     WorkerExportFails, WorkerGoes, others, cpu, life, hot
<1>2. CASE WorkerArm \/ WorkerPublish \/ WorkerCpuExport \/ WorkerExit
  BY <1>2, HotCpu DEF WorkerArm, WorkerPublish, WorkerCpuExport, WorkerExit, WorkerGoes,
     Cpu!Arm, Cpu!Publish, others, cpu, life, hot
<1>3. CASE WorkerArmImages
  BY <1>3, HotCheck DEF WorkerArmImages, WorkerGoes
<1>4. CASE WorkerArmBind
  BY <1>4, HotBind DEF WorkerArmBind, WorkerGoes
<1>5. CASE WorkerManifest
  BY <1>5, HotLife DEF WorkerManifest, WorkerGoes, WriteManifest, Registered, Settles, Fail, cpu
<1>6. CASE WorkerFail
  BY <1>6, HotLife DEF WorkerFail, WorkerGoes, Fail, cpu
<1>. QED
  BY <1>1, <1>2, <1>3, <1>4, <1>5, <1>6 DEF WorkerAttempt, RecorderStep

LEMMA HotNext == ASSUME HotInv, [RecorderNext]_recorder_vars PROVE HotInv'
<1>1. CASE UNCHANGED recorder_vars
  BY <1>1, HotLife DEF recorder_vars, cpu, life, hot, local
<1>2. CASE CaptureDiscard \/ CaptureCancelled \/ CaptureRejected
  BY <1>2, HotLife DEF CaptureDiscard, CaptureCancelled, CaptureRejected, Capturing,
     CanCapture, Fail, cpu, hot, local
<1>3. CASE Settle \/ NextExportBegin
  BY <1>3, HotLife DEF Settle, Settles, Fail, NextExportBegin, Exports, CanCapture, cpu, hot,
     local
<1>4. CASE (\E o \in {"queued", "unprepared", "throws"} : NextExportJob(o))
           \/ Readback \/ ShotsFail \/ Cancel
  BY <1>4, HotLife DEF NextExportJob, Readback, ReadbackDone, ShotsFail, Cancel, cpu, life,
     hot, local
<1>5. CASE CpuStep
  BY <1>5, HotCpu DEF CpuStep, Cpu!Arm, Cpu!Publish, Cpu!Discard, Cpu!TakeRequest, Cpu!Cut,
     Cpu!Trigger, Cpu!Freeze, others, life, hot, local
<1>. QED
  BY <1>1, <1>2, <1>3, <1>4, <1>5, HotKey, HotArm, HotCapture, HotClients, HotWorker, HotOwner
  DEF RecorderNext, KeyStep, CaptureStep

\* Only the capture takes a request out; a hotkey replaces it by a later session.
LEMMA PendingStays ==
  ASSUME HotInv, [RecorderNext]_recorder_vars,
         box'.pending # box.pending
  PROVE  \/ \E k \in Keys : KeySwap(k)
         \/ CaptureAllocate \/ Consume
<1>1. box' = box \/ box' = [box EXCEPT !.active = 0] \/ BoxOpen \/ Disarm
        => box'.pending = box.pending
  BY DEF HotInv, HotTyped, BoxOpen, Disarm
<1>2. CASE UNCHANGED recorder_vars
  BY <1>1, <1>2 DEF recorder_vars, hot
<1>3. CASE (\E k \in Keys : KeyRead(k) \/ KeyAnswer(k)) \/ CpuStep \/ Readback \/ ShotsFail
           \/ Cancel \/ Release \/ ReleaseJoin \/ Create
  BY <1>1, <1>3 DEF KeyRead, KeyAnswer, CpuStep, Readback, ReadbackDone, ShotsFail, Cancel,
     Release, ReleaseJoin, Create, others, hot
<1>4. CASE CaptureDiscard \/ CaptureCancelled \/ CaptureRejected \/ Settle \/ NextExportBegin
           \/ (\E o \in {"queued", "unprepared", "throws"} : NextExportJob(o))
           \/ CaptureFrame \/ TriggerLoad \/ TriggerCpu
  BY <1>1, <1>4 DEF CaptureDiscard, CaptureCancelled, CaptureRejected, Fail, Settle, Settles,
     NextExportBegin, NextExportJob, CaptureFrame, TriggerLoad, TriggerCpu, hot
<1>5. CASE ClientArmCheck \/ ClientArmBind \/ ClientTrigger \/ ClientDiscard \/ ClientManifest
  BY <1>1, <1>5 DEF ClientArmCheck, ArmCheck, ClientArmBind, ArmBind, ArmNoDirectory,
     ClientTrigger, ClientDiscard, ClientManifest, WriteManifest, Settles, Fail, hot
<1>6. CASE WorkerAttempt \/ RecorderStep
  BY <1>1, <1>6 DEF WorkerAttempt, RecorderStep, WorkerStop, WorkerArmFails, WorkerArmRefused,
     WorkerExport, WorkerSign, WorkerExportFails, WorkerArm, WorkerPublish, WorkerCpuExport,
     WorkerExit, WorkerArmImages, ArmCheck, WorkerArmBind, ArmBind, ArmNoDirectory,
     WorkerManifest, WriteManifest, Settles, WorkerFail, Fail, others, hot
<1>. QED
  BY <1>1, <1>2, <1>3, <1>4, <1>5, <1>6 DEF RecorderNext, KeyStep, CaptureStep

-----------------------------------------------------------------------------
(* What the mailbox shows.                                                 *)

\* The sessions named by the gate, the mailbox and the hotkeys stay in order.
THEOREM MailboxInvariance == RecorderSpec => []HotInv
  BY HotInit, HotNext, PTL DEF RecorderSpec

\* A hotkey that is told TRUE is not lost: its request is in the mailbox or has just
\* been consumed, and only the capture takes a request of the armed session out.
THEOREM HotkeySafety == RecorderSpec => HotkeyKept
<1>. DEFINE Told == \A k \in Keys \ stale :
                      keys[k].pc = "answer" /\ keys'[k] # keys[k] /\ box.active = keys[k].read
                        => box.pending = keys[k].read \/ present = "disarm"
            Stays == state = "Armed" /\ bound # 0 /\ box.pending = bound
                     /\ box'.pending # bound => state' = "Fault" \/ present = "consume"
<1>1. HotInv /\ [RecorderNext]_recorder_vars => Told
  BY DEF HotInv, Answers
<1>2. HotInv /\ [RecorderNext]_recorder_vars => Stays
  <2>. SUFFICES ASSUME HotInv, [RecorderNext]_recorder_vars, state = "Armed", bound # 0,
                       box.pending = bound, box'.pending # bound
                PROVE  present = "consume"
    OBVIOUS
  <2>1. ASSUME NEW k \in Keys, KeySwap(k) PROVE FALSE
    <3>1. keys[k].read <= bound /\ keys[k].read \in Nat /\ bound \in Nat
      BY DEF HotInv, HotTyped, KeyRecords, Sessions, NotAhead
    <3>. QED
      BY <2>1, <3>1 DEF KeySwap
  <2>. QED
    BY <2>1, PendingStays DEF CaptureAllocate, Consume
<1>3. HotInv /\ [RecorderNext]_recorder_vars => [Told /\ Stays]_recorder_vars
  BY <1>1, <1>2
<1>. QED
  BY <1>3, MailboxInvariance, PTL DEF RecorderSpec, HotkeyKept

-----------------------------------------------------------------------------
(* Positions in the ring.                                                  *)

LEMMA Wraps ==
  ASSUME NEW a \in 0 .. 2 * Pre - 1
  PROVE  a % Pre = IF a < Pre THEN a ELSE a - Pre
  BY RecorderAssumption

LEMMA AtIs ==
  ASSUME NEW h \in 0 .. Pre - 1, NEW j \in 1 .. Pre
  PROVE  (h + Pre - j) % Pre = IF j <= h THEN h - j ELSE h + Pre - j
<1>1. h + Pre - j \in 0 .. 2 * Pre - 1
  BY RecorderAssumption
<1>2. PICK a \in 0 .. 2 * Pre - 1 : a = h + Pre - j
  BY <1>1
<1>3. a % Pre = IF a < Pre THEN a ELSE a - Pre
  BY Wraps
<1>4. (IF a < Pre THEN a ELSE a - Pre) = IF j <= h THEN h - j ELSE h + Pre - j
  BY <1>2, RecorderAssumption
<1>. QED
  BY <1>2, <1>3, <1>4

\* The head moves on over one slot: the positions before it shift by one, and the
\* slot just written is none of those still kept.
LEMMA HeadMoves ==
  ASSUME NEW h \in 0 .. Pre - 1
  PROVE  /\ (h + 1) % Pre \in 0 .. Pre - 1
         /\ (((h + 1) % Pre) + Pre - 1) % Pre = h
         /\ \A j \in 2 .. Pre : /\ (((h + 1) % Pre) + Pre - j) % Pre = (h + Pre - (j - 1)) % Pre
                                /\ (h + Pre - (j - 1)) % Pre # h
<1>1. (h + 1) % Pre = IF h + 1 < Pre THEN h + 1 ELSE 0
  <2>1. h + 1 \in 0 .. 2 * Pre - 1
    BY RecorderAssumption
  <2>. QED
    BY <2>1, Wraps, RecorderAssumption
<1>2. PICK g \in 0 .. Pre - 1 : g = (h + 1) % Pre
  BY <1>1, RecorderAssumption
<1>3. g = IF h + 1 < Pre THEN h + 1 ELSE 0
  BY <1>1, <1>2
<1>4. (g + Pre - 1) % Pre = h
  <2>1. (g + Pre - 1) % Pre = IF 1 <= g THEN g - 1 ELSE g + Pre - 1
    BY AtIs, RecorderAssumption
  <2>. QED
    BY <1>3, <2>1, RecorderAssumption
<1>5. ASSUME NEW j \in 2 .. Pre
      PROVE  (g + Pre - j) % Pre = (h + Pre - (j - 1)) % Pre /\ (h + Pre - (j - 1)) % Pre # h
  <2>1. j \in 1 .. Pre /\ j - 1 \in 1 .. Pre
    BY RecorderAssumption
  <2>2. (g + Pre - j) % Pre = IF j <= g THEN g - j ELSE g + Pre - j
    BY <2>1, AtIs
  <2>3. (h + Pre - (j - 1)) % Pre = IF j - 1 <= h THEN h - (j - 1) ELSE h + Pre - (j - 1)
    BY <2>1, AtIs
  <2>. QED
    BY <1>3, <2>2, <2>3, RecorderAssumption
<1>. QED
  BY <1>2, <1>4, <1>5

LEMMA RingFrames ==
  ASSUME ring \in Rings
  PROVE  /\ \A j \in 1 .. ring.filled : At(ring, j) \in 0 .. Pre - 1
         /\ 0 .. Pre - 1 \subseteq Frames
         /\ \A w \in 0 .. Post - 1 : Pre + w \in Frames /\ Pre + w \notin 0 .. Pre - 1
<1>1. ASSUME NEW j \in 1 .. ring.filled PROVE At(ring, j) \in 0 .. Pre - 1
  <2>1. j \in 1 .. Pre /\ ring.head \in 0 .. Pre - 1
    BY RecorderAssumption DEF Rings
  <2>2. At(ring, j) = IF j <= ring.head THEN ring.head - j ELSE ring.head + Pre - j
    BY <2>1, AtIs DEF At
  <2>. QED
    BY <2>1, <2>2, RecorderAssumption
<1>. QED
  BY <1>1, RecorderAssumption DEF Frames

-----------------------------------------------------------------------------
(* Each action keeps the ring.                                             *)

LEMMA RingInit == ASSUME RecorderInit PROVE RingInv
  BY RecorderAssumption
  DEF RecorderInit, EmptyRing, NoJob, RingInv, Rings, JobRecords, Before, After

\* The lifecycle goes on to a state that promises nothing new.
LEMMA RingLife ==
  ASSUME RingInv, UNCHANGED <<ring, frames, order>>,
         \/ state' = state
         \/ state' \in {"Idle", "Fault", "Discard"}
         \/ state = "Frozen" /\ state' = "Exporting"
  PROVE  RingInv'
<1>1. Jobs' = Jobs
  BY DEF Jobs
<1>. QED
  BY <1>1 DEF RingInv, Before, After, At, Consecutive, Saved

\* All slots are given up, or allocated.
LEMMA RingEmptied ==
  ASSUME RingInv, frames' = [i \in Frames |-> NoJob],
         \/ ring' = ring /\ state' \in {"Idle", "Fault"}
         \/ ring' = EmptyRing /\ state' \in {"Idle", "Armed"}
  PROVE  RingInv'
<1>1. frames' \in [Frames -> JobRecords]
  BY DEF NoJob, JobRecords
<1>2. EmptyRing \in Rings
  BY RecorderAssumption DEF EmptyRing, Rings
<1>3. CASE ring' = ring /\ state' \in {"Idle", "Fault"}
  BY <1>1, <1>3 DEF RingInv
<1>4. CASE ring' = EmptyRing /\ state' \in {"Idle", "Armed"}
  BY <1>1, <1>2, <1>4 DEF RingInv, EmptyRing, Before, After
<1>. QED
  BY <1>3, <1>4

LEMMA RingBind ==
  ASSUME RingInv, ring' = EmptyRing, frames' = frames, state' = "PendingArm"
  PROVE  RingInv'
<1>1. EmptyRing \in Rings
  BY RecorderAssumption DEF EmptyRing, Rings
<1>. QED
  BY <1>1 DEF RingInv, EmptyRing, Before, After

\* A readback moves on: no image changes its place, and none that is done changes.
LEMMA RingReadback ==
  ASSUME RingInv, UNCHANGED <<ring, order, state>>, frames' \in [Frames -> JobRecords],
         \A i \in Frames : frames'[i].ord = frames[i].ord,
         state = "Complete" => \A i \in Frames : frames[i].done => frames'[i] = frames[i]
  PROVE  RingInv'
<1>1. ASSUME state \in {"PendingArm", "Armed", "Triggered"}
      PROVE  Before(ring)' /\ After(ring)'
  <2>1. Before(ring) /\ After(ring) /\ ring \in Rings
    BY <1>1 DEF RingInv
  <2>2. \A j \in 1 .. ring.filled : At(ring, j) \in Frames
    BY <2>1, RingFrames
  <2>3. \A w \in 0 .. ring.written - 1 : Pre + w \in Frames
    BY <2>1, RecorderAssumption DEF Rings, Frames
  <2>4. Before(ring)'
    BY <2>1, <2>2 DEF Before, At
  <2>5. After(ring)'
    BY <2>1, <2>3 DEF After
  <2>. QED
    BY <2>4, <2>5
<1>2. ASSUME state \in {"Frozen", "Exporting", "Complete"} PROVE Consecutive'
  <2>1. Consecutive
    BY <1>2 DEF RingInv
  <2>2. \A i \in DOMAIN order : order[i] \in Frames
    BY <2>1 DEF Consecutive
  <2>. QED
    BY <2>1, <2>2 DEF Consecutive
<1>3. ASSUME state = "Complete" PROVE Saved'
  <2>1. Consecutive /\ Saved
    BY <1>3 DEF RingInv
  <2>2. \A i \in DOMAIN order : order[i] \in Frames
    BY <2>1 DEF Consecutive
  <2>3. Jobs' = Jobs
    BY <1>3, <2>1, <2>2 DEF Jobs, Saved
  <2>. QED
    BY <2>1, <2>3 DEF Saved
<1>. QED
  BY <1>1, <1>2, <1>3 DEF RingInv

\* An image before the trigger goes over the oldest one.
LEMMA RingBefore ==
  ASSUME RingInv, state = "Armed", StoresBefore
  PROVE  RingInv'
<1>. DEFINE h == ring.head
<1>1. /\ h \in 0 .. Pre - 1 /\ ring.filled \in 0 .. Pre /\ ring.serial \in Nat
      /\ ring.written = 0 /\ Before(ring) /\ ring \in Rings /\ h \in Frames
      /\ frames \in [Frames -> JobRecords]
  BY RecorderAssumption DEF RingInv, Rings, Frames
<1>2. /\ ring' \in Rings /\ ring'.head = (h + 1) % Pre /\ ring'.serial = ring.serial + 1
      /\ ring'.filled = IF ring.filled < Pre THEN ring.filled + 1 ELSE ring.filled
      /\ ring'.written = 0
  <2>1. PICK g \in 0 .. Pre - 1 : g = (h + 1) % Pre
    BY <1>1, HeadMoves
  <2>2. PICK f \in 0 .. Pre : f = IF ring.filled < Pre THEN ring.filled + 1 ELSE ring.filled
    BY <1>1, RecorderAssumption
  <2>3. PICK n \in Nat : n = ring.serial + 1
    BY <1>1
  <2>4. ring' = [ring EXCEPT !.serial = n, !.head = g, !.filled = f]
    BY <2>1, <2>2, <2>3 DEF StoresBefore
  <2>5. /\ ring' \in Rings /\ ring'.head = g /\ ring'.filled = f
        /\ ring'.serial = n /\ ring'.written = 0
    BY <1>1, <2>4 DEF Rings
  <2>. QED
    BY <2>1, <2>2, <2>3, <2>5
<1>3. /\ frames' \in [Frames -> JobRecords] /\ frames'[h].ord = ring.serial + 1
      /\ \A i \in Frames \ {h} : frames'[i] = frames[i]
  BY <1>1 DEF StoresBefore, Stores, JobRecords
<1>4. ASSUME NEW j \in 1 .. ring'.filled
      PROVE  frames'[At(ring', j)].ord + ring'.written + j = ring'.serial + 1
  <2>1. CASE j = 1
    <3>1. At(ring', j) = h
      BY <1>1, <1>2, <2>1, HeadMoves DEF At
    <3>. QED
      BY <1>1, <1>2, <1>3, <2>1, <3>1
  <2>2. CASE j # 1
    <3>1. j \in 2 .. Pre /\ j - 1 \in 1 .. ring.filled
      BY <1>1, <1>2, <2>2, RecorderAssumption
    <3>2. At(ring', j) = At(ring, j - 1) /\ At(ring, j - 1) # h
      BY <1>1, <1>2, <3>1, HeadMoves DEF At
    <3>3. At(ring, j - 1) \in Frames
      BY <1>1, <3>1, RingFrames
    <3>4. frames'[At(ring', j)].ord = frames[At(ring, j - 1)].ord
      BY <1>3, <3>2, <3>3
    <3>5. frames[At(ring, j - 1)].ord + ring.written + (j - 1) = ring.serial + 1
      BY <1>1, <3>1 DEF Before
    <3>6. frames[At(ring, j - 1)].ord \in Nat
      BY <1>1, <3>3 DEF JobRecords
    <3>. QED
      BY <1>1, <1>2, <3>1, <3>4, <3>5, <3>6
  <2>. QED
    BY <2>1, <2>2
<1>5. Before(ring)'
  BY <1>4 DEF Before, At
<1>6. After(ring)'
  BY <1>2 DEF After
<1>7. state' = "Armed"
  BY DEF StoresBefore
<1>. QED
  BY <1>2, <1>3, <1>5, <1>6, <1>7 DEF RingInv

\* What is retained: the last images before the trigger, then all those after it.
LEMMA GatherOrders ==
  ASSUME NEW r \in Rings, r.written = Post, NEW n \in 0 .. r.filled
  PROVE  /\ Gather(r, n) \in Seq(Frames) /\ Len(Gather(r, n)) = n + Post
         /\ \A i \in 1 .. n : Gather(r, n)[i] = At(r, n - i + 1)
         /\ \A i \in n + 1 .. n + Post : Gather(r, n)[i] = Pre + (i - n - 1)
<1>. DEFINE g == Gather(r, n)
<1>1. r.head \in 0 .. Pre - 1 /\ r.filled \in 0 .. Pre /\ n \in 0 .. Pre
  BY RecorderAssumption DEF Rings
<1>2. n + Post \in Nat
  BY <1>1, RecorderAssumption
<1>3. \A i \in 1 .. n + Post :
        g[i] = IF i <= n THEN (r.head + Pre - n + i - 1) % Pre ELSE Pre + i - n - 1
  BY DEF Gather
<1>4. ASSUME NEW i \in 1 .. n PROVE g[i] = At(r, n - i + 1) /\ g[i] \in Frames
  <2>1. i \in 1 .. n + Post /\ n - i + 1 \in 1 .. Pre
    BY <1>1, RecorderAssumption
  <2>2. g[i] = (r.head + Pre - n + i - 1) % Pre
    BY <1>3, <2>1
  <2>3. r.head + Pre - n + i - 1 = r.head + Pre - (n - i + 1)
    BY <1>1, RecorderAssumption
  <2>4. g[i] = At(r, n - i + 1)
    BY <2>2, <2>3 DEF At
  <2>5. At(r, n - i + 1)
          = IF n - i + 1 <= r.head THEN r.head - (n - i + 1) ELSE r.head + Pre - (n - i + 1)
    BY <1>1, <2>1, AtIs DEF At
  <2>. QED
    BY <1>1, <2>1, <2>4, <2>5, RecorderAssumption DEF Frames
<1>5. ASSUME NEW i \in n + 1 .. n + Post PROVE g[i] = Pre + (i - n - 1) /\ g[i] \in Frames
  <2>1. i \in 1 .. n + Post /\ ~(i <= n)
    BY <1>1, RecorderAssumption
  <2>2. g[i] = Pre + i - n - 1
    BY <1>3, <2>1
  <2>. QED
    BY <1>1, <2>1, <2>2, RecorderAssumption DEF Frames
<1>6. \A i \in 1 .. n + Post : g[i] \in Frames
  BY <1>1, <1>2, <1>4, <1>5
<1>7. DOMAIN g = 1 .. n + Post
  BY DEF Gather
<1>8. g \in [1 .. n + Post -> Frames]
  BY <1>6, <1>7 DEF Gather
<1>9. g \in Seq(Frames) /\ Len(g) = n + Post
  BY <1>2, <1>8
<1>. QED
  BY <1>4, <1>5, <1>9

\* An image after the trigger has a slot of its own; the last one freezes the order.
LEMMA RingAfter ==
  ASSUME RingInv, state \in {"Armed", "Triggered"}, StoresAfter
  PROVE  RingInv'
<1>. DEFINE w == ring.written
<1>1. /\ ring \in Rings /\ w \in 0 .. Post - 1 /\ ring.serial \in Nat
      /\ ring.filled \in 0 .. Pre /\ Before(ring) /\ After(ring)
      /\ frames \in [Frames -> JobRecords]
  BY RecorderAssumption DEF RingInv, Rings
<1>2. Pre + w \in Frames /\ Pre + w \notin 0 .. Pre - 1
  BY <1>1, RingFrames
<1>3. /\ ring' \in Rings /\ ring'.head = ring.head /\ ring'.filled = ring.filled
      /\ ring'.serial = ring.serial + 1 /\ ring'.written = w + 1
  <2>1. PICK n \in Nat : n = ring.serial + 1
    BY <1>1
  <2>2. PICK v \in 0 .. Post : v = w + 1
    BY <1>1, RecorderAssumption
  <2>3. ring' = [ring EXCEPT !.serial = n, !.written = v]
    BY <2>1, <2>2 DEF StoresAfter
  <2>4. /\ ring' \in Rings /\ ring'.head = ring.head /\ ring'.filled = ring.filled
        /\ ring'.serial = n /\ ring'.written = v
    BY <1>1, <2>3 DEF Rings
  <2>. QED
    BY <2>1, <2>2, <2>4
<1>4. /\ frames' \in [Frames -> JobRecords] /\ frames'[Pre + w].ord = ring.serial + 1
      /\ \A i \in Frames \ {Pre + w} : frames'[i] = frames[i]
  BY <1>1, <1>2 DEF StoresAfter, Stores, JobRecords
<1>5. ASSUME NEW j \in 1 .. ring.filled
      PROVE  frames'[At(ring', j)].ord + ring'.written + j = ring'.serial + 1
  <2>1. At(ring', j) = At(ring, j)
    BY <1>3 DEF At
  <2>2. At(ring, j) \in Frames \ {Pre + w}
    BY <1>1, <1>2, RingFrames
  <2>3. frames'[At(ring', j)].ord = frames[At(ring, j)].ord
    BY <1>4, <2>1, <2>2
  <2>4. frames[At(ring, j)].ord + w + j = ring.serial + 1
    BY <1>1 DEF Before
  <2>5. frames[At(ring, j)].ord \in Nat
    BY <1>1, <2>2 DEF JobRecords
  <2>. QED
    BY <1>1, <1>3, <2>3, <2>4, <2>5
<1>6. Before(ring)'
  BY <1>3, <1>5 DEF Before, At
<1>7. ASSUME NEW v \in 0 .. w
      PROVE  frames'[Pre + v].ord + ring'.written = ring'.serial + v + 1
  <2>1. CASE v = w
    BY <1>1, <1>3, <1>4, <2>1
  <2>2. CASE v # w
    <3>1. v \in 0 .. w - 1 /\ Pre + v \in Frames \ {Pre + w}
      BY <1>1, <2>2, RecorderAssumption DEF Frames
    <3>2. frames'[Pre + v].ord = frames[Pre + v].ord
      BY <1>4, <3>1
    <3>3. frames[Pre + v].ord + w = ring.serial + v + 1
      BY <1>1, <3>1 DEF After
    <3>4. frames[Pre + v].ord \in Nat
      BY <1>1, <3>1 DEF JobRecords
    <3>. QED
      BY <1>1, <1>3, <3>2, <3>3, <3>4
  <2>. QED
    BY <2>1, <2>2
<1>8. After(ring)'
  <2>1. 0 .. ring'.written - 1 = 0 .. w
    BY <1>1, <1>3
  <2>. QED
    BY <1>7, <2>1 DEF After
<1>9. CASE w + 1 < Post /\ state' = "Triggered"
  BY <1>3, <1>4, <1>6, <1>8, <1>9 DEF RingInv
<1>10. CASE w + 1 = Post /\ state' = "Frozen" /\ \E n \in Kept(ring') : order' = Gather(ring', n)
  <2>1. PICK n \in Kept(ring') : order' = Gather(ring', n)
    BY <1>10
  <2>2. n \in 0 .. ring'.filled
    BY <1>1, <1>3, <2>1 DEF Kept
  <2>3. ring'.written = Post
    BY <1>3, <1>10
  <2>4. /\ order' \in Seq(Frames) /\ Len(order') = n + Post
        /\ \A i \in 1 .. n : order'[i] = At(ring', n - i + 1)
        /\ \A i \in n + 1 .. n + Post : order'[i] = Pre + (i - n - 1)
    BY <1>3, <2>1, <2>2, <2>3, GatherOrders
  <2>5. n \in Nat /\ n <= Pre /\ n <= ring.filled
    <3>1. n \in 0 .. ring.filled
      BY <1>3, <2>2
    <3>. QED
      BY <1>1, <3>1, RecorderAssumption
  <2>6. ASSUME NEW i \in 1 .. n
        PROVE  frames'[order'[i]].ord + Len(order') = ring'.serial + i
    <3>1. n - i + 1 \in 1 .. ring.filled
      BY <1>1, <2>5
    <3>2. frames'[At(ring', n - i + 1)].ord + ring'.written + (n - i + 1) = ring'.serial + 1
      BY <1>5, <3>1
    <3>3. At(ring', n - i + 1) \in Frames
      <4>1. At(ring', n - i + 1) = At(ring, n - i + 1)
        BY <1>3 DEF At
      <4>. QED
        BY <1>1, <3>1, <4>1, RingFrames
    <3>4. frames'[At(ring', n - i + 1)].ord \in Nat
      BY <1>4, <3>3 DEF JobRecords
    <3>5. order'[i] = At(ring', n - i + 1)
      BY <2>4
    <3>6. PICK o \in Nat, t \in Nat : /\ o = frames'[At(ring', n - i + 1)].ord
                                       /\ t = ring'.serial
      BY <1>1, <1>3, <3>4
    <3>7. o + Post + (n - i + 1) = t + 1
      BY <2>3, <3>2, <3>6
    <3>8. o + (n + Post) = t + i
      BY <2>5, <3>7, RecorderAssumption
    <3>. QED
      BY <2>4, <3>5, <3>6, <3>8
  <2>7. ASSUME NEW i \in n + 1 .. n + Post
        PROVE  frames'[order'[i]].ord + Len(order') = ring'.serial + i
    <3>1. i - n - 1 \in 0 .. w
      BY <1>1, <1>10, <2>5, RecorderAssumption
    <3>2. frames'[Pre + (i - n - 1)].ord + ring'.written = ring'.serial + (i - n - 1) + 1
      BY <1>7, <3>1
    <3>3. Pre + (i - n - 1) \in Frames
      BY <1>1, <3>1, RecorderAssumption DEF Frames
    <3>4. frames'[Pre + (i - n - 1)].ord \in Nat
      BY <1>4, <3>3 DEF JobRecords
    <3>5. order'[i] = Pre + (i - n - 1)
      BY <2>4
    <3>6. PICK o \in Nat, t \in Nat : /\ o = frames'[Pre + (i - n - 1)].ord
                                       /\ t = ring'.serial
      BY <1>1, <1>3, <3>4
    <3>7. o + Post = t + (i - n - 1) + 1
      BY <2>3, <3>2, <3>6
    <3>8. o + (n + Post) = t + i
      BY <2>5, <3>7, RecorderAssumption
    <3>. QED
      BY <2>4, <3>5, <3>6, <3>8
  <2>8. DOMAIN order' = 1 .. n + Post
    BY <2>4
  <2>9. \A i \in DOMAIN order' : frames'[order'[i]].ord + Len(order') = ring'.serial + i
    BY <2>5, <2>6, <2>7, <2>8, RecorderAssumption
  <2>10. Consecutive'
    BY <2>4, <2>5, <2>9, RecorderAssumption DEF Consecutive
  <2>. QED
    BY <1>3, <1>4, <1>10, <2>10 DEF RingInv
<1>. QED
  BY <1>9, <1>10 DEF StoresAfter

\* Complete counts as many jobs done as there are, and none of them failed.
LEMMA RingComplete ==
  ASSUME RingInv, state = "Exporting", Outcome = "Complete", state' = "Complete",
         UNCHANGED <<ring, frames, order>>
  PROVE  RingInv'
<1>. DEFINE D == {i \in DOMAIN order : frames[order[i]].done}
<1>1. Consecutive /\ order \in Seq(Frames) /\ Len(order) \in Nat /\ DOMAIN order = 1 .. Len(order)
  BY DEF RingInv, Consecutive
<1>2. ~(Dones < Len(order)) /\ ~(\E j \in Jobs : j.done /\ ~j.ok)
  BY DEF Outcome
<1>3. Dones = Cardinality(D)
  BY DEF Dones, Count
<1>4. IsFiniteSet(1 .. Len(order)) /\ Cardinality(1 .. Len(order)) = Len(order)
  <2>1. 1 \in Int /\ Len(order) \in Int
    BY <1>1
  <2>. QED
    BY <1>1, <2>1, FS_Interval
<1>5. D \subseteq 1 .. Len(order)
  BY <1>1
<1>6. IsFiniteSet(D) /\ Cardinality(D) <= Len(order)
      /\ (Cardinality(D) = Len(order) => D = 1 .. Len(order))
  BY <1>4, <1>5, FS_Subset
<1>7. Cardinality(D) \in Nat
  BY <1>6, FS_CardinalityType
<1>8. D = 1 .. Len(order)
  BY <1>1, <1>2, <1>3, <1>6, <1>7
<1>9. \A i \in DOMAIN order : frames[order[i]].done
  BY <1>1, <1>8
<1>10. Saved
  BY <1>2, <1>9 DEF Saved, Jobs
<1>11. Jobs' = Jobs
  BY DEF Jobs
<1>12. Saved' /\ Consecutive'
  BY <1>1, <1>10, <1>11 DEF Saved, Consecutive
<1>. QED
  BY <1>12 DEF RingInv

LEMMA RingSettles ==
  ASSUME RingInv, state = "Exporting", Settles, UNCHANGED <<ring, frames, order>>
  PROVE  RingInv'
<1>1. CASE Outcome = "Complete" /\ state' = "Complete"
  BY <1>1, RingComplete
<1>2. CASE state' = "Fault"
  BY <1>2, RingLife
<1>. QED
  BY <1>1, <1>2 DEF Settles, Fail

\* A job is queued or done without being queued; a readback ends.
LEMMA RingExports ==
  ASSUME RingInv, (\E o \in {"queued", "unprepared", "throws"} : NextExportJob(o)) \/ Readback
  PROVE  RingInv'
<1>1. CASE \E o \in {"queued", "unprepared", "throws"} : NextExportJob(o)
  <2>1. PICK o \in {"queued", "unprepared", "throws"} : NextExportJob(o)
    BY <1>1
  <2>2. PICK i \in DOMAIN order :
          frames' = [frames EXCEPT ![order[i]].queued = (o # "unprepared"),
                                   ![order[i]].done = (o = "unprepared")]
    BY <2>1 DEF NextExportJob
  <2>3. state = "Exporting" /\ UNCHANGED <<ring, order, state>>
    BY <2>1 DEF NextExportJob, life
  <2>4. order[i] \in Frames /\ frames \in [Frames -> JobRecords]
    BY <2>2, <2>3 DEF RingInv, Consecutive
  <2>5. PICK q \in BOOLEAN, d \in BOOLEAN :
          frames' = [frames EXCEPT ![order[i]].queued = q, ![order[i]].done = d]
    <3>1. (o # "unprepared") \in BOOLEAN /\ (o = "unprepared") \in BOOLEAN
      OBVIOUS
    <3>. QED
      BY <2>2, <3>1
  <2>6. /\ frames' \in [Frames -> JobRecords]
        /\ \A x \in Frames : frames'[x].ord = frames[x].ord
    BY <2>4, <2>5 DEF JobRecords
  <2>. QED
    BY <2>3, <2>6, RingReadback
<1>2. CASE Readback
  <2>1. PICK i \in Frames, ok \in BOOLEAN : ReadbackDone(i, ok)
    BY <1>2 DEF Readback
  <2>2. /\ ~frames[i].done /\ frames' = [frames EXCEPT ![i].done = TRUE, ![i].ok = ok]
        /\ UNCHANGED <<ring, order, state>>
    BY <2>1 DEF ReadbackDone, life
  <2>3. frames \in [Frames -> JobRecords]
    BY DEF RingInv
  <2>4. /\ frames' \in [Frames -> JobRecords]
        /\ \A x \in Frames : frames'[x].ord = frames[x].ord
        /\ \A x \in Frames : frames[x].done => frames'[x] = frames[x]
    BY <2>2, <2>3 DEF JobRecords
  <2>. QED
    BY <2>2, <2>4, RingReadback
<1>. QED
  BY <1>1, <1>2

LEMMA RingCapture ==
  ASSUME RingInv, HotInv,
         \/ CaptureAllocate \/ BoxOpen \/ CaptureFrame \/ Consume \/ Disarm
         \/ TriggerLoad \/ TriggerCpu
  PROVE  RingInv'
<1>1. CASE CaptureAllocate
  <2>1. ring' = EmptyRing /\ frames' = [i \in Frames |-> NoJob] /\ state' = "Armed"
    BY <1>1 DEF CaptureAllocate, RingInv
  <2>. QED
    BY <2>1, RingEmptied
<1>2. CASE BoxOpen \/ CaptureFrame \/ Disarm \/ TriggerLoad
  BY <1>2, RingLife DEF BoxOpen, CaptureFrame, Disarm, TriggerLoad, image, life
<1>3. CASE Consume
  <2>1. CASE Triggers /\ UNCHANGED <<image, state>>
    BY <2>1, RingLife DEF image
  <2>2. CASE ~Triggers /\ state = "Armed" /\ StoresBefore
    BY <2>2, RingBefore
  <2>3. CASE state = "Triggered" /\ StoresAfter
    BY <2>3, RingAfter
  <2>. QED
    BY <1>3, <2>1, <2>2, <2>3 DEF Consume
<1>4. CASE TriggerCpu
  BY <1>4, RingAfter DEF TriggerCpu, HotInv, Locked
<1>. QED
  BY <1>1, <1>2, <1>3, <1>4

LEMMA RingCommands ==
  ASSUME RingInv, HotInv,
         \/ ClientArmCheck \/ ClientArmBind \/ ClientTrigger \/ ClientDiscard \/ ClientManifest
         \/ WorkerAttempt \/ RecorderStep
  PROVE  RingInv'
<1>1. ASSUME NEW named, ArmCheck(named) PROVE RingInv'
  BY <1>1, RingLife DEF ArmCheck, image, life
<1>2. CASE ArmBind
  BY <1>2, RingBind DEF ArmBind
<1>3. CASE ArmNoDirectory
  BY <1>3, RingLife DEF ArmNoDirectory, image
<1>4. CASE WriteManifest
  BY <1>4, RingLife, RingSettles DEF WriteManifest, image
<1>5. CASE ClientTrigger \/ ClientDiscard
  BY <1>5, RingLife DEF ClientTrigger, ClientDiscard, image
<1>6. CASE WorkerFail
  BY <1>6, RingLife DEF WorkerFail, Fail, image
<1>7. CASE UNCHANGED others
  BY <1>7, RingLife DEF others, image, life
<1>. QED
  BY <1>1, <1>2, <1>3, <1>4, <1>5, <1>6, <1>7
  DEF ClientArmCheck, ClientArmBind, ClientManifest, WorkerAttempt, RecorderStep, WorkerStop,
      WorkerArmFails, WorkerArmRefused, WorkerExport, WorkerSign, WorkerExportFails, WorkerArm,
      WorkerPublish, WorkerCpuExport, WorkerExit, WorkerArmImages, WorkerArmBind,
      WorkerManifest

LEMMA RingNext == ASSUME RingInv, HotInv, [RecorderNext]_recorder_vars PROVE RingInv'
<1>1. CASE \/ UNCHANGED recorder_vars \/ ShotsFail \/ Cancel \/ Release \/ ReleaseJoin \/ CpuStep
           \/ \E k \in Keys : KeyRead(k) \/ KeyStep(k)
  BY <1>1, RingLife DEF recorder_vars, ShotsFail, Cancel, Release, ReleaseJoin, CpuStep,
     KeyRead, KeyStep, KeySwap, KeyAnswer, others, image, life
<1>2. CASE CaptureDiscard
  BY <1>2, RingEmptied DEF CaptureDiscard
<1>3. CASE CaptureCancelled \/ NextExportBegin
  BY <1>3, RingLife DEF CaptureCancelled, Fail, NextExportBegin, image
<1>4. CASE CaptureRejected
  BY <1>4, RingLife, RingEmptied DEF CaptureRejected, Fail
<1>5. CASE Settle
  BY <1>5, RingSettles DEF Settle, image
<1>6. CASE Create
  BY <1>6, RingEmptied DEF Create
<1>. QED
  BY <1>1, <1>2, <1>3, <1>4, <1>5, <1>6, RingExports, RingCapture, RingCommands
  DEF RecorderNext, CaptureStep

-----------------------------------------------------------------------------
(* What the recorder retains.                                              *)

\* The images in the ring and those retained are consecutive captures, each in its slot.
THEOREM RingInvariance == RecorderSpec => []RingInv
  BY RingInit, RingNext, MailboxInvariance, PTL DEF RecorderSpec

\* A complete history is whole: every retained image was read back and saved, and they
\* are consecutive captures that end with all those after the trigger.
THEOREM HistorySafety == RecorderSpec => []CompleteIsWhole
<1>1. RingInv => CompleteIsWhole
  <2>. SUFFICES ASSUME RingInv, state = "Complete"
                PROVE  /\ Saved /\ Len(order) >= Post
                       /\ \A i \in DOMAIN order :
                            frames[order[i]].ord = ring.serial - Len(order) + i
    BY DEF CompleteIsWhole, Saved
  <2>1. Saved /\ Consecutive /\ ring.serial \in Nat /\ frames \in [Frames -> JobRecords]
    BY DEF RingInv, Rings
  <2>2. ASSUME NEW i \in DOMAIN order
        PROVE  frames[order[i]].ord = ring.serial - Len(order) + i
    <3>1. frames[order[i]].ord \in Nat /\ Len(order) \in Nat /\ i \in Nat
      BY <2>1 DEF Consecutive, JobRecords
    <3>. QED
      BY <2>1, <3>1 DEF Consecutive
  <2>. QED
    BY <2>1, <2>2 DEF Consecutive
<1>. QED
  BY <1>1, RingInvariance, PTL

-----------------------------------------------------------------------------
(* The slots of the screenshot service.                                    *)

SlotStates == {"Free", "Requested", "Preparing", "Submitted", "Retired", "Quarantined"}

SlotsTyped ==
  /\ slotState \in [Slots -> SlotStates]
  /\ DOMAIN shot = Slots /\ DOMAIN history = Slots
  /\ history \in [Slots -> Readbacks \cup {None}]
  /\ queued \subseteq Readbacks
  /\ handled \in Nat /\ ended \in Nat

\* Between taking a slot and emitting its copy, Present holds it.
PreparingHeld ==
  pc \in {"emit", "emitHistory"} => index \in Slots /\ slotState[index] = "Preparing"

\* What the worker reads is its own: a slot that is Submitted and has completed.
ReadingHeld ==
  wpc = "save" => windex \in Slots /\ slotState[windex] = "Submitted" /\ shot[windex] \in completed

\* Only a slot that was taken for a readback has one.
PlainWaiting ==
  \A s \in Slots : slotState[s] \in {"Free", "Requested"} => history[s] = None

\* The slots of requests that are neither settled nor rejected.
OpenRequests ==
  {s \in Slots : slotState[s] \in {"Requested", "Preparing", "Submitted"} /\ history[s] = None}

Balance == handled = ended + Cardinality(OpenRequests)

Answering(j) == \E s \in Slots : history[s] = j /\ slotState[s] \in {"Preparing", "Submitted"}

Answered == \A j \in queued \ done : Answering(j)

SlotsInv ==
  /\ SlotsTyped /\ PreparingHeld /\ ReadingHeld /\ PlainWaiting
  /\ NothingRecycledUnderCopy /\ Balance /\ Answered

-----------------------------------------------------------------------------
(* Sets of slots of the screenshot service.                                *)

LEMMA MinIsIn ==
  ASSUME NEW S \in SUBSET Nat, S # {}
  PROVE  Min(S) \in S
<1>1. PICK m \in S : \A y \in S : ~ (<<y, m>> \in OpToRel(<, Nat))
  BY NatLessThanWellFounded, WFMin
<1>2. \A y \in S : ~ (y < m)
  BY <1>1 DEF OpToRel
<1>3. \A y \in S : m <= y
  BY <1>2
<1>. QED
  BY <1>3 DEF Min

LEMMA FirstIsIn == ASSUME NEW st, In(st) # {} PROVE First(st) \in Slots /\ slotState[First(st)] = st
<1>1. In(st) \in SUBSET Nat
  BY DEF In, Slots
<1>2. First(st) \in In(st)
  BY <1>1, MinIsIn DEF First
<1>. QED
  BY <1>2 DEF In

LEMMA OpenFinite == IsFiniteSet(OpenRequests) /\ Cardinality(OpenRequests) \in Nat
<1>1. SlotCount \in Int /\ 1 \in Int
  BY ScreenshotAssumption
<1>2. IsFiniteSet(Slots)
  BY <1>1, FS_Interval DEF Slots
<1>3. OpenRequests \in SUBSET Slots
  BY DEF OpenRequests
<1>4. IsFiniteSet(OpenRequests)
  BY <1>2, <1>3, FS_Subset
<1>. QED
  BY <1>4, FS_CardinalityType

-----------------------------------------------------------------------------
(* The requests that are open: one more, one fewer, or the same.           *)

LEMMA OpenGains ==
  ASSUME SlotsInv, NEW s \in Slots, s \notin OpenRequests, OpenRequests' = OpenRequests \cup {s},
         handled' = handled + 1, ended' = ended
  PROVE  Balance'
<1>1. Cardinality(OpenRequests \cup {s}) = Cardinality(OpenRequests) + 1
  BY OpenFinite, FS_AddElement
<1>. QED
  BY <1>1, OpenFinite DEF SlotsInv, SlotsTyped, Balance

LEMMA OpenLoses ==
  ASSUME SlotsInv, NEW s \in OpenRequests, OpenRequests' = OpenRequests \ {s},
         handled' = handled, ended' = ended + 1
  PROVE  Balance'
<1>1. Cardinality(OpenRequests \ {s}) = Cardinality(OpenRequests) - 1
  BY OpenFinite, FS_RemoveElement
<1>. QED
  BY <1>1, OpenFinite DEF SlotsInv, SlotsTyped, Balance

LEMMA OpenSame ==
  ASSUME SlotsInv, OpenRequests' = OpenRequests,
         \/ handled' = handled /\ ended' = ended
         \/ handled' = handled + 1 /\ ended' = ended + 1
  PROVE  Balance'
  BY OpenFinite DEF SlotsInv, SlotsTyped, Balance

\* A reset settles the requests that no buffer was given to yet.
LEMMA OpenReset ==
  ASSUME SlotsInv, OpenRequests' = OpenRequests \ In("Requested"), handled' = handled,
         ended' = ended + Cardinality(In("Requested"))
  PROVE  Balance' /\ ended' \in Nat
<1>1. In("Requested") \subseteq OpenRequests
  BY DEF SlotsInv, PlainWaiting, In, OpenRequests
<1>2. /\ IsFiniteSet(In("Requested")) /\ Cardinality(In("Requested")) \in Nat
      /\ Cardinality(OpenRequests \ In("Requested"))
           = Cardinality(OpenRequests) - Cardinality(OpenRequests \cap In("Requested"))
  BY <1>1, OpenFinite, FS_Subset, FS_Difference, FS_CardinalityType
<1>3. OpenRequests \cap In("Requested") = In("Requested")
  BY <1>1
<1>4. PICK c \in Nat, n \in Nat : c = Cardinality(In("Requested")) /\ n = Cardinality(OpenRequests)
  BY <1>2, OpenFinite
<1>5. handled = ended + n /\ ended' = ended + c /\ Cardinality(OpenRequests') = n - c
  BY <1>2, <1>3, <1>4 DEF SlotsInv, Balance
<1>6. ended \in Nat /\ ended' \in Nat /\ handled' = ended' + Cardinality(OpenRequests')
  BY <1>5 DEF SlotsInv, SlotsTyped
<1>. QED
  BY <1>6 DEF Balance

-----------------------------------------------------------------------------
(* A step that leaves the slots with a copy as they are keeps what those   *)
(* slots promise.                                                          *)

LEMMA HoldersKept ==
  ASSUME SlotsInv,
         \A s \in Slots : slotState[s] \in {"Preparing", "Submitted", "Quarantined"} =>
           slotState'[s] = slotState[s] /\ shot'[s] = shot[s] /\ history'[s] = history[s],
         emitted' = emitted, completed \subseteq completed', done \subseteq done',
         \A j \in queued' \ queued : Answering(j)'
  PROVE  /\ NothingRecycledUnderCopy' /\ Answered'
         /\ (wpc' = wpc /\ windex' = windex) => ReadingHeld'
<1>1. NothingRecycledUnderCopy'
  BY DEF SlotsInv, NothingRecycledUnderCopy
<1>2. Answered'
  <2>1. SUFFICES ASSUME NEW j \in queued' \ done', j \in queued PROVE Answering(j)'
    BY DEF Answered
  <2>2. PICK s \in Slots : history[s] = j /\ slotState[s] \in {"Preparing", "Submitted"}
    BY <2>1 DEF SlotsInv, Answered, Answering
  <2>. QED
    BY <2>2 DEF Answering
<1>3. (wpc' = wpc /\ windex' = windex) => ReadingHeld'
  BY DEF SlotsInv, ReadingHeld
<1>. QED
  BY <1>1, <1>2, <1>3

-----------------------------------------------------------------------------
(* Each action of the screenshot service keeps the slots.                  *)

LEMMA SlotsInit == ASSUME Init PROVE SlotsInv
<1>1. SlotsTyped
  BY DEF Init, SlotsTyped, SlotStates
<1>2. OpenRequests = {}
  BY DEF Init, OpenRequests
<1>3. Balance
  BY <1>2, FS_EmptySet DEF Init, Balance
<1>. QED
  BY <1>1, <1>3 DEF Init, SlotsInv, PreparingHeld, ReadingHeld, PlainWaiting,
    NothingRecycledUnderCopy,
     Answered

\* The steps that move no slot.
LEMMA StillInv ==
  ASSUME SlotsInv, slotState' = slotState, shot' = shot, history' = history, emitted' = emitted,
         completed \subseteq completed', queued' = queued, done' = done,
         \/ handled' = handled /\ ended' = ended
         \/ handled' = handled + 1 /\ ended' = ended + 1,
         pc' \in {"emit", "emitHistory"} => pc' = pc /\ index' = index,
         wpc' = "save" => ReadingHeld'
  PROVE  SlotsInv'
<1>1. SlotsTyped' /\ PreparingHeld' /\ PlainWaiting'
  BY DEF SlotsInv, SlotsTyped, PreparingHeld, PlainWaiting
<1>2. Balance'
  BY OpenSame DEF OpenRequests
<1>3. NothingRecycledUnderCopy' /\ Answered'
  BY HoldersKept
<1>4. ReadingHeld'
  BY DEF ReadingHeld
<1>. QED
  BY <1>1, <1>2, <1>3, <1>4 DEF SlotsInv

LEMMA GameInv == ASSUME SlotsInv, RequestBegin \/ RequestScan \/ ArmBurst PROVE SlotsInv'
<1>1. CASE RequestBegin
  BY <1>1, StillInv DEF SlotsInv, ReadingHeld, RequestBegin, slots, device, flags, readbacks, counts
<1>2. CASE ArmBurst
  BY <1>2, StillInv DEF SlotsInv, ReadingHeld, ArmBurst, slots, device, threads, readbacks, counts
<1>3. CASE RequestScan /\ slotState' = slotState
  BY <1>3, StillInv DEF SlotsInv, ReadingHeld, RequestScan, device, flags, readbacks, SlotsTyped
<1>4. CASE RequestScan /\ slotState' # slotState
  <2>1. /\ gpc \in Slots /\ slotState[gpc] = "Free"
        /\ slotState' = [slotState EXCEPT ![gpc] = "Requested"]
        /\ handled' = handled + 1 /\ ended' = ended
        /\ UNCHANGED <<device, shot, history, readbacks, pc, index, wpc, windex>>
    BY <1>4 DEF RequestScan
  <2>2. SlotsTyped' /\ PreparingHeld' /\ PlainWaiting'
    BY <2>1 DEF SlotsInv, SlotsTyped, SlotStates, PreparingHeld, PlainWaiting, readbacks
  <2>3. gpc \notin OpenRequests /\ OpenRequests' = OpenRequests \cup {gpc}
    BY <2>1 DEF SlotsInv, SlotsTyped, PlainWaiting, OpenRequests
  <2>4. Balance'
    BY <2>1, <2>3, OpenGains
  <2>5. NothingRecycledUnderCopy' /\ Answered' /\ ReadingHeld'
    BY <2>1, HoldersKept DEF SlotsInv, SlotsTyped, device, readbacks
  <2>. QED
    BY <2>2, <2>4, <2>5 DEF SlotsInv
<1>. QED
  BY <1>1, <1>2, <1>3, <1>4

\* reset(): the slots with a copy stay where they are.
LEMMA ResetInv ==
  ASSUME SlotsInv, ResetSlots, pc' \notin {"emit", "emitHistory"},
         UNCHANGED <<device, shot, history, readbacks, wpc, windex, handled>>
  PROVE  SlotsInv'
<1>1. \A s \in Slots :
        slotState'[s] = IF slotState[s] \in {"Requested", "Free"} THEN "Retired" ELSE slotState[s]
  BY DEF ResetSlots, Set, Resettable, In
<1>2. PlainWaiting' /\ PreparingHeld'
  BY <1>1 DEF SlotsInv, PlainWaiting, PreparingHeld
<1>3. OpenRequests' = OpenRequests \ In("Requested")
  BY <1>1 DEF OpenRequests, In
<1>4. Balance' /\ ended' \in Nat
  BY <1>3, OpenReset DEF ResetSlots
<1>5. slotState' \in [Slots -> SlotStates]
  BY DEF ResetSlots, Set, SlotStates, SlotsInv, SlotsTyped
<1>6. SlotsTyped'
  BY <1>4, <1>5 DEF SlotsInv, SlotsTyped, readbacks
<1>7. NothingRecycledUnderCopy' /\ Answered' /\ ReadingHeld'
  BY <1>1, HoldersKept DEF device, readbacks
<1>. QED
  BY <1>2, <1>4, <1>6, <1>7 DEF SlotsInv

\* releaseRetiredSlots(), and the request a burst may add to it.
LEMMA ReleaseInv ==
  ASSUME SlotsInv, pc' \notin {"emit", "emitHistory"},
         UNCHANGED <<device, readbacks, wpc, windex, ended>>,
         \/ Released /\ handled' = handled
         \/ /\ In("Free") \cup Releasable # {} /\ handled' = handled + 1
            /\ ReleasedTo([Set(Releasable, "Free") EXCEPT
                              ![Min(In("Free") \cup Releasable)] = "Requested"])
  PROVE  SlotsInv'
<1>. DEFINE rel == Set(Releasable, "Free")
<1>1. /\ rel \in [Slots -> SlotStates]
      /\ \A s \in Slots : rel[s] = IF slotState[s] = "Retired" THEN "Free" ELSE slotState[s]
  BY DEF Set, Releasable, In, SlotStates, SlotsInv, SlotsTyped
<1>2. /\ DOMAIN shot' = Slots /\ history' \in [Slots -> Readbacks \cup {None}]
      /\ \A s \in Slots : slotState[s] # "Retired" => shot'[s] = shot[s] /\ history'[s] = history[s]
      /\ \A s \in Slots : slotState[s] = "Retired" => history'[s] = None
  BY DEF Released, ReleasedTo, Releasable, In, SlotsInv, SlotsTyped
<1>3. CASE slotState' = rel /\ handled' = handled
  <2>1. SlotsTyped' /\ PlainWaiting' /\ PreparingHeld'
    BY <1>1, <1>2, <1>3 DEF SlotsInv, SlotsTyped, PlainWaiting, PreparingHeld, readbacks
  <2>2. OpenRequests' = OpenRequests
    BY <1>1, <1>2, <1>3 DEF OpenRequests
  <2>3. Balance'
    BY <1>3, <2>2, OpenSame
  <2>4. NothingRecycledUnderCopy' /\ Answered' /\ ReadingHeld'
    BY <1>1, <1>2, <1>3, HoldersKept DEF device, readbacks
  <2>. QED
    BY <2>1, <2>3, <2>4 DEF SlotsInv
<1>4. CASE \E s \in Slots : /\ slotState[s] \in {"Free", "Retired"} /\ handled' = handled + 1
                            /\ slotState' = [rel EXCEPT ![s] = "Requested"]
  <2>1. PICK s \in Slots : /\ slotState[s] \in {"Free", "Retired"} /\ handled' = handled + 1
                           /\ slotState' = [rel EXCEPT ![s] = "Requested"]
    BY <1>4
  <2>2. SlotsTyped' /\ PlainWaiting' /\ PreparingHeld'
    BY <1>1, <1>2, <2>1 DEF SlotsInv, SlotsTyped, SlotStates, PlainWaiting, PreparingHeld, readbacks
  <2>3. s \notin OpenRequests /\ OpenRequests' = OpenRequests \cup {s}
    BY <1>1, <1>2, <2>1 DEF OpenRequests, SlotsInv, PlainWaiting
  <2>4. Balance'
    BY <2>1, <2>3, OpenGains
  <2>5. NothingRecycledUnderCopy' /\ Answered' /\ ReadingHeld'
    BY <1>1, <1>2, <2>1, HoldersKept DEF device, readbacks
  <2>. QED
    BY <2>2, <2>4, <2>5 DEF SlotsInv
<1>5. ASSUME In("Free") \cup Releasable # {}
      PROVE  \E s \in Slots : /\ s = Min(In("Free") \cup Releasable)
                            /\ slotState[s] \in {"Free", "Retired"}
  <2>1. In("Free") \cup Releasable \in SUBSET Nat
    BY DEF In, Releasable, Slots
  <2>. QED
    BY <1>5, <2>1, MinIsIn DEF In, Releasable
<1>. QED
  BY <1>3, <1>4, <1>5 DEF Released, ReleasedTo

\* A slot is taken for a readback, which has one slot from then on.
LEMMA TakeHistoryInv == ASSUME SlotsInv, NEW j \in Readbacks, TakeHistory(j) PROVE SlotsInv'
<1>. DEFINE s == First("Free")
<1>1. s \in Slots /\ slotState[s] = "Free" /\ history[s] = None /\ j # None
  BY FirstIsIn, ScreenshotAssumption DEF TakeHistory, SlotsInv, PlainWaiting
<1>2. UNCHANGED <<device, wpc, windex, ended, handled>>
  BY DEF TakeHistory
<1>3. CASE /\ GiveBuffer(s) /\ index' = s /\ pc' = "emitHistory"
           /\ slotState' = Set({s}, "Preparing")
           /\ history' = [history EXCEPT ![s] = j] /\ queued' = queued \cup {j} /\ done' = done
  <2>1. slotState'[s] = "Preparing" /\ history'[s] = j /\ shot' = [shot EXCEPT ![s] = serial + 1]
    BY <1>1, <1>3 DEF Set, GiveBuffer, SlotsInv, SlotsTyped
  <2>2. \A x \in Slots \ {s} :
          slotState'[x] = slotState[x] /\ shot'[x] = shot[x] /\ history'[x] = history[x]
    BY <1>1, <1>3, <2>1 DEF Set, SlotsInv, SlotsTyped
  <2>3. SlotsTyped'
    BY <1>1, <1>2, <1>3, <2>1 DEF Set, SlotStates, SlotsInv, SlotsTyped
  <2>4. PreparingHeld' /\ PlainWaiting'
    BY <1>1, <1>3, <2>1, <2>2 DEF PreparingHeld, PlainWaiting, SlotsInv
  <2>5. OpenRequests' = OpenRequests
    BY <1>1, <2>1, <2>2 DEF OpenRequests
  <2>6. Balance'
    BY <1>2, <2>5, OpenSame
  <2>7. Answering(j)'
    BY <1>1, <2>1 DEF Answering
  <2>8. NothingRecycledUnderCopy' /\ Answered' /\ ReadingHeld'
    BY <1>1, <1>2, <1>3, <2>2, <2>7, HoldersKept DEF device
  <2>. QED
    BY <2>3, <2>4, <2>6, <2>8 DEF SlotsInv
<1>4. CASE /\ NoBuffer /\ slotState' = Set({s}, "Quarantined") /\ done' = done \cup {j}
           /\ pc' = "afterUi" /\ UNCHANGED <<index, history, queued>>
  <2>1. SlotsTyped' /\ PreparingHeld' /\ PlainWaiting'
    BY <1>1, <1>2, <1>4 DEF Set, NoBuffer, SlotStates, SlotsInv, SlotsTyped, PreparingHeld,
      PlainWaiting
  <2>2. OpenRequests' = OpenRequests
    BY <1>1, <1>4 DEF OpenRequests, Set
  <2>3. Balance'
    BY <1>2, <2>2, OpenSame
  <2>4. NothingRecycledUnderCopy' /\ Answered' /\ ReadingHeld'
    BY <1>1, <1>2, <1>4, HoldersKept DEF device, Set, NoBuffer
  <2>. QED
    BY <2>1, <2>3, <2>4 DEF SlotsInv
<1>. QED
  BY <1>3, <1>4 DEF TakeHistory

\* A requested slot gets its buffer, or is quarantined with the request settled.
LEMMA TakeInv == ASSUME SlotsInv, Take PROVE SlotsInv'
<1>1. /\ index \in Slots /\ slotState[index] = "Requested" /\ history[index] = None
      /\ index \in OpenRequests
      /\ UNCHANGED <<device, history, readbacks, wpc, windex, handled>>
  BY DEF Take, SlotsInv, PlainWaiting, OpenRequests
<1>2. CASE /\ GiveBuffer(index) /\ slotState' = Set({index}, "Preparing") /\ pc' = "emit"
           /\ UNCHANGED <<index, ended>>
  <2>1. /\ slotState'[index] = "Preparing" /\ shot' = [shot EXCEPT ![index] = serial + 1]
        /\ \A x \in Slots \ {index} : slotState'[x] = slotState[x] /\ shot'[x] = shot[x]
    BY <1>1, <1>2 DEF Set, GiveBuffer, SlotsInv, SlotsTyped
  <2>2. SlotsTyped'
    BY <1>1, <1>2, <2>1 DEF Set, SlotStates, SlotsInv, SlotsTyped, readbacks
  <2>3. PreparingHeld' /\ PlainWaiting'
    BY <1>1, <1>2, <2>1 DEF PreparingHeld, PlainWaiting, SlotsInv
  <2>4. OpenRequests' = OpenRequests
    BY <1>1, <2>1 DEF OpenRequests
  <2>5. Balance'
    BY <1>1, <1>2, <2>4, OpenSame
  <2>6. NothingRecycledUnderCopy' /\ Answered' /\ ReadingHeld'
    BY <1>1, <2>1, HoldersKept DEF device, readbacks
  <2>. QED
    BY <2>2, <2>3, <2>5, <2>6 DEF SlotsInv
<1>3. CASE /\ NoBuffer /\ slotState' = Set({index}, "Quarantined") /\ ended' = ended + 1
           /\ pc' = pc
  <2>1. SlotsTyped' /\ PreparingHeld' /\ PlainWaiting'
    BY <1>1, <1>3 DEF Take, Set, NoBuffer, SlotStates, SlotsInv, SlotsTyped, readbacks,
      PreparingHeld, PlainWaiting
  <2>2. OpenRequests' = OpenRequests \ {index}
    BY <1>1, <1>3 DEF OpenRequests, Set
  <2>3. Balance'
    BY <1>1, <1>3, <2>2, OpenLoses
  <2>4. NothingRecycledUnderCopy' /\ Answered' /\ ReadingHeld'
    BY <1>1, <1>3, HoldersKept DEF device, readbacks, Set, NoBuffer
  <2>. QED
    BY <2>1, <2>3, <2>4 DEF SlotsInv
<1>. QED
  BY <1>2, <1>3 DEF Take

\* A slot is given up with what it was for: the request is settled, the readback
\* is told.
LEMMA SettledInv ==
  ASSUME SlotsInv, NEW s \in Slots, slotState[s] \in {"Preparing", "Submitted"},
         slotState' \in [Slots -> SlotStates], slotState'[s] \in {"Retired", "Quarantined"},
         \A x \in Slots \ {s} : slotState'[x] = slotState[x],
         done' = done \cup ({history[s]} \ {None}),
         ended' = IF history[s] = None THEN ended + 1 ELSE ended,
         UNCHANGED <<shot, history, queued, handled>>
  PROVE  SlotsTyped' /\ PlainWaiting' /\ Balance' /\ Answered'
<1>1. SlotsTyped' /\ PlainWaiting'
  BY DEF SlotsInv, SlotsTyped, PlainWaiting
<1>2. CASE history[s] = None
  <2>1. s \in OpenRequests /\ OpenRequests' = OpenRequests \ {s}
    BY <1>2 DEF OpenRequests
  <2>2. Answered'
    BY <1>2, ScreenshotAssumption DEF SlotsInv, SlotsTyped, Answered, Answering
  <2>3. Balance'
    BY <1>2, <2>1, OpenLoses
  <2>. QED
    BY <1>1, <2>2, <2>3
<1>3. CASE history[s] # None
  <2>1. OpenRequests' = OpenRequests
    BY <1>3 DEF OpenRequests
  <2>2. Answered'
    BY <1>3 DEF SlotsInv, Answered, Answering
  <2>. QED
    BY <1>1, <1>3, <2>1, <2>2, OpenSame
<1>. QED
  BY <1>2, <1>3

\* The copy is recorded: from now on the GPU may write the buffer of this slot.
LEMMA EmitInv == ASSUME SlotsInv, Emit \/ EmitThrows PROVE SlotsInv'
<1>1. /\ index \in Slots /\ slotState[index] = "Preparing" /\ pc' \notin {"emit", "emitHistory"}
      /\ UNCHANGED <<shot, history, queued, completed, wpc, windex, handled>>
      /\ emitted' \in {emitted, emitted \cup {shot[index]}}
  <2>1. index \in Slots /\ slotState[index] = "Preparing"
    BY DEF Emit, EmitThrows, SlotsInv, PreparingHeld
  <2>2. pc' \notin {"emit", "emitHistory"}
    BY DEF Emit, EmitThrows, AfterEmit
  <2>3. UNCHANGED <<shot, history, queued, completed, wpc, windex, handled>>
    BY DEF Emit, EmitThrows, readbacks
  <2>4. emitted' \in {emitted, emitted \cup {shot[index]}}
    BY DEF Emit, EmitThrows
  <2>. QED
    BY <2>1, <2>2, <2>3, <2>4
<1>2. \A x \in Slots \ {index} : slotState'[x] = slotState[x]
  BY DEF Emit, EmitThrows, Set
<1>3. slotState'[index] = IF Emit THEN "Submitted" ELSE "Quarantined"
  BY <1>1 DEF Emit, EmitThrows, Set
<1>4. ReadingHeld' /\ PreparingHeld'
  BY <1>1, <1>2 DEF SlotsInv, ReadingHeld, PreparingHeld
<1>5. NothingRecycledUnderCopy'
  BY <1>1, <1>2, <1>3 DEF SlotsInv, NothingRecycledUnderCopy
<1>6. slotState' \in [Slots -> SlotStates]
  BY <1>1 DEF Emit, EmitThrows, Set, SlotStates, SlotsInv, SlotsTyped
<1>7. CASE Emit
  <2>1. done' = done /\ ended' = ended
    BY <1>7 DEF Emit, readbacks
  <2>2. SlotsTyped' /\ PlainWaiting'
    BY <1>1, <1>2, <1>3, <1>6, <1>7, <2>1 DEF SlotsInv, SlotsTyped, PlainWaiting
  <2>3. OpenRequests' = OpenRequests
    BY <1>1, <1>2, <1>3, <1>7 DEF OpenRequests
  <2>4. Balance'
    BY <1>1, <2>1, <2>3, OpenSame
  <2>5. Answered'
    BY <1>1, <1>2, <1>3, <1>7, <2>1 DEF SlotsInv, Answered, Answering
  <2>. QED
    BY <1>4, <1>5, <2>2, <2>4, <2>5 DEF SlotsInv
<1>8. CASE ~Emit /\ EmitThrows
  <2>1. SlotsTyped' /\ PlainWaiting' /\ Balance' /\ Answered'
    BY <1>1, <1>2, <1>3, <1>6, <1>8, SettledInv DEF EmitThrows
  <2>. QED
    BY <1>4, <1>5, <2>1 DEF SlotsInv
<1>. QED
  BY <1>7, <1>8

\* The worker gives a slot up, or has read it: only a completed copy loses its slot.
LEMMA WorkerInv == ASSUME SlotsInv, WorkerStep \/ WorkerDies PROVE SlotsInv'
<1>1. CASE WorkerSaves
  BY <1>1, StillInv DEF SlotsInv, ReadingHeld, WorkerSaves, Readable, slots, device, flags,
    readbacks, counts
<1>2. CASE WorkerWakes \/ WorkerSkips \/ WorkerRests \/ WorkerDies
  BY <1>2, StillInv DEF WorkerWakes, WorkerSkips, WorkerRests, WorkerDies, slots, device,
     flags, readbacks, counts
<1>3. CASE WorkerQuarantines \/ WorkerRetires
  <2>1. /\ windex \in Slots /\ slotState[windex] = "Submitted"
        /\ UNCHANGED <<device, shot, history, queued, pc, index, handled>>
        /\ wpc' # "save"
    BY <1>3 DEF WorkerQuarantines, WorkerRetires, SlotsInv, ReadingHeld
  <2>2. \A x \in Slots \ {windex} : slotState'[x] = slotState[x]
    BY <1>3 DEF WorkerQuarantines, WorkerRetires, Set
  <2>3. /\ slotState'[windex] \in {"Retired", "Quarantined"}
        /\ slotState'[windex] = "Retired" => shot[windex] \in completed
    BY <1>3, <2>1 DEF WorkerQuarantines, WorkerRetires, Set, SlotsInv, ReadingHeld
  <2>4. slotState' \in [Slots -> SlotStates]
    BY <1>3 DEF WorkerQuarantines, WorkerRetires, Set, SlotStates, SlotsInv, SlotsTyped
  <2>5. SlotsTyped' /\ PlainWaiting' /\ Balance' /\ Answered'
    BY <1>3, <2>1, <2>2, <2>3, <2>4, SettledInv DEF WorkerQuarantines, WorkerRetires, Tell
  <2>6. PreparingHeld' /\ ReadingHeld'
    BY <2>1, <2>2 DEF SlotsInv, PreparingHeld, ReadingHeld
  <2>7. NothingRecycledUnderCopy'
    BY <2>1, <2>2, <2>3 DEF SlotsInv, NothingRecycledUnderCopy, device
  <2>. QED
    BY <2>5, <2>6, <2>7 DEF SlotsInv
<1>. QED
  BY <1>1, <1>2, <1>3 DEF WorkerStep

LEMMA PresentInv == ASSUME SlotsInv, PresentStep PROVE SlotsInv'
<1>1. CASE NoHistory \/ TakeSkips \/ CreateAnother \/ Destroy \/ Join
  BY <1>1, StillInv DEF SlotsInv, ReadingHeld, NoHistory, TakeSkips, CreateAnother, Destroy, Join,
     slots, device, flags, threads, readbacks, counts
<1>2. CASE BeginPresent \/ PrepareReady \/ PrepareReadyUi
  BY <1>2, ReleaseInv DEF BeginPresent, PrepareReady, PrepareReadyUi, flags, counts, Released
<1>3. CASE Reset \/ PrepareUnsupported
  BY <1>3, ResetInv DEF Reset, PrepareUnsupported
<1>4. CASE PrepareSupported \/ TakeEnds
  <2>1. CASE ResetSlots
    BY <1>4, <2>1, ResetInv DEF PrepareSupported, TakeEnds
  <2>2. CASE ~ResetSlots
    BY <1>4, <2>2, StillInv DEF SlotsInv, ReadingHeld, PrepareSupported, TakeEnds, device,
      readbacks, flags
  <2>. QED
    BY <2>1, <2>2
<1>. QED
  BY <1>1, <1>2, <1>3, <1>4, TakeHistoryInv, TakeInv, EmitInv DEF PresentStep

LEMMA SlotsNext == ASSUME SlotsInv, [Next]_vars PROVE SlotsInv'
<1>1. CASE UNCHANGED vars
  BY <1>1, StillInv DEF SlotsInv, ReadingHeld, vars, device, slots, flags, readbacks, threads,
    counts
<1>2. CASE \/ DeviceLost \/ \E n \in 1 .. MaxShots : GpuCompletes(n)
           \/ \E s \in Slots : TenSeconds(s)
  BY <1>2, StillInv DEF SlotsInv, ReadingHeld, DeviceLost, GpuCompletes, TenSeconds, device,
    slots, flags,
     readbacks, threads, counts
<1>. QED
  BY <1>1, <1>2, GameInv, PresentInv, WorkerInv DEF Next

-----------------------------------------------------------------------------
(* What the service shows.                                                 *)

\* Slots, copies and requests stay tied to each other in every reachable state.
THEOREM SlotsInvariance == Spec => []SlotsInv
  BY SlotsInit, SlotsNext, PTL DEF Spec

\* The worker reads a mapped buffer only while its slot is Submitted and its own
\* copy has completed, whatever Present, Reset and the clock do meanwhile.
THEOREM ReadsOwnCompletedCopy == Spec => []ReadsCompleted
<1>1. SlotsInv => ReadsCompleted
  BY DEF SlotsInv, ReadingHeld, ReadsCompleted
<1>. QED
  BY <1>1, SlotsInvariance, PTL

\* No slot is recycled while the GPU may still write its buffer: not by a time-out,
\* a device loss, a reset or an enqueue that failed half way.
THEOREM CopiesKeepTheirSlots == Spec => []NothingRecycledUnderCopy
<1>1. SlotsInv => NothingRecycledUnderCopy
  BY DEF SlotsInv
<1>. QED
  BY <1>1, SlotsInvariance, PTL

\* Every request handled is open in one slot or was settled once, and every readback
\* that was queued is done or held by a slot that will answer for it.
THEOREM RequestsSettledOnce == Spec => []RequestsAccounted
<1>1. SlotsInv => RequestsAccounted
  BY DEF SlotsInv, Balance, OpenRequests, Answered, Answering, RequestsAccounted
<1>. QED
  BY <1>1, SlotsInvariance, PTL
-----------------------------------------------------------------------------
(* What the recorder assumes of a readback is what the service does.       *)

\* The flags queued and done of one readback, before and after a step: it is handed
\* over, or found unprepared and so done without being queued, or answered once queued.
JobStep(q, d, q2, d2) ==
  \/ (q2 <=> q) /\ (d2 <=> d)
  \/ ~q /\ ~d /\ ~(q2 <=> d2)
  \/ q /\ ~d /\ q2 /\ d2

\* A slot that will answer for a readback was queued for it.
Handed ==
  \A s \in Slots : slotState[s] \in {"Preparing", "Submitted"} /\ history[s] # None
                     => history[s] \in queued

LEMMA HandedKept ==
  ASSUME Handed, queued \subseteq queued',
         \A s \in Slots : slotState'[s] \in {"Preparing", "Submitted"} =>
           \/ slotState[s] \in {"Preparing", "Submitted"} /\ history'[s] = history[s]
           \/ history'[s] = None \/ history'[s] \in queued'
  PROVE  Handed'
  BY DEF Handed

\* The steps that give no slot to anyone, and Present's that recycle slots.
LEMMA HandedStill ==
  ASSUME SlotsInv, Handed, queued' = queued,
         \A s \in Slots : slotState'[s] \in {"Preparing", "Submitted"} =>
           slotState[s] \in {"Preparing", "Submitted"} /\ history'[s] = history[s]
  PROVE  Handed'
  BY HandedKept

LEMMA HandedTaken ==
  ASSUME SlotsInv, Handed, Take \/ \E j \in Readbacks : TakeHistory(j)
  PROVE  Handed'
<1>1. CASE Take
  <2>1. /\ queued' = queued /\ history' = history
        /\ index \in Slots /\ history[index] = None
        /\ \A s \in Slots \ {index} : slotState'[s] = slotState[s]
    BY <1>1 DEF Take, Set, readbacks, SlotsInv, PlainWaiting
  <2>. QED
    BY <2>1, HandedKept
<1>2. CASE \E j \in Readbacks : TakeHistory(j)
  <2>1. PICK j \in Readbacks : TakeHistory(j)
    BY <1>2
  <2>. DEFINE f == First("Free")
  <2>2. f \in Slots /\ slotState[f] = "Free"
    BY <2>1, FirstIsIn DEF TakeHistory
  <2>3. queued \subseteq queued' /\ \A s \in Slots \ {f} : slotState'[s] = slotState[s]
                                                        /\ history'[s] = history[s]
    BY <2>1, <2>2 DEF TakeHistory, Set, SlotsInv, SlotsTyped
  <2>4. slotState'[f] \in {"Preparing", "Submitted"} => history'[f] \in queued'
    BY <2>1, <2>2 DEF TakeHistory, Set, SlotsInv, SlotsTyped
  <2>. QED
    BY <2>3, <2>4, HandedKept
<1>. QED
  BY <1>1, <1>2

LEMMA HandedNext == ASSUME SlotsInv, Handed, [Next]_vars PROVE Handed'
<1>1. CASE UNCHANGED <<slots, queued>>
  BY <1>1, HandedStill DEF slots
<1>2. CASE RequestScan
  BY <1>2, HandedStill DEF RequestScan, readbacks, SlotsInv, SlotsTyped
<1>3. CASE BeginPresent \/ PrepareReady \/ PrepareReadyUi
  <2>1. queued' = queued
    BY <1>3 DEF BeginPresent, PrepareReady, PrepareReadyUi, readbacks
  <2>2. ASSUME NEW st, ReleasedTo(st), NEW s \in Slots, slotState[s] # "Retired"
        PROVE  history'[s] = history[s]
    BY <2>2 DEF ReleasedTo, Releasable, In
  <2>3. \A s \in Slots : slotState[s] # "Retired" => history'[s] = history[s]
    BY <1>3, <2>2 DEF BeginPresent, PrepareReady, PrepareReadyUi, Released
  <2>4. /\ Set(Releasable, "Free") \in [Slots -> SlotStates]
        /\ \A s \in Slots : Set(Releasable, "Free")[s] \in {"Preparing", "Submitted"} =>
             slotState[s] \in {"Preparing", "Submitted"}
    BY DEF Set, SlotStates, SlotsInv, SlotsTyped
  <2>5. ASSUME NEW s \in Slots, slotState'[s] \in {"Preparing", "Submitted"}
        PROVE  slotState[s] \in {"Preparing", "Submitted"}
    BY <1>3, <2>4, <2>5 DEF BeginPresent, PrepareReady, PrepareReadyUi, Released, ReleasedTo
  <2>. QED
    BY <2>1, <2>3, <2>5, HandedStill
<1>4. CASE ResetSlots /\ UNCHANGED <<history, readbacks>>
  BY <1>4, HandedStill DEF ResetSlots, Set, readbacks
<1>5. CASE Emit \/ EmitThrows
  <2>1. slotState[index] = "Preparing" /\ queued' = queued /\ history' = history
    BY <1>5 DEF Emit, EmitThrows, readbacks, SlotsInv, PreparingHeld
  <2>2. \A s \in Slots \ {index} : slotState'[s] = slotState[s]
    BY <1>5 DEF Emit, EmitThrows, Set
  <2>. QED
    BY <2>1, <2>2, HandedStill
<1>6. CASE WorkerQuarantines \/ WorkerRetires
  <2>1. queued' = queued /\ history' = history
    BY <1>6 DEF WorkerQuarantines, WorkerRetires
  <2>2. \A s \in Slots :
          slotState'[s] \in {"Preparing", "Submitted"} => slotState'[s] = slotState[s]
    BY <1>6 DEF WorkerQuarantines, WorkerRetires, Set
  <2>. QED
    BY <2>1, <2>2, HandedStill
<1>7. CASE \E s \in Slots : TenSeconds(s)
  BY <1>7, HandedStill DEF TenSeconds, readbacks
<1>8. CASE PrepareSupported \/ TakeEnds \/ Reset \/ PrepareUnsupported
  BY <1>1, <1>4, <1>8 DEF PrepareSupported, TakeEnds, Reset, PrepareUnsupported, slots,
     readbacks, flags
<1>. QED
  BY <1>1, <1>2, <1>3, <1>5, <1>6, <1>7, <1>8, HandedTaken
  DEF Next, PresentStep, WorkerStep, vars, readbacks, RequestBegin, ArmBurst, WorkerDies,
      DeviceLost, GpuCompletes, NoHistory, TakeSkips, CreateAnother, Destroy, Join, WorkerWakes,
      WorkerSkips, WorkerSaves, WorkerRests

\* The service takes a readback once, and answers exactly those it was handed: what
\* FrameRecorder assumes of it in NextExportJob and ReadbackDone.
THEOREM ServiceAnswersJobs ==
  Spec => [][\A j \in Readbacks \ done :
               JobStep(j \in queued, FALSE, j \in queued', j \in done')]_vars
<1>1. ASSUME SlotsInv, Handed, [Next]_vars, NEW j \in Readbacks \ done
      PROVE  JobStep(j \in queued, FALSE, j \in queued', j \in done')
  <2>1. CASE queued' = queued /\ done' = done
    BY <2>1 DEF JobStep
  <2>2. CASE \E i \in Readbacks : TakeHistory(i)
    BY <2>2 DEF TakeHistory, JobStep
  <2>3. CASE EmitThrows
    <3>1. slotState[index] = "Preparing" /\ index \in Slots
      BY <1>1, <2>3 DEF EmitThrows, SlotsInv, PreparingHeld
    <3>2. history[index] # None => history[index] \in queued
      BY <1>1, <3>1 DEF Handed
    <3>. QED
      BY <1>1, <2>3, <3>2 DEF EmitThrows, JobStep
  <2>4. CASE WorkerQuarantines \/ WorkerRetires
    <3>1. slotState[windex] = "Submitted" /\ windex \in Slots
      BY <1>1, <2>4 DEF WorkerQuarantines, WorkerRetires, SlotsInv, ReadingHeld
    <3>2. history[windex] # None => history[windex] \in queued
      BY <1>1, <3>1 DEF Handed
    <3>. QED
      BY <1>1, <2>4, <3>2 DEF WorkerQuarantines, WorkerRetires, Tell, JobStep
  <2>. QED
    BY <1>1, <2>1, <2>2, <2>3, <2>4
    DEF Next, PresentStep, WorkerStep, vars, readbacks, RequestBegin, RequestScan, ArmBurst,
        WorkerDies, DeviceLost, GpuCompletes, TenSeconds, NoHistory, TakeSkips, CreateAnother,
        Destroy, Join, WorkerWakes, WorkerSkips, WorkerSaves, WorkerRests, BeginPresent,
        PrepareReady, PrepareReadyUi, PrepareSupported, TakeEnds, Reset, PrepareUnsupported,
        Take, Emit
<1>2. Init => Handed
  BY DEF Init, Handed
<1>3. SlotsInv /\ Handed /\ [Next]_vars
        => [\A j \in Readbacks \ done :
              JobStep(j \in queued, FALSE, j \in queued', j \in done')]_vars
  BY <1>1
<1>. QED
  BY <1>2, <1>3, HandedNext, SlotsInvariance, PTL DEF Spec

\* While the recorder exports, each of its jobs takes only the steps of the service.
THEOREM RecorderJobsAreReadbacks ==
  RecorderSpec => [][state = "Exporting" /\ state' # "Idle" =>
                       \A i \in Frames : JobStep(frames[i].queued, frames[i].done,
                                                 frames'[i].queued, frames'[i].done)]_recorder_vars
<1>1. ASSUME HotInv, RingInv, [RecorderNext]_recorder_vars, state = "Exporting", state' # "Idle",
             NEW i \in Frames
      PROVE  JobStep(frames[i].queued, frames[i].done, frames'[i].queued, frames'[i].done)
  <2>1. CASE frames' = frames
    BY <2>1 DEF JobStep
  <2>2. CASE \E o \in {"queued", "unprepared", "throws"} : NextExportJob(o)
    <3>1. PICK o \in {"queued", "unprepared", "throws"} : NextExportJob(o)
      BY <2>2
    <3>2. PICK h \in DOMAIN order :
            /\ ~frames[order[h]].done /\ ~frames[order[h]].queued
            /\ frames' = [frames EXCEPT ![order[h]].queued = (o # "unprepared"),
                                        ![order[h]].done = (o = "unprepared")]
      BY <3>1 DEF NextExportJob
    <3>3. order[h] \in Frames /\ frames \in [Frames -> JobRecords]
      BY <1>1, <3>2 DEF RingInv, Consecutive
    <3>4. CASE i # order[h]
      <4>1. frames'[i] = frames[i]
        BY <3>2, <3>3, <3>4
      <4>. QED
        BY <4>1 DEF JobStep
    <3>5. CASE i = order[h]
      <4>1. /\ frames'[i].queued = (o # "unprepared") /\ frames'[i].done = (o = "unprepared")
        BY <3>2, <3>3, <3>5 DEF JobRecords
      <4>. QED
        BY <3>2, <3>5, <4>1 DEF JobStep
    <3>. QED
      BY <3>4, <3>5
  <2>3. CASE Readback
    <3>1. PICK h \in Frames, ok \in BOOLEAN : ReadbackDone(h, ok)
      BY <2>3 DEF Readback
    <3>2. frames \in [Frames -> JobRecords]
      BY <1>1 DEF RingInv
    <3>3. CASE i # h
      <4>1. frames'[i] = frames[i]
        BY <3>1, <3>2, <3>3 DEF ReadbackDone
      <4>. QED
        BY <4>1 DEF JobStep
    <3>4. CASE i = h
      <4>1. /\ frames[i].queued /\ ~frames[i].done
            /\ frames'[i].queued = frames[i].queued /\ frames'[i].done = TRUE
        BY <3>1, <3>2, <3>4 DEF ReadbackDone, JobRecords
      <4>. QED
        BY <4>1 DEF JobStep
    <3>. QED
      BY <3>3, <3>4
  <2>4. CASE UNCHANGED recorder_vars \/ (\E k \in Keys : KeyRead(k) \/ KeyStep(k))
             \/ CaptureCancelled \/ BoxOpen \/ CaptureFrame \/ Disarm \/ TriggerLoad
             \/ NextExportBegin \/ CaptureRejected \/ Settle \/ ShotsFail \/ Cancel
    BY <1>1, <2>1, <2>4 DEF recorder_vars, KeyRead, KeyStep, KeySwap, KeyAnswer,
      CaptureCancelled, BoxOpen,
       CaptureFrame, Disarm, TriggerLoad, NextExportBegin, CaptureRejected, Settle, ShotsFail, Cancel, image
  <2>5. CASE ClientArmCheck \/ ClientArmBind \/ ClientTrigger \/ ClientDiscard \/ ClientManifest
             \/ WorkerAttempt \/ RecorderStep \/ Release \/ ReleaseJoin \/ CpuStep
    BY <2>1, <2>5 DEF ClientArmCheck, ArmCheck, ClientArmBind, ArmBind, ArmNoDirectory,
       ClientTrigger, ClientDiscard, ClientManifest, WriteManifest, WorkerAttempt, RecorderStep,
       WorkerStop, WorkerArmFails, WorkerArmRefused, WorkerExport, WorkerSign, WorkerExportFails,
       WorkerArm, WorkerPublish, WorkerCpuExport, WorkerExit, WorkerArmImages, WorkerArmBind,
       WorkerManifest, WorkerFail, Release, ReleaseJoin, CpuStep, others, image
  <2>6. ~CaptureDiscard /\ ~CaptureAllocate /\ ~Consume /\ ~TriggerCpu /\ ~Create
    BY <1>1 DEF CaptureDiscard, CaptureAllocate, Consume, TriggerCpu, Create, Triggers, HotInv,
      Locked
  <2>. QED
    BY <1>1, <2>2, <2>3, <2>4, <2>5, <2>6 DEF RecorderNext, CaptureStep
<1>2. HotInv /\ RingInv /\ [RecorderNext]_recorder_vars
        => [state = "Exporting" /\ state' # "Idle" =>
              \A i \in Frames : JobStep(frames[i].queued, frames[i].done,
                                        frames'[i].queued, frames'[i].done)]_recorder_vars
  BY <1>1
<1>. QED
  BY <1>2, MailboxInvariance, RingInvariance, PTL DEF RecorderSpec

=============================================================================
