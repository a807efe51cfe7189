-------------------------- MODULE EvidenceSession --------------------------
(***************************************************************************)
(* What the frame-evidence ring promises the rest of the recorder: numbered *)
(* sessions that are armed, published to the recording threads through a   *)
(* gate, triggered, frozen and discarded.  EvidenceRing has the threads,   *)
(* the cells and the writer count and implements this module; FrameRecorder *)
(* is written against it.                                                  *)
(***************************************************************************)
EXTENDS Naturals

VARIABLES
  phase,      \* Idle, Arming, Armed, Triggered or Frozen
  session,    \* the number of the last session
  active,     \* the gate: the session that is recorded, 0 when none is
  game        \* the session for which the game asked for a trigger

session_vars == <<phase, session, active, game>>

\* The last session whose gate was opened.
Published == IF phase = "Arming" THEN session - 1 ELSE session

Recording == phase \in {"Arming", "Armed", "Triggered"}

Init == phase = "Idle" /\ session = 0 /\ active = 0 /\ game = 0

Arm ==
  /\ phase = "Idle" /\ phase' = "Arming" /\ session' = session + 1
  /\ UNCHANGED <<active, game>>

Publish ==
  /\ phase = "Arming" /\ phase' = "Armed" /\ active' = session
  /\ UNCHANGED <<session, game>>

\* The game asks for a trigger of the session whose gate it found open; that session
\* may be over by now.
Request(s) ==
  /\ s \in 1 .. Published /\ game' = s
  /\ UNCHANGED <<phase, session, active>>

\* A recording thread takes the request, once.  It may do so late as well: the thread
\* looked at the gate before.
TakeRequest == game # 0 /\ game' = 0 /\ UNCHANGED <<phase, session, active>>

Trigger == phase = "Armed" /\ phase' = "Triggered" /\ UNCHANGED <<session, active, game>>

Freeze ==
  /\ phase \in {"Armed", "Triggered"} /\ phase' = "Frozen"
  /\ UNCHANGED <<session, active, game>>

\* A thread that saw the ring frozen shuts the gate.  It may do so late, when
\* the next session has already been published.
Cut ==
  /\ active # 0 /\ (~Recording \/ session > 1)
  /\ active' = 0 /\ UNCHANGED <<phase, session, game>>

Discard == phase = "Frozen" /\ phase' = "Idle" /\ UNCHANGED <<session, active, game>>

Next ==
  \/ Arm \/ Publish \/ (\E s \in 1 .. session : Request(s)) \/ TakeRequest \/ Trigger \/ Freeze \/ Cut \/ Discard

Spec == Init /\ [][Next]_session_vars
=============================================================================
