-------------------------- MODULE MCFrameRecorder --------------------------
(* Model checking of FrameRecorder: the hotkey threads are interchangeable. *)
EXTENDS FrameRecorder, TLC

KeySymmetry == Permutations(Keys)
=============================================================================
