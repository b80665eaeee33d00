---------------------------- MODULE MCRunCapture ----------------------------
(* run_capture on small instances. *)
EXTENDS RunCapture
=============================================================================
