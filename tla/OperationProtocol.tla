-------------------------- MODULE OperationProtocol --------------------------
(***************************************************************************)
(* What the privileged helper promises the desktop about run requests: a   *)
(* run is told started at most once and finished at most once, in that     *)
(* order, finished closes it for good, and at most one run is open at any  *)
(* moment.  A run that never starts (rejected, refused, failed to launch)  *)
(* is only told finished.                                                  *)
(***************************************************************************)
EXTENDS Sequences

CONSTANT Runs
VARIABLE transcript   \* per run: the "started" and "finished" events told

Open(r) == transcript[r] = <<"started">>

Init == transcript = [r \in Runs |-> <<>>]

Start(r) ==
  /\ transcript[r] = <<>>
  /\ \A q \in Runs : ~Open(q)
  /\ transcript' = [transcript EXCEPT ![r] = Append(@, "started")]

Close(r) ==
  /\ Open(r)
  /\ transcript' = [transcript EXCEPT ![r] = Append(@, "finished")]

Decline(r) ==
  /\ transcript[r] = <<>>
  /\ transcript' = [transcript EXCEPT ![r] = Append(@, "finished")]

Next == \E r \in Runs : Start(r) \/ Close(r) \/ Decline(r)

Spec == Init /\ [][Next]_transcript
=============================================================================
