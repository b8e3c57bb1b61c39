------------------------- MODULE MCAdapterLifecycle -------------------------
(* Two or three calls pending at a time on one execution.                   *)
EXTENDS AdapterLifecycle, TLC

CONSTANTS c1, c2, c3

TwoCalls == {c1, c2}
ThreeCalls == {c1, c2, c3}
=============================================================================
