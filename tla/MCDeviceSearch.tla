--------------------------- MODULE MCDeviceSearch ---------------------------
(* A root with two moves: to a node that leads back, and to a terminal one.  *)
EXTENDS DeviceSearch, TLC

CONSTANTS r, n, t, x

Loops == (r :> {n, t}) @@ (n :> {r, x}) @@ (t :> {}) @@ (x :> {})
TwoLanes == 0 .. 1
ThreeLanes == 0 .. 2
=============================================================================
