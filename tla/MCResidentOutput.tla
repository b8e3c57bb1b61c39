-------------------------- MODULE MCResidentOutput --------------------------
(* Small instances of ResidentOutput for TLC. *)
EXTENDS ResidentOutput

CONSTANTS o1, terminal

TwoFoci == {[root |-> 0, generation |-> 1], [root |-> 1, generation |-> 1]}
\* One node slot reused: the root word alone does not tell the two apart.
ReusedFoci == {[root |-> 0, generation |-> 1], [root |-> 0, generation |-> 2]}
=============================================================================
