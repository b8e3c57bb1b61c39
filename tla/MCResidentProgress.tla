------------------------- MODULE MCResidentProgress --------------------------
(* A small domain for the search.  A diamond with a cycle: a and b both     *)
(* lead to c, and c back to a.  The keys of a and c collide, and so do      *)
(* those of b and e, a root that is refused once the lookup has missed it.  *)
EXTENDS ResidentProgress, TLC

CONSTANTS a, b, c, d, e

Diamond == (a :> <<b, c>>) @@ (b :> <<c>>) @@ (c :> <<a>>) @@ (d :> <<>>) @@ (e :> <<>>)
DiamondKeys == (a :> 0) @@ (b :> 1) @@ (c :> 0) @@ (d :> 2) @@ (e :> 1)
=============================================================================
