-------------------------- MODULE SnapshotRegister --------------------------
(***************************************************************************)
(* What the resident Output promises: a register that holds one snapshot   *)
(* at a time.  A publication replaces it with the next one; a read either  *)
(* gives nothing or, at one instant, the snapshot the register then holds, *)
(* and only when that snapshot carries the fence the reader asked for.     *)
(***************************************************************************)
EXTENDS Naturals

CONSTANTS Readers, Snapshots, FenceWords, None

VARIABLES
    latest,   \* the snapshot the register holds
    asked,    \* the fence each reader asks for
    answer    \* the snapshot each reader was served, or None

rvars == <<latest, asked, answer>>

FenceOf(s) == [w \in FenceWords |-> s[w]]

RInit ==
    /\ latest \in Snapshots
    /\ latest.publication = 1
    /\ asked \in [Readers -> [FenceWords -> Nat]]
    /\ answer = [r \in Readers |-> None]

Publish ==
    /\ latest' \in Snapshots
    /\ latest'.publication = latest.publication + 1
    /\ UNCHANGED <<asked, answer>>

Ask(r) ==
    /\ asked' \in [Readers -> [FenceWords -> Nat]]
    /\ \A q \in Readers \ {r} : asked'[q] = asked[q]
    /\ answer' = [answer EXCEPT ![r] = None]
    /\ UNCHANGED latest

Serve(r) ==
    /\ answer[r] = None
    /\ FenceOf(latest) = asked[r]
    /\ answer' = [answer EXCEPT ![r] = latest]
    /\ UNCHANGED <<latest, asked>>

RNext == Publish \/ \E r \in Readers : Ask(r) \/ Serve(r)

RSpec == RInit /\ [][RNext]_rvars
=============================================================================
