--------------------------- MODULE EvaluationSlots ---------------------------
(***************************************************************************)
(* What a requester is promised of a request slot: a request is answered   *)
(* once, and when the answer is a result, it is the result of that request *)
(* and stays until the slot is given back.                                 *)
(***************************************************************************)
EXTENDS Integers

CONSTANTS Slots, MaxGeneration, Nothing

VARIABLES phase, gen, outcome, value

Init ==
    /\ phase = [s \in Slots |-> "idle"] /\ gen = [s \in Slots |-> 0]
    /\ outcome = [s \in Slots |-> "none"] /\ value = [s \in Slots |-> Nothing]

Submit(s) ==
    /\ phase[s] = "idle" /\ gen[s] < MaxGeneration
    /\ phase' = [phase EXCEPT ![s] = "open"] /\ gen' = [gen EXCEPT ![s] = @ + 1]
    /\ UNCHANGED <<outcome, value>>

Answer(s) ==
    /\ phase[s] = "open"
    /\ phase' = [phase EXCEPT ![s] = "answered"]
    /\ \/ /\ outcome' = [outcome EXCEPT ![s] = "ready"]
          /\ value' = [value EXCEPT ![s] = [slot |-> s, gen |-> gen[s]]]
       \/ /\ \E o \in {"failed", "cancelled"} : outcome' = [outcome EXCEPT ![s] = o]
          /\ UNCHANGED value
    /\ UNCHANGED gen

Free(s) ==
    /\ phase[s] = "answered"
    /\ phase' = [phase EXCEPT ![s] = "idle"] /\ outcome' = [outcome EXCEPT ![s] = "none"]
    /\ value' = [value EXCEPT ![s] = Nothing]
    /\ UNCHANGED gen

Retire(s) ==
    /\ phase[s] = "idle" /\ gen[s] = MaxGeneration
    /\ phase' = [phase EXCEPT ![s] = "retired"]
    /\ UNCHANGED <<gen, outcome, value>>

Next == \E s \in Slots : Submit(s) \/ Answer(s) \/ Free(s) \/ Retire(s)
Spec == Init /\ [][Next]_<<phase, gen, outcome, value>>
=============================================================================
