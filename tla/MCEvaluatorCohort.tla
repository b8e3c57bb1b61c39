-------------------------- MODULE MCEvaluatorCohort --------------------------
(* Three requests for two lanes: a full batch and a partial one.            *)
EXTENDS EvaluatorCohort

TwoLanes == 0 .. 1
=============================================================================
