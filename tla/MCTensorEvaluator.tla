-------------------------- MODULE MCTensorEvaluator --------------------------
(* Small instances of the tensor evaluator.                                 *)
EXTENDS TensorEvaluator, TLC

CONSTANTS w1, w2

Same == Permutations(Workers)
=============================================================================
