---------------------------- MODULE MCEvalContext ----------------------------
(* A small instance of EvalContext.  Arrays are interchangeable.           *)
EXTENDS EvalContext, TLC

Symmetry == Permutations(Node) \cup Permutations(Name)
==============================================================================
