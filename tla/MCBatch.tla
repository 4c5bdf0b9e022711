------------------------------ MODULE MCBatch ------------------------------
(* Instances of Batch for TLC. *)
EXTENDS Batch, TLC

\* the primary keys are alike
KeySymmetry == Permutations(Keys)
=============================================================================
