----------------------------- MODULE MCKeyPool ------------------------------
EXTENDS KeyPool, TLC

(* The keys are interchangeable: nothing in the pool depends on which is   *)
(* which.                                                                  *)
Symmetry == Permutations(Keys)
=============================================================================
