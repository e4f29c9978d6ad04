----------------------------- MODULE MCKeyProxy -----------------------------
EXTENDS KeyProxy

(* Requests are interchangeable, and so are keys: the pool keeps them in   *)
(* an order of its own.                                                    *)
Symmetry == Permutations(Requests) \cup Permutations(Keys)
=============================================================================
