-------------------------- MODULE MCKeyPoolHistory --------------------------
EXTENDS KeyPoolHistory, TLC

Symmetry == Permutations(Keys)

(* A bound: what a key counts is followed over several cooldowns while it  *)
(* is alone in the pool, the rotation over one while there are more.       *)
MCNext ==
  /\ HistoryNext
  /\ Len(order') > 1 =>
       now' <= 1 /\ \A k \in Keys : rec'[k].errors = 0 /\ rec'[k].requests = 0

MCSpec == HistoryInit /\ [][MCNext]_historyVars
=============================================================================
