----------------------------- MODULE KeyPoolHistory ----------------------------
(* The pool with two history variables, for properties that speak of what  *)
(* happened before: the keys handed out since the available keys last      *)
(* changed, and the errors of each key in a row without a success.         *)
EXTENDS KeyPool

VARIABLES served, streak

historyVars == <<vars, served, streak>>

AvailableKeys == {order[i] : i \in Available}

HistoryInit == Init /\ served = {} /\ streak = [k \in Keys |-> 0]

(* A restart reloads verdicts: the errors in a row are those on record.    *)
StreakNext ==
  streak' = [k \in Keys |->
               IF rec'[k] = Fresh THEN 0
               ELSE IF rec'[k].errors = rec[k].errors + 1 THEN streak[k] + 1
               ELSE IF rec'[k].requests = rec[k].requests + 1 THEN 0
               ELSE streak[k]]

HistoryNext ==
  \/ /\ GetNext
     /\ served' = IF AvailableKeys \subseteq served \cup {picked'}
                    THEN {} ELSE served \cup {picked'}
     /\ UNCHANGED streak
  \/ /\ Restart
     /\ served' = {}
     /\ streak' = [k \in Keys |-> rec'[k].recovers]
  \/ /\ \/ \E k \in Keys :
             \/ AddKey(k) \/ RemoveKey(k) \/ ToggleKey(k)
             \/ RestoreKey(k) \/ MarkDisabledByQuota(k, "5h_quota")
             \/ MarkSuccess(k) \/ MarkError(k)
        \/ Tick \/ FlushPool
     /\ served' = IF AvailableKeys' = AvailableKeys THEN served ELSE {}
     /\ StreakNext

HistorySpec == HistoryInit /\ [][HistoryNext]_historyVars

(* Round robin (keypool.go:347-366): while the available keys stay the     *)
(* same no key is handed out again before each of the others was, even     *)
(* though the index was last moved when other keys were available.         *)
FullRotation ==
  [][GetNext /\ Available # {} => picked' \notin served]_historyVars

(* The pool disables a key for a short quota only after Threshold errors   *)
(* in a row: a success in between starts the count again (keypool.go:      *)
(* 266-273, 294, 325).                                                     *)
DisabledByStreak ==
  [][\A k \in Keys :
       MarkError(k) /\ rec'[k].reason = "5h_quota" /\ rec[k].reason = "" =>
         streak'[k] >= Threshold]_historyVars

-----------------------------------------------------------------------------
(* The inductive invariant of the proofs.  The keys handed out are those   *)
(* whose rank among the available ones the index has passed since it was   *)
(* at some rank s; and a key counts no more recoveries that failed than    *)
(* errors in a row.                                                        *)
Precedes(l, k) ==
  \E i, j \in 1 .. Len(order) : i < j /\ order[i] = l /\ order[j] = k

Rank(k) == Cardinality({l \in AvailableKeys : Precedes(l, k)})

Passed(r, s) == IF s < index THEN s <= r /\ r < index ELSE s <= r \/ r < index

RotationInv ==
  served # {} =>
    /\ served \subseteq AvailableKeys
    /\ index < Cardinality(AvailableKeys)
    /\ \E s \in 0 .. Cardinality(AvailableKeys) - 1 :
         /\ s # index
         /\ \A k \in AvailableKeys : k \in served <=> Passed(Rank(k), s)

StreakInv == \A k \in Keys : streak[k] \in Nat /\ rec[k].recovers <= streak[k]
=============================================================================
