---------------------------- MODULE GenerateOnce ----------------------------
(***************************************************************************)
(* What one call of the CommandCode client's stream() promises to the      *)
(* route that iterates it, without saying how: the upstream is called a    *)
(* bounded number of times, the route sees the events of one call only,    *)
(* in order and with nothing after the terminal event, and nothing         *)
(* more is started or shown once the request has been stopped (its caller  *)
(* went away or its time budget ran out).                                  *)
(***************************************************************************)
EXTENDS Integers, Sequences

CONSTANTS MaxAttempts,   \* how often one request may call the upstream
          Kinds          \* the event types an upstream may send

Terminal == {"finish", "error", "abort"}

NotEnded  == [kind |-> "none", status |-> 0]
Returned  == [kind |-> "returned", status |-> 0]
Closed    == [kind |-> "closed", status |-> 0]
Thrown(s) == [kind |-> "thrown", status |-> s]
Outcomes  == {Returned, Closed} \cup [kind : {"thrown"}, status : Nat]

VARIABLES calls,     \* upstream calls started so far
          shown,     \* events handed to the route: <<call, kind>>
          stopped,   \* the caller left or the budget is spent
          result     \* how the iteration ended

onceVars == <<calls, shown, stopped, result>>

(* The upstream's answer is complete: its terminal event has been shown. *)
Complete(s) == s # <<>> /\ s[Len(s)][2] \in Terminal

OnceInit ==
  /\ calls = 0
  /\ shown = <<>>
  /\ stopped = FALSE
  /\ result = NotEnded

(* The request is sent, or sent again: only while the route has seen       *)
(* nothing of an earlier call and nobody has stopped the request.          *)
Call ==
  /\ result = NotEnded
  /\ shown = <<>>
  /\ ~stopped
  /\ calls < MaxAttempts
  /\ calls' = calls + 1
  /\ UNCHANGED <<shown, stopped, result>>

Show(kind) ==
  /\ result = NotEnded
  /\ ~stopped
  /\ calls > 0
  /\ ~Complete(shown)
  /\ shown' = Append(shown, <<calls, kind>>)
  /\ UNCHANGED <<calls, stopped, result>>

Stop ==
  /\ ~stopped
  /\ stopped' = TRUE
  /\ UNCHANGED <<calls, shown, result>>

(* A normal end needs a complete answer, a failure an incomplete one; a    *)
(* request that was stopped fails as a timeout or as a cancellation, with  *)
(* no other status.                                                        *)
End ==
  /\ result = NotEnded
  /\ result' \in Outcomes
  /\ result'.kind = "returned" => Complete(shown)
  /\ result'.kind = "thrown" => ~Complete(shown)
  /\ result'.kind = "thrown" /\ stopped => result'.status \in {499, 504}
  /\ UNCHANGED <<calls, shown, stopped>>

(* The request was already stopped when the route first asked for an       *)
(* event: nothing is sent.                                                 *)
StillBorn ==
  /\ result = NotEnded /\ calls = 0 /\ ~stopped
  /\ stopped' = TRUE
  /\ result' = Thrown(499)
  /\ UNCHANGED <<calls, shown>>

OnceNext ==
  \/ Call
  \/ \E kind \in Kinds : Show(kind)
  \/ Stop
  \/ StillBorn
  \/ End

OnceSpec == OnceInit /\ [][OnceNext]_onceVars
=============================================================================
