--------------------------- MODULE GenerateStream ---------------------------
(***************************************************************************)
(* One call of stream() of the CommandCode client                          *)
(* (src/commandcode/client.ts): setup, up to MaxAttempts fetches of        *)
(* /alpha/generate, the reading of the NDJSON body, the backoff between    *)
(* attempts, the total time budget, the caller's abort signal and the      *)
(* release of every connection, timer and listener.                        *)
(*                                                                         *)
(* The generator runs on Node's event loop: what it does between two       *)
(* awaits (or yields) is one action, and pc names the await or yield at    *)
(* which it is suspended.  Aborts arrive only while it is suspended.       *)
(***************************************************************************)
EXTENDS Integers, Sequences, FiniteSets

CONSTANTS MaxAttempts,   \* COMMAND_CODE_MAX_ATTEMPTS
          MaxEvents,     \* bound: NDJSON lines of one request
          Kinds,         \* event types the upstream may send
          HttpErrors,    \* statuses of its responses that are not ok
          BodyStatuses   \* statuses a JSON error body may carry

ASSUME ConstantsAssumption ==
  /\ MaxAttempts \in Nat \ {0}
  /\ MaxEvents \in Nat
  /\ Kinds \subseteq STRING /\ "bad" \notin Kinds
  /\ HttpErrors \subseteq 300 .. 599
  /\ BodyStatuses \subseteq {n \in Nat : n >= 400}

VARIABLES pc,          \* where the generator is suspended
          attempt,     \* attempts started
          httpStatus,  \* response.status of the current attempt, 0: none yet
          lines,       \* complete lines of the last chunk not yet yielded
          ended,       \* reader.read() has returned done
          delivered,   \* events yielded: <<attempt, kind>>
          aborted,     \* requestSignal: "no", or why it was aborted first
          callerGone,  \* the signal passed in by the route is aborted
          timer,       \* the total budget's setTimeout
          listening,   \* the abort listener is on the caller's signal
          conn,        \* the upstream connection of each attempt
          result       \* how the iteration ended

vars == <<pc, attempt, httpStatus, lines, ended, delivered, aborted,
          callerGone, timer, listening, conn, result>>

Attempts == 1 .. MaxAttempts
Lines == Kinds \cup {"bad"}          \* "bad": a line JSON.parse rejects

RetryableStatuses == {502, 503, 504}

(* What fetch or read may reject with: an error with a transient cause     *)
(* code, another error, or one named like an abort or a timeout.           *)
Rejections == {"reset", "fatal", "AbortError", "TimeoutError"}

Err(name) == [name |-> name, status |-> 0]
UpstreamError(status) == [name |-> "upstream", status |-> status]

Once == INSTANCE GenerateOnce WITH
          calls <- attempt, shown <- delivered,
          stopped <- aborted # "no"

Awaiting == {"dir", "fetch", "errbody", "read", "delay"}
Aborted == aborted # "no"

Init ==
  /\ pc = "new"
  /\ attempt = 0
  /\ httpStatus = 0
  /\ lines = <<>>
  /\ ended = FALSE
  /\ delivered = <<>>
  /\ aborted = "no"
  /\ callerGone = FALSE
  /\ timer = "off"
  /\ listening = FALSE
  /\ conn = [a \in Attempts |-> "none"]
  /\ result = Once!NotEnded

-----------------------------------------------------------------------------
(* The ways a step ends.                                                   *)

ReleaseForgotten(c) == c
(* The response of the current attempt is cancelled or was consumed; a     *)
(* fetch still pending is not touched.                                     *)
Release(c) ==
  [a \in Attempts |-> IF a = attempt /\ c[a] = "open" THEN "closed" ELSE c[a]]

ExitKeepsTimer(r, c) ==
  /\ pc' = "done"
  /\ result' = r
  /\ listening' = FALSE
  /\ conn' = Release(c)
  /\ lines' = <<>>
  /\ UNCHANGED <<attempt, delivered, aborted, callerGone, timer>>
(* The outer finally: clearTimeout and removeEventListener.                *)
Exit(r, c) ==
  /\ pc' = "done"
  /\ result' = r
  /\ timer' = (IF timer = "armed" THEN "cleared" ELSE timer)
  /\ listening' = FALSE
  /\ conn' = Release(c)
  /\ lines' = <<>>
  /\ UNCHANGED <<attempt, delivered, aborted, callerGone>>

FailureStatusCallerFirst(e) ==
  IF callerGone \/ e.name = "AbortError" THEN 499
  ELSE IF Aborted \/ e.name = "TimeoutError" THEN 504
  ELSE IF e.name = "upstream" THEN e.status ELSE 502
(* The outer catch: which status the route is told.                        *)
FailureStatus(e) ==
  IF aborted = "timeout" \/ e.name = "TimeoutError" THEN 504
  ELSE IF callerGone \/ e.name = "AbortError" THEN 499
  ELSE IF e.name = "upstream" THEN e.status
  ELSE 502

Fail(e, c) == Exit(Once!Thrown(FailureStatus(e)), c)

RetryableByErrorStatus(e, stage, status) ==
  IF e.name = "upstream"
    THEN stage = "http-body" /\ e.status \in RetryableStatuses
    ELSE stage \in {"fetch", "read"} /\ e.name = "reset"
(* Whether the inner catch holds the failure of this stage for transient.  *)
Retryable(e, stage, status) ==
  IF e.name = "upstream"
    THEN /\ stage = "http-body"
         /\ status \in RetryableStatuses
         /\ e.status \in RetryableStatuses
    ELSE stage \in {"fetch", "read"} /\ e.name = "reset"

MayRetryAfterOutput(e, stage, status) ==
  /\ ~Aborted
  /\ e.name \notin {"AbortError", "TimeoutError"}
  /\ attempt < MaxAttempts
  /\ Retryable(e, stage, status)
MayRetry(e, stage, status) ==
  /\ ~Aborted
  /\ e.name \notin {"AbortError", "TimeoutError"}
  /\ delivered = <<>>
  /\ attempt < MaxAttempts
  /\ Retryable(e, stage, status)

(* The inner catch and finally: back off, or hand the error on.            *)
Catch(e, stage, status, c) ==
  \/ /\ MayRetry(e, stage, status)
     /\ pc' = "delay"
     /\ conn' = Release(c)
     /\ lines' = <<>>
     /\ UNCHANGED <<attempt, delivered, aborted, callerGone, timer, listening,
                    result>>
  \/ /\ ~MayRetry(e, stage, status)
     /\ Fail(e, c)

(* for (attempt ...): a new fetch.                                         *)
Fetch ==
  /\ pc' = "fetch"
  /\ attempt' = attempt + 1
  /\ conn' = [conn EXCEPT ![attempt + 1] = "pending"]
  /\ httpStatus' = 0
  /\ ended' = FALSE

(* readNdjson up to its next suspension: yield the first of the lines ls,  *)
(* read on when there is none, or fail.  A terminal event cancels the      *)
(* reader before it is yielded.                                            *)
Yield(ls) ==
  /\ pc' = "yield"
  /\ delivered' = Append(delivered, <<attempt, Head(ls)>>)
  /\ lines' = Tail(ls)
  /\ conn' = IF Head(ls) \in Once!Terminal THEN Release(conn) ELSE conn
  /\ UNCHANGED <<attempt, aborted, callerGone, timer, listening, result>>

AwaitRead ==
  /\ pc' = "read"
  /\ lines' = <<>>
  /\ UNCHANGED <<attempt, delivered, aborted, callerGone, timer, listening,
                 conn, result>>

Continue(ls, eof) ==
  \/ /\ ls = <<>> /\ ~eof /\ ~Aborted
     /\ AwaitRead
  \/ /\ ls = <<>> /\ ~eof /\ Aborted
     /\ Catch(Err("signal"), "read", httpStatus, conn)
  \/ /\ ls = <<>> /\ eof
     /\ Catch(UpstreamError(502), "read", httpStatus, conn)
  \/ /\ ls # <<>> /\ Head(ls) = "bad"
     /\ Catch(UpstreamError(502), "read", httpStatus, conn)
  \/ /\ ls # <<>> /\ Head(ls) # "bad" /\ Aborted
     /\ Catch(Err("signal"), "read", httpStatus, conn)
  \/ /\ ls # <<>> /\ Head(ls) # "bad" /\ ~Aborted
     /\ Yield(ls)

-----------------------------------------------------------------------------
(* The consumer: the route's for-await loop.                               *)

(* The first next(): link the caller's signal, arm the budget, and ask     *)
(* for the working directory - or fail at once if the caller has gone.     *)
Start ==
  /\ pc = "new"
  /\ \/ /\ callerGone
        /\ pc' = "done"
        /\ aborted' = "caller"
        /\ timer' = "cleared"
        /\ result' = Once!Thrown(499)
        /\ UNCHANGED listening
     \/ /\ ~callerGone
        /\ pc' = "dir"
        /\ timer' = "armed"
        /\ listening' = TRUE
        /\ UNCHANGED <<aborted, result>>
  /\ UNCHANGED <<attempt, httpStatus, lines, ended, delivered, callerGone, conn>>

(* next() while suspended at a yield.                                      *)
Pull ==
  /\ pc = "yield"
  /\ \/ /\ Once!Complete(delivered)
        /\ Exit(Once!Returned, conn)
     \/ /\ ~Once!Complete(delivered)
        /\ Continue(lines, ended)
  /\ UNCHANGED <<httpStatus, ended>>

(* return(): it is queued while the generator awaits, so it takes effect   *)
(* before the first next() or at a yield.                                  *)
ConsumerReturns ==
  /\ pc \in {"new", "yield"}
  /\ Exit(Once!Closed, conn)
  /\ UNCHANGED <<httpStatus, ended>>

CallerAborts ==
  /\ ~callerGone
  /\ callerGone' = TRUE
  /\ aborted' = IF listening /\ ~Aborted THEN "caller" ELSE aborted
  /\ UNCHANGED <<pc, attempt, httpStatus, lines, ended, delivered, timer,
                 listening, conn, result>>

-----------------------------------------------------------------------------
(* The event loop: timers and settled promises.                            *)

TimerFires ==
  /\ timer = "armed"
  /\ timer' = "fired"
  /\ aborted' = IF Aborted THEN aborted ELSE "timeout"
  /\ UNCHANGED <<pc, attempt, httpStatus, lines, ended, delivered, callerGone,
                 listening, conn, result>>

AbortedAwaitNotFetch ==
  /\ pc \in Awaiting \ {"fetch"}
  /\ Aborted
  /\ Fail(Err("signal"), conn)
  /\ UNCHANGED <<httpStatus, ended>>
(* abortable(): the abort listener rejects whatever the generator awaits.  *)
(* A fetch that is still pending is left behind.                           *)
AbortedAwait ==
  /\ pc \in Awaiting
  /\ Aborted
  /\ Fail(Err("signal"), conn)
  /\ UNCHANGED <<httpStatus, ended>>

DirReady ==
  /\ pc = "dir"
  /\ ~Aborted
  /\ Fetch
  /\ UNCHANGED <<lines, delivered, aborted, callerGone, timer, listening, result>>

DirFails ==
  /\ pc = "dir"
  /\ ~Aborted
  /\ Fail(Err("fatal"), conn)
  /\ UNCHANGED <<httpStatus, ended>>

FetchRejects(name) ==
  /\ pc = "fetch"
  /\ ~Aborted
  /\ Catch(Err(name), "fetch", 0, [conn EXCEPT ![attempt] = "closed"])
  /\ UNCHANGED <<httpStatus, ended>>

(* response.ok: with a body to read, or without.                           *)
FetchOk ==
  /\ pc = "fetch"
  /\ ~Aborted
  /\ httpStatus' = 200
  /\ pc' = "read"
  /\ conn' = [conn EXCEPT ![attempt] = "open"]
  /\ UNCHANGED <<attempt, lines, ended, delivered, aborted, callerGone, timer,
                 listening, result>>

FetchEmpty ==
  /\ pc = "fetch"
  /\ ~Aborted
  /\ httpStatus' = 200
  /\ Catch(UpstreamError(502), "read", 200, [conn EXCEPT ![attempt] = "closed"])
  /\ UNCHANGED ended

(* An error response whose body is not read: a gateway error, or no body.  *)
FetchRefused(s) ==
  /\ pc = "fetch"
  /\ ~Aborted
  /\ httpStatus' = s
  /\ \E c \in {"open", "closed"} :
       /\ c = "open" => s \in RetryableStatuses
       /\ Catch(UpstreamError(s), "http-body", s, [conn EXCEPT ![attempt] = c])
  /\ UNCHANGED ended

FetchRefusedWithBody(s) ==
  /\ pc = "fetch"
  /\ ~Aborted
  /\ s \notin RetryableStatuses
  /\ httpStatus' = s
  /\ pc' = "errbody"
  /\ conn' = [conn EXCEPT ![attempt] = "open"]
  /\ UNCHANGED <<attempt, lines, ended, delivered, aborted, callerGone, timer,
                 listening, result>>

(* The error body is complete and names the status s itself, or names none *)
(* (or its reading failed): then s is the response's status.               *)
ErrorBodyDone(s) ==
  /\ pc = "errbody"
  /\ ~Aborted
  /\ Catch(UpstreamError(s), "http-body", httpStatus, conn)
  /\ UNCHANGED <<httpStatus, ended>>

ReadChunk(ls) ==
  /\ pc = "read"
  /\ ~Aborted /\ ~ended
  /\ Continue(ls, FALSE)
  /\ UNCHANGED <<httpStatus, ended>>

(* End of the body, with or without a last line that has no newline.       *)
ReadEof(ls) ==
  /\ pc = "read"
  /\ ~Aborted /\ ~ended
  /\ ended' = TRUE
  /\ Continue(ls, TRUE)
  /\ UNCHANGED httpStatus

ReadRejects(name) ==
  /\ pc = "read"
  /\ ~Aborted
  /\ Catch(Err(name), "read", httpStatus, conn)
  /\ UNCHANGED <<httpStatus, ended>>

DelayEnds ==
  /\ pc = "delay"
  /\ ~Aborted
  /\ Fetch
  /\ UNCHANGED <<lines, delivered, aborted, callerGone, timer, listening, result>>

LateFetchKept(a) ==
  /\ conn[a] = "pending"
  /\ Aborted
  /\ conn' = [conn EXCEPT ![a] = "open"]
  /\ UNCHANGED <<pc, attempt, httpStatus, lines, ended, delivered, aborted,
                 callerGone, timer, listening, result>>
(* A fetch that ignored the abort settles afterwards: its body is          *)
(* cancelled (or it rejects and there is none).                            *)
LateFetch(a) ==
  /\ conn[a] = "pending"
  /\ Aborted
  /\ conn' = [conn EXCEPT ![a] = "closed"]
  /\ UNCHANGED <<pc, attempt, httpStatus, lines, ended, delivered, aborted,
                 callerGone, timer, listening, result>>

(* The lines of one chunk, within the bound.                               *)
Chunks == {ls \in UNION {[1 .. n -> Lines] : n \in 0 .. 2} :
             Len(delivered) + Len(ls) <= MaxEvents}

Next ==
  \/ Start \/ Pull \/ ConsumerReturns \/ CallerAborts
  \/ TimerFires \/ AbortedAwait
  \/ DirReady \/ DirFails
  \/ FetchOk \/ FetchEmpty
  \/ \E name \in Rejections : FetchRejects(name) \/ ReadRejects(name)
  \/ \E s \in HttpErrors : FetchRefused(s) \/ FetchRefusedWithBody(s)
  \/ \E s \in BodyStatuses \cup {httpStatus} : ErrorBodyDone(s)
  \/ \E ls \in Chunks : ReadChunk(ls)
  \/ \E ls \in {l \in Chunks : Len(l) <= 1} : ReadEof(ls)
  \/ DelayEnds
  \/ \E a \in Attempts : LateFetch(a)

Spec == Init /\ [][Next]_vars

(* The event loop runs the timer and the abort listeners, the route keeps  *)
(* iterating or gives the iterator up, and a fetch given an aborted        *)
(* signal settles.  Nothing is assumed of the upstream while the request   *)
(* is live: it may stay silent for ever.                                   *)
Fairness ==
  /\ WF_vars(TimerFires)
  /\ WF_vars(AbortedAwait)
  /\ WF_vars(Start \/ Pull \/ ConsumerReturns)
  /\ \A a \in Attempts : WF_vars(LateFetch(a))

FairSpec == Spec /\ Fairness

-----------------------------------------------------------------------------
Pcs == Awaiting \cup {"new", "yield", "done"}

TypeOK ==
  /\ pc \in Pcs
  /\ attempt \in 0 .. MaxAttempts
  /\ httpStatus \in {0, 200} \cup HttpErrors
  /\ lines \in Seq(Lines)
  /\ ended \in BOOLEAN
  /\ delivered \in Seq(Attempts \X Kinds)
  /\ aborted \in {"no", "caller", "timeout"}
  /\ callerGone \in BOOLEAN
  /\ timer \in {"off", "armed", "fired", "cleared"}
  /\ listening \in BOOLEAN
  /\ conn \in [Attempts -> {"none", "pending", "open", "closed"}]
  /\ result \in {Once!NotEnded} \cup Once!Outcomes

(* A request has at most one upstream connection that it has not released: *)
(* before an attempt is repeated (client.ts:480-487) the response of the   *)
(* failed one has been cancelled, its unread error page included.          *)
OneConnection ==
  \A a, b \in Attempts :
     conn[a] \in {"pending", "open"} /\ conn[b] \in {"pending", "open"} => a = b

(* However the iteration ends - normally, by an error, by an abort at any  *)
(* await, or given up by the route between two events - it leaves no       *)
(* timer, no listener and no open body behind (client.ts:312-315, 450-451, *)
(* 480-482, 500-503).  Only a fetch that ignores the abort may still be    *)
(* pending.                                                                *)
NothingHeld ==
  pc = "done" =>
    /\ timer # "armed" /\ ~listening
    /\ \A a \in Attempts :
          conn[a] \in {"none", "closed"} \/ (conn[a] = "pending" /\ Aborted)

(* When the budget and the caller's disconnect race, the status the route  *)
(* is told (client.ts:489-499) names the one that came first: 504 for the  *)
(* budget even if the caller leaves before the error is handled, 499 for   *)
(* the caller even if the timer fires before it.                           *)
FirstCauseReported ==
  result.kind = "thrown" =>
    /\ aborted = "timeout" => result.status = 504
    /\ aborted = "caller" => result.status = 499

(* A response that refuses the request (any status but a gateway error) is *)
(* final, even when the JSON of its body names a gateway status            *)
(* (client.ts:471-473): the request is not sent again after it.            *)
RefusalsAreFinal ==
  [][attempt' # attempt => httpStatus \in RetryableStatuses \cup {0, 200}]_vars

(* client.ts implements what the routes rely on: a bounded number of       *)
(* calls, none after the first event or after an abort, the events of one  *)
(* call and none after its terminal event, an end that tells a complete    *)
(* answer from a broken one.                                               *)
ImplementsOnce == Once!OnceSpec

(* Whatever the upstream does - it may never answer at all - the iteration *)
(* ends, because the budget covers setup, every attempt, backoff and the   *)
(* body (client.ts:367-369).                                               *)
Terminates == <>(pc = "done")

(* Every upstream connection is released for good, the response of a fetch *)
(* that settles after the request was abandoned included (client.ts:       *)
(* 422-425).                                                               *)
AllReleased == <>[](\A a \in Attempts : conn[a] \in {"none", "closed"})

(* The inductive invariant behind the safety properties: what holds at     *)
(* each point where the generator may be suspended.                        *)
ConnInv ==
  /\ \A a \in Attempts : a > attempt => conn[a] = "none"
  /\ \A a \in Attempts : a < attempt => conn[a] = "closed"
  /\ pc = "fetch" => conn[attempt] \in {"pending", "closed"}
  /\ pc \in {"read", "errbody"} => conn[attempt] = "open"
  /\ pc = "yield" =>
       conn[attempt] = IF Once!Complete(delivered) THEN "closed" ELSE "open"
  /\ pc = "delay" => conn[attempt] = "closed"
  /\ pc = "done" /\ attempt > 0 =>
        conn[attempt] = "closed" \/ (conn[attempt] = "pending" /\ Aborted)
  /\ pc = "fetch" /\ ~Aborted => conn[attempt] = "pending"

OutputInv ==
  /\ pc \in {"new", "dir"} => attempt = 0
  /\ pc \in {"fetch", "errbody", "read", "yield", "delay"} => attempt > 0
  /\ pc \notin {"read", "yield", "done"} => delivered = <<>>
  /\ pc = "read" => ~Once!Complete(delivered)
  /\ pc = "yield" => delivered # <<>>
  /\ pc # "yield" => lines = <<>>
  /\ (result = Once!NotEnded) <=> (pc # "done")

AbortInv ==
  /\ listening <=> (pc \notin {"new", "done"})
  /\ listening /\ callerGone => Aborted
  /\ aborted = "caller" => callerGone
  /\ pc = "new" => timer = "off" /\ ~Aborted
  /\ pc = "done" => timer # "armed"
  /\ FirstCauseReported

RetryInv ==
  /\ pc \in {"new", "dir", "fetch"} => httpStatus = 0
  /\ pc \in {"read", "yield"} => httpStatus = 200
  /\ pc = "errbody" => httpStatus \notin RetryableStatuses
  /\ pc = "delay" => /\ httpStatus \in RetryableStatuses \cup {0, 200}
                     /\ attempt < MaxAttempts

(* Every suspension point holds exactly what the code may still need there *)
(* (client.ts:356-504): the connections, output, abort state and retry     *)
(* evidence of the request agree with where the generator is.              *)
IInv == TypeOK /\ ConnInv /\ OutputInv /\ AbortInv /\ RetryInv
=============================================================================
