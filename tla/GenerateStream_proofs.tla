------------------------ MODULE GenerateStream_proofs -----------------------
(***************************************************************************)
(* The safety of one stream() call, for every number of attempts, every    *)
(* set of event types and every set of HTTP statuses.                      *)
(***************************************************************************)
EXTENDS GenerateStream, SequenceTheorems, TLAPS

ConnState == {"none", "pending", "open", "closed"}

(* What the connections look like when a step gives the generator's        *)
(* current attempt up.                                                     *)
Leaving(c) ==
  /\ c \in [Attempts -> ConnState]
  /\ \A a \in Attempts : a > attempt => c[a] = "none"
  /\ \A a \in Attempts : a < attempt => c[a] = "closed"
  /\ attempt > 0 => \/ c[attempt] \in {"open", "closed"}
                    \/ c[attempt] = "pending" /\ Aborted

LEMMA ChunkIsSeq ==
  ASSUME NEW ls \in Chunks
  PROVE  ls \in Seq(Lines)
<1>1. PICK n \in 0 .. 2 : ls \in [1 .. n -> Lines]
  BY DEF Chunks
<1>2. QED
  BY <1>1

LEMMA InitIInv == Init => IInv
<1> SUFFICES ASSUME Init PROVE IInv
  OBVIOUS
<1>1. TypeOK
  <2>1. attempt \in 0 .. MaxAttempts
    BY ConstantsAssumption DEF ConstantsAssumption, Init
  <2>2. conn \in [Attempts -> ConnState]
    BY DEF Init, ConnState
  <2>3. lines \in Seq(Lines) /\ delivered \in Seq(Attempts \X Kinds)
    BY DEF Init
  <2>4. QED
    BY <2>1, <2>2, <2>3 DEF Init, TypeOK, Pcs, Awaiting, ConnState
<1>2. ConnInv
  BY DEF Init, ConnInv, Attempts
<1>3. OutputInv
  BY DEF Init, OutputInv
<1>4. AbortInv
  BY DEF Init, AbortInv, Aborted, FirstCauseReported, Once!NotEnded
<1>5. RetryInv
  BY DEF Init, RetryInv
<1>6. QED
  BY <1>1, <1>2, <1>3, <1>4, <1>5 DEF IInv

LEMMA ReleaseLeaving ==
  ASSUME TypeOK, NEW c, Leaving(c)
  PROVE  /\ Release(c) \in [Attempts -> ConnState]
         /\ \A a \in Attempts : a > attempt => Release(c)[a] = "none"
         /\ \A a \in Attempts : a < attempt => Release(c)[a] = "closed"
         /\ attempt > 0 => \/ Release(c)[attempt] = "closed"
                           \/ Release(c)[attempt] = "pending" /\ Aborted
BY DEF TypeOK, Leaving, Release, ConnState, Attempts
(* The status handed to the route is a number, and tells the first cause.  *)
LEMMA FailureStatusOK ==
  ASSUME IInv, listening, NEW e, e.status \in Nat,
         Aborted => e.name # "TimeoutError"
  PROVE  /\ Once!Thrown(FailureStatus(e)) \in Once!Outcomes
         /\ Once!Thrown(FailureStatus(e)).kind = "thrown"
         /\ Once!Thrown(FailureStatus(e)).status = FailureStatus(e)
         /\ aborted = "timeout" => FailureStatus(e) = 504
         /\ aborted = "caller" => FailureStatus(e) = 499
BY DEF IInv, AbortInv, TypeOK, FailureStatus, Aborted, Once!Thrown,
   Once!Outcomes

CauseTold(r) ==
  r.kind = "thrown" => /\ aborted = "timeout" => r.status = 504
                       /\ aborted = "caller" => r.status = 499

LEMMA EndedKinds ==
  /\ Once!NotEnded \notin Once!Outcomes
  /\ Once!NotEnded.kind # "thrown"
  /\ Once!Returned \in Once!Outcomes /\ Once!Returned.kind = "returned"
  /\ Once!Closed \in Once!Outcomes /\ Once!Closed.kind = "closed"
BY DEF Once!NotEnded, Once!Outcomes, Once!Returned, Once!Closed

LEMMA ExitInv ==
  ASSUME IInv, NEW r \in Once!Outcomes, CauseTold(r),
         NEW c, Leaving(c), Exit(r, c),
         httpStatus' \in {0, 200} \cup HttpErrors, ended' \in BOOLEAN
  PROVE  IInv'
<1>1. /\ conn' \in [Attempts -> ConnState]
      /\ \A a \in Attempts : a > attempt => conn'[a] = "none"
      /\ \A a \in Attempts : a < attempt => conn'[a] = "closed"
      /\ attempt > 0 => \/ conn'[attempt] = "closed"
                        \/ conn'[attempt] = "pending" /\ Aborted
  BY ReleaseLeaving DEF IInv, Exit
<1>2. TypeOK'
  <2>1. timer' \in {"off", "armed", "fired", "cleared"}
    BY DEF IInv, TypeOK, Exit
  <2>2. lines' \in Seq(Lines)
    BY DEF Exit
  <2>3. QED
    BY <1>1, <2>1, <2>2 DEF IInv, TypeOK, Exit, Pcs, ConnState
<1>3. ConnInv'
  BY <1>1 DEF Exit, ConnInv, Aborted
<1>4. OutputInv'
  BY EndedKinds DEF Exit, OutputInv
<1>5. AbortInv'
  BY DEF IInv, AbortInv, Exit, FirstCauseReported, CauseTold
<1>6. RetryInv'
  BY DEF Exit, RetryInv
<1>7. QED
  BY <1>2, <1>3, <1>4, <1>5, <1>6 DEF IInv

(* A failure handled by the inner catch.                                   *)
LEMMA CatchInv ==
  ASSUME IInv, listening, NEW e, e.status \in Nat,
         Aborted => e.name # "TimeoutError",
         NEW stage, NEW status, NEW c, Leaving(c), Catch(e, stage, status, c),
         attempt > 0, pc # "new",
         httpStatus' \in {0, 200} \cup HttpErrors, ended' \in BOOLEAN,
         e.name # "upstream" => httpStatus' \in {0, 200},
         e.name = "upstream" => stage = "read" \/ status = httpStatus'
  PROVE  IInv'
<1>1. CASE ~MayRetry(e, stage, status)
  <2>1. Fail(e, c)
    BY <1>1 DEF Catch
  <2>2. CauseTold(Once!Thrown(FailureStatus(e)))
    BY FailureStatusOK DEF CauseTold
  <2>3. QED
    BY <2>1, <2>2, FailureStatusOK, ExitInv DEF Fail
<1>2. CASE MayRetry(e, stage, status)
  <2>1. /\ pc' = "delay"
        /\ conn' = Release(c)
        /\ lines' = <<>>
        /\ UNCHANGED <<attempt, delivered, aborted, callerGone, timer,
                       listening, result>>
    BY <1>2 DEF Catch
  <2>2. /\ conn' \in [Attempts -> ConnState]
        /\ \A a \in Attempts : a > attempt => conn'[a] = "none"
        /\ \A a \in Attempts : a < attempt => conn'[a] = "closed"
        /\ conn'[attempt] = "closed"
    BY <2>1, <1>2, ReleaseLeaving DEF IInv, MayRetry
  <2>3. TypeOK'
    BY <2>1, <2>2 DEF IInv, TypeOK, Pcs, Awaiting, ConnState
  <2>4. ConnInv'
    BY <2>1, <2>2 DEF ConnInv
  <2>5. OutputInv'
    BY <2>1, <1>2 DEF IInv, OutputInv, AbortInv, MayRetry
  <2>6. AbortInv'
    BY <2>1 DEF IInv, AbortInv, FirstCauseReported, Aborted
  <2>7. RetryInv'
    BY <2>1, <1>2 DEF RetryInv, MayRetry, Retryable
  <2>8. QED
    BY <2>3, <2>4, <2>5, <2>6, <2>7 DEF IInv
<1>3. QED
  BY <1>1, <1>2

LEMMA AppendComplete ==
  ASSUME TypeOK, NEW k \in Kinds, attempt > 0
  PROVE  LET d == Append(delivered, <<attempt, k>>) IN
           /\ d \in Seq(Attempts \X Kinds)
           /\ d # <<>>
           /\ Once!Complete(d) <=> k \in Once!Terminal
<1> DEFINE d == Append(delivered, <<attempt, k>>)
<1>1. <<attempt, k>> \in Attempts \X Kinds
  BY DEF TypeOK, Attempts
<1> DEFINE S == Attempts \X Kinds
           e == <<attempt, k>>
<1>2. /\ d \in Seq(S)
      /\ d # <<>>
      /\ d[Len(d)] = e
  <2>1. delivered \in Seq(S) /\ e \in S
    BY <1>1 DEF TypeOK
  <2>2. d = Append(delivered, e)
    OBVIOUS
  <2>. HIDE DEF S, e, d
  <2>3. QED
    BY <2>1, <2>2, AppendProperties
<1>3. QED
  BY <1>2 DEF Once!Complete

(* The suspended generator goes on with the lines of a chunk.              *)
LEMMA ContinueInv ==
  ASSUME IInv, pc \in {"read", "yield"}, ~Once!Complete(delivered),
         NEW ls \in Seq(Lines), NEW eof, Continue(ls, eof),
         httpStatus' = httpStatus, ended' \in BOOLEAN
  PROVE  IInv'
<1>1. /\ httpStatus = 200 /\ attempt > 0 /\ listening
      /\ conn[attempt] = "open" /\ attempt \in Attempts
  BY DEF IInv, TypeOK, RetryInv, OutputInv, AbortInv, ConnInv, Attempts
<1>2. Leaving(conn)
  BY <1>1 DEF IInv, TypeOK, ConnInv, Leaving, ConnState
<1>3. CASE Catch(Err("signal"), "read", httpStatus, conn)
  <2>1. Err("signal").status = 0 /\ Err("signal").name = "signal"
    BY DEF Err
  <2>2. QED
    BY <1>1, <1>2, <1>3, <2>1, CatchInv
<1>4. CASE Catch(UpstreamError(502), "read", httpStatus, conn)
  <2>1. /\ UpstreamError(502).status = 502
        /\ UpstreamError(502).name = "upstream"
    BY DEF UpstreamError
  <2>2. QED
    BY <1>1, <1>2, <1>4, <2>1, CatchInv
<1>5. CASE AwaitRead
  <2>1. TypeOK'
    BY <1>5 DEF AwaitRead, IInv, TypeOK, Pcs, Awaiting
  <2>2. ConnInv' /\ OutputInv'
    BY <1>1, <1>5 DEF AwaitRead, IInv, ConnInv, OutputInv
  <2>3. AbortInv' /\ RetryInv'
    BY <1>1, <1>5 DEF AwaitRead, IInv, AbortInv, RetryInv,
       FirstCauseReported, Aborted
  <2>4. QED
    BY <2>1, <2>2, <2>3 DEF IInv
<1>6. CASE ls # <<>> /\ Head(ls) # "bad" /\ Yield(ls)
  <2>1. Head(ls) \in Kinds /\ Tail(ls) \in Seq(Lines)
    BY <1>6 DEF Lines
  <2>2. /\ delivered' \in Seq(Attempts \X Kinds)
        /\ delivered' # <<>>
        /\ Once!Complete(delivered') <=> Head(ls) \in Once!Terminal
    BY <1>1, <1>6, <2>1, AppendComplete DEF Yield, IInv
  <2>3. /\ conn' \in [Attempts -> ConnState]
        /\ \A a \in Attempts : a > attempt => conn'[a] = "none"
        /\ \A a \in Attempts : a < attempt => conn'[a] = "closed"
        /\ conn'[attempt] =
             IF Once!Complete(delivered') THEN "closed" ELSE "open"
    BY <1>1, <1>2, <1>6, <2>2 DEF Yield, Release, Leaving, ConnState
  <2>4. TypeOK'
    BY <1>1, <1>6, <2>1, <2>2, <2>3
    DEF Yield, IInv, TypeOK, Pcs, Awaiting, ConnState
  <2>5. ConnInv' /\ OutputInv'
    BY <1>1, <1>6, <2>2, <2>3 DEF Yield, IInv, ConnInv, OutputInv
  <2>6. AbortInv' /\ RetryInv'
    BY <1>1, <1>6 DEF Yield, IInv, AbortInv, RetryInv,
       FirstCauseReported, Aborted
  <2>7. QED
    BY <2>4, <2>5, <2>6 DEF IInv
<1>7. QED
  BY <1>3, <1>4, <1>5, <1>6 DEF Continue

LEMMA ErrFields ==
  /\ \A n : Err(n).status = 0 /\ Err(n).name = n
  /\ \A n : UpstreamError(n).status = n /\ UpstreamError(n).name = "upstream"
BY DEF Err, UpstreamError

LEMMA AttemptRange ==
  ASSUME TypeOK, attempt > 0
  PROVE  attempt \in Attempts /\ attempt \in Nat
BY DEF TypeOK, Attempts

(* At every suspension point the current connection may be given up,       *)
(* unless it is a fetch that is pending and not aborted.                   *)
LEMMA CanLeave ==
  ASSUME IInv, pc = "fetch" => Aborted
  PROVE  Leaving(conn)
BY AttemptRange
DEF IInv, TypeOK, ConnInv, OutputInv, AbortInv, Leaving, ConnState, Pcs,
    Awaiting

(* Giving up a fetch that has settled.                                     *)
LEMMA CanLeaveSettled ==
  ASSUME IInv, pc = "fetch", NEW s \in {"open", "closed"}
  PROVE  /\ Leaving([conn EXCEPT ![attempt] = s])
         /\ attempt > 0 /\ listening
BY AttemptRange
DEF IInv, TypeOK, ConnInv, OutputInv, AbortInv, Leaving, ConnState

LEMMA FetchInv ==
  ASSUME IInv, ~Aborted, pc \in {"dir", "delay"}, Fetch,
         UNCHANGED <<lines, delivered, aborted, callerGone, timer, listening,
                     result>>
  PROVE  IInv'
<1>1. /\ attempt \in Nat /\ attempt + 1 \in Attempts
      /\ \A a \in Attempts : a <= attempt => conn[a] = "closed"
      /\ delivered = <<>> /\ lines = <<>>
  BY ConstantsAssumption
  DEF ConstantsAssumption, IInv, TypeOK, ConnInv, OutputInv, RetryInv, Attempts
<1>2. TypeOK'
  <2>1. attempt' \in 0 .. MaxAttempts
    BY <1>1 DEF Fetch, Attempts
  <2>2. conn' \in [Attempts -> ConnState]
    BY <1>1 DEF Fetch, IInv, TypeOK, ConnState
  <2>3. QED
    BY <2>1, <2>2 DEF Fetch, IInv, TypeOK, Pcs, Awaiting, ConnState
<1>3. ConnInv'
  BY <1>1 DEF Fetch, IInv, TypeOK, ConnInv, Attempts
<1>4. OutputInv'
  BY <1>1 DEF Fetch, IInv, OutputInv
<1>5. AbortInv' /\ RetryInv'
  BY DEF Fetch, IInv, AbortInv, RetryInv, FirstCauseReported, Aborted
<1>6. QED
  BY <1>2, <1>3, <1>4, <1>5 DEF IInv

(* The events that only set flags: an abort, the timer, a late fetch.      *)
LEMMA FlagsInv ==
  ASSUME IInv, CallerAborts \/ TimerFires \/ \E a \in Attempts : LateFetch(a)
  PROVE  IInv'
<1>1. CASE CallerAborts
  <2>1. TypeOK' /\ ConnInv' /\ OutputInv' /\ RetryInv'
    BY <1>1 DEF CallerAborts, IInv, TypeOK, ConnInv, OutputInv, RetryInv,
       Aborted
  <2>2. AbortInv'
    <3>1. listening => result.kind # "thrown"
      BY EndedKinds DEF IInv, AbortInv, OutputInv
    <3>2. QED
      BY <1>1, <3>1
      DEF CallerAborts, IInv, AbortInv, FirstCauseReported, Aborted
  <2>3. QED
    BY <2>1, <2>2 DEF IInv
<1>2. CASE TimerFires
  <2>1. TypeOK' /\ ConnInv' /\ OutputInv' /\ RetryInv'
    BY <1>2 DEF TimerFires, IInv, TypeOK, ConnInv, OutputInv, RetryInv,
       Aborted
  <2>2. result.kind # "thrown"
    BY <1>2, EndedKinds DEF TimerFires, IInv, OutputInv, AbortInv
  <2>3. AbortInv'
    BY <1>2, <2>2 DEF TimerFires, IInv, AbortInv, FirstCauseReported, Aborted
  <2>4. QED
    BY <2>1, <2>3 DEF IInv
<1>3. ASSUME NEW a \in Attempts, LateFetch(a) PROVE IInv'
  <2>1. a = attempt
    BY <1>3 DEF LateFetch, IInv, TypeOK, ConnInv, Attempts
  <2>2. TypeOK' /\ ConnInv'
    BY <1>3, <2>1 DEF LateFetch, IInv, TypeOK, ConnInv, Aborted
  <2>3. OutputInv' /\ AbortInv' /\ RetryInv'
    BY <1>3 DEF LateFetch, IInv, OutputInv, AbortInv, RetryInv,
       FirstCauseReported, Aborted
  <2>4. QED
    BY <2>2, <2>3 DEF IInv
<1>4. QED
  BY <1>1, <1>2, <1>3

(* The response of a fetch, kept open to be read.                          *)
LEMMA ResponseInv ==
  ASSUME IInv, FetchOk \/ \E s \in HttpErrors : FetchRefusedWithBody(s)
  PROVE  IInv'
<1>1. /\ pc = "fetch" /\ pc' \in {"read", "errbody"}
      /\ attempt \in Attempts /\ delivered = <<>>
      /\ conn' = [conn EXCEPT ![attempt] = "open"]
      /\ UNCHANGED <<attempt, lines, ended, delivered, aborted, callerGone,
                     timer, listening, result>>
  BY AttemptRange DEF FetchOk, FetchRefusedWithBody, IInv, OutputInv
<1>2. /\ httpStatus' \in {0, 200} \cup HttpErrors
      /\ pc' = "read" => httpStatus' = 200
      /\ pc' = "errbody" => httpStatus' \notin RetryableStatuses
  BY DEF FetchOk, FetchRefusedWithBody
<1>3. TypeOK'
  BY <1>1, <1>2 DEF IInv, TypeOK, Pcs, Awaiting
<1>4. ConnInv' /\ OutputInv'
  BY <1>1 DEF IInv, TypeOK, ConnInv, OutputInv, Once!Complete
<1>5. AbortInv' /\ RetryInv'
  BY <1>1, <1>2 DEF IInv, AbortInv, RetryInv, FirstCauseReported, Aborted
<1>6. QED
  BY <1>3, <1>4, <1>5 DEF IInv

LEMMA NextInv == IInv /\ [Next]_vars => IInv'
<1> SUFFICES ASSUME IInv, [Next]_vars PROVE IInv'
  OBVIOUS
<1> USE ErrFields
<1>a. httpStatus \in {0, 200} \cup HttpErrors /\ ended \in BOOLEAN
  BY DEF IInv, TypeOK
<1>1. CASE Start
  <2>1. CASE callerGone
    <3>1. TypeOK' /\ OutputInv' /\ AbortInv'
      BY <1>1, <2>1
      DEF Start, IInv, TypeOK, OutputInv, AbortInv, FirstCauseReported,
          Once!Thrown, Once!Outcomes, Once!NotEnded, Pcs, Aborted
    <3>2. ConnInv' /\ RetryInv'
      BY <1>1, <2>1 DEF Start, IInv, ConnInv, RetryInv, OutputInv
    <3>3. QED
      BY <3>1, <3>2 DEF IInv
  <2>2. CASE ~callerGone
    <3>1. TypeOK' /\ OutputInv' /\ AbortInv'
      BY <1>1, <2>2
      DEF Start, IInv, TypeOK, OutputInv, AbortInv, FirstCauseReported, Pcs,
          Awaiting, Aborted
    <3>2. ConnInv' /\ RetryInv'
      BY <1>1, <2>2 DEF Start, IInv, ConnInv, RetryInv, Aborted
    <3>3. QED
      BY <3>1, <3>2 DEF IInv
  <2>3. QED
    BY <2>1, <2>2
<1>2. CASE Pull
  <2>1. CASE Once!Complete(delivered)
    <3>1. Leaving(conn)
      BY <1>2, CanLeave DEF Pull
    <3>2. CauseTold(Once!Returned)
      BY EndedKinds DEF CauseTold
    <3>3. QED
      BY <1>a, <1>2, <2>1, <3>1, <3>2, EndedKinds, ExitInv DEF Pull
  <2>2. CASE ~Once!Complete(delivered)
    <3>1. lines \in Seq(Lines)
      BY DEF IInv, TypeOK
    <3>2. QED
      BY <1>a, <1>2, <2>2, <3>1, ContinueInv DEF Pull
  <2>3. QED
    BY <2>1, <2>2
<1>3. CASE ConsumerReturns
  <2>1. Leaving(conn)
    BY <1>3, CanLeave DEF ConsumerReturns
  <2>2. CauseTold(Once!Closed)
    BY EndedKinds DEF CauseTold
  <2>3. QED
    BY <1>a, <1>3, <2>1, <2>2, EndedKinds, ExitInv DEF ConsumerReturns
<1>4. CASE CallerAborts \/ TimerFires \/ \E a \in Attempts : LateFetch(a)
  BY <1>4, FlagsInv
<1>5. CASE AbortedAwait \/ DirFails
  <2>1. PICK name \in {"signal", "fatal"} :
          /\ Fail(Err(name), conn)
          /\ UNCHANGED <<httpStatus, ended>>
    BY <1>5 DEF AbortedAwait, DirFails
  <2>2. Leaving(conn) /\ listening
    BY <1>5, CanLeave DEF AbortedAwait, DirFails, Awaiting, IInv, AbortInv
  <2>3. CauseTold(Once!Thrown(FailureStatus(Err(name))))
    BY <2>2, FailureStatusOK DEF CauseTold
  <2>4. QED
    BY <1>a, <2>1, <2>2, <2>3, FailureStatusOK, ExitInv DEF Fail
<1>6. CASE DirReady \/ DelayEnds
  BY <1>6, FetchInv DEF DirReady, DelayEnds
<1>7. CASE FetchOk \/ \E s \in HttpErrors : FetchRefusedWithBody(s)
  BY <1>7, ResponseInv
<1>8. CASE FetchEmpty
  <2>1. /\ Leaving([conn EXCEPT ![attempt] = "closed"])
        /\ attempt > 0 /\ listening
    BY <1>8, CanLeaveSettled DEF FetchEmpty
  <2>2. QED
    BY <1>a, <1>8, <2>1, CatchInv DEF FetchEmpty
<1>9. ASSUME NEW name \in Rejections, FetchRejects(name) PROVE IInv'
  <2>1. /\ Leaving([conn EXCEPT ![attempt] = "closed"])
        /\ attempt > 0 /\ listening /\ httpStatus = 0
    BY <1>9, CanLeaveSettled DEF FetchRejects, IInv, RetryInv
  <2>2. name # "upstream"
    BY DEF Rejections
  <2>3. QED
    BY <1>a, <1>9, <2>1, <2>2, CatchInv DEF FetchRejects
<1>10. ASSUME NEW name \in Rejections, ReadRejects(name) PROVE IInv'
  <2>1. /\ Leaving(conn) /\ attempt > 0 /\ listening
        /\ httpStatus = 200
    BY <1>10, CanLeave
    DEF ReadRejects, IInv, RetryInv, OutputInv, AbortInv
  <2>2. name # "upstream"
    BY DEF Rejections
  <2>3. QED
    BY <1>a, <1>10, <2>1, <2>2, CatchInv DEF ReadRejects
<1>11. ASSUME NEW s \in HttpErrors, FetchRefused(s) PROVE IInv'
  <2>1. PICK c \in {"open", "closed"} :
          Catch(UpstreamError(s), "http-body", s,
                [conn EXCEPT ![attempt] = c])
    BY <1>11 DEF FetchRefused
  <2>2. /\ Leaving([conn EXCEPT ![attempt] = c])
        /\ attempt > 0 /\ listening
    BY <1>11, CanLeaveSettled DEF FetchRefused
  <2>3. s \in Nat
    BY ConstantsAssumption DEF ConstantsAssumption
  <2>4. QED
    BY <1>a, <1>11, <2>1, <2>2, <2>3, CatchInv DEF FetchRefused
<1>12. ASSUME NEW s \in BodyStatuses \cup {httpStatus}, ErrorBodyDone(s)
       PROVE  IInv'
  <2>1. /\ Leaving(conn) /\ attempt > 0 /\ listening
    BY <1>12, CanLeave DEF ErrorBodyDone, IInv, OutputInv, AbortInv
  <2>2. s \in Nat
    BY <1>a, ConstantsAssumption DEF ConstantsAssumption
  <2>3. QED
    BY <1>a, <1>12, <2>1, <2>2, CatchInv DEF ErrorBodyDone
<1>13. ASSUME NEW ls \in Chunks, ReadChunk(ls) \/ ReadEof(ls) PROVE IInv'
  <2>1. /\ ls \in Seq(Lines)
        /\ pc = "read" /\ ~Once!Complete(delivered)
    BY <1>13, ChunkIsSeq DEF ReadChunk, ReadEof, IInv, OutputInv
  <2>2. QED
    BY <1>a, <1>13, <2>1, ContinueInv DEF ReadChunk, ReadEof
<1>14. CASE UNCHANGED vars
  BY <1>14
  DEF vars, IInv, TypeOK, ConnInv, OutputInv, AbortInv, RetryInv,
      FirstCauseReported, Aborted
<1>15. QED
  BY <1>1, <1>2, <1>3, <1>4, <1>5, <1>6, <1>7, <1>8, <1>9, <1>10, <1>11,
     <1>12, <1>13, <1>14
  DEF Next

(* In every reachable state of every instance the invariant holds: each    *)
(* suspension point holds exactly what client.ts:356-504 needs there.      *)
THEOREM InvariantHolds == Spec => []IInv
<1>1. QED
  BY InitIInv, NextInv, PTL DEF Spec

(* Every variable keeps its type.                                          *)
THEOREM TypeCorrect == Spec => []TypeOK
<1>1. IInv => TypeOK
  BY DEF IInv
<1>2. QED
  BY <1>1, InvariantHolds, PTL

(* A request never holds two upstream connections, however many attempts   *)
(* it may make: a failed attempt is released before the next one starts.   *)
THEOREM AtMostOneConnection == Spec => []OneConnection
<1>1. IInv => OneConnection
  BY DEF IInv, TypeOK, ConnInv, OneConnection, Attempts
<1>2. QED
  BY <1>1, InvariantHolds, PTL

(* The iteration ends with its timer, listener and bodies released, by     *)
(* whichever path it ends.                                                 *)
THEOREM EndsClean == Spec => []NothingHeld
<1>1. IInv => NothingHeld
  BY DEF IInv, TypeOK, ConnInv, OutputInv, AbortInv, NothingHeld, Attempts
<1>2. QED
  BY <1>1, InvariantHolds, PTL

(* A budget that runs out and a caller that leaves are told apart by which *)
(* came first.                                                             *)
THEOREM FirstCauseIsReported == Spec => []FirstCauseReported
<1>1. IInv => FirstCauseReported
  BY DEF IInv, AbortInv
<1>2. QED
  BY <1>1, InvariantHolds, PTL

-----------------------------------------------------------------------------
(* Which steps start a fetch, show an event or end the iteration.          *)

LEMMA CatchKeeps ==
  ASSUME NEW e, NEW stage, NEW status, NEW c, Catch(e, stage, status, c)
  PROVE  /\ UNCHANGED <<attempt, delivered, aborted>>
         /\ \/ result' = result
            \/ result' = Once!Thrown(FailureStatus(e))
BY DEF Catch, Fail, Exit

LEMMA ContinueKeeps ==
  ASSUME NEW ls, NEW eof, Continue(ls, eof)
  PROVE  attempt' = attempt
BY CatchKeeps DEF Continue, AwaitRead, Yield

LEMMA OnlyFetchCounts ==
  ASSUME Next, attempt' # attempt
  PROVE  DirReady \/ DelayEnds
BY CatchKeeps, ContinueKeeps
DEF Next, Start, Pull, ConsumerReturns, CallerAborts, TimerFires,
    AbortedAwait, DirFails, FetchOk, FetchEmpty, FetchRejects, ReadRejects,
    FetchRefused, FetchRefusedWithBody, ErrorBodyDone, ReadChunk, ReadEof,
    LateFetch, Fail, Exit

(* The upstream is asked again only after a transient failure: a status    *)
(* that refuses the request ends it.                                       *)
THEOREM RefusalIsFinal == Spec => RefusalsAreFinal
<1>1. IInv /\ [Next]_vars =>
        [attempt' # attempt => httpStatus \in RetryableStatuses \cup {0, 200}]_vars
  <2> SUFFICES ASSUME IInv, Next, attempt' # attempt
               PROVE  httpStatus \in RetryableStatuses \cup {0, 200}
    BY DEF vars
  <2>1. DirReady \/ DelayEnds
    BY OnlyFetchCounts
  <2>2. QED
    BY <2>1 DEF DirReady, DelayEnds, IInv, RetryInv
<1>2. QED
  BY <1>1, InvariantHolds, PTL DEF Spec, RefusalsAreFinal

-----------------------------------------------------------------------------
(* Implementation of the abstract promise.                                 *)

(* A failure is an End of the abstract specification, a retry a stutter.   *)
LEMMA CatchImplements ==
  ASSUME IInv, listening, NEW e, e.status \in Nat,
         Aborted => e.name # "TimeoutError", ~Once!Complete(delivered),
         NEW stage, NEW status, NEW c, Catch(e, stage, status, c)
  PROVE  [Once!OnceNext]_Once!onceVars
<1>1. result = Once!NotEnded
  BY DEF IInv, AbortInv, OutputInv
<1>2. CASE result' = result
  BY <1>2, CatchKeeps DEF Once!onceVars
<1>3. CASE result' = Once!Thrown(FailureStatus(e))
  <2>1. /\ result' \in Once!Outcomes /\ result'.kind = "thrown"
        /\ aborted # "no" => result'.status \in {499, 504}
    BY <1>3, FailureStatusOK DEF IInv, TypeOK
  <2>2. Once!End
    BY <1>1, <2>1, CatchKeeps DEF Once!End
  <2>3. QED
    BY <2>2 DEF Once!OnceNext
<1>4. QED
  BY <1>2, <1>3, CatchKeeps

LEMMA ContinueImplements ==
  ASSUME IInv, pc \in {"read", "yield"}, ~Once!Complete(delivered),
         NEW ls \in Seq(Lines), NEW eof, Continue(ls, eof)
  PROVE  [Once!OnceNext]_Once!onceVars
<1>1. listening /\ attempt > 0 /\ result = Once!NotEnded
  BY DEF IInv, AbortInv, OutputInv
<1>2. CASE \/ Catch(Err("signal"), "read", httpStatus, conn)
           \/ Catch(UpstreamError(502), "read", httpStatus, conn)
  BY <1>1, <1>2, ErrFields, CatchImplements
<1>3. CASE AwaitRead
  BY <1>3 DEF AwaitRead, Once!onceVars
<1>4. CASE ls # <<>> /\ Head(ls) # "bad" /\ ~Aborted /\ Yield(ls)
  <2>1. Head(ls) \in Kinds
    BY <1>4 DEF Lines
  <2>2. Once!Show(Head(ls))
    BY <1>1, <1>4 DEF Yield, Once!Show, Aborted
  <2>3. QED
    BY <2>1, <2>2 DEF Once!OnceNext
<1>5. QED
  BY <1>2, <1>3, <1>4 DEF Continue

LEMMA ExitImplements ==
  ASSUME result = Once!NotEnded, NEW r \in {Once!Returned, Once!Closed},
         r = Once!Returned => Once!Complete(delivered),
         NEW c, Exit(r, c)
  PROVE  Once!OnceNext
<1>1. Once!End
  BY EndedKinds DEF Exit, Once!End
<1>2. QED
  BY <1>1 DEF Once!OnceNext

LEMMA NothingShown == <<>> = delivered => ~Once!Complete(delivered)
BY DEF Once!Complete

LEMMA StepImplements ==
  IInv /\ [Next]_vars => [Once!OnceNext]_Once!onceVars
<1> SUFFICES ASSUME IInv, Next PROVE [Once!OnceNext]_Once!onceVars
  BY DEF vars, Once!onceVars
<1> USE ErrFields
<1>1. CASE Start
  <2>1. CASE callerGone
    <3>1. Once!StillBorn
      BY <1>1, <2>1 DEF Start, IInv, OutputInv, AbortInv, Aborted,
         Once!StillBorn
    <3>2. QED
      BY <3>1 DEF Once!OnceNext
  <2>2. CASE ~callerGone
    BY <1>1, <2>2 DEF Start, Once!onceVars
  <2>3. QED
    BY <2>1, <2>2
<1>2. CASE Pull
  <2>1. result = Once!NotEnded /\ lines \in Seq(Lines)
    BY <1>2 DEF Pull, IInv, OutputInv, TypeOK
  <2>2. CASE Once!Complete(delivered)
    BY <1>2, <2>1, <2>2, ExitImplements DEF Pull
  <2>3. CASE ~Once!Complete(delivered)
    BY <1>2, <2>1, <2>3, ContinueImplements DEF Pull
  <2>4. QED
    BY <2>2, <2>3
<1>3. CASE ConsumerReturns
  <2>1. result = Once!NotEnded
    BY <1>3 DEF ConsumerReturns, IInv, OutputInv
  <2>2. QED
    BY <1>3, <2>1, ExitImplements, EndedKinds DEF ConsumerReturns
<1>4. CASE CallerAborts \/ TimerFires
  <2>1. CASE aborted' = aborted
    BY <1>4, <2>1 DEF CallerAborts, TimerFires, Once!onceVars
  <2>2. CASE aborted' # aborted
    <3>1. Once!Stop
      BY <1>4, <2>2 DEF CallerAborts, TimerFires, Once!Stop, Aborted
    <3>2. QED
      BY <3>1 DEF Once!OnceNext
  <2>3. QED
    BY <2>1, <2>2
<1>5. CASE AbortedAwait \/ DirFails
  <2>1. PICK name \in {"signal", "fatal"} : Fail(Err(name), conn)
    BY <1>5 DEF AbortedAwait, DirFails
  <2>2. /\ listening /\ result = Once!NotEnded
        /\ ~Once!Complete(delivered)
    BY <1>5, NothingShown DEF AbortedAwait, DirFails, Awaiting, IInv, AbortInv,
       OutputInv
  <2>3. /\ result' = Once!Thrown(FailureStatus(Err(name)))
        /\ UNCHANGED <<attempt, delivered, aborted>>
    BY <2>1 DEF Fail, Exit
  <2>4. /\ result' \in Once!Outcomes /\ result'.kind = "thrown"
        /\ aborted # "no" => result'.status \in {499, 504}
    BY <2>2, <2>3, FailureStatusOK DEF IInv, TypeOK
  <2>5. Once!End
    BY <2>2, <2>3, <2>4 DEF Once!End
  <2>6. QED
    BY <2>5 DEF Once!OnceNext
<1>6. CASE DirReady \/ DelayEnds
  <2>1. /\ attempt < MaxAttempts /\ delivered = <<>>
        /\ result = Once!NotEnded /\ ~Aborted
    BY <1>6, ConstantsAssumption
    DEF ConstantsAssumption, DirReady, DelayEnds, IInv, OutputInv, RetryInv
  <2>2. Once!Call
    BY <1>6, <2>1 DEF DirReady, DelayEnds, Fetch, Once!Call, Aborted
  <2>3. QED
    BY <2>2 DEF Once!OnceNext
<1>7. CASE \/ FetchOk \/ \E s \in HttpErrors : FetchRefusedWithBody(s)
           \/ \E a \in Attempts : LateFetch(a)
  BY <1>7 DEF FetchOk, FetchRefusedWithBody, LateFetch, Once!onceVars
<1>8. ASSUME pc \in {"fetch", "errbody", "read"}
      PROVE  listening /\ ~Once!Complete(delivered)
  BY <1>8, NothingShown DEF IInv, OutputInv, AbortInv
<1>9. CASE FetchEmpty
  BY <1>8, <1>9, CatchImplements DEF FetchEmpty
<1>10. ASSUME NEW name \in Rejections, FetchRejects(name) \/ ReadRejects(name)
       PROVE  [Once!OnceNext]_Once!onceVars
  BY <1>8, <1>10, CatchImplements DEF FetchRejects, ReadRejects
<1>11. ASSUME NEW s \in HttpErrors, FetchRefused(s)
       PROVE  [Once!OnceNext]_Once!onceVars
  <2>1. s \in Nat
    BY ConstantsAssumption DEF ConstantsAssumption
  <2>2. PICK c \in {"open", "closed"} :
          Catch(UpstreamError(s), "http-body", s,
                [conn EXCEPT ![attempt] = c])
    BY <1>11 DEF FetchRefused
  <2>3. QED
    BY <1>8, <1>11, <2>1, <2>2, CatchImplements DEF FetchRefused
<1>12. ASSUME NEW s \in BodyStatuses \cup {httpStatus}, ErrorBodyDone(s)
       PROVE  [Once!OnceNext]_Once!onceVars
  <2>1. s \in Nat
    BY ConstantsAssumption DEF ConstantsAssumption, IInv, TypeOK
  <2>2. QED
    BY <1>8, <1>12, <2>1, CatchImplements DEF ErrorBodyDone
<1>13. ASSUME NEW ls \in Chunks, ReadChunk(ls) \/ ReadEof(ls)
       PROVE  [Once!OnceNext]_Once!onceVars
  BY <1>8, <1>13, ChunkIsSeq, ContinueImplements DEF ReadChunk, ReadEof
<1>14. QED
  BY <1>1, <1>2, <1>3, <1>4, <1>5, <1>6, <1>7, <1>9, <1>10, <1>11, <1>12,
     <1>13
  DEF Next

(* stream() keeps the promise the routes rely on, for every bound on the   *)
(* attempts: at most MaxAttempts calls, none after an event was shown or   *)
(* the request stopped, one call's events only and nothing after the       *)
(* terminal one, and an ending that says whether the answer is complete.   *)
THEOREM StreamImplementsOnce == Spec => ImplementsOnce
<1>1. Init => Once!OnceInit
  BY DEF Init, Once!OnceInit
<1>2. QED
  BY <1>1, StepImplements, InvariantHolds, PTL
  DEF Spec, ImplementsOnce, Once!OnceSpec
=============================================================================
