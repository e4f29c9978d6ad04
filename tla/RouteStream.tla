---------------------------- MODULE RouteStream -----------------------------
(***************************************************************************)
(* One request of POST /v1/chat/completions or POST /v1/responses          *)
(* (src/routes): the handler, the watch on the client's connection         *)
(* (src/routes/stream-lifecycle.ts) and the upstream iterator, which is    *)
(* here what GenerateOnce promises and GenerateStream implements.          *)
(*                                                                         *)
(* Between two awaits the handler runs in microtasks, so it sees one state *)
(* of the socket: an action is an event of the upstream together with      *)
(* everything the handler does until it asks for the next one.             *)
(***************************************************************************)
EXTENDS GenerateOnce, SequencesExt

CONSTANTS Statuses,    \* statuses a failed call or an error event may carry
          MaxEvents    \* bound: upstream events of one request

Content == {"text", "reasoning", "tool-call"}   \* deltas that are not empty
Broken == {"error", "abort"}

ASSUME RouteAssumption ==
  /\ Kinds \subseteq Content \cup Broken \cup {"finish", "other"}
  /\ Statuses \subseteq 400 .. 599 /\ MaxAttempts \in Nat /\ MaxEvents \in Nat

VARIABLES pc,         \* what the handler awaits
          api,        \* "chat" or "responses"
          streaming,  \* body.stream
          iterator,   \* client.stream() has been called
          destroyed,  \* reply.raw.destroyed
          closed,     \* its close event has been emitted
          watching,   \* the listener of watchDisconnect is installed
          ended,      \* reply.raw.writableEnded
          wire        \* what was written to the client

handlerVars == <<pc, iterator, watching>>
socketVars == <<destroyed, closed>>
requestVars == <<api, streaming>>
vars == <<onceVars, pc, api, streaming, iterator, destroyed, closed, watching,
          ended, wire>>

(* canWrite()                                                              *)
CanWrite == ~destroyed /\ ~ended

Reply(status) == [type |-> "json", status |-> status]
Sse(type) == [type |-> type, status |-> 200]

Visible == {400, 401, 403, 404, 408, 409, 429} \cup 500 .. 599

(* upstreamOpenAiError: the statuses a client may see; the others are 502. *)
Told(s) == IF s \in Visible THEN s ELSE 502

-----------------------------------------------------------------------------
(* The ends of the handler.                                                *)

(* The handler's finally: it awaits iterator.return(), then cleanup().     *)
Leave == pc' = "return"

Keep == UNCHANGED <<requestVars, socketVars, watching>>

(* reply.send(), which also ends the response.                             *)
Send(status) ==
  /\ wire' = Append(wire, Reply(status))
  /\ ended' = TRUE

(* return, or catch: answer if somebody is there to read it.               *)
SendIfOpen(status) ==
  \/ CanWrite /\ Send(status)
  \/ ~CanWrite /\ UNCHANGED <<wire, ended>>

(* A stream that has begun: write the chunks while the socket is there.    *)
WriteWithoutCheck(chunks) == wire' = wire \o chunks /\ UNCHANGED ended
Write(chunks) ==
  /\ wire' = IF CanWrite THEN wire \o chunks ELSE wire
  /\ UNCHANGED ended

(* ... and end it.                                                         *)
WriteAndEnd(chunks) ==
  /\ wire' = IF CanWrite THEN wire \o chunks ELSE wire
  /\ ended' = (ended \/ CanWrite)

-----------------------------------------------------------------------------
(* What the translators (toChatCompletionChunks, toResponseEvents) yield.  *)

OpeningLate == IF api = "chat" THEN <<Sse("role")>> ELSE <<>>
Opening == <<Sse(IF api = "chat" THEN "role" ELSE "created")>>

Chunks(kind) ==
  IF kind \in Content \/ (kind = "finish" /\ api = "chat")
    THEN <<Sse("chunk")>> ELSE <<>>

Closing == <<Sse(IF api = "chat" THEN "[DONE]" ELSE "completed")>>

(* The inner catch of the handler.                                         *)
Failure == IF api = "chat" THEN <<Sse("error"), Sse("[DONE]")>>
                           ELSE <<Sse("failed")>>

-----------------------------------------------------------------------------
Init ==
  /\ OnceInit
  /\ pc = "images"
  /\ api \in {"chat", "responses"}
  /\ streaming \in BOOLEAN
  /\ iterator = FALSE
  /\ destroyed \in BOOLEAN
  /\ closed = destroyed
  /\ watching = TRUE
  /\ ended = FALSE
  /\ wire = <<>>

(* Parsing, materializeRemoteImages or the translation of the request      *)
(* fails: no iterator was made.                                            *)
RequestRejected ==
  /\ pc = "images"
  /\ SendIfOpen(400)
  /\ Leave
  /\ Keep /\ UNCHANGED <<onceVars, iterator>>

(* The request is translated; nobody has to read the answer any more, or   *)
(* the upstream is asked.                                                  *)
ImagesReady ==
  /\ pc = "images"
  /\ \/ ~CanWrite /\ Leave /\ UNCHANGED iterator
     \/ /\ CanWrite
        /\ iterator' = TRUE
        /\ pc' = IF streaming THEN "preread" ELSE "collect"
  /\ Keep /\ UNCHANGED <<onceVars, wire, ended>>

Pulling == {"preread", "emit", "collect"}

(* The client calls the upstream (again) while the handler waits.          *)
ClientCalls ==
  /\ pc \in Pulling
  /\ Call
  /\ UNCHANGED <<pc, requestVars, iterator, socketVars, watching, ended, wire>>

PreReadUntilAnything(kind) ==
  /\ pc = "preread"
  /\ \/ /\ CanWrite
        /\ wire' = wire \o <<Sse("head")>> \o Opening \o Chunks(kind)
        /\ pc' = "emit"
     \/ ~CanWrite /\ Leave /\ UNCHANGED wire
  /\ UNCHANGED ended
(* preRead: drop events until one with content or a finish; then commit to *)
(* 200 and begin the stream with it.                                       *)
PreRead(kind) ==
  /\ pc = "preread"
  /\ \/ kind \in Broken /\ (\E s \in Statuses : SendIfOpen(Told(s))) /\ Leave
     \/ kind = "other" /\ UNCHANGED <<pc, wire, ended>>
     \/ /\ kind \in Content \cup {"finish"}
        /\ \/ /\ CanWrite
              /\ wire' = wire \o <<Sse("head")>> \o Opening \o Chunks(kind)
              /\ pc' = "emit"
           \/ ~CanWrite /\ Leave /\ UNCHANGED wire
        /\ UNCHANGED ended

EmitIgnoringErrors(kind) ==
  /\ pc = "emit"
  /\ Write(Chunks(kind))
  /\ IF CanWrite \/ Chunks(kind) = <<>> THEN pc' = "emit" ELSE Leave
EmitGoesOn(kind) ==
  /\ pc = "emit"
  /\ Write(IF kind \in Broken THEN Failure ELSE Chunks(kind))
  /\ IF CanWrite \/ Chunks(kind) = <<>> THEN pc' = "emit" ELSE Leave
(* One more event of a stream that has begun: an error event makes the     *)
(* translator throw; a chunk that cannot be written ends the loop.         *)
Emit(kind) ==
  /\ pc = "emit"
  /\ \/ kind \in Broken /\ WriteAndEnd(Failure) /\ Leave
     \/ /\ kind \notin Broken
        /\ Write(Chunks(kind))
        /\ IF CanWrite \/ Chunks(kind) = <<>> THEN pc' = "emit" ELSE Leave

Collect ==
  /\ pc = "collect"
  /\ UNCHANGED <<pc, wire, ended>>

ClientShows(kind) ==
  /\ pc \in Pulling
  /\ Len(shown) < MaxEvents
  /\ Show(kind)
  /\ PreRead(kind) \/ Emit(kind) \/ Collect
  /\ Keep /\ UNCHANGED iterator

(* The iterator is done: the stream is closed, or the collected answer is  *)
(* sent - as an error when its last event is one.  (preRead never gets     *)
(* here: it takes the terminal event itself.)                              *)
ClientReturns ==
  /\ pc \in {"emit", "collect"}
  /\ result' = Returned /\ End
  /\ Leave
  /\ \/ pc = "emit" /\ WriteAndEnd(Closing)
     \/ /\ pc = "collect"
        /\ IF Last(shown)[2] \in Broken
             THEN \E s \in Statuses : SendIfOpen(Told(s))
             ELSE SendIfOpen(200)
  /\ Keep /\ UNCHANGED iterator

(* The iterator throws: before the stream has begun the status is told,    *)
(* afterwards the stream itself says that it failed.                       *)
ClientThrows(s) ==
  /\ pc \in Pulling
  /\ result' = Thrown(s) /\ End
  /\ Leave
  /\ \/ pc = "emit" /\ WriteAndEnd(Failure)
     \/ pc # "emit" /\ SendIfOpen(Told(s))
  /\ Keep /\ UNCHANGED iterator

ReturnForgotten ==
  /\ pc = "return"
  /\ UNCHANGED onceVars
  /\ pc' = "done"
  /\ watching' = FALSE
  /\ UNCHANGED <<requestVars, socketVars, iterator, ended, wire>>
ReturnAwaitsEnd ==
  /\ pc = "return"
  /\ ~iterator \/ result # NotEnded
  /\ pc' = "done"
  /\ watching' = FALSE
  /\ UNCHANGED <<onceVars, requestVars, socketVars, iterator, ended, wire>>
(* iterator.return() closes an iterator that has not ended.                *)
IteratorReturned ==
  /\ pc = "return"
  /\ \/ iterator /\ result = NotEnded /\ result' = Closed /\ End
     \/ (~iterator \/ result # NotEnded) /\ UNCHANGED onceVars
  /\ pc' = "done"
  /\ watching' = FALSE
  /\ UNCHANGED <<requestVars, socketVars, iterator, ended, wire>>

-----------------------------------------------------------------------------
(* The client's connection, and the client's budget.                       *)

SocketLost ==
  /\ ~destroyed
  /\ destroyed' = TRUE
  /\ UNCHANGED <<onceVars, requestVars, handlerVars, closed, ended, wire>>

(* The close event of the response aborts the upstream request, if there   *)
(* is one.  (It cannot come between the creation of the iterator and its   *)
(* first next(): GenerateOnce's StillBorn does not happen here.)           *)
CloseEvent ==
  /\ destroyed /\ ~closed
  /\ closed' = TRUE
  /\ IF watching /\ iterator /\ result = NotEnded /\ ~stopped
       THEN Stop ELSE UNCHANGED onceVars
  /\ UNCHANGED <<requestVars, handlerVars, destroyed, ended, wire>>

(* setTimeout of the client: the request's total budget.                   *)
BudgetSpent ==
  /\ pc \in Pulling
  /\ Stop
  /\ UNCHANGED <<requestVars, handlerVars, socketVars, ended, wire>>

Next ==
  \/ RequestRejected \/ ImagesReady
  \/ ClientCalls \/ ClientReturns
  \/ \E kind \in Kinds : ClientShows(kind)
  \/ \E s \in Statuses : ClientThrows(s)
  \/ IteratorReturned
  \/ SocketLost \/ CloseEvent \/ BudgetSpent

Spec == Init /\ [][Next]_vars

(* Image downloads end (fetch has a timeout of its own), the budget runs   *)
(* out, and the iteration ends after the terminal event and when it is     *)
(* stopped (GenerateStream!Terminates).  Nothing is assumed of the         *)
(* upstream.                                                               *)
Fairness ==
  /\ WF_vars(RequestRejected \/ ImagesReady)
  /\ WF_vars(ClientReturns)
  /\ WF_vars(BudgetSpent)
  /\ WF_vars(\E s \in Statuses : stopped /\ ClientThrows(s))
  /\ WF_vars(IteratorReturned)

FairSpec == Spec /\ Fairness

-----------------------------------------------------------------------------
On(types) == {i \in 1 .. Len(wire) : wire[i].type \in types}
FinalTypes == {"json", "[DONE]", "completed", "failed"}

TypeOK ==
  /\ pc \in Pulling \cup {"images", "return", "done"}
  /\ api \in {"chat", "responses"}
  /\ {streaming, iterator, destroyed, closed, watching, ended} \subseteq BOOLEAN
  /\ wire \in Seq([type : FinalTypes \cup {"head", "role", "created", "chunk", "error"},
                   status : {200} \cup Visible])
  /\ calls \in 0 .. MaxAttempts
  /\ shown \in Seq((1 .. MaxAttempts) \X Kinds)
  /\ stopped \in BOOLEAN
  /\ result \in {NotEnded} \cup Outcomes

(* The client sees one ending, and nothing after it: a stream that failed  *)
(* is not completed as well, an answer is not sent twice, and a response   *)
(* fails under the id it was created with (responses.ts:67-88,             *)
(* chat-completions.ts:58-91).                                             *)
OneEnding ==
  /\ \A i \in On(FinalTypes) : i = Len(wire)
  /\ On({"json"}) # {} => Len(wire) = 1
  /\ On({"failed"}) # {} => On({"created"}) # {}

(* A stream is completed only if the upstream said finish: neither an      *)
(* error event nor a connection that broke off in the middle of the answer *)
(* looks like a complete answer (README, and client.ts:311).               *)
CompletedMeansFinished ==
  /\ On({"completed"}) # {} => Last(shown)[2] = "finish"
  /\ On({"[DONE]"}) # {} /\ On({"error"}) = {} => Last(shown)[2] = "finish"
  /\ \A i \in On({"json"}) : wire[i].status = 200 => Last(shown)[2] = "finish"

(* 200 is committed only with content in hand: an upstream that fails      *)
(* before it has said anything is told by its HTTP status, whatever events *)
(* without content came first (stream-lifecycle.ts:21-34).                 *)
CommittedWithContent ==
  On({"head"}) # {} =>
    \E i \in 1 .. Len(shown) : shown[i][2] \in Content \cup {"finish"}

(* Once the client's socket is gone or the response has ended, nothing is  *)
(* written to it any more.                                                 *)
SilentOnceGone == [][wire' # wire => ~destroyed /\ ~ended]_vars

(* However the handler ends, it gives the upstream iterator back, takes    *)
(* its listener off, and leaves no client waiting for the rest of a        *)
(* response (chat-completions.ts:70-72, 92-96).                            *)
HandsBack ==
  pc = "done" =>
    /\ iterator => result # NotEnded
    /\ ~watching
    /\ ended \/ destroyed

(* Every request comes to its end, even if the upstream never answers and  *)
(* the client stays connected.                                             *)
Finishes == <>(pc = "done")
=============================================================================
