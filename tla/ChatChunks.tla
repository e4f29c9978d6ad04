----------------------------- MODULE ChatChunks -----------------------------
(***************************************************************************)
(* The translation of the upstream's events into the chunks of a Chat      *)
(* Completions stream (src/translate/chat.ts, toChatCompletionChunks), and *)
(* the answer that is made of the same events without a stream             *)
(* (aggregateChatEvents, toChatCompletion).                                *)
(*                                                                         *)
(* As in ResponseEvents a text is the sequence of the events it was made   *)
(* of, named by their positions.  The chunks of one event are taken by the *)
(* client in the step that yields them.  Module ClientStreams puts the     *)
(* actions together.                                                       *)
(***************************************************************************)
EXTENDS Integers, SequencesExt

VARIABLES events,        \* what the upstream sent, by kind
          stage,         \* "new", "running", "ended", "thrown"
          includeUsage,  \* stream_options.include_usage
          toolIndex, sawToolCall, usage,
          aggregate,     \* what aggregateChatEvents has made of the events
          seen           \* what the client has made of the chunks

chatVars == <<includeUsage, toolIndex, sawToolCall, usage, aggregate, seen>>

NoUsage == 0      \* a usage is the position of the event that reported it
Reasons == {"stop", "length", "tool-calls"}

Role == [type |-> "role"]
Content(i) == [type |-> "content", piece |-> i]
Reasoning(i) == [type |-> "reasoning", piece |-> i]
Call(index, i) == [type |-> "call", index |-> index, piece |-> i]
Finished(reason) == [type |-> "finish", reason |-> reason]
Usage(u) == [type |-> "usage", usage |-> u]
Done == [type |-> "[DONE]"]

Unseen == [phase |-> "new", text |-> <<>>, reasoning |-> <<>>, calls |-> <<>>,
           reason |-> "none", usage |-> NoUsage]

(* A client reads chunk after chunk; one that comes out of place leaves it *)
(* lost.  Fragments of a tool call are put together by their index.        *)
Took(r, c) ==
  CASE c.type = "role" /\ r.phase = "new" -> [r EXCEPT !.phase = "open"]
    [] c.type = "content" /\ r.phase = "open" -> [r EXCEPT !.text = Append(@, c.piece)]
    [] c.type = "reasoning" /\ r.phase = "open" ->
         [r EXCEPT !.reasoning = Append(@, c.piece)]
    [] c.type = "call" /\ r.phase = "open" /\ c.index = Len(r.calls) ->
         [r EXCEPT !.calls = Append(@, <<c.piece>>)]
    [] c.type = "call" /\ r.phase = "open" /\ c.index < Len(r.calls) ->
         [r EXCEPT !.calls[c.index + 1] = Append(@, c.piece)]
    [] c.type = "finish" /\ r.phase = "open" ->
         [r EXCEPT !.phase = "finished", !.reason = c.reason]
    [] c.type = "usage" /\ r.phase = "finished" -> [r EXCEPT !.usage = c.usage]
    [] c.type = "[DONE]" /\ r.phase = "finished" -> [r EXCEPT !.phase = "done"]
    [] OTHER -> [r EXCEPT !.phase = "lost"]

Emit(chunk) == seen' = Took(seen, chunk)

(* finishReasonFromEvent                                                   *)
FinishReason(reason, hasToolCalls) ==
  IF hasToolCalls \/ reason = "tool-calls" THEN "tool_calls" ELSE reason

Position == Len(events) + 1

(* The answer without a stream: aggregateChatEvents goes over the events,  *)
(* toChatCompletion makes a message of the result.                         *)
Aggregated(s, kind) ==
  CASE kind = "text" -> [s EXCEPT !.text = Append(@, Position)]
    [] kind = "reasoning" -> [s EXCEPT !.reasoning = Append(@, Position)]
    [] kind = "tool-call" -> [s EXCEPT !.calls = Append(@, <<Position>>)]
    [] kind = "step" -> [s EXCEPT !.usage = Position]
    [] kind = "other" -> s

Aggregate(kind) == aggregate' = Aggregated(aggregate, kind)

-----------------------------------------------------------------------------
ChatInit ==
  /\ includeUsage \in BOOLEAN
  /\ toolIndex = 0 /\ sawToolCall = FALSE /\ usage = NoUsage
  /\ aggregate = [Unseen EXCEPT !.phase = "done"]
  /\ seen = Unseen

Begin ==
  /\ Emit(Role)
  /\ UNCHANGED <<aggregate, includeUsage, toolIndex, sawToolCall, usage>>

TextDelta ==
  /\ Aggregate("text")
  /\ Emit(Content(Position))
  /\ UNCHANGED <<includeUsage, toolIndex, sawToolCall, usage>>

ReasoningAsContent ==
  /\ Aggregate("reasoning")
  /\ Emit(Content(Position))
  /\ UNCHANGED <<includeUsage, toolIndex, sawToolCall, usage>>
ReasoningDelta ==
  /\ Aggregate("reasoning")
  /\ Emit(Reasoning(Position))
  /\ UNCHANGED <<includeUsage, toolIndex, sawToolCall, usage>>

ToolCallSameIndex ==
  /\ Aggregate("tool-call")
  /\ Emit(Call(toolIndex, Position))
  /\ sawToolCall' = TRUE
  /\ UNCHANGED <<includeUsage, toolIndex, usage>>
ToolCall ==
  /\ Aggregate("tool-call")
  /\ Emit(Call(toolIndex, Position))
  /\ sawToolCall' = TRUE
  /\ toolIndex' = toolIndex + 1
  /\ UNCHANGED <<includeUsage, usage>>

(* An event the translation has no chunk for may still report a usage.     *)
OtherEvent(kind) ==
  /\ Aggregate(kind)
  /\ usage' = IF kind = "step" THEN Position ELSE usage
  /\ UNCHANGED <<includeUsage, toolIndex, sawToolCall, seen>>

(* An error event, or a failure of the upstream's generator: the generator *)
(* throws, and no chunk follows.                                           *)
Throw == UNCHANGED chatVars

UsageFromEvent(hasUsage) == IF hasUsage THEN Position ELSE NoUsage

(* The upstream's generator ends after its finish event, so [DONE] follows *)
(* at once.                                                                *)
Finish(reason, hasUsage) ==
  /\ usage' = UsageFromEvent(hasUsage)
  /\ LET finished == Took(seen, Finished(FinishReason(reason, sawToolCall)))
         told == IF includeUsage /\ usage' # NoUsage
                   THEN Took(finished, Usage(usage')) ELSE finished
     IN seen' = Took(told, Done)
  /\ aggregate' = [aggregate EXCEPT
                     !.reason = FinishReason(reason, aggregate.calls # <<>>),
                     !.usage = UsageFromEvent(hasUsage)]
  /\ UNCHANGED <<includeUsage, toolIndex, sawToolCall>>

=============================================================================
