---------------------------- MODULE ResponseEvents --------------------------
(***************************************************************************)
(* The translation of the upstream's events into the SSE events of the     *)
(* Responses API (src/translate/responses.ts, toResponseEvents), and the   *)
(* answer that is made of the same events when the client did not ask for  *)
(* a stream (collectState, toResponse).                                    *)
(*                                                                         *)
(* A text is the sequence of the upstream events it was made of, each one  *)
(* named by its position.  The part and text events around an item's       *)
(* deltas go with the item's added and done event.                         *)
(***************************************************************************)
EXTENDS Integers, SequencesExt

CONSTANT MaxEvents    \* bound: upstream events before the finish

ASSUME EventsAssumption == MaxEvents \in Nat

Deltas == {"text", "reasoning"}
Others == {"step", "other"}   \* "step" has a usage; "other": also empty deltas
Kinds == Deltas \cup {"tool-call"} \cup Others
None == -1

VARIABLES events,     \* what the upstream sent
          collected,  \* what collectState has made of it
          stage,      \* "new", "running", "ended", "thrown"
          text, reasoning,
          nextOutputIndex,
          messageIndex,      \* messageOutputIndex, None until it is added
          reasoningIndex,
          output,     \* the closed items, by output index
          queue,      \* chunks the generator is about to yield
          reader      \* what the client has made of the chunks it was sent

streamVars == <<text, reasoning, nextOutputIndex, messageIndex, reasoningIndex,
                output>>
vars == <<events, collected, stage, streamVars, queue, reader>>

Item(type, t) == [type |-> type, text |-> t]

Created == [type |-> "created"]
Added(i, type) == [type |-> "added", index |-> i, item |-> type]
Delta(i, piece) == [type |-> "delta", index |-> i, piece |-> piece]
Done(i, item) == [type |-> "done", index |-> i, item |-> item]
Completed(list) == [type |-> "completed", output |-> list]

Hole == Item("hole", <<>>)
(* A JavaScript array as it is serialized: an index never set is null.     *)
AsList(o) ==
  IF DOMAIN o = {} THEN <<>>
  ELSE [i \in 1 .. Max(DOMAIN o) + 1 |-> IF i - 1 \in DOMAIN o THEN o[i - 1] ELSE Hole]

SetItem(o, i, item) == [j \in DOMAIN o \cup {i} |-> IF j = i THEN item ELSE o[j]]

-----------------------------------------------------------------------------
(* The answer without a stream: collectState goes over the events,         *)
(* toResponse makes a list of items of the result.                         *)
NothingCollected == [text |-> <<>>, reasoning |-> <<>>, calls |-> <<>>]

Collected(s, kind, at) ==
  CASE kind = "text" -> [s EXCEPT !.text = Append(@, at)]
    [] kind = "reasoning" -> [s EXCEPT !.reasoning = Append(@, at)]
    [] kind = "tool-call" -> [s EXCEPT !.calls = Append(@, at)]
    [] kind \in Others -> s

ToResponse ==
  (IF collected.reasoning = <<>> THEN <<>>
     ELSE <<Item("reasoning", collected.reasoning)>>)
  \o (IF collected.text = <<>> /\ collected.calls # <<>> THEN <<>>
        ELSE <<Item("message", collected.text)>>)
  \o [i \in 1 .. Len(collected.calls) |->
        Item("function_call", <<collected.calls[i]>>)]

-----------------------------------------------------------------------------
Init ==
  /\ events = <<>>
  /\ collected = NothingCollected
  /\ stage = "new"
  /\ text = <<>> /\ reasoning = <<>>
  /\ nextOutputIndex = 0
  /\ messageIndex = None /\ reasoningIndex = None
  /\ output = [i \in {} |-> Hole]
  /\ queue = <<>>
  /\ reader = [phase |-> "new", items |-> <<>>, output |-> <<>>]

(* What a client that reads chunk after chunk makes of the next one; one   *)
(* that does not fit what came before leaves it "lost".                    *)
After(r, chunk) ==
  LET i == chunk.index + 1
      known == i \in 1 .. Len(r.items)
  IN CASE chunk.type = "created" -> [r EXCEPT !.phase = "created"]
       [] chunk.type = "added" ->
            IF i = Len(r.items) + 1
              THEN [r EXCEPT !.items = Append(@, [type |-> chunk.item,
                                         open |-> TRUE, text |-> <<>>])]
              ELSE [r EXCEPT !.phase = "lost"]
       [] chunk.type = "delta" ->
            IF known THEN [r EXCEPT !.items[i].text = Append(@, chunk.piece)]
                     ELSE [r EXCEPT !.phase = "lost"]
       [] chunk.type = "done" ->
            IF known /\ chunk.item = Item(r.items[i].type, r.items[i].text)
              THEN [r EXCEPT !.items[i].open = FALSE]
              ELSE [r EXCEPT !.phase = "lost"]
       [] chunk.type = "completed" ->
            [r EXCEPT !.output = chunk.output,
                      !.phase = IF chunk.output = [j \in 1 .. Len(r.items) |->
                                      Item(r.items[j].type, r.items[j].text)]
                                  THEN "completed" ELSE "lost"]

-----------------------------------------------------------------------------
(* The generator goes on when what it has yielded was taken.               *)
Ready(s) == stage = s /\ queue = <<>>

Begin ==
  /\ Ready("new")
  /\ stage' = "running"
  /\ queue' = <<Created>>
  /\ UNCHANGED <<events, collected, streamVars, reader>>

Position == Len(events) + 1

(* The event goes to both translations.                                    *)
Receive(kind) ==
  /\ Ready("running")
  /\ Len(events) < MaxEvents
  /\ events' = Append(events, kind)
  /\ collected' = Collected(collected, kind, Position)
  /\ UNCHANGED <<stage, reader>>

TextDelta ==
  /\ Receive("text")
  /\ text' = Append(text, Position)
  /\ \/ /\ messageIndex = None
        /\ messageIndex' = nextOutputIndex
        /\ nextOutputIndex' = nextOutputIndex + 1
        /\ queue' = <<Added(messageIndex', "message"), Delta(messageIndex', Position)>>
     \/ /\ messageIndex # None
        /\ queue' = <<Delta(messageIndex, Position)>>
        /\ UNCHANGED <<messageIndex, nextOutputIndex>>
  /\ UNCHANGED <<reasoning, reasoningIndex, output>>

ReasoningAlwaysAdded ==
  /\ Receive("reasoning")
  /\ reasoning' = Append(reasoning, Position)
  /\ reasoningIndex' = nextOutputIndex
  /\ nextOutputIndex' = nextOutputIndex + 1
  /\ queue' = <<Added(reasoningIndex', "reasoning"), Delta(reasoningIndex', Position)>>
  /\ UNCHANGED <<text, messageIndex, output>>
ReasoningDelta ==
  /\ Receive("reasoning")
  /\ reasoning' = Append(reasoning, Position)
  /\ \/ /\ reasoningIndex = None
        /\ reasoningIndex' = nextOutputIndex
        /\ nextOutputIndex' = nextOutputIndex + 1
        /\ queue' = <<Added(reasoningIndex', "reasoning"),
                      Delta(reasoningIndex', Position)>>
     \/ /\ reasoningIndex # None
        /\ queue' = <<Delta(reasoningIndex, Position)>>
        /\ UNCHANGED <<reasoningIndex, nextOutputIndex>>
  /\ UNCHANGED <<text, messageIndex, output>>

ToolCallNoAdvance ==
  /\ Receive("tool-call")
  /\ LET item == Item("function_call", <<Position>>)
         i == nextOutputIndex
     IN /\ queue' = <<Added(i, "function_call"), Delta(i, Position), Done(i, item)>>
        /\ output' = SetItem(output, i, item)
  /\ UNCHANGED <<nextOutputIndex, text, reasoning, messageIndex, reasoningIndex>>
(* A tool call comes complete: its item is added, filled and closed.       *)
ToolCall ==
  /\ Receive("tool-call")
  /\ LET item == Item("function_call", <<Position>>)
         i == nextOutputIndex
     IN /\ queue' = <<Added(i, "function_call"), Delta(i, Position), Done(i, item)>>
        /\ output' = SetItem(output, i, item)
  /\ nextOutputIndex' = nextOutputIndex + 1
  /\ UNCHANGED <<text, reasoning, messageIndex, reasoningIndex>>

OtherEvent(kind) ==
  /\ Receive(kind)
  /\ UNCHANGED <<streamVars, queue>>

(* An error or abort event, or a failure of the iterator: the generator    *)
(* throws, and the route says that the response failed.                    *)
Throw ==
  /\ Ready("running")
  /\ stage' = "thrown"
  /\ UNCHANGED <<events, collected, streamVars, queue, reader>>

FinishAddsEmpty ==
  /\ Ready("running")
  /\ stage' = "ended"
  /\ LET thought == Item("reasoning", reasoning)
         said == Item("message", text)
         out == IF reasoningIndex = None THEN output
                ELSE SetItem(output, reasoningIndex, thought)
         empty == messageIndex = None
     IN /\ messageIndex' = IF empty THEN nextOutputIndex ELSE messageIndex
        /\ nextOutputIndex' = IF empty THEN nextOutputIndex + 1 ELSE nextOutputIndex
        /\ output' = SetItem(out, messageIndex', said)
        /\ queue' =
             (IF reasoningIndex = None THEN <<>> ELSE <<Done(reasoningIndex, thought)>>)
             \o (IF empty THEN <<Added(messageIndex', "message")>> ELSE <<>>)
             \o <<Done(messageIndex', said), Completed(AsList(output'))>>
  /\ UNCHANGED <<events, collected, text, reasoning, reasoningIndex, reader>>
(* The upstream has finished: the open items are closed, a response with   *)
(* no item gets an empty message, and the response is completed.           *)
Finish ==
  /\ Ready("running")
  /\ stage' = "ended"
  /\ LET thought == Item("reasoning", reasoning)
         said == Item("message", text)
         out == IF reasoningIndex = None THEN output
                ELSE SetItem(output, reasoningIndex, thought)
         empty == messageIndex = None /\ AsList(out) = <<>>
     IN /\ messageIndex' = IF empty THEN nextOutputIndex ELSE messageIndex
        /\ nextOutputIndex' = IF empty THEN nextOutputIndex + 1 ELSE nextOutputIndex
        /\ output' = IF messageIndex' = None THEN out
                     ELSE SetItem(out, messageIndex', said)
        /\ queue' =
             (IF reasoningIndex = None THEN <<>> ELSE <<Done(reasoningIndex, thought)>>)
             \o (IF empty THEN <<Added(messageIndex', "message")>> ELSE <<>>)
             \o (IF messageIndex' = None THEN <<>> ELSE <<Done(messageIndex', said)>>)
             \o <<Completed(AsList(output'))>>
  /\ UNCHANGED <<events, collected, text, reasoning, reasoningIndex, reader>>

(* for await of the route: the next chunk is taken.                        *)
Yield ==
  /\ queue # <<>>
  /\ reader' = After(reader, Head(queue))
  /\ queue' = Tail(queue)
  /\ UNCHANGED <<events, collected, stage, streamVars>>

Next ==
  \/ Begin \/ TextDelta \/ ReasoningDelta \/ ToolCall
  \/ \E kind \in Others : OtherEvent(kind)
  \/ Throw \/ Finish \/ Yield

Spec == Init /\ [][Next]_vars

-----------------------------------------------------------------------------
Types == {"message", "reasoning", "function_call"}
Pieces == 1 .. MaxEvents
Consumer == INSTANCE ResponsesConsumer WITH
              phase <- reader.phase, items <- reader.items

-----------------------------------------------------------------------------
(* Read event by event, the stream is one a client can follow: indexes are *)
(* dense, no delta comes before its item or after its end, an item is      *)
(* closed with what its deltas add up to, and the final output is the list *)
(* of those items with no hole, although the array is filled out of order  *)
(* (responses.ts:408, 534, 567, 598).                                      *)
ImplementsConsumer == Consumer!ConsumerSpec

(* The stream and the whole answer say the same: what they hold apart from *)
(* an empty message is the same set of items, each with the same text, in  *)
(* both there is one message and one reasoning at most and the tool calls  *)
(* are in the upstream's order; and an empty message is never added to a   *)
(* stream that has other items (README "Responses", responses.ts:306-391   *)
(* against 393-608).                                                       *)
Empty == Item("message", <<>>)
InUpstreamOrder(list) ==
  \A i, j \in DOMAIN list :
    i < j /\ list[i].type = list[j].type =>
      list[i].type = "function_call" /\ list[i].text[1] < list[j].text[1]
StreamAgreesWithWhole ==
  reader.output # <<>> =>
    /\ ToSet(reader.output) \ {Empty} = ToSet(ToResponse) \ {Empty}
    /\ InUpstreamOrder(reader.output) /\ InUpstreamOrder(ToResponse)
    /\ Empty \in ToSet(reader.output) => Len(reader.output) = 1
=============================================================================
