--------------------------- MODULE ClientStreams ----------------------------
(***************************************************************************)
(* Two clients, one of the Responses API and one of the Chat Completions   *)
(* API, whose requests the upstream answers with the same events: each     *)
(* event is translated by both generators, so that their answers can be    *)
(* compared.                                                               *)
(***************************************************************************)
EXTENDS ResponseEvents

VARIABLES includeUsage, toolIndex, sawToolCall, usage, aggregate, seen

Chat == INSTANCE ChatChunks

chatVars == <<includeUsage, toolIndex, sawToolCall, usage, aggregate, seen>>
bothVars == <<vars, chatVars>>

BothInit == Init /\ Chat!ChatInit

Both ==
  \/ Begin /\ Chat!Begin
  \/ TextDelta /\ Chat!TextDelta
  \/ ReasoningDelta /\ Chat!ReasoningDelta
  \/ ToolCall /\ Chat!ToolCall
  \/ \E kind \in Others : OtherEvent(kind) /\ Chat!OtherEvent(kind)
  \/ Throw /\ Chat!Throw
  \/ \E reason \in Chat!Reasons, hasUsage \in BOOLEAN :
       Finish /\ Chat!Finish(reason, hasUsage)
  \/ Yield /\ UNCHANGED chatVars

BothSpec == BothInit /\ [][Both]_bothVars

-----------------------------------------------------------------------------
(* A Chat client can follow its stream, and what it has put together from  *)
(* the chunks when it reads [DONE] is the completion it would have got     *)
(* without a stream: texts, the tool calls one by one, the reason, and the *)
(* usage where it asked for one (chat.ts:69-146 against 148-246).          *)
ChatAgreesWithWhole ==
  /\ seen.phase # "lost"
  /\ seen.phase = "done" =>
       seen = IF includeUsage THEN aggregate
              ELSE [aggregate EXCEPT !.usage = Chat!NoUsage]

(* Whichever API a client speaks, it is told the same: the text in one     *)
(* message, the reasoning in one item, and the tool calls, both in the     *)
(* upstream's order (chat.ts:148-246, responses.ts:393-608).               *)
Texts(type) == {item.text : item \in {x \in ToSet(reader.output) : x.type = type}}
BothApisAgree ==
  seen.phase = "done" /\ reader.phase = "completed" =>
    /\ Texts("message") \ {<<>>} = {seen.text} \ {<<>>}
    /\ Texts("reasoning") \ {<<>>} = {seen.reasoning} \ {<<>>}
    /\ Texts("function_call") = ToSet(seen.calls)
    /\ InUpstreamOrder(reader.output)
    /\ \A i, j \in DOMAIN seen.calls : i < j => seen.calls[i][1] < seen.calls[j][1]
=============================================================================
