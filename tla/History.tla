------------------------------ MODULE History -------------------------------
(***************************************************************************)
(* How the items of a Responses request become the messages of the         *)
(* upstream's request: normalizeInput makes messages of the items          *)
(* (src/translate/responses.ts), toCommandCodeMessages gives them the      *)
(* upstream's form (src/translate/messages.ts).                            *)
(*                                                                         *)
(* A text is a sequence of pieces.  A message has a text, a reasoning, the *)
(* calls of an assistant, and the call a tool message answers; in the      *)
(* upstream's form they are its blocks, in this order.                     *)
(***************************************************************************)
EXTENDS ToolNames

NoId == 0
NoName == <<>>
Parts(text) == [type |-> "input_text", text |-> text]
MessageItem(role, text) == [type |-> "message", role |-> role, text |-> text]
ReasoningItem(text) == [type |-> "reasoning", text |-> text]
CallItem(id, tool) == [type |-> "function_call", id |-> id, tool |-> tool]
ResultItem(id) == [type |-> "function_call_output", id |-> id]

Message(role, text) == [role |-> role, text |-> text, reasoning |-> <<>>,
                        calls |-> <<>>, answers |-> [id |-> NoId, name |-> <<>>]]
Thought(text) == [Message("assistant", <<>>) EXCEPT !.reasoning = text]
Calls(id, name) == [Message("assistant", <<>>) EXCEPT !.calls = <<[id |-> id, name |-> name]>>]
Answer(id, name) == [Message("tool", <<>>) EXCEPT !.answers = [id |-> id, name |-> name]]

(* A call whose name or id is empty is refused with a 400, and so is the   *)
(* result of a call without an id, and a call of a namespaced tool that is *)
(* not in the request.                                                     *)
Blank(item) ==
  \/ item.type \in {"function_call", "function_call_output"} /\ item.id = NoId
  \/ item.type = "function_call" /\ item.tool.name = NoName
Unusable(item, map) ==
  Blank(item) \/ (item.type = "function_call" /\ ~Known(item.tool, map))

-----------------------------------------------------------------------------
(* normalizeInput, item by item.                                           *)

AppendSeparately(messages, m) == Append(messages, m)
(* appendMessage: what an assistant says in several items is one message.  *)
Merged(last, m) == [role |-> last.role, text |-> last.text \o m.text,
                    reasoning |-> last.reasoning \o m.reasoning,
                    calls |-> last.calls \o m.calls, answers |-> last.answers]
AppendMessage(messages, m) ==
  IF messages = <<>> \/ m.role # "assistant" \/ Last(messages).role # "assistant"
    THEN Append(messages, m)
    ELSE [messages EXCEPT ![Len(messages)] = Merged(@, m)]

(* Parts without a role are a user's message once another item comes.      *)
FlushUserParts(state) ==
  IF state.userParts = <<>> THEN state
  ELSE [messages |-> Append(state.messages, Message("user", state.userParts)),
        userParts |-> <<>>]

(* The message an item stands for; the result of a call is named later.    *)
MessageOf(item, map) ==
  CASE item.type = "message" -> Message(item.role, item.text)
    [] item.type = "reasoning" -> Thought(item.text)
    [] item.type = "function_call" -> Calls(item.id, UpstreamToolName(item.tool, map))
    [] item.type = "function_call_output" -> Answer(item.id, <<>>)

NormalizeItem(state, item, map) ==
  IF item.type = "input_text" THEN [state EXCEPT !.userParts = @ \o item.text]
  ELSE IF item.type = "reasoning" /\ item.text = <<>> THEN FlushUserParts(state)
  ELSE [FlushUserParts(state) EXCEPT
          !.messages = AppendMessage(@, MessageOf(item, map))]

NormalizeStates(items, map) ==
  LET state[n \in 0 .. Len(items)] ==
        IF n = 0 THEN [messages |-> <<>>, userParts |-> <<>>]
        ELSE NormalizeItem(state[n - 1], items[n], map)
  IN state
Normalized(items, map) == NormalizeStates(items, map)[Len(items)]
NormalizeInput(items, map) == FlushUserParts(Normalized(items, map)).messages

-----------------------------------------------------------------------------
(* toCommandCodeMessages: system and developer messages are collected, the *)
(* result of a call gets the name the call had.  toolNames has the calls   *)
(* so far: the last one of an id counts.                                   *)

NameOf(id, toolNames) ==
  LET at == {i \in DOMAIN toolNames : toolNames[i].id = id}
  IN IF at = {} THEN <<"unknown">> ELSE toolNames[Max(at)].name

ToCommandCode(state, m) ==
  CASE m.role \in {"system", "developer"} ->
         [state EXCEPT !.system = Append(@, m.text)]
    [] m.role = "assistant" ->
         [state EXCEPT !.messages = Append(@, m), !.toolNames = @ \o m.calls]
    [] m.role = "tool" ->
         [state EXCEPT !.messages = Append(@,
            [m EXCEPT !.answers = [id |-> @.id, name |-> NameOf(@.id, state.toolNames)]])]
    [] OTHER -> [state EXCEPT !.messages = Append(@, m)]

CommandCodeStates(messages) ==
  LET state[n \in 0 .. Len(messages)] ==
        IF n = 0 THEN [messages |-> <<>>, system |-> <<>>, toolNames |-> <<>>]
        ELSE ToCommandCode(state[n - 1], messages[n])
  IN state
CommandCode(messages) == CommandCodeStates(messages)[Len(messages)]
ToCommandCodeMessages(messages) ==
  [messages |-> CommandCode(messages).messages, system |-> CommandCode(messages).system]

(* toChatRequestFromResponses, with the instructions as the first message. *)
Translated(instructions, items, map) ==
  ToCommandCodeMessages(<<Message("system", instructions)>> \o NormalizeInput(items, map))
=============================================================================
