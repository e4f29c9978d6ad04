---------------------------- MODULE Conversation ----------------------------
(***************************************************************************)
(* A conversation over the Responses API.  The proxy keeps nothing between *)
(* two requests: the client sends what it was answered back to it, as the  *)
(* items of the next request, and the proxy makes of these items what the  *)
(* upstream said itself some turns ago.  Here the two are put side by      *)
(* side.                                                                   *)
(*                                                                         *)
(* The client appends what it has to say, in any order, and asks again.    *)
(* It may list its tools in another order each time.                       *)
(***************************************************************************)
EXTENDS History, Functions

CONSTANTS ToolLists,   \* the lists of tools a client may have
          Strays,      \* names the upstream may call that are no tool's
          MaxTurns,    \* bound: answers of the upstream
          MaxItems     \* bound: items in all

ASSUME ToolListsAssumption == ToolLists \subseteq Seq(ToSet(Identities))

VARIABLES tools,      \* the tools of the next request
          items,      \* its input
          said,       \* the messages as the upstream has seen or made them
          system,     \* the system texts, in order
          open,       \* calls whose result the client has not sent
          phase,      \* "answered", "talking": the client's; "asked", "answering"
          turns

vars == <<tools, items, said, system, open, phase, turns>>

NameMaps == [list \in ToolLists |-> ToolNameMap(list)]
NameMap == NameMaps[tools]
Instructions == <<0>>
Fresh == Len(items) + 1       \* a piece, or the id of a call

(* A request with an item it cannot use gets a 400; nothing is sent on.    *)
Refused == \E i \in DOMAIN items : Unusable(items[i], NameMap)

Init ==
  /\ tools \in ToolLists
  /\ items = <<>> /\ said = <<>>
  /\ system = <<Instructions>>
  /\ open = {}
  /\ phase = "answered" /\ turns = 0

Adds(item) ==
  /\ Len(items) < MaxItems
  /\ items' = Append(items, item)

-----------------------------------------------------------------------------
(* What a client puts into its list.                                       *)

Clients == phase \in {"answered", "talking"}
Talks == Clients /\ phase' = "talking" /\ UNCHANGED <<tools, turns>>

(* Parts next to each other are one message.                               *)
AddPart ==
  /\ Talks
  /\ Adds(Parts(<<Fresh>>))
  /\ said' = IF items # <<>> /\ Last(items).type = "input_text"
               THEN [said EXCEPT ![Len(said)].text = Append(@, Fresh)]
               ELSE Append(said, Message("user", <<Fresh>>))
  /\ UNCHANGED <<system, open>>

AddUserMessage ==
  /\ Talks
  /\ Adds(MessageItem("user", <<Fresh>>))
  /\ said' = Append(said, Message("user", <<Fresh>>))
  /\ UNCHANGED <<system, open>>

AddDeveloperMessage ==
  /\ Talks
  /\ Adds(MessageItem("developer", <<Fresh>>))
  /\ system' = Append(system, <<Fresh>>)
  /\ UNCHANGED <<said, open>>

AddResult(call) ==
  /\ Talks
  /\ Adds(ResultItem(call.id))
  /\ said' = Append(said, Answer(call.id, call.name))
  /\ open' = open \ {call}
  /\ UNCHANGED system

(* A reasoning whose summary is empty, as of an encrypted one, is dropped. *)
AddEmptyReasoning ==
  /\ Clients
  /\ Adds(ReasoningItem(<<>>))
  /\ UNCHANGED <<tools, said, system, open, phase, turns>>

ReorderTools ==
  /\ Clients
  /\ tools' \in {list \in ToolLists : ToSet(list) = ToSet(tools)} \ {tools}
  /\ UNCHANGED <<items, said, system, open, phase, turns>>

(* It asks with what it has, when it has said something; a request that is *)
(* refused changes nothing.                                                *)
Ask ==
  /\ phase = "talking" /\ turns < MaxTurns
  /\ ~Refused
  /\ phase' = "asked" /\ turns' = turns + 1
  /\ UNCHANGED <<tools, items, said, system, open>>

-----------------------------------------------------------------------------
(* The upstream's answer: a reasoning and a message at most, and calls, in *)
(* any order (ClientStreams shows that this is what the client gets).  The *)
(* client keeps each item it is given.                                     *)
Names == UNION {DOMAIN NameMaps[list] : list \in ToolLists} \cup Strays

Earlier == IF phase = "asked" THEN said ELSE Front(said)
Spoken == IF phase = "asked" THEN Message("assistant", <<>>) ELSE Last(said)

Says(message) ==
  /\ phase \in {"asked", "answering"} /\ phase' = "answering"
  /\ said' = Append(Earlier, message)
  /\ UNCHANGED <<tools, system, turns>>

SayReasoning ==
  /\ Says([Spoken EXCEPT !.reasoning = <<Fresh>>]) /\ Spoken.reasoning = <<>>
  /\ Adds(ReasoningItem(<<Fresh>>))
  /\ UNCHANGED open

SayText ==
  /\ Says([Spoken EXCEPT !.text = <<Fresh>>]) /\ Spoken.text = <<>>
  /\ Adds(MessageItem("assistant", <<Fresh>>))
  /\ UNCHANGED open

(* A call without an id is given one; one whose id is empty, or that has   *)
(* no name, is shown like that (responses.ts:325-326, 498-499).            *)
SayCall(id, name) ==
  LET call == [id |-> id, name |-> name]
  IN /\ Says([Spoken EXCEPT !.calls = Append(@, call)])
     /\ Adds(CallItem(id, Shown(name, NameMap)))
     /\ open' = open \cup {call}

(* Of an answer without anything the client is given an empty message.     *)
SayNothing ==
  /\ phase = "asked" /\ phase' = "answered"
  /\ said' = Append(said, Spoken)
  /\ Adds(MessageItem("assistant", <<>>))
  /\ UNCHANGED <<tools, system, open, turns>>

EndAnswer ==
  /\ phase = "answering" /\ phase' = "answered"
  /\ UNCHANGED <<tools, items, said, system, open, turns>>

Next ==
  \/ AddPart \/ AddUserMessage \/ AddDeveloperMessage \/ AddEmptyReasoning
  \/ \E call \in open : AddResult(call)
  \/ ReorderTools \/ Ask
  \/ SayReasoning \/ SayText \/ SayNothing \/ EndAnswer
  \/ \E id \in {Fresh, NoId}, name \in Names \cup {NoName} : SayCall(id, name)

Spec == Init /\ [][Next]_vars

-----------------------------------------------------------------------------
Request == Translated(Instructions, items, NameMap)

(* What the upstream gets to read of the past is what happened, unless the *)
(* request is refused: nothing is lost, doubled or moved to another turn,  *)
(* each answer of its own is one message with the reasoning, the text and  *)
(* the calls it made, under the names it used, and each result names its   *)
(* call.  So a request only adds to the one before it (README "Cache       *)
(* Stability": "multi-turn conversations keep a stable prefix").           *)
HistoryFaithful == ~Refused => Request = [messages |-> said, system |-> system]

(* The upstream is offered each tool under a name of its own, and a call   *)
(* by that name is shown to the client as that tool, namespace included    *)
(* (responses.ts:31-55, 382).                                              *)
ToolsToldApart ==
  LET map == NameMap
      name == [t \in ToSet(tools) |-> UpstreamToolName(t, map)]
  IN /\ \A t \in ToSet(tools) : Shown(name[t], map) = t
     /\ IsInjective(name)

(* A client that sends back what it was given is refused only when the     *)
(* upstream had made a call without a name or with an empty id, which the  *)
(* proxy hands on but does not take back (responses.ts:198-203, 325-326).  *)
(* A call of a tool that does not exist, or by a name of the upstream's    *)
(* own, or after the tools were listed in another order, is taken          *)
(* (responses.ts:57-65, 209-216).                                          *)
OwnOutputAccepted == Refused => \E i \in DOMAIN items : Blank(items[i])
=============================================================================
