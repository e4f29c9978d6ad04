-------------------------- MODULE ResponsesConsumer -------------------------
(***************************************************************************)
(* What a client of the Responses stream can rely on while it reads the    *)
(* events of one response: items are added one after the other, every      *)
(* delta belongs to an item that is open, an item is closed with the text  *)
(* its deltas add up to, and the response is completed with the items as   *)
(* the client saw them, none missing and none still open.                  *)
(***************************************************************************)
EXTENDS Sequences, Naturals

CONSTANTS Types,     \* kinds of output items
          Pieces     \* what a delta may carry

VARIABLES phase,     \* "new", "created" or "completed"
          items      \* the items, in the order of their output_index

consumerVars == <<phase, items>>

Item(type) == [type |-> type, open |-> TRUE, text |-> <<>>]
Closed(item) == [item EXCEPT !.open = FALSE]

ConsumerInit == phase = "new" /\ items = <<>>

Create ==
  /\ phase = "new"
  /\ phase' = "created"
  /\ UNCHANGED items

Add(type) ==
  /\ phase = "created"
  /\ items' = Append(items, Item(type))
  /\ UNCHANGED phase

Extend(i, piece) ==
  /\ phase = "created"
  /\ items[i].open
  /\ items' = [items EXCEPT ![i].text = Append(@, piece)]
  /\ UNCHANGED phase

Close(i) ==
  /\ phase = "created"
  /\ items[i].open
  /\ items' = [items EXCEPT ![i] = Closed(@)]
  /\ UNCHANGED phase

Complete ==
  /\ phase = "created"
  /\ items # <<>>
  /\ \A i \in 1 .. Len(items) : ~items[i].open
  /\ phase' = "completed"
  /\ UNCHANGED items

ConsumerNext ==
  \/ Create \/ Complete
  \/ \E type \in Types : Add(type)
  \/ \E i \in 1 .. Len(items) : Close(i) \/ \E piece \in Pieces : Extend(i, piece)

ConsumerSpec == ConsumerInit /\ [][ConsumerNext]_consumerVars
=============================================================================
