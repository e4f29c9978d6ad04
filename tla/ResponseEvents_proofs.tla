------------------------ MODULE ResponseEvents_proofs ------------------------
(***************************************************************************)
(* For any number of upstream events in any order: the events of the       *)
(* Responses stream are ones a client can follow, what they tell it is     *)
(* what the answer without a stream says, and the Chat Completions API     *)
(* tells it the same, in its chunks and in its answer.                     *)
(***************************************************************************)
EXTENDS ClientStreams, SequenceTheorems, TLAPS

ItemRecord == [type : Types, open : BOOLEAN, text : Seq(Pieces)]
NewItem(type) == [type |-> type, open |-> TRUE, text |-> <<>>]
Longer(item, p) == [item EXCEPT !.text = Append(item.text, p)]
Shut(item) == [item EXCEPT !.open = FALSE]

(* What the client is to have at output index i once it has read all that has  *)
(* been yielded, those of the indexes in opened not being closed yet.      *)
Kind(i) == IF i = reasoningIndex THEN "reasoning"
           ELSE IF i = messageIndex THEN "message" ELSE "function_call"
Text(i) == IF i = reasoningIndex THEN reasoning
           ELSE IF i = messageIndex THEN text ELSE output[i].text
Full(i, opened) == [type |-> Kind(i), open |-> i \in opened, text |-> Text(i)]
Partial(i, t) == [type |-> Kind(i), open |-> TRUE, text |-> t]

Opened == {messageIndex, reasoningIndex}

Final == [j \in 1 .. nextOutputIndex |-> Item(Kind(j - 1), Text(j - 1))]

GeneratorOK ==
  /\ stage \in {"new", "running", "ended", "thrown"}
  /\ events \in Seq(Kinds)
  /\ nextOutputIndex \in Nat
  /\ text \in Seq(Pieces) /\ reasoning \in Seq(Pieces)
  /\ messageIndex \in {None} \cup 0 .. nextOutputIndex - 1
  /\ reasoningIndex \in {None} \cup 0 .. nextOutputIndex - 1
  /\ messageIndex # None => messageIndex # reasoningIndex
  /\ messageIndex = None => text = <<>>
  /\ reasoningIndex = None => reasoning = <<>>
  /\ stage # "ended" => DOMAIN output = (0 .. nextOutputIndex - 1) \ Opened
  /\ stage = "ended" => nextOutputIndex > 0
  /\ \A j \in (0 .. nextOutputIndex - 1) \ Opened :
       /\ output[j] = Item("function_call", output[j].text)
       /\ output[j].text \in Seq(Pieces)

(* The client's items are the first m; item k is as given.                 *)
Agrees(r, m, opened) ==
  Len(r.items) = m /\ \A i \in 0 .. m - 1 : r.items[i + 1] = Full(i, opened)
AgreesBut(r, m, k, item) ==
  /\ Len(r.items) = m
  /\ \A i \in 0 .. m - 1 : r.items[i + 1] = IF i = k THEN item ELSE Full(i, Opened)

Fits(r) == DOMAIN r = {"phase", "items", "output"} /\ r.items \in Seq(ItemRecord)

-----------------------------------------------------------------------------
(* What is still to be read of what one event made the generator yield.    *)

Idle(q, r) == q = <<>> /\ r.phase = "created" /\ Agrees(r, nextOutputIndex, Opened)

AddingText(q, r) ==
  \E i \in Opened, p \in Pieces, type \in Types :
    /\ i = nextOutputIndex - 1 /\ i # None
    /\ q = <<Added(i, type), Delta(i, p)>>
    /\ r.phase = "created" /\ Agrees(r, nextOutputIndex - 1, Opened)
    /\ Kind(i) = type /\ Text(i) = <<p>>

AddingDelta(q, r) ==
  \E i \in Opened, p \in Pieces, t \in Seq(Pieces) :
    /\ i # None
    /\ q = <<Delta(i, p)>>
    /\ r.phase = "created"
    /\ AgreesBut(r, nextOutputIndex, i, Partial(i, t))
    /\ Text(i) = Append(t, p)

Calling(q, r) ==
  \E i \in 0 .. nextOutputIndex - 1, p \in Pieces :
    LET called == Item("function_call", <<p>>)
    IN /\ i = nextOutputIndex - 1 /\ i \notin Opened
       /\ Kind(i) = "function_call" /\ Text(i) = <<p>>
       /\ r.phase = "created"
       /\ \/ /\ q = <<Added(i, "function_call"), Delta(i, p), Done(i, called)>>
             /\ Agrees(r, nextOutputIndex - 1, Opened)
          \/ /\ q = <<Delta(i, p), Done(i, called)>>
             /\ AgreesBut(r, nextOutputIndex, i, Partial(i, <<>>))
          \/ /\ q = <<Done(i, called)>>
             /\ AgreesBut(r, nextOutputIndex, i, Partial(i, <<p>>))

DoneReasoning == Done(reasoningIndex, Item("reasoning", reasoning))
DoneMessage == Done(messageIndex, Item("message", text))

Ending(q, r) ==
  /\ r.phase = "created"
  /\ \/ /\ q = <<Added(messageIndex, "message"), DoneMessage, Completed(Final)>>
        /\ messageIndex = nextOutputIndex - 1 /\ reasoningIndex = None /\ text = <<>>
        /\ Agrees(r, nextOutputIndex - 1, Opened)
     \/ /\ q = <<DoneReasoning, DoneMessage, Completed(Final)>>
        /\ messageIndex # None /\ reasoningIndex # None
        /\ Agrees(r, nextOutputIndex, Opened)
     \/ /\ q = <<DoneReasoning, Completed(Final)>>
        /\ messageIndex = None /\ reasoningIndex # None
        /\ Agrees(r, nextOutputIndex, Opened)
     \/ /\ q = <<DoneMessage, Completed(Final)>>
        /\ messageIndex # None
        /\ Agrees(r, nextOutputIndex, {messageIndex})
     \/ /\ q = <<Completed(Final)>>
        /\ Agrees(r, nextOutputIndex, {})

Opening(q, r) ==
  q = <<Created>> /\ r.phase = "new" /\ r.items = <<>> /\ nextOutputIndex = 0

Waits(q, r) ==
  /\ Fits(r)
  /\ stage = "new" => q = <<>> /\ r.phase = "new" /\ r.items = <<>> /\ nextOutputIndex = 0
  /\ stage \in {"running", "thrown"} =>
       Idle(q, r) \/ Opening(q, r) \/ AddingText(q, r) \/ AddingDelta(q, r) \/ Calling(q, r)
  /\ stage = "ended" => Ending(q, r) \/ (q = <<>> /\ r.phase = "completed")

IInv == GeneratorOK /\ Waits(queue, reader)

-----------------------------------------------------------------------------
(* Records.                                                                *)

LEMMA OtherText ==
  ASSUME NEW type, NEW open, NEW t, NEW u
  PROVE  [[type |-> type, open |-> open, text |-> t] EXCEPT !.text = u]
           = [type |-> type, open |-> open, text |-> u]
OBVIOUS

LEMMA OtherOpen ==
  ASSUME NEW type, NEW open, NEW t, NEW b
  PROVE  [[type |-> type, open |-> open, text |-> t] EXCEPT !.open = b]
           = [type |-> type, open |-> b, text |-> t]
OBVIOUS

LEMMA LongerPartial ==
  ASSUME NEW i, NEW t, NEW p
  PROVE  Longer(Partial(i, t), p) = Partial(i, Append(t, p))
<1>0. PICK u : u = Append(t, p)
  OBVIOUS
<1>1. PICK kind : kind = Kind(i)
  OBVIOUS
<1>2. PICK item : item = [type |-> kind, open |-> TRUE, text |-> t]
  OBVIOUS
<1>3. item.text = t
  BY <1>2
<1>4. Longer(item, p) = [item EXCEPT !.text = u]
  BY <1>0, <1>3 DEF Longer
<1>5. [item EXCEPT !.text = u] = [type |-> kind, open |-> TRUE, text |-> u]
  BY <1>2, OtherText
<1>6. QED
  BY <1>0, <1>1, <1>2, <1>4, <1>5 DEF Partial

LEMMA ShutPartial ==
  ASSUME NEW i, NEW t, t = Text(i), NEW S, i \notin S
  PROVE  Shut(Partial(i, t)) = Full(i, S)
<1>1. PICK kind : kind = Kind(i)
  OBVIOUS
<1>2. PICK item : item = [type |-> kind, open |-> TRUE, text |-> t]
  OBVIOUS
<1>3. Shut(item) = [type |-> kind, open |-> FALSE, text |-> t]
  <2>1. PICK open, b : open = TRUE /\ b = FALSE
    OBVIOUS
  <2>2. item = [type |-> kind, open |-> open, text |-> t]
    BY <1>2, <2>1
  <2>3. [item EXCEPT !.open = b] = [type |-> kind, open |-> b, text |-> t]
    BY <2>2, OtherOpen
  <2>4. QED
    BY <2>1, <2>3 DEF Shut
<1>4. Full(i, S) = [type |-> kind, open |-> FALSE, text |-> t]
  <2>1. (i \in S) = FALSE
    OBVIOUS
  <2>2. QED
    BY <1>1, <2>1 DEF Full
<1>5. QED
  BY <1>1, <1>2, <1>3, <1>4 DEF Partial

LEMMA OpenedIsPartial ==
  ASSUME NEW i, NEW S, i \in S, NEW t, t = Text(i)
  PROVE  Full(i, S) = Partial(i, t)
BY DEF Full, Partial

-----------------------------------------------------------------------------
(* The client reads one chunk.                                             *)

LEMMA ReadCreated ==
  ASSUME NEW r, Fits(r)
  PROVE  LET s == After(r, Created)
         IN Fits(s) /\ s.phase = "created" /\ s.items = r.items
BY DEF After, Created, Fits

LEMMA ReadAdded ==
  ASSUME NEW r, Fits(r), NEW i \in Nat, i = Len(r.items), NEW type \in Types
  PROVE  LET s == After(r, Added(i, type))
         IN Fits(s) /\ s.phase = r.phase /\ s.items = Append(r.items, NewItem(type))
<1>1. PICK item : item = NewItem(type)
  OBVIOUS
<1>2. item \in ItemRecord
  BY <1>1 DEF NewItem, ItemRecord
<1>3. After(r, Added(i, type)) = [r EXCEPT !.items = Append(r.items, item)]
  BY <1>1 DEF After, Added, NewItem
<1>4. Append(r.items, item) \in Seq(ItemRecord)
  BY <1>2, AppendProperties DEF Fits
<1>5. QED
  BY <1>1, <1>3, <1>4 DEF Fits

LEMMA ReadDelta ==
  ASSUME NEW r, Fits(r), NEW i \in Nat, i + 1 \in 1 .. Len(r.items), NEW p \in Pieces
  PROVE  LET s == After(r, Delta(i, p))
         IN /\ Fits(s) /\ s.phase = r.phase
            /\ s.items = [r.items EXCEPT ![i + 1] = Longer(r.items[i + 1], p)]
<1>1. r.items[i + 1] \in ItemRecord
  BY DEF Fits
<1>2. PICK t : t = Append(r.items[i + 1].text, p)
  OBVIOUS
<1>3. t \in Seq(Pieces)
  BY <1>1, <1>2, AppendProperties DEF ItemRecord
<1>4. PICK item : item = [r.items[i + 1] EXCEPT !.text = t]
  OBVIOUS
<1>5. item \in ItemRecord /\ item = Longer(r.items[i + 1], p)
  BY <1>1, <1>2, <1>3, <1>4 DEF ItemRecord, Longer
<1>6. After(r, Delta(i, p)) = [r EXCEPT !.items = [r.items EXCEPT ![i + 1] = item]]
  BY <1>2, <1>4 DEF After, Delta, Fits
<1>7. [r.items EXCEPT ![i + 1] = item] \in Seq(ItemRecord)
  BY <1>5, ExceptSeq DEF Fits
<1>8. QED
  BY <1>5, <1>6, <1>7 DEF Fits

LEMMA ReadDone ==
  ASSUME NEW r, Fits(r), NEW i \in Nat, i + 1 \in 1 .. Len(r.items),
         NEW type, NEW t, r.items[i + 1].type = type, r.items[i + 1].text = t
  PROVE  LET s == After(r, Done(i, Item(type, t)))
         IN /\ Fits(s) /\ s.phase = r.phase
            /\ s.items = [r.items EXCEPT ![i + 1] = Shut(r.items[i + 1])]
<1>1. r.items[i + 1] \in ItemRecord
  BY DEF Fits
<1>2. PICK item : item = [r.items[i + 1] EXCEPT !.open = FALSE]
  OBVIOUS
<1>3. item \in ItemRecord /\ item = Shut(r.items[i + 1])
  BY <1>1, <1>2 DEF ItemRecord, Shut
<1>4. After(r, Done(i, Item(type, t))) = [r EXCEPT !.items = [r.items EXCEPT ![i + 1] = item]]
  BY <1>2 DEF After, Done, Item, Fits
<1>5. [r.items EXCEPT ![i + 1] = item] \in Seq(ItemRecord)
  BY <1>3, ExceptSeq DEF Fits
<1>6. QED
  BY <1>3, <1>4, <1>5 DEF Fits

LEMMA ReadCompleted ==
  ASSUME NEW r, Fits(r), NEW list,
         list = [j \in 1 .. Len(r.items) |-> Item(r.items[j].type, r.items[j].text)]
  PROVE  LET s == After(r, Completed(list))
         IN Fits(s) /\ s.phase = "completed" /\ s.items = r.items
<1>1. After(r, Completed(list)) = [r EXCEPT !.output = list, !.phase = "completed"]
  BY DEF After, Completed
<1>2. QED
  BY <1>1 DEF Fits

-----------------------------------------------------------------------------
(* What a client of the Responses API may see between two chunks, as a     *)
(* relation of what it had before, r, and what it has after, s.            *)
ClientStep(r, s) ==
  \/ r.phase = "new" /\ s.phase = "created" /\ s.items = r.items
  \/ /\ r.phase = "created" /\ s.phase = "created"
     /\ \E type \in Types : s.items = Append(r.items, NewItem(type))
  \/ /\ r.phase = "created" /\ s.phase = "created"
     /\ \E i \in 1 .. Len(r.items), p \in Pieces :
          /\ r.items[i].open
          /\ s.items = [r.items EXCEPT ![i] = Longer(r.items[i], p)]
  \/ /\ r.phase = "created" /\ s.phase = "created"
     /\ \E i \in 1 .. Len(r.items) :
          /\ r.items[i].open
          /\ s.items = [r.items EXCEPT ![i] = Shut(r.items[i])]
  \/ /\ r.phase = "created" /\ s.phase = "completed" /\ s.items = r.items
     /\ r.items # <<>>
     /\ \A i \in 1 .. Len(r.items) : ~r.items[i].open

(* The added event of item m + 1.                                          *)
LEMMA AddItem ==
  ASSUME GeneratorOK, NEW r, Fits(r), r.phase = "created",
         NEW m \in Nat, NEW S, Agrees(r, m, S), NEW type \in Types
  PROVE  LET s == After(r, Added(m, type))
         IN /\ Fits(s) /\ s.phase = "created" /\ ClientStep(r, s)
            /\ Len(s.items) = m + 1
            /\ s.items[m + 1] = NewItem(type)
            /\ \A i \in 0 .. m - 1 : s.items[i + 1] = Full(i, S)
<1>1. PICK s : s = After(r, Added(m, type))
  OBVIOUS
<1>2. m = Len(r.items)
  BY DEF Agrees
<1>3. Fits(s) /\ s.phase = "created" /\ s.items = Append(r.items, NewItem(type))
  <2>1. LET z == After(r, Added(m, type))
        IN Fits(z) /\ z.phase = r.phase /\ z.items = Append(r.items, NewItem(type))
    BY <1>2, ReadAdded
  <2>2. QED
    BY <1>1, <2>1
<1>4. PICK item : item = NewItem(type)
  OBVIOUS
<1>5. item \in ItemRecord
  BY <1>4 DEF NewItem, ItemRecord
<1>6. /\ Len(s.items) = m + 1 /\ s.items[m + 1] = item
      /\ \A j \in 1 .. m : s.items[j] = r.items[j]
  BY <1>2, <1>3, <1>4, <1>5 DEF Fits
<1>7. \A i \in 0 .. m - 1 : s.items[i + 1] = Full(i, S)
  BY <1>6 DEF Agrees
<1>8. ClientStep(r, s)
  BY <1>3 DEF ClientStep
<1>9. QED
  BY <1>1, <1>3, <1>4, <1>6, <1>7, <1>8

(* The delta of an open item.                                              *)
LEMMA ExtendItem ==
  ASSUME NEW r, Fits(r), r.phase = "created", NEW i \in Nat,
         i + 1 \in 1 .. Len(r.items), r.items[i + 1].open, NEW p \in Pieces
  PROVE  LET s == After(r, Delta(i, p))
         IN /\ Fits(s) /\ s.phase = "created" /\ ClientStep(r, s)
            /\ Len(s.items) = Len(r.items)
            /\ s.items[i + 1] = Longer(r.items[i + 1], p)
            /\ \A j \in 1 .. Len(r.items) : j # i + 1 => s.items[j] = r.items[j]
<1>1. PICK s : s = After(r, Delta(i, p))
  OBVIOUS
<1>2. PICK item : item = Longer(r.items[i + 1], p)
  OBVIOUS
<1>3. Fits(s) /\ s.phase = "created" /\ s.items = [r.items EXCEPT ![i + 1] = item]
  BY <1>1, <1>2, ReadDelta
<1>4. /\ Len(s.items) = Len(r.items) /\ s.items[i + 1] = item
      /\ \A j \in 1 .. Len(r.items) : j # i + 1 => s.items[j] = r.items[j]
  BY <1>3 DEF Fits
<1>5. ClientStep(r, s)
  BY <1>2, <1>3 DEF ClientStep
<1>6. QED
  BY <1>1, <1>2, <1>3, <1>4, <1>5

(* The done event of an open item, with what the client has of it.         *)
LEMMA CloseItem ==
  ASSUME NEW r, Fits(r), r.phase = "created", NEW i \in Nat,
         i + 1 \in 1 .. Len(r.items), r.items[i + 1].open,
         NEW type, NEW t, r.items[i + 1].type = type, r.items[i + 1].text = t
  PROVE  LET s == After(r, Done(i, Item(type, t)))
         IN /\ Fits(s) /\ s.phase = "created" /\ ClientStep(r, s)
            /\ Len(s.items) = Len(r.items)
            /\ s.items[i + 1] = Shut(r.items[i + 1])
            /\ \A j \in 1 .. Len(r.items) : j # i + 1 => s.items[j] = r.items[j]
<1>1. PICK s : s = After(r, Done(i, Item(type, t)))
  OBVIOUS
<1>2. PICK item : item = Shut(r.items[i + 1])
  OBVIOUS
<1>3. Fits(s) /\ s.phase = "created" /\ s.items = [r.items EXCEPT ![i + 1] = item]
  BY <1>1, <1>2, ReadDone
<1>4. /\ Len(s.items) = Len(r.items) /\ s.items[i + 1] = item
      /\ \A j \in 1 .. Len(r.items) : j # i + 1 => s.items[j] = r.items[j]
  BY <1>3 DEF Fits
<1>5. ClientStep(r, s)
  BY <1>2, <1>3 DEF ClientStep
<1>6. QED
  BY <1>1, <1>2, <1>3, <1>4, <1>5

-----------------------------------------------------------------------------
(* From one form of the queue to the next.                                 *)

LEMMA ButNothing ==
  ASSUME NEW s, NEW m \in Nat, NEW i, AgreesBut(s, m, i, Full(i, Opened))
  PROVE  Agrees(s, m, Opened)
BY DEF Agrees, AgreesBut

LEMMA ButReplaced ==
  ASSUME NEW r, NEW s, NEW m \in Nat, NEW i \in 0 .. m - 1, NEW x, NEW y,
         AgreesBut(r, m, i, x), Len(s.items) = Len(r.items), s.items[i + 1] = y,
         \A j \in 1 .. Len(r.items) : j # i + 1 => s.items[j] = r.items[j]
  PROVE  AgreesBut(s, m, i, y)
<1>1. Len(s.items) = m
  BY DEF AgreesBut
<1>2. ASSUME NEW k \in 0 .. m - 1, k # i PROVE s.items[k + 1] = Full(k, Opened)
  <2>1. k + 1 \in 1 .. Len(r.items) /\ k + 1 # i + 1
    BY <1>1, <1>2
  <2>2. r.items[k + 1] = Full(k, Opened)
    BY <1>2 DEF AgreesBut
  <2>3. QED
    BY <2>1, <2>2
<1>3. QED
  BY <1>1, <1>2 DEF AgreesBut

LEMMA FromOpening ==
  ASSUME GeneratorOK, NEW q, NEW r, Fits(r), Opening(q, r)
  PROVE  LET s == After(r, Head(q))
         IN Fits(s) /\ ClientStep(r, s) /\ Idle(Tail(q), s)
<1>1. Head(q) = Created /\ Tail(q) = <<>>
  BY DEF Opening
<1>2. PICK s : s = After(r, Created)
  OBVIOUS
<1>3. Fits(s) /\ s.phase = "created" /\ s.items = r.items
  BY <1>2, ReadCreated
<1>4. ClientStep(r, s)
  BY <1>3 DEF ClientStep, Opening
<1>5. Idle(<<>>, s)
  BY <1>3 DEF Idle, Agrees, Opening
<1>6. QED
  BY <1>1, <1>2, <1>3, <1>4, <1>5

LEMMA FromAddingText ==
  ASSUME GeneratorOK, NEW q, NEW r, Fits(r), AddingText(q, r)
  PROVE  LET s == After(r, Head(q))
         IN Fits(s) /\ ClientStep(r, s) /\ AddingDelta(Tail(q), s)
<1>1. PICK i \in Opened, p \in Pieces, type \in Types :
        /\ i = nextOutputIndex - 1 /\ i # None
        /\ q = <<Added(i, type), Delta(i, p)>>
        /\ r.phase = "created" /\ Agrees(r, nextOutputIndex - 1, Opened)
        /\ Kind(i) = type /\ Text(i) = <<p>>
  BY DEF AddingText
<1>2. Head(q) = Added(i, type) /\ Tail(q) = <<Delta(i, p)>>
  BY <1>1
<1>3. i \in Nat /\ i + 1 = nextOutputIndex
  BY <1>1 DEF GeneratorOK, Opened, None
<1>4. PICK s : s = After(r, Added(i, type))
  OBVIOUS
<1>5. /\ Fits(s) /\ s.phase = "created" /\ ClientStep(r, s)
      /\ Len(s.items) = i + 1
      /\ s.items[i + 1] = NewItem(type)
      /\ \A k \in 0 .. i - 1 : s.items[k + 1] = Full(k, Opened)
  BY <1>1, <1>3, <1>4, AddItem
<1>6. PICK t : t = <<>>
  OBVIOUS
<1>7. t \in Seq(Pieces) /\ Append(t, p) = <<p>>
  BY <1>6
<1>8. Partial(i, t) = NewItem(type)
  BY <1>1, <1>6 DEF Partial, NewItem
<1>9. AgreesBut(s, nextOutputIndex, i, Partial(i, t))
  BY <1>3, <1>5, <1>8 DEF AgreesBut
<1>10. AddingDelta(<<Delta(i, p)>>, s)
  BY <1>1, <1>5, <1>7, <1>8, <1>9 DEF AddingDelta
<1>11. QED
  BY <1>2, <1>4, <1>5, <1>10

(* The last item is the one the client is behind with.                     *)
LEMMA ExtendBut ==
  ASSUME GeneratorOK, NEW r, Fits(r), r.phase = "created",
         NEW i \in 0 .. nextOutputIndex - 1, NEW p \in Pieces, NEW t,
         AgreesBut(r, nextOutputIndex, i, Partial(i, t)),
         NEW u, u = Append(t, p)
  PROVE  LET s == After(r, Delta(i, p))
         IN /\ Fits(s) /\ s.phase = "created" /\ ClientStep(r, s)
            /\ AgreesBut(s, nextOutputIndex, i, Partial(i, u))
<1>1. PICK s : s = After(r, Delta(i, p))
  OBVIOUS
<1>2. /\ Len(r.items) = nextOutputIndex /\ r.items[i + 1] = Partial(i, t)
      /\ i \in Nat /\ i + 1 \in 1 .. Len(r.items) /\ nextOutputIndex \in Nat
  BY DEF AgreesBut, GeneratorOK
<1>3. Partial(i, t).open
  BY DEF Partial
<1>4. /\ Fits(s) /\ s.phase = "created" /\ ClientStep(r, s)
      /\ Len(s.items) = Len(r.items)
      /\ s.items[i + 1] = Longer(r.items[i + 1], p)
      /\ \A j \in 1 .. Len(r.items) : j # i + 1 => s.items[j] = r.items[j]
  BY <1>1, <1>2, <1>3, ExtendItem
<1>5. s.items[i + 1] = Partial(i, u)
  <2>1. s.items[i + 1] = Longer(Partial(i, t), p)
    BY <1>2, <1>4
  <2>2. Longer(Partial(i, t), p) = Partial(i, Append(t, p))
    BY LongerPartial, Zenon
  <2>3. QED
    BY <2>1, <2>2
<1>6. AgreesBut(s, nextOutputIndex, i, Partial(i, u))
  BY <1>2, <1>4, <1>5, ButReplaced
<1>7. QED
  BY <1>1, <1>4, <1>6

LEMMA FromAddingDelta ==
  ASSUME GeneratorOK, NEW q, NEW r, Fits(r), AddingDelta(q, r)
  PROVE  LET s == After(r, Head(q))
         IN Fits(s) /\ ClientStep(r, s) /\ Idle(Tail(q), s)
<1>1. PICK i \in Opened, p \in Pieces, t \in Seq(Pieces) :
        /\ i # None
        /\ q = <<Delta(i, p)>>
        /\ r.phase = "created"
        /\ AgreesBut(r, nextOutputIndex, i, Partial(i, t))
        /\ Text(i) = Append(t, p)
  BY DEF AddingDelta
<1>2. Head(q) = Delta(i, p) /\ Tail(q) = <<>>
  BY <1>1
<1>3. /\ i \in Nat /\ i + 1 \in 1 .. nextOutputIndex
      /\ i \in 0 .. nextOutputIndex - 1 /\ nextOutputIndex \in Nat
  BY <1>1 DEF GeneratorOK, Opened, None
<1>4. Len(r.items) = nextOutputIndex /\ r.items[i + 1] = Partial(i, t)
  BY <1>1, <1>3 DEF AgreesBut
<1>5. Partial(i, t).open /\ Partial(i, t).text = t
  BY DEF Partial
<1>6. PICK s : s = After(r, Delta(i, p))
  OBVIOUS
<1>7. PICK u : u = Append(t, p)
  OBVIOUS
<1>8. Fits(s) /\ s.phase = "created" /\ ClientStep(r, s)
  BY <1>1, <1>3, <1>4, <1>5, <1>6, ExtendBut
<1>9. AgreesBut(s, nextOutputIndex, i, Partial(i, u))
  BY <1>1, <1>3, <1>6, <1>7, ExtendBut
<1>10. Partial(i, u) = Full(i, Opened)
  <2>1. u = Text(i)
    BY <1>1, <1>7
  <2>2. QED
    BY <2>1, OpenedIsPartial
<1>11. Idle(<<>>, s)
  BY <1>3, <1>8, <1>9, <1>10, ButNothing DEF Idle
<1>12. QED
  BY <1>2, <1>6, <1>8, <1>11

LEMMA FromCalling ==
  ASSUME GeneratorOK, NEW q, NEW r, Fits(r), Calling(q, r)
  PROVE  LET s == After(r, Head(q))
         IN /\ Fits(s) /\ ClientStep(r, s)
            /\ Calling(Tail(q), s) \/ Idle(Tail(q), s)
<1>1. PICK i \in 0 .. nextOutputIndex - 1, p \in Pieces :
        LET called == Item("function_call", <<p>>)
        IN /\ i = nextOutputIndex - 1 /\ i \notin Opened
           /\ Kind(i) = "function_call" /\ Text(i) = <<p>>
           /\ r.phase = "created"
           /\ \/ /\ q = <<Added(i, "function_call"), Delta(i, p), Done(i, called)>>
                 /\ Agrees(r, nextOutputIndex - 1, Opened)
              \/ /\ q = <<Delta(i, p), Done(i, called)>>
                 /\ AgreesBut(r, nextOutputIndex, i, Partial(i, <<>>))
              \/ /\ q = <<Done(i, called)>>
                 /\ AgreesBut(r, nextOutputIndex, i, Partial(i, <<p>>))
  BY DEF Calling
<1>2. PICK chunk : chunk = Done(i, Item("function_call", <<p>>))
  OBVIOUS
<1>3. /\ i \in Nat /\ i + 1 = nextOutputIndex /\ nextOutputIndex \in Nat
      /\ i + 1 \in 1 .. nextOutputIndex
  BY <1>1 DEF GeneratorOK
<1>4. PICK none, t : none = <<>> /\ t = <<p>>
  OBVIOUS
<1>5. Append(none, p) = t /\ t = Text(i)
  BY <1>1, <1>4
<1>6. CASE /\ q = <<Added(i, "function_call"), Delta(i, p), chunk>>
           /\ Agrees(r, nextOutputIndex - 1, Opened)
  <2>1. Head(q) = Added(i, "function_call") /\ Tail(q) = <<Delta(i, p), chunk>>
    BY <1>6
  <2>2. PICK s : s = After(r, Added(i, "function_call"))
    OBVIOUS
  <2>3. /\ Fits(s) /\ s.phase = "created" /\ ClientStep(r, s)
        /\ Len(s.items) = i + 1
        /\ s.items[i + 1] = NewItem("function_call")
        /\ \A k \in 0 .. i - 1 : s.items[k + 1] = Full(k, Opened)
    BY <1>1, <1>3, <1>6, <2>2, AddItem DEF Types
  <2>4. NewItem("function_call") = Partial(i, none)
    BY <1>1, <1>4 DEF NewItem, Partial
  <2>5. AgreesBut(s, nextOutputIndex, i, Partial(i, none))
    BY <1>3, <2>3, <2>4 DEF AgreesBut
  <2>6. Calling(<<Delta(i, p), chunk>>, s)
    BY <1>1, <1>2, <1>4, <2>3, <2>5 DEF Calling
  <2>7. QED
    BY <2>1, <2>2, <2>3, <2>6
<1>7. CASE /\ q = <<Delta(i, p), chunk>>
           /\ AgreesBut(r, nextOutputIndex, i, Partial(i, none))
  <2>1. Head(q) = Delta(i, p) /\ Tail(q) = <<chunk>>
    BY <1>7
  <2>2. PICK s : s = After(r, Delta(i, p))
    OBVIOUS
  <2>3. /\ Fits(s) /\ s.phase = "created" /\ ClientStep(r, s)
        /\ AgreesBut(s, nextOutputIndex, i, Partial(i, t))
    BY <1>1, <1>5, <1>7, <2>2, ExtendBut
  <2>4. Calling(<<chunk>>, s)
    BY <1>1, <1>2, <1>4, <2>3 DEF Calling
  <2>5. QED
    BY <2>1, <2>2, <2>3, <2>4
<1>8. CASE /\ q = <<chunk>>
           /\ AgreesBut(r, nextOutputIndex, i, Partial(i, t))
  <2>1. Head(q) = chunk /\ Tail(q) = <<>>
    BY <1>8
  <2>2. PICK s : s = After(r, chunk)
    OBVIOUS
  <2>3. chunk = Done(i, Item("function_call", t))
    BY <1>2, <1>4
  <2>4. Len(r.items) = nextOutputIndex /\ r.items[i + 1] = Partial(i, t)
    BY <1>1, <1>8 DEF AgreesBut
  <2>5. /\ Partial(i, t).open /\ Partial(i, t).type = "function_call"
        /\ Partial(i, t).text = t
    BY <1>1 DEF Partial
  <2>6. /\ Fits(s) /\ s.phase = "created" /\ ClientStep(r, s)
        /\ Len(s.items) = Len(r.items)
        /\ s.items[i + 1] = Shut(r.items[i + 1])
        /\ \A j \in 1 .. Len(r.items) : j # i + 1 => s.items[j] = r.items[j]
    <3>1. /\ r.phase = "created" /\ i \in Nat /\ i + 1 \in 1 .. Len(r.items)
          /\ r.items[i + 1].open /\ r.items[i + 1].type = "function_call"
          /\ r.items[i + 1].text = t
      BY <1>1, <1>3, <2>4, <2>5
    <3>2. s = After(r, Done(i, Item("function_call", t)))
      BY <2>2, <2>3
    <3>3. QED
      BY <3>1, <3>2, CloseItem
  <2>7. s.items[i + 1] = Full(i, Opened)
    BY <1>1, <1>5, <2>4, <2>6, ShutPartial
  <2>8. AgreesBut(s, nextOutputIndex, i, Full(i, Opened))
    <3>1. PICK x, y, m : x = Partial(i, t) /\ y = Full(i, Opened) /\ m = nextOutputIndex
      OBVIOUS
    <3>2. AgreesBut(r, m, i, x) /\ s.items[i + 1] = y
      BY <1>8, <2>7, <3>1
    <3>3. m \in Nat /\ i \in 0 .. m - 1
      BY <1>3, <3>1
    <3>4. /\ Len(s.items) = Len(r.items)
          /\ \A j \in 1 .. Len(r.items) : j # i + 1 => s.items[j] = r.items[j]
      BY <2>6
    <3>5. ASSUME NEW k \in (0 .. m - 1) \ {i} PROVE s.items[k + 1] = Full(k, Opened)
      <4>1. k + 1 \in 1 .. Len(r.items) /\ k + 1 # i + 1
        BY <2>4, <3>1, <3>3
      <4>2. r.items[k + 1] = Full(k, Opened)
        BY <3>2 DEF AgreesBut
      <4>3. QED
        BY <3>4, <4>1, <4>2
    <3>6. AgreesBut(s, m, i, y)
      BY <2>4, <3>1, <3>2, <3>4, <3>5 DEF AgreesBut
    <3>7. QED
      BY <3>1, <3>6
  <2>9. Idle(<<>>, s)
    BY <1>3, <2>6, <2>8, ButNothing DEF Idle
  <2>10. QED
    BY <2>1, <2>2, <2>6, <2>9
<1>9. QED
  BY <1>1, <1>2, <1>4, <1>6, <1>7, <1>8

-----------------------------------------------------------------------------
(* The end of the response.                                                *)

LEMMA CloseOne ==
  ASSUME GeneratorOK, NEW r, Fits(r), r.phase = "created",
         NEW S, Agrees(r, nextOutputIndex, S),
         NEW i \in 0 .. nextOutputIndex - 1, i \in S,
         NEW Z, \A k : k \in Z <=> k \in S /\ k # i,
         NEW type, type = Kind(i), NEW t, t = Text(i)
  PROVE  LET s == After(r, Done(i, Item(type, t)))
         IN /\ Fits(s) /\ s.phase = "created" /\ ClientStep(r, s)
            /\ Agrees(s, nextOutputIndex, Z)
<1>1. PICK s : s = After(r, Done(i, Item(type, t)))
  OBVIOUS
<1>2. /\ nextOutputIndex \in Nat /\ i \in Nat /\ i + 1 \in 1 .. nextOutputIndex
      /\ Len(r.items) = nextOutputIndex
  BY DEF GeneratorOK, Agrees
<1>3. r.items[i + 1] = Partial(i, t)
  <2>1. r.items[i + 1] = Full(i, S)
    BY DEF Agrees
  <2>2. QED
    BY <2>1, OpenedIsPartial
<1>4. Partial(i, t).open /\ Partial(i, t).type = type /\ Partial(i, t).text = t
  BY DEF Partial
<1>5. /\ Fits(s) /\ s.phase = "created" /\ ClientStep(r, s)
      /\ Len(s.items) = Len(r.items)
      /\ s.items[i + 1] = Shut(r.items[i + 1])
      /\ \A j \in 1 .. Len(r.items) : j # i + 1 => s.items[j] = r.items[j]
  BY <1>1, <1>2, <1>3, <1>4, CloseItem
<1>6. ASSUME NEW k \in 0 .. nextOutputIndex - 1 PROVE s.items[k + 1] = Full(k, Z)
  <2>1. CASE k = i
    <3>1. i \notin Z
      OBVIOUS
    <3>2. s.items[i + 1] = Full(i, Z)
      BY <1>3, <1>5, <3>1, ShutPartial
    <3>3. QED
      BY <2>1, <3>2
  <2>2. CASE k # i
    <3>1. k + 1 \in 1 .. Len(r.items) /\ k + 1 # i + 1
      BY <1>2, <2>2
    <3>2. s.items[k + 1] = Full(k, S)
      BY <1>5, <3>1 DEF Agrees
    <3>3. (k \in S) = (k \in Z)
      BY <2>2
    <3>4. QED
      BY <3>2, <3>3 DEF Full
  <2>3. QED
    BY <2>1, <2>2
<1>7. Agrees(s, nextOutputIndex, Z)
  BY <1>2, <1>5, <1>6 DEF Agrees
<1>8. QED
  BY <1>1, <1>5, <1>7

(* There is no item at the index None.                                     *)
LEMMA NoneIsNone ==
  ASSUME GeneratorOK, NEW s, NEW Z, Z = {None}, Agrees(s, nextOutputIndex, Z)
  PROVE  Agrees(s, nextOutputIndex, {})
<1>1. ASSUME NEW k \in 0 .. nextOutputIndex - 1 PROVE s.items[k + 1] = Full(k, {})
  <2>1. (k \in Z) = (k \in {})
    BY DEF None, GeneratorOK
  <2>2. s.items[k + 1] = Full(k, Z)
    BY DEF Agrees
  <2>3. QED
    BY <2>1, <2>2 DEF Full
<1>2. QED
  BY <1>1 DEF Agrees

LEMMA OpenItems ==
  ASSUME GeneratorOK
  PROVE  /\ messageIndex # None => /\ messageIndex \in 0 .. nextOutputIndex - 1
                                   /\ Kind(messageIndex) = "message"
                                   /\ Text(messageIndex) = text
         /\ reasoningIndex # None => /\ reasoningIndex \in 0 .. nextOutputIndex - 1
                                     /\ Kind(reasoningIndex) = "reasoning"
                                     /\ Text(reasoningIndex) = reasoning
BY DEF GeneratorOK, Kind, Text

LEMMA FromEnding ==
  ASSUME GeneratorOK, stage = "ended", NEW q, NEW r, Fits(r), Ending(q, r)
  PROVE  LET s == After(r, Head(q))
         IN /\ Fits(s) /\ ClientStep(r, s)
            /\ Ending(Tail(q), s) \/ (Tail(q) = <<>> /\ s.phase = "completed")
<1> DEFINE n == nextOutputIndex
<1>1. /\ n \in Nat /\ n > 0 /\ r.phase = "created"
      /\ messageIndex # None => messageIndex # reasoningIndex
      /\ None \notin 0 .. n - 1
  BY DEF GeneratorOK, Ending, None
<1>2. CASE /\ q = <<Added(messageIndex, "message"), DoneMessage, Completed(Final)>>
           /\ messageIndex = n - 1 /\ reasoningIndex = None /\ text = <<>>
           /\ Agrees(r, n - 1, Opened)
  <2>1. Head(q) = Added(messageIndex, "message") /\ Tail(q) = <<DoneMessage, Completed(Final)>>
    BY <1>2
  <2>2. PICK m : m = n - 1
    OBVIOUS
  <2>3. m \in Nat /\ m + 1 = n /\ messageIndex = m /\ messageIndex # None
    BY <1>1, <1>2, <2>2 DEF None
  <2>4. PICK s : s = After(r, Added(m, "message"))
    OBVIOUS
  <2>5. /\ Fits(s) /\ s.phase = "created" /\ ClientStep(r, s)
        /\ Len(s.items) = m + 1
        /\ s.items[m + 1] = NewItem("message")
        /\ \A k \in 0 .. m - 1 : s.items[k + 1] = Full(k, Opened)
    BY <1>1, <1>2, <2>2, <2>3, <2>4, AddItem DEF Types
  <2>6. NewItem("message") = Full(m, {messageIndex})
    <3>1. PICK t : t = <<>>
      OBVIOUS
    <3>2. t = Text(m) /\ Kind(m) = "message"
      BY <1>2, <2>3, <3>1, OpenItems
    <3>3. Full(m, {messageIndex}) = Partial(m, t)
      BY <2>3, <3>2, OpenedIsPartial
    <3>4. QED
      BY <3>1, <3>2, <3>3 DEF NewItem, Partial
  <2>7. ASSUME NEW k \in 0 .. n - 1 PROVE s.items[k + 1] = Full(k, {messageIndex})
    <3>1. CASE k = m
      BY <2>5, <2>6, <3>1
    <3>2. CASE k # m
      <4>1. k \in 0 .. m - 1
        BY <2>3, <3>2
      <4>2. (k \in Opened) = (k \in {messageIndex})
        BY <1>1, <1>2 DEF Opened
      <4>3. s.items[k + 1] = Full(k, Opened)
        BY <2>5, <4>1
      <4>4. QED
        BY <4>2, <4>3 DEF Full
    <3>3. QED
      BY <3>1, <3>2
  <2>8. Agrees(s, n, {messageIndex})
    BY <2>3, <2>5, <2>7 DEF Agrees
  <2>9. Ending(<<DoneMessage, Completed(Final)>>, s)
    BY <2>3, <2>5, <2>8 DEF Ending
  <2>10. QED
    BY <2>1, <2>3, <2>4, <2>5, <2>9
<1>3. CASE /\ q = <<DoneReasoning, DoneMessage, Completed(Final)>>
           /\ messageIndex # None /\ reasoningIndex # None
           /\ Agrees(r, n, Opened)
  <2>1. Head(q) = DoneReasoning /\ Tail(q) = <<DoneMessage, Completed(Final)>>
    BY <1>3
  <2>2. PICK s : s = After(r, Done(reasoningIndex, Item("reasoning", reasoning)))
    OBVIOUS
  <2>3. /\ reasoningIndex \in Opened
        /\ \A k : k \in {messageIndex} <=> k \in Opened /\ k # reasoningIndex
    BY <1>1, <1>3 DEF Opened
  <2>4. /\ Fits(s) /\ s.phase = "created" /\ ClientStep(r, s)
        /\ Agrees(s, n, {messageIndex})
    BY <1>1, <1>3, <2>2, <2>3, OpenItems, CloseOne
  <2>5. Ending(<<DoneMessage, Completed(Final)>>, s)
    BY <1>3, <2>4 DEF Ending
  <2>6. QED
    BY <2>1, <2>2, <2>4, <2>5 DEF DoneReasoning
<1>4. CASE /\ q = <<DoneReasoning, Completed(Final)>>
           /\ messageIndex = None /\ reasoningIndex # None
           /\ Agrees(r, n, Opened)
  <2>1. Head(q) = DoneReasoning /\ Tail(q) = <<Completed(Final)>>
    BY <1>4
  <2>2. PICK s : s = After(r, Done(reasoningIndex, Item("reasoning", reasoning)))
    OBVIOUS
  <2>3. PICK Z : Z = {None}
    OBVIOUS
  <2>4. reasoningIndex \in Opened /\ \A k : k \in Z <=> k \in Opened /\ k # reasoningIndex
    BY <1>4, <2>3 DEF Opened
  <2>5. /\ Fits(s) /\ s.phase = "created" /\ ClientStep(r, s)
        /\ Agrees(s, n, Z)
    BY <1>1, <1>4, <2>2, <2>4, OpenItems, CloseOne
  <2>6. Agrees(s, n, {})
    BY <1>1, <2>3, <2>5, NoneIsNone
  <2>7. Ending(<<Completed(Final)>>, s)
    BY <2>5, <2>6 DEF Ending
  <2>8. QED
    BY <2>1, <2>2, <2>5, <2>7 DEF DoneReasoning
<1>5. CASE /\ q = <<DoneMessage, Completed(Final)>>
           /\ messageIndex # None
           /\ Agrees(r, n, {messageIndex})
  <2>1. Head(q) = DoneMessage /\ Tail(q) = <<Completed(Final)>>
    BY <1>5
  <2>2. PICK s : s = After(r, Done(messageIndex, Item("message", text)))
    OBVIOUS
  <2>3. /\ messageIndex \in {messageIndex}
        /\ \A k : k \in {} <=> k \in {messageIndex} /\ k # messageIndex
    OBVIOUS
  <2>4. /\ Fits(s) /\ s.phase = "created" /\ ClientStep(r, s)
        /\ Agrees(s, n, {})
    BY <1>1, <1>5, <2>2, <2>3, OpenItems, CloseOne
  <2>5. Ending(<<Completed(Final)>>, s)
    BY <2>4 DEF Ending
  <2>6. QED
    BY <2>1, <2>2, <2>4, <2>5 DEF DoneMessage
<1>6. CASE /\ q = <<Completed(Final)>>
           /\ Agrees(r, n, {})
  <2>1. Head(q) = Completed(Final) /\ Tail(q) = <<>>
    BY <1>6
  <2>2. Len(r.items) = n /\ \A k \in 0 .. n - 1 : r.items[k + 1] = Full(k, {})
    BY <1>6 DEF Agrees
  <2>3. ASSUME NEW j \in 1 .. n
        PROVE  /\ r.items[j].type = Kind(j - 1) /\ r.items[j].text = Text(j - 1)
               /\ ~r.items[j].open
    <3>1. j - 1 \in 0 .. n - 1 /\ (j - 1) + 1 = j
      BY <1>1
    <3>2. r.items[j] = Full(j - 1, {})
      BY <2>2, <3>1
    <3>3. PICK k : k = j - 1
      OBVIOUS
    <3>4. Full(k, {}).type = Kind(k) /\ Full(k, {}).text = Text(k) /\ ~Full(k, {}).open
      BY DEF Full
    <3>5. QED
      BY <3>2, <3>3, <3>4
  <2>4. Final = [j \in 1 .. Len(r.items) |-> Item(r.items[j].type, r.items[j].text)]
    BY <2>2, <2>3 DEF Final
  <2>5. PICK s : s = After(r, Completed(Final))
    OBVIOUS
  <2>6. Fits(s) /\ s.phase = "completed" /\ s.items = r.items
    BY <2>4, <2>5, ReadCompleted
  <2>7. r.items # <<>> /\ \A j \in 1 .. Len(r.items) : ~r.items[j].open
    BY <1>1, <2>2, <2>3
  <2>8. ClientStep(r, s)
    BY <1>1, <2>6, <2>7 DEF ClientStep
  <2>9. QED
    BY <2>1, <2>5, <2>6, <2>8
<1>7. QED
  BY <1>2, <1>3, <1>4, <1>5, <1>6 DEF Ending

-----------------------------------------------------------------------------
(* The invariant: what is queued is of one of the forms.                   *)

LEMMA MinusOne == -1 \notin Nat
OBVIOUS

LEMMA InitHolds == Init => IInv
<1> SUFFICES ASSUME Init PROVE IInv
  OBVIOUS
<1>1. GeneratorOK
  BY MinusOne DEF Init, GeneratorOK, Opened, None, Kinds, Deltas, Others
<1>2. Fits(reader)
  BY DEF Init, Fits
<1>3. Waits(queue, reader)
  BY <1>2 DEF Init, Waits
<1>4. QED
  BY <1>1, <1>3 DEF IInv

(* The generator runs again only when all it had queued was taken.         *)
LEMMA RunningIsIdle ==
  ASSUME IInv, Ready("running")
  PROVE  GeneratorOK /\ Fits(reader) /\ Idle(queue, reader)
<1>1. queue = <<>> /\ stage = "running"
  BY DEF Ready
<1>2. ~Opening(queue, reader)
  BY <1>1 DEF Opening
<1>3. ~AddingText(queue, reader)
  BY <1>1 DEF AddingText
<1>4. ~AddingDelta(queue, reader)
  BY <1>1 DEF AddingDelta
<1>5. ~Calling(queue, reader)
  BY <1>1 DEF Calling
<1>6. QED
  BY <1>1, <1>2, <1>3, <1>4, <1>5 DEF IInv, Waits

LEMMA BeginKeeps == ASSUME IInv, Begin PROVE IInv'
<1>1. /\ reader.phase = "new" /\ reader.items = <<>> /\ nextOutputIndex = 0
      /\ GeneratorOK /\ Fits(reader)
  BY DEF IInv, Waits, Begin, Ready
<1>2. GeneratorOK'
  BY <1>1 DEF Begin, Ready, GeneratorOK, streamVars, Opened
<1>3. Fits(reader)' /\ Opening(queue, reader)'
  BY <1>1 DEF Begin, streamVars, Fits, Opening
<1>4. Waits(queue, reader)'
  BY <1>3 DEF Begin, Waits
<1>5. QED
  BY <1>2, <1>4 DEF IInv

LEMMA ThrowKeeps == ASSUME IInv, Throw PROVE IInv'
<1>1. GeneratorOK /\ Fits(reader) /\ Idle(queue, reader)
  BY RunningIsIdle DEF Throw
<1>2. GeneratorOK'
  BY <1>1 DEF Throw, Ready, GeneratorOK, streamVars, Opened
<1>3. Fits(reader)' /\ Idle(queue, reader)'
  BY <1>1 DEF Throw, streamVars, Fits, Idle, Agrees, Full, Kind, Text, Opened
<1>4. Waits(queue, reader)'
  BY <1>3 DEF Throw, Waits
<1>5. QED
  BY <1>2, <1>4 DEF IInv

LEMMA Received ==
  ASSUME IInv, NEW kind \in Kinds, Receive(kind)
  PROVE  /\ GeneratorOK /\ Fits(reader) /\ Idle(queue, reader)
         /\ events' \in Seq(Kinds) /\ Position \in Pieces
         /\ stage = "running" /\ stage' = "running" /\ reader' = reader
         /\ queue = <<>>
<1>1. Ready("running") /\ stage' = stage /\ reader' = reader
  BY DEF Receive
<1>2. GeneratorOK /\ Fits(reader) /\ Idle(queue, reader)
  BY <1>1, RunningIsIdle
<1>3. events \in Seq(Kinds) /\ events' = Append(events, kind) /\ Len(events) < MaxEvents
  BY <1>2 DEF Receive, GeneratorOK
<1>4. events' \in Seq(Kinds)
  BY <1>3, AppendProperties
<1>5. Len(events) \in Nat
  BY <1>3, LenProperties
<1>6. Position \in Pieces
  BY <1>3, <1>5, EventsAssumption DEF Position, Pieces
<1>7. QED
  BY <1>1, <1>2, <1>4, <1>6 DEF Ready

LEMMA OtherEventKeeps ==
  ASSUME IInv, NEW kind \in Others, OtherEvent(kind) PROVE IInv'
<1>1. kind \in Kinds /\ Receive(kind)
  BY DEF Kinds, OtherEvent
<1>2. /\ GeneratorOK /\ Fits(reader) /\ Idle(queue, reader)
      /\ events' \in Seq(Kinds)
      /\ stage = "running" /\ stage' = "running" /\ reader' = reader
  BY <1>1, Received
<1>3. GeneratorOK'
  BY <1>2 DEF OtherEvent, GeneratorOK, streamVars, Opened
<1>4. Fits(reader)' /\ Idle(queue, reader)'
  BY <1>2 DEF OtherEvent, streamVars, Fits, Idle, Agrees, Full, Kind, Text, Opened
<1>5. Waits(queue, reader)'
  BY <1>2, <1>4 DEF Waits
<1>6. QED
  BY <1>3, <1>5 DEF IInv

LEMMA TextDeltaKeeps == ASSUME IInv, TextDelta PROVE IInv'
<1> DEFINE n == nextOutputIndex
<1>1. "text" \in Kinds /\ Receive("text") /\ text' = Append(text, Position)
      /\ reasoning' = reasoning /\ reasoningIndex' = reasoningIndex /\ output' = output
  BY DEF TextDelta, Kinds, Deltas
<1>2. /\ GeneratorOK /\ Fits(reader) /\ Idle(queue, reader)
      /\ events' \in Seq(Kinds) /\ Position \in Pieces
      /\ stage = "running" /\ stage' = "running" /\ reader' = reader
  BY <1>1, Received
<1>3. /\ n \in Nat /\ None = -1 /\ None \notin Nat
      /\ messageIndex \in {None} \cup 0 .. n - 1
      /\ reasoningIndex \in {None} \cup 0 .. n - 1
      /\ messageIndex # None => messageIndex # reasoningIndex
  BY <1>2, MinusOne DEF GeneratorOK, None
<1>4. text' \in Seq(Pieces)
  BY <1>1, <1>2, AppendProperties DEF GeneratorOK
<1>5. Fits(reader)' /\ reader'.phase = "created" /\ Agrees(reader, n, Opened)
  BY <1>2 DEF Fits, Idle
<1>6. CASE messageIndex = None
  <2>1. /\ messageIndex' = n /\ nextOutputIndex' = n + 1
        /\ queue' = <<Added(n, "message"), Delta(n, Position)>>
    BY <1>6 DEF TextDelta
  <2>2. Opened' = {n, reasoningIndex} /\ Opened = {None, reasoningIndex}
    BY <1>1, <1>6, <2>1 DEF Opened
  <2>3. (0 .. nextOutputIndex' - 1) \ Opened' = (0 .. n - 1) \ Opened
    BY <1>3, <2>1, <2>2
  <2>4. GeneratorOK'
    <3>1. DOMAIN output' = (0 .. nextOutputIndex' - 1) \ Opened'
      BY <1>1, <1>2, <2>3 DEF GeneratorOK
    <3>2. \A j \in (0 .. nextOutputIndex' - 1) \ Opened' :
            /\ output'[j] = Item("function_call", output'[j].text)
            /\ output'[j].text \in Seq(Pieces)
      BY <1>1, <1>2, <2>3 DEF GeneratorOK
    <3>3. /\ messageIndex' \in {None} \cup 0 .. nextOutputIndex' - 1
          /\ reasoningIndex' \in {None} \cup 0 .. nextOutputIndex' - 1
          /\ messageIndex' # None => messageIndex' # reasoningIndex'
          /\ nextOutputIndex' \in Nat
          /\ messageIndex' # None
      BY <1>1, <1>3, <2>1
    <3>4. /\ text' \in Seq(Pieces) /\ reasoning' \in Seq(Pieces)
          /\ messageIndex' = None => text' = <<>>
          /\ reasoningIndex' = None => reasoning' = <<>>
      BY <1>1, <1>2, <1>4, <3>3 DEF GeneratorOK
    <3>5. QED
      BY <1>2, <3>1, <3>2, <3>3, <3>4 DEF GeneratorOK
  <2>5. ASSUME NEW k \in 0 .. n - 1 PROVE Full(k, Opened)' = Full(k, Opened)
    <3>1. (k = reasoningIndex)' = (k = reasoningIndex) /\ (k = messageIndex)' = (k = messageIndex)
      BY <1>1, <1>3, <1>6, <2>1
    <3>2. k # messageIndex
      BY <1>3, <1>6
    <3>3. Kind(k)' = Kind(k) /\ Text(k)' = Text(k)
      BY <1>1, <3>1, <3>2 DEF Kind, Text
    <3>4. (k \in Opened)' = (k \in Opened)
      BY <3>1, <2>2, <1>3
    <3>5. QED
      BY <3>3, <3>4 DEF Full
  <2>6. Agrees(reader, nextOutputIndex - 1, Opened)'
    BY <1>2, <1>3, <1>5, <2>1, <2>5 DEF Agrees
  <2>7. PICK m, p : m = n /\ p = Position
    OBVIOUS
  <2>8. Kind(m)' = "message" /\ Text(m)' = <<p>>
    <3>1. text = <<>>
      BY <1>2, <1>6 DEF GeneratorOK
    <3>2. text' = <<p>>
      BY <1>1, <2>7, <3>1
    <3>3. m # reasoningIndex' /\ m = messageIndex'
      BY <1>1, <1>3, <2>1, <2>7
    <3>4. QED
      BY <3>2, <3>3 DEF Kind, Text
  <2>9. /\ m \in Opened' /\ p \in Pieces /\ "message" \in Types
        /\ m = nextOutputIndex' - 1 /\ m # None
        /\ queue' = <<Added(m, "message"), Delta(m, p)>>
    BY <1>2, <1>3, <2>1, <2>2, <2>7 DEF Types
  <2>10. AddingText(queue, reader)'
    BY <1>5, <2>6, <2>8, <2>9 DEF AddingText
  <2>11. Waits(queue, reader)'
    BY <1>2, <1>5, <2>10 DEF Waits
  <2>12. QED
    BY <2>4, <2>11 DEF IInv
<1>7. CASE messageIndex # None
  <2>1. /\ messageIndex' = messageIndex /\ nextOutputIndex' = n
        /\ queue' = <<Delta(messageIndex, Position)>>
    BY <1>7 DEF TextDelta
  <2>2. Opened' = Opened
    BY <1>1, <2>1 DEF Opened
  <2>3. GeneratorOK'
    BY <1>1, <1>2, <1>4, <1>7, <2>1, <2>2 DEF GeneratorOK
  <2>4. PICK i, p, t : i = messageIndex /\ p = Position /\ t = text
    OBVIOUS
  <2>5. ASSUME NEW k \in 0 .. n - 1, k # i PROVE Full(k, Opened)' = Full(k, Opened)
    <3>1. Kind(k)' = Kind(k) /\ Text(k)' = Text(k)
      BY <1>1, <2>1, <2>4, <2>5 DEF Kind, Text
    <3>2. QED
      BY <2>2, <3>1 DEF Full
  <2>6. Kind(i)' = Kind(i) /\ Text(i) = t /\ Text(i)' = Append(t, p)
    BY <1>1, <1>3, <1>7, <2>1, <2>4 DEF Kind, Text
  <2>7. i \in Opened /\ i \in 0 .. n - 1 /\ i # None
    BY <1>3, <1>7, <2>4 DEF Opened
  <2>8. reader.items[i + 1] = Partial(i, t)'
    <3>1. reader.items[i + 1] = Full(i, Opened)
      BY <1>5, <2>7 DEF Agrees
    <3>2. Full(i, Opened) = Partial(i, t)
      BY <2>6, <2>7, OpenedIsPartial
    <3>3. Partial(i, t)' = Partial(i, t)
      BY <2>6 DEF Partial
    <3>4. QED
      BY <3>1, <3>2, <3>3
  <2>9. AgreesBut(reader, nextOutputIndex, i, Partial(i, t))'
    <3>1. ASSUME NEW k \in 0 .. n - 1
          PROVE  reader.items[k + 1] = IF k = i THEN Partial(i, t)' ELSE Full(k, Opened)'
      <4>1. CASE k = i
        BY <2>8, <4>1
      <4>2. CASE k # i
        BY <1>5, <2>5, <4>2 DEF Agrees
      <4>3. QED
        BY <4>1, <4>2
    <3>2. QED
      BY <1>2, <1>5, <2>1, <3>1 DEF AgreesBut, Agrees
  <2>10. /\ i \in Opened' /\ p \in Pieces /\ t \in Seq(Pieces)
         /\ queue' = <<Delta(i, p)>>
    BY <1>2, <2>1, <2>2, <2>4, <2>7 DEF GeneratorOK
  <2>11. AddingDelta(queue, reader)'
    BY <1>5, <2>6, <2>7, <2>9, <2>10 DEF AddingDelta
  <2>12. Waits(queue, reader)'
    BY <1>2, <1>5, <2>11 DEF Waits
  <2>13. QED
    BY <2>3, <2>12 DEF IInv
<1>8. QED
  BY <1>6, <1>7

LEMMA ReasoningDeltaKeeps == ASSUME IInv, ReasoningDelta PROVE IInv'
<1> DEFINE n == nextOutputIndex
<1>1. "reasoning" \in Kinds /\ Receive("reasoning") /\ reasoning' = Append(reasoning, Position)
      /\ text' = text /\ messageIndex' = messageIndex /\ output' = output
  BY DEF ReasoningDelta, Kinds, Deltas
<1>2. /\ GeneratorOK /\ Fits(reader) /\ Idle(queue, reader)
      /\ events' \in Seq(Kinds) /\ Position \in Pieces
      /\ stage = "running" /\ stage' = "running" /\ reader' = reader
  BY <1>1, Received
<1>3. /\ n \in Nat /\ None = -1 /\ None \notin Nat
      /\ reasoningIndex \in {None} \cup 0 .. n - 1
      /\ messageIndex \in {None} \cup 0 .. n - 1
      /\ messageIndex # None => messageIndex # reasoningIndex
  BY <1>2, MinusOne DEF GeneratorOK, None
<1>4. reasoning' \in Seq(Pieces)
  BY <1>1, <1>2, AppendProperties DEF GeneratorOK
<1>5. Fits(reader)' /\ reader'.phase = "created" /\ Agrees(reader, n, Opened)
  BY <1>2 DEF Fits, Idle
<1>6. CASE reasoningIndex = None
  <2>1. /\ reasoningIndex' = n /\ nextOutputIndex' = n + 1
        /\ queue' = <<Added(n, "reasoning"), Delta(n, Position)>>
    BY <1>6 DEF ReasoningDelta
  <2>2. Opened' = {n, messageIndex} /\ Opened = {None, messageIndex}
    BY <1>1, <1>6, <2>1 DEF Opened
  <2>3. (0 .. nextOutputIndex' - 1) \ Opened' = (0 .. n - 1) \ Opened
    BY <1>3, <2>1, <2>2
  <2>4. GeneratorOK'
    <3>1. DOMAIN output' = (0 .. nextOutputIndex' - 1) \ Opened'
      BY <1>1, <1>2, <2>3 DEF GeneratorOK
    <3>2. \A j \in (0 .. nextOutputIndex' - 1) \ Opened' :
            /\ output'[j] = Item("function_call", output'[j].text)
            /\ output'[j].text \in Seq(Pieces)
      BY <1>1, <1>2, <2>3 DEF GeneratorOK
    <3>3. /\ reasoningIndex' \in {None} \cup 0 .. nextOutputIndex' - 1
          /\ messageIndex' \in {None} \cup 0 .. nextOutputIndex' - 1
          /\ messageIndex' # None => messageIndex' # reasoningIndex'
          /\ nextOutputIndex' \in Nat
          /\ reasoningIndex' # None
      BY <1>1, <1>3, <2>1
    <3>4. /\ reasoning' \in Seq(Pieces) /\ text' \in Seq(Pieces)
          /\ reasoningIndex' = None => reasoning' = <<>>
          /\ messageIndex' = None => text' = <<>>
      BY <1>1, <1>2, <1>4, <3>3 DEF GeneratorOK
    <3>5. QED
      BY <1>2, <3>1, <3>2, <3>3, <3>4 DEF GeneratorOK
  <2>5. ASSUME NEW k \in 0 .. n - 1 PROVE Full(k, Opened)' = Full(k, Opened)
    <3>1. (k = messageIndex)' = (k = messageIndex) /\ (k = reasoningIndex)' = (k = reasoningIndex)
      BY <1>1, <1>3, <1>6, <2>1
    <3>2. k # reasoningIndex
      BY <1>3, <1>6
    <3>3. Kind(k)' = Kind(k) /\ Text(k)' = Text(k)
      BY <1>1, <3>1, <3>2 DEF Kind, Text
    <3>4. (k \in Opened)' = (k \in Opened)
      BY <3>1, <2>2, <1>3
    <3>5. QED
      BY <3>3, <3>4 DEF Full
  <2>6. Agrees(reader, nextOutputIndex - 1, Opened)'
    BY <1>2, <1>3, <1>5, <2>1, <2>5 DEF Agrees
  <2>7. PICK m, p : m = n /\ p = Position
    OBVIOUS
  <2>8. Kind(m)' = "reasoning" /\ Text(m)' = <<p>>
    <3>1. reasoning = <<>>
      BY <1>2, <1>6 DEF GeneratorOK
    <3>2. reasoning' = <<p>>
      BY <1>1, <2>7, <3>1
    <3>3. m # messageIndex' /\ m = reasoningIndex'
      BY <1>1, <1>3, <2>1, <2>7
    <3>4. QED
      BY <3>2, <3>3 DEF Kind, Text
  <2>9. /\ m \in Opened' /\ p \in Pieces /\ "reasoning" \in Types
        /\ m = nextOutputIndex' - 1 /\ m # None
        /\ queue' = <<Added(m, "reasoning"), Delta(m, p)>>
    BY <1>2, <1>3, <2>1, <2>2, <2>7 DEF Types
  <2>10. AddingText(queue, reader)'
    BY <1>5, <2>6, <2>8, <2>9 DEF AddingText
  <2>11. Waits(queue, reader)'
    BY <1>2, <1>5, <2>10 DEF Waits
  <2>12. QED
    BY <2>4, <2>11 DEF IInv
<1>7. CASE reasoningIndex # None
  <2>1. /\ reasoningIndex' = reasoningIndex /\ nextOutputIndex' = n
        /\ queue' = <<Delta(reasoningIndex, Position)>>
    BY <1>7 DEF ReasoningDelta
  <2>2. Opened' = Opened
    BY <1>1, <2>1 DEF Opened
  <2>3. GeneratorOK'
    BY <1>1, <1>2, <1>4, <1>7, <2>1, <2>2 DEF GeneratorOK
  <2>4. PICK i, p, t : i = reasoningIndex /\ p = Position /\ t = reasoning
    OBVIOUS
  <2>5. ASSUME NEW k \in 0 .. n - 1, k # i PROVE Full(k, Opened)' = Full(k, Opened)
    <3>1. Kind(k)' = Kind(k) /\ Text(k)' = Text(k)
      BY <1>1, <2>1, <2>4, <2>5 DEF Kind, Text
    <3>2. QED
      BY <2>2, <3>1 DEF Full
  <2>6. Kind(i)' = Kind(i) /\ Text(i) = t /\ Text(i)' = Append(t, p)
    BY <1>1, <1>3, <1>7, <2>1, <2>4 DEF Kind, Text
  <2>7. i \in Opened /\ i \in 0 .. n - 1 /\ i # None
    BY <1>3, <1>7, <2>4 DEF Opened
  <2>8. reader.items[i + 1] = Partial(i, t)'
    <3>1. reader.items[i + 1] = Full(i, Opened)
      BY <1>5, <2>7 DEF Agrees
    <3>2. Full(i, Opened) = Partial(i, t)
      BY <2>6, <2>7, OpenedIsPartial
    <3>3. Partial(i, t)' = Partial(i, t)
      BY <2>6 DEF Partial
    <3>4. QED
      BY <3>1, <3>2, <3>3
  <2>9. AgreesBut(reader, nextOutputIndex, i, Partial(i, t))'
    <3>1. ASSUME NEW k \in 0 .. n - 1
          PROVE  reader.items[k + 1] = IF k = i THEN Partial(i, t)' ELSE Full(k, Opened)'
      <4>1. CASE k = i
        BY <2>8, <4>1
      <4>2. CASE k # i
        BY <1>5, <2>5, <4>2 DEF Agrees
      <4>3. QED
        BY <4>1, <4>2
    <3>2. QED
      BY <1>2, <1>5, <2>1, <3>1 DEF AgreesBut, Agrees
  <2>10. /\ i \in Opened' /\ p \in Pieces /\ t \in Seq(Pieces)
         /\ queue' = <<Delta(i, p)>>
    BY <1>2, <2>1, <2>2, <2>4, <2>7 DEF GeneratorOK
  <2>11. AddingDelta(queue, reader)'
    BY <1>5, <2>6, <2>7, <2>9, <2>10 DEF AddingDelta
  <2>12. Waits(queue, reader)'
    BY <1>2, <1>5, <2>11 DEF Waits
  <2>13. QED
    BY <2>3, <2>12 DEF IInv
<1>8. QED
  BY <1>6, <1>7

LEMMA ToolCallKeeps == ASSUME IInv, ToolCall PROVE IInv'
<1> DEFINE n == nextOutputIndex
<1>1. PICK m, p, t, item : /\ m = n /\ p = Position /\ t = <<p>>
                           /\ item = Item("function_call", t)
  OBVIOUS
<1>2. /\ "tool-call" \in Kinds /\ Receive("tool-call")
      /\ nextOutputIndex' = n + 1 /\ output' = SetItem(output, m, item)
      /\ queue' = <<Added(m, "function_call"), Delta(m, p), Done(m, item)>>
      /\ text' = text /\ reasoning' = reasoning
      /\ messageIndex' = messageIndex /\ reasoningIndex' = reasoningIndex
  BY <1>1 DEF ToolCall, Kinds, Deltas
<1>3. /\ GeneratorOK /\ Fits(reader) /\ Idle(queue, reader)
      /\ events' \in Seq(Kinds) /\ p \in Pieces
      /\ stage = "running" /\ stage' = "running" /\ reader' = reader
  BY <1>1, <1>2, Received
<1>4. /\ n \in Nat /\ None = -1 /\ None \notin Nat /\ m \in Nat
      /\ messageIndex \in {None} \cup 0 .. n - 1
      /\ reasoningIndex \in {None} \cup 0 .. n - 1
      /\ DOMAIN output = (0 .. n - 1) \ Opened
  BY <1>1, <1>3, MinusOne DEF GeneratorOK, None
<1>5. Fits(reader)' /\ reader'.phase = "created" /\ Agrees(reader, n, Opened)
  BY <1>3 DEF Fits, Idle
<1>6. Opened' = Opened /\ m \notin Opened
  BY <1>1, <1>2, <1>4 DEF Opened
<1>7. /\ DOMAIN output' = DOMAIN output \cup {m}
      /\ output'[m] = item
      /\ \A j \in DOMAIN output : output'[j] = output[j]
  BY <1>1, <1>2, <1>4 DEF SetItem
<1>8. item.text = t /\ t \in Seq(Pieces)
  <2>1. item.text = t
    <3>1. item = Item("function_call", t)
      BY <1>1
    <3>2. QED
      BY <3>1 DEF Item
  <2>2. t = <<p>> /\ p \in Pieces
    BY <1>1, <1>3
  <2>3. t \in Seq(Pieces)
    BY <2>2
  <2>4. QED
    BY <2>1, <2>3
<1>9. GeneratorOK'
  <2>1. DOMAIN output' = (0 .. nextOutputIndex' - 1) \ Opened'
    <3>1. 0 .. nextOutputIndex' - 1 = (0 .. n - 1) \cup {m}
      BY <1>1, <1>2, <1>4
    <3>2. DOMAIN output' = ((0 .. n - 1) \ Opened) \cup {m}
      BY <1>4, <1>7
    <3>3. QED
      BY <1>6, <3>1, <3>2, Zenon
  <2>2. ASSUME NEW j \in (0 .. nextOutputIndex' - 1) \ Opened'
        PROVE  /\ output'[j] = Item("function_call", output'[j].text)
               /\ output'[j].text \in Seq(Pieces)
    <3>1. CASE j = m
      BY <1>1, <1>7, <1>8, <3>1
    <3>2. CASE j # m
      <4>1. j \in (0 .. n - 1) \ Opened
        BY <1>1, <1>2, <1>4, <1>6, <3>2
      <4>2. output'[j] = output[j]
        BY <1>4, <1>7, <4>1
      <4>3. QED
        BY <1>3, <4>1, <4>2 DEF GeneratorOK
    <3>3. QED
      BY <3>1, <3>2
  <2>3. /\ messageIndex' \in {None} \cup 0 .. nextOutputIndex' - 1
        /\ reasoningIndex' \in {None} \cup 0 .. nextOutputIndex' - 1
        /\ nextOutputIndex' \in Nat
    BY <1>2, <1>4
  <2>4. QED
    BY <1>2, <1>3, <2>1, <2>2, <2>3 DEF GeneratorOK
<1>10. ASSUME NEW k \in 0 .. n - 1 PROVE Full(k, Opened)' = Full(k, Opened)
  <2>1. Kind(k)' = Kind(k)
    BY <1>2 DEF Kind
  <2>2. Text(k)' = Text(k)
    <3>1. CASE k \in Opened
      BY <1>2, <3>1 DEF Text, Opened
    <3>2. CASE k \notin Opened
      BY <1>2, <1>4, <1>7, <3>2 DEF Text, Opened
    <3>3. QED
      BY <3>1, <3>2
  <2>3. QED
    BY <1>6, <2>1, <2>2 DEF Full
<1>11. Agrees(reader, nextOutputIndex - 1, Opened)'
  BY <1>2, <1>3, <1>4, <1>5, <1>10 DEF Agrees
<1>12. Kind(m)' = "function_call" /\ Text(m)' = t
  BY <1>6, <1>7, <1>8 DEF Kind, Text, Opened
<1>13. Calling(queue, reader)'
  <2>1. m \in 0 .. nextOutputIndex' - 1 /\ m = nextOutputIndex' - 1 /\ m \notin Opened'
    BY <1>1, <1>2, <1>4, <1>6
  <2>2. queue' = <<Added(m, "function_call"), Delta(m, p), Done(m, Item("function_call", <<p>>))>>
    BY <1>1, <1>2
  <2>3. QED
    BY <1>1, <1>3, <1>5, <1>11, <1>12, <2>1, <2>2 DEF Calling
<1>14. Waits(queue, reader)'
  BY <1>3, <1>5, <1>13 DEF Waits
<1>15. QED
  BY <1>9, <1>14 DEF IInv

-----------------------------------------------------------------------------
(* The array of the closed items, once none of its indexes is missing.     *)

LEMMA MaxUpTo == ASSUME NEW m \in Nat, m > 0 PROVE Max(0 .. m - 1) = m - 1
<1>1. \A y \in 0 .. m - 1 : m - 1 >= y
  OBVIOUS
<1>2. \A x \in 0 .. m - 1 : (\A y \in 0 .. m - 1 : x >= y) => x = m - 1
  OBVIOUS
<1>3. m - 1 \in 0 .. m - 1
  OBVIOUS
<1>4. QED
  BY <1>1, <1>2, <1>3 DEF Max

LEMMA ListWithoutHoles ==
  ASSUME NEW m \in Nat, m > 0, NEW o, DOMAIN o = 0 .. m - 1
  PROVE  AsList(o) = [j \in 1 .. m |-> o[j - 1]] /\ AsList(o) # <<>>
<1>1. DOMAIN o # {} /\ Max(DOMAIN o) + 1 = m
  <2>1. Max(0 .. m - 1) + 1 = m
    BY MaxUpTo
  <2>2. 0 \in DOMAIN o
    OBVIOUS
  <2>3. QED
    BY <2>1, <2>2
<1>2. AsList(o) = [j \in 1 .. m |-> IF j - 1 \in DOMAIN o THEN o[j - 1] ELSE Hole]
  BY <1>1 DEF AsList
<1>3. \A j \in 1 .. m : j - 1 \in DOMAIN o
  OBVIOUS
<1>4. AsList(o) = [j \in 1 .. m |-> o[j - 1]]
  BY <1>2, <1>3
<1>5. 1 \in DOMAIN AsList(o)
  BY <1>4
<1>6. QED
  BY <1>4, <1>5

(* The queue of the end is put together of parts that may be empty.        *)
LEMMA Pair ==
  ASSUME NEW a, NEW b
  PROVE  <<a>> \o <<b>> = <<a, b>>
<1>1. PICK S, s, t : S = {a, b} /\ s = <<a>> /\ t = <<b>>
  OBVIOUS
<1>2. s \in Seq(S) /\ t \in Seq(S) /\ Len(s) = 1 /\ Len(t) = 1
  BY <1>1
<1>3. PICK u : u = s \o t
  OBVIOUS
<1>4. u \in Seq(S) /\ Len(u) = 2 /\ u[1] = s[1] /\ u[2] = t[1]
  BY <1>2, <1>3, ConcatProperties
<1>5. u = <<a, b>>
  BY <1>1, <1>4
<1>6. QED
  BY <1>1, <1>3, <1>5

LEMMA Triple ==
  ASSUME NEW a, NEW b, NEW c
  PROVE  <<a, b>> \o <<c>> = <<a, b, c>>
<1>1. PICK S, s : S = {a, b, c} /\ s = <<a, b>>
  OBVIOUS
<1>2. s \in Seq(S) /\ c \in S
  BY <1>1
<1>3. s \o <<c>> = Append(s, c)
  BY <1>2, AppendIsConcat
<1>4. Append(s, c) = <<a, b, c>>
  <2>1. PICK u : u = Append(s, c)
    OBVIOUS
  <2>2. u \in Seq(S) /\ Len(u) = 3
    BY <1>1, <1>2, <2>1, AppendProperties
  <2>3. u[1] = a /\ u[2] = b
    BY <1>1, <1>2, <2>1, AppendProperties
  <2>4. u[3] = c
    BY <1>1, <1>2, <2>1, AppendProperties
  <2>5. PICK v : v = <<a, b, c>>
    OBVIOUS
  <2>6. v \in Seq(S) /\ Len(v) = 3 /\ v[1] = a /\ v[2] = b /\ v[3] = c
    BY <1>1, <2>5
  <2>7. \A i \in 1 .. 3 : i = 1 \/ i = 2 \/ i = 3
    OBVIOUS
  <2>8. \A i \in 1 .. Len(u) : u[i] = v[i]
    BY <2>2, <2>3, <2>4, <2>6, <2>7
  <2>9. u = v
    BY <2>2, <2>6, <2>8, SeqEqual
  <2>10. QED
    BY <2>1, <2>5, <2>9
<1>5. QED
  BY <1>1, <1>3, <1>4

LEMMA Nothing ==
  ASSUME NEW a
  PROVE  <<>> \o <<a>> = <<a>> /\ <<a>> \o <<>> = <<a>> /\ <<>> \o <<>> = <<>>
<1>1. PICK S, s : S = {a} /\ s = <<a>>
  OBVIOUS
<1>2. <<>> \o s = s /\ s \o <<>> = s
  BY <1>1, ConcatEmptySeq
<1>3. <<>> \o <<>> = <<>>
  BY <1>1, ConcatEmptySeq
<1>4. QED
  BY <1>1, <1>2, <1>3

LEMMA Queues ==
  ASSUME NEW a, NEW b, NEW c
  PROVE  /\ <<>> \o <<>> \o <<>> \o <<c>> = <<c>>
         /\ <<a>> \o <<>> \o <<>> \o <<c>> = <<a, c>>
         /\ <<>> \o <<>> \o <<b>> \o <<c>> = <<b, c>>
         /\ <<a>> \o <<>> \o <<b>> \o <<c>> = <<a, b, c>>
         /\ <<>> \o <<a>> \o <<b>> \o <<c>> = <<a, b, c>>
<1>1. /\ <<>> \o <<>> = <<>> /\ <<>> \o <<c>> = <<c>> /\ <<>> \o <<b>> = <<b>>
      /\ <<>> \o <<a>> = <<a>> /\ <<a>> \o <<>> = <<a>>
  BY Nothing
<1>2. /\ <<a>> \o <<c>> = <<a, c>> /\ <<b>> \o <<c>> = <<b, c>>
      /\ <<a>> \o <<b>> = <<a, b>> /\ <<a, b>> \o <<c>> = <<a, b, c>>
  BY Pair, Triple
<1>3. <<>> \o <<>> \o <<>> \o <<c>> = <<c>>
  BY <1>1, Zenon
<1>4. <<a>> \o <<>> \o <<>> \o <<c>> = <<a, c>>
  BY <1>1, <1>2, Zenon
<1>5. <<>> \o <<>> \o <<b>> \o <<c>> = <<b, c>>
  BY <1>1, <1>2, Zenon
<1>6. <<a>> \o <<>> \o <<b>> \o <<c>> = <<a, b, c>>
  BY <1>1, <1>2, Zenon
<1>7. <<>> \o <<a>> \o <<b>> \o <<c>> = <<a, b, c>>
  BY <1>1, <1>2, Zenon
<1>8. QED
  BY <1>3, <1>4, <1>5, <1>6, <1>7

LEMMA ClosedReasoning ==
  ASSUME GeneratorOK, stage # "ended", NEW thought, NEW out,
         out = IF reasoningIndex = None THEN output
               ELSE SetItem(output, reasoningIndex, thought)
  PROVE  /\ DOMAIN out = (0 .. nextOutputIndex - 1) \ {messageIndex}
         /\ reasoningIndex # None => out[reasoningIndex] = thought
         /\ \A j \in DOMAIN out :
              j # reasoningIndex =>
                j \in (0 .. nextOutputIndex - 1) \ Opened /\ out[j] = output[j]
         /\ (messageIndex = None /\ AsList(out) = <<>>) <=> nextOutputIndex = 0
<1> DEFINE n == nextOutputIndex
<1>2. /\ n \in Nat /\ None = -1 /\ None \notin Nat
      /\ messageIndex \in {None} \cup 0 .. n - 1
      /\ reasoningIndex \in {None} \cup 0 .. n - 1
      /\ messageIndex # None => messageIndex # reasoningIndex
      /\ DOMAIN output = (0 .. n - 1) \ Opened
  BY MinusOne DEF GeneratorOK, None
<1>6. /\ DOMAIN out = (0 .. n - 1) \ {messageIndex}
      /\ reasoningIndex # None => out[reasoningIndex] = thought
      /\ \A j \in DOMAIN out :
           j # reasoningIndex => j \in (0 .. n - 1) \ Opened /\ out[j] = output[j]
  <2>1. CASE reasoningIndex = None
    BY <1>2, <2>1 DEF Opened
  <2>2. CASE reasoningIndex # None
    <3>1. out = SetItem(output, reasoningIndex, thought)
      BY <2>2
    <3>2. /\ DOMAIN out = DOMAIN output \cup {reasoningIndex}
          /\ out[reasoningIndex] = thought
          /\ \A j \in DOMAIN out : j # reasoningIndex => out[j] = output[j]
      BY <3>1 DEF SetItem
    <3>3. QED
      BY <1>2, <2>2, <3>2 DEF Opened
  <2>3. QED
    BY <2>1, <2>2
<1>8. messageIndex # None => n > 0
  BY <1>2
<1>9. (messageIndex = None /\ AsList(out) = <<>>) <=> n = 0
  <2>1. CASE messageIndex # None
    BY <1>8, <2>1
  <2>2. CASE messageIndex = None /\ n = 0
    <3>1. DOMAIN out = {}
      BY <1>2, <1>6, <2>2
    <3>2. AsList(out) = <<>>
      BY <3>1 DEF AsList
    <3>3. QED
      BY <2>2, <3>2
  <2>3. CASE messageIndex = None /\ n > 0
    <3>1. DOMAIN out = 0 .. n - 1
      <4>1. DOMAIN out = (0 .. n - 1) \ {None} /\ None \notin 0 .. n - 1
        BY <1>2, <1>6, <2>3
      <4>2. QED
        BY <4>1, Zenon
    <3>2. AsList(out) # <<>>
      BY <1>2, <2>3, <3>1, ListWithoutHoles
    <3>3. QED
      BY <2>3, <3>2
  <2>4. QED
    BY <1>2, <2>1, <2>2, <2>3
<1>10. QED
  BY <1>6, <1>9

LEMMA FinishKeeps == ASSUME IInv, Finish PROVE IInv'
<1> DEFINE n == nextOutputIndex
<1>1. /\ GeneratorOK /\ Fits(reader) /\ Idle(queue, reader)
      /\ stage' = "ended" /\ reader' = reader /\ events' = events
      /\ text' = text /\ reasoning' = reasoning /\ reasoningIndex' = reasoningIndex
  BY RunningIsIdle DEF Finish
<1>2. /\ n \in Nat /\ None = -1 /\ None \notin Nat
      /\ messageIndex \in {None} \cup 0 .. n - 1
      /\ reasoningIndex \in {None} \cup 0 .. n - 1
      /\ messageIndex # None => messageIndex # reasoningIndex
      /\ DOMAIN output = (0 .. n - 1) \ Opened
  <2>1. stage # "ended"
    BY DEF Finish, Ready
  <2>2. QED
    BY <1>1, <2>1, MinusOne DEF GeneratorOK, None
<1>3. Fits(reader)' /\ reader'.phase = "created" /\ Agrees(reader, n, Opened)
  BY <1>1 DEF Fits, Idle
<1>4. PICK thought, said : thought = Item("reasoning", reasoning) /\ said = Item("message", text)
  OBVIOUS
<1>5. PICK out : out = IF reasoningIndex = None THEN output
                       ELSE SetItem(output, reasoningIndex, thought)
  OBVIOUS
<1>a. stage # "ended"
  BY DEF Finish, Ready
<1>6. /\ DOMAIN out = (0 .. n - 1) \ {messageIndex}
      /\ reasoningIndex # None => out[reasoningIndex] = thought
      /\ \A j \in DOMAIN out :
           j # reasoningIndex => j \in (0 .. n - 1) \ Opened /\ out[j] = output[j]
  BY <1>1, <1>4, <1>5, <1>a, ClosedReasoning
<1>7. /\ messageIndex' = IF messageIndex = None /\ AsList(out) = <<>> THEN n ELSE messageIndex
      /\ nextOutputIndex' = IF messageIndex = None /\ AsList(out) = <<>> THEN n + 1 ELSE n
      /\ output' = IF messageIndex' = None THEN out ELSE SetItem(out, messageIndex', said)
      /\ queue' =
           (IF reasoningIndex = None THEN <<>> ELSE <<Done(reasoningIndex, thought)>>)
           \o (IF messageIndex = None /\ AsList(out) = <<>>
                 THEN <<Added(messageIndex', "message")>> ELSE <<>>)
           \o (IF messageIndex' = None THEN <<>> ELSE <<Done(messageIndex', said)>>)
           \o <<Completed(AsList(output'))>>
  BY <1>4, <1>5 DEF Finish
<1>8. messageIndex # None => n > 0
  BY <1>2
<1>9. (messageIndex = None /\ AsList(out) = <<>>) <=> n = 0
  BY <1>1, <1>4, <1>5, <1>a, ClosedReasoning
<1>10. /\ n = 0 => messageIndex' = 0 /\ nextOutputIndex' = 1
       /\ n # 0 => messageIndex' = messageIndex /\ nextOutputIndex' = n
  BY <1>7, <1>9
(* Every index has its item, and it is the one the client was told of.     *)
<1>11. /\ nextOutputIndex' \in Nat /\ nextOutputIndex' > 0
       /\ messageIndex' \in {None} \cup 0 .. nextOutputIndex' - 1
       /\ messageIndex' # None => messageIndex' # reasoningIndex
       /\ reasoningIndex \in {None} \cup 0 .. nextOutputIndex' - 1
       /\ DOMAIN output' = 0 .. nextOutputIndex' - 1
       /\ \A j \in 0 .. nextOutputIndex' - 1 :
            /\ j = messageIndex' => output'[j] = said
            /\ j # messageIndex' => j \in DOMAIN out /\ output'[j] = out[j]
  <2>1. CASE messageIndex' = None
    <3>1. n # 0 /\ n > 0 /\ messageIndex = None /\ nextOutputIndex' = n
      BY <1>2, <1>10, <2>1
    <3>2. output' = out
      BY <1>7, <2>1
    <3>3. DOMAIN out = 0 .. n - 1
      BY <1>2, <1>6, <3>1
    <3>4. QED
      BY <1>2, <2>1, <3>1, <3>2, <3>3
  <2>2. CASE messageIndex' # None
    <3>1. output' = SetItem(out, messageIndex', said)
      BY <1>7, <2>2
    <3>2. /\ DOMAIN output' = DOMAIN out \cup {messageIndex'}
          /\ output'[messageIndex'] = said
          /\ \A j \in DOMAIN out : j # messageIndex' => output'[j] = out[j]
      BY <3>1 DEF SetItem
    <3>3. CASE n = 0
      <4>1. messageIndex' = 0 /\ nextOutputIndex' = 1 /\ DOMAIN out = {} /\ reasoningIndex = None
        BY <1>2, <1>6, <1>10, <3>3
      <4>2. QED
        BY <1>2, <3>2, <4>1
    <3>4. CASE n # 0
      <4>1. messageIndex' = messageIndex /\ nextOutputIndex' = n /\ n > 0
        BY <1>2, <1>10, <3>4
      <4>2. QED
        BY <1>2, <1>6, <2>2, <3>2, <4>1
    <3>5. QED
      BY <3>3, <3>4
  <2>3. QED
    BY <2>1, <2>2
<1>12. ASSUME NEW j \in (0 .. nextOutputIndex' - 1) \ Opened'
       PROVE  /\ output'[j] = Item("function_call", output'[j].text)
              /\ output'[j].text \in Seq(Pieces)
  <2>1. j # messageIndex' /\ j # reasoningIndex
    BY <1>1 DEF Opened
  <2>2. j \in (0 .. n - 1) \ Opened /\ output'[j] = output[j]
    BY <1>6, <1>11, <2>1
  <2>3. QED
    BY <1>1, <2>2 DEF GeneratorOK
<1>13. GeneratorOK'
  <2>1. messageIndex' = None => text' = <<>>
    BY <1>1, <1>2, <1>10 DEF GeneratorOK
  <2>2. QED
    BY <1>1, <1>11, <1>12, <2>1 DEF GeneratorOK
<1>14. ASSUME NEW j \in 0 .. nextOutputIndex' - 1
       PROVE  output'[j] = Item(Kind(j)', Text(j)')
  <2>1. CASE j = messageIndex'
    <3>1. Kind(j)' = "message" /\ Text(j)' = text
      BY <1>1, <1>2, <1>11, <2>1 DEF Kind, Text
    <3>2. QED
      BY <1>4, <1>11, <2>1, <3>1
  <2>2. CASE j # messageIndex' /\ j = reasoningIndex
    <3>1. Kind(j)' = "reasoning" /\ Text(j)' = reasoning
      BY <1>1, <2>2 DEF Kind, Text
    <3>2. reasoningIndex # None
      BY <1>2, <1>11, <2>2
    <3>3. output'[j] = thought
      BY <1>6, <1>11, <2>2, <3>2
    <3>4. QED
      BY <1>4, <3>1, <3>3
  <2>3. CASE j # messageIndex' /\ j # reasoningIndex
    <3>1. Kind(j)' = "function_call" /\ Text(j)' = output'[j].text
      BY <1>1, <2>3 DEF Kind, Text
    <3>2. j \in (0 .. nextOutputIndex' - 1) \ Opened'
      BY <1>1, <2>3 DEF Opened
    <3>3. QED
      BY <1>12, <3>1, <3>2
  <2>4. QED
    BY <2>1, <2>2, <2>3
<1>15. AsList(output') = Final'
  <2>1. AsList(output') = [j \in 1 .. nextOutputIndex' |-> output'[j - 1]]
    BY <1>11, ListWithoutHoles
  <2>4. PICK m \in Nat : m = nextOutputIndex'
    BY <1>11
  <2>2. ASSUME NEW j \in 1 .. nextOutputIndex'
        PROVE  output'[j - 1] = Item(Kind(j - 1)', Text(j - 1)')
    <3>1. j \in 1 .. m
      BY <2>4
    <3>2. PICK k \in 0 .. m - 1 : k = j - 1
      BY <3>1
    <3>3. k \in 0 .. nextOutputIndex' - 1
      BY <2>4
    <3>4. QED
      BY <1>14, <3>2, <3>3
  <2>3. QED
    BY <2>1, <2>2 DEF Final
<1>16. ASSUME n # 0, NEW Z, \A k \in 0 .. n - 1 : k \in Z <=> k \in Opened,
              NEW k \in 0 .. n - 1
       PROVE  reader'.items[k + 1] = Full(k, Z)'
  <2>1. messageIndex' = messageIndex /\ nextOutputIndex' = n
    BY <1>10, <1>16
  <2>2. Kind(k)' = Kind(k)
    BY <1>1, <2>1 DEF Kind
  <2>3. Text(k)' = Text(k)
    <3>1. CASE k \in Opened
      BY <1>1, <2>1, <3>1 DEF Text, Opened
    <3>2. CASE k \notin Opened
      <4>1. output'[k] = output[k]
        BY <1>6, <1>11, <2>1, <3>2 DEF Opened
      <4>2. QED
        BY <1>1, <2>1, <4>1 DEF Text
    <3>3. QED
      BY <3>1, <3>2
  <2>4. (k \in Z) = (k \in Opened)
    BY <1>16
  <2>5. Full(k, Z)' = Full(k, Opened)
    BY <2>2, <2>3, <2>4 DEF Full
  <2>6. QED
    BY <1>1, <1>3, <2>5 DEF Agrees
<1>17. PICK a, b, c : /\ a = Done(reasoningIndex, thought)
                      /\ b = Done(messageIndex', said)
                      /\ c = Completed(AsList(output'))
  OBVIOUS
<1>18. c = Completed(Final)' /\ b = DoneMessage' /\ a = DoneReasoning'
  BY <1>1, <1>4, <1>15, <1>17 DEF DoneMessage, DoneReasoning
<1>19. ASSUME n = 0 PROVE Ending(queue, reader)'
  <2>1. PICK d : d = Added(messageIndex', "message")
    OBVIOUS
  <2>2. reasoningIndex = None /\ messageIndex = None /\ messageIndex' # None
    BY <1>2, <1>10, <1>19
  <2>3. queue' = <<>> \o <<d>> \o <<b>> \o <<c>>
    BY <1>7, <1>9, <1>17, <1>19, <2>1, <2>2
  <2>4. queue' = <<d, b, c>>
    <3>1. <<>> \o <<d>> \o <<b>> \o <<c>> = <<d, b, c>>
      BY Queues
    <3>2. QED
      BY <2>3, <3>1, Zenon
  <2>5. text' = <<>>
    BY <1>1, <2>2 DEF GeneratorOK
  <2>6. Agrees(reader, nextOutputIndex - 1, Opened)'
    BY <1>1, <1>3, <1>10, <1>19 DEF Agrees
  <2>7. QED
    BY <1>1, <1>3, <1>10, <1>18, <1>19, <2>1, <2>2, <2>4, <2>5, <2>6 DEF Ending
<1>20. ASSUME n # 0 PROVE Ending(queue, reader)'
  <2>1. messageIndex' = messageIndex /\ nextOutputIndex' = n /\ Opened' = Opened
    BY <1>1, <1>10, <1>20 DEF Opened
  <2>2. queue' = (IF reasoningIndex = None THEN <<>> ELSE <<a>>) \o <<>>
                 \o (IF messageIndex = None THEN <<>> ELSE <<b>>) \o <<c>>
    BY <1>7, <1>9, <1>17, <1>20, <2>1
  <2>3. ASSUME NEW Z, \A k \in 0 .. n - 1 : k \in Z <=> k \in Opened
        PROVE  Agrees(reader, nextOutputIndex, Z)'
    <3>1. \A k \in 0 .. n - 1 : reader'.items[k + 1] = Full(k, Z)'
      BY <1>16, <1>20, <2>3
    <3>2. QED
      BY <1>1, <1>3, <2>1, <3>1 DEF Agrees
  <2>4. CASE messageIndex # None /\ reasoningIndex # None
    <3>1. queue' = <<a, b, c>>
      <4>1. queue' = <<a>> \o <<>> \o <<b>> \o <<c>>
        BY <2>2, <2>4
      <4>2. <<a>> \o <<>> \o <<b>> \o <<c>> = <<a, b, c>>
        BY Queues
      <4>3. QED
        BY <4>1, <4>2, Zenon
    <3>2. PICK Z : Z = Opened
      OBVIOUS
    <3>3. Agrees(reader, nextOutputIndex, Z)'
      BY <2>3, <3>2
    <3>4. Agrees(reader, nextOutputIndex, Opened)'
      BY <2>1, <3>2, <3>3 DEF Agrees, Full
    <3>5. QED
      BY <1>1, <1>3, <1>18, <2>1, <2>4, <3>1, <3>4 DEF Ending
  <2>5. CASE messageIndex = None /\ reasoningIndex # None
    <3>1. queue' = <<a, c>>
      <4>1. queue' = <<a>> \o <<>> \o <<>> \o <<c>>
        BY <2>2, <2>5
      <4>2. <<a>> \o <<>> \o <<>> \o <<c>> = <<a, c>>
        BY Queues
      <4>3. QED
        BY <4>1, <4>2, Zenon
    <3>2. PICK Z : Z = Opened
      OBVIOUS
    <3>3. Agrees(reader, nextOutputIndex, Z)'
      BY <2>3, <3>2
    <3>4. Agrees(reader, nextOutputIndex, Opened)'
      BY <2>1, <3>2, <3>3 DEF Agrees, Full
    <3>5. QED
      BY <1>1, <1>3, <1>18, <2>1, <2>5, <3>1, <3>4 DEF Ending
  <2>6. CASE messageIndex # None /\ reasoningIndex = None
    <3>1. queue' = <<b, c>>
      <4>1. queue' = <<>> \o <<>> \o <<b>> \o <<c>>
        BY <2>2, <2>6
      <4>2. <<>> \o <<>> \o <<b>> \o <<c>> = <<b, c>>
        BY Queues
      <4>3. QED
        BY <4>1, <4>2, Zenon
    <3>2. PICK Z : Z = {messageIndex}
      OBVIOUS
    <3>3. \A k \in 0 .. n - 1 : k \in Z <=> k \in Opened
      BY <1>2, <2>6, <3>2 DEF Opened
    <3>4. Agrees(reader, nextOutputIndex, Z)'
      BY <2>3, <3>3
    <3>5. Agrees(reader, nextOutputIndex, {messageIndex})'
      BY <2>1, <3>2, <3>4 DEF Agrees, Full
    <3>6. QED
      BY <1>1, <1>3, <1>18, <2>1, <2>6, <3>1, <3>5 DEF Ending
  <2>7. CASE messageIndex = None /\ reasoningIndex = None
    <3>1. queue' = <<c>>
      <4>1. queue' = <<>> \o <<>> \o <<>> \o <<c>>
        BY <2>2, <2>7
      <4>2. <<>> \o <<>> \o <<>> \o <<c>> = <<c>>
        BY Queues
      <4>3. QED
        BY <4>1, <4>2, Zenon
    <3>2. \A k \in 0 .. n - 1 : k \in {} <=> k \in Opened
      BY <1>2, <2>7 DEF Opened
    <3>3. Agrees(reader, nextOutputIndex, {})'
      BY <2>3, <3>2
    <3>4. QED
      BY <1>1, <1>3, <1>18, <2>1, <2>7, <3>1, <3>3 DEF Ending
  <2>8. QED
    BY <2>4, <2>5, <2>6, <2>7
<1>21. Ending(queue, reader)'
  BY <1>19, <1>20
<1>22. Waits(queue, reader)'
  BY <1>1, <1>3, <1>21 DEF Waits
<1>23. QED
  BY <1>13, <1>22 DEF IInv

-----------------------------------------------------------------------------
(* Taking a chunk leaves the generator as it is.                           *)
LEMMA Unmoved ==
  ASSUME UNCHANGED <<events, stage, streamVars>>, NEW q, NEW r
  PROVE  /\ Idle(q, r) => Idle(q, r)'
         /\ Opening(q, r) => Opening(q, r)'
         /\ AddingText(q, r) => AddingText(q, r)'
         /\ AddingDelta(q, r) => AddingDelta(q, r)'
         /\ Calling(q, r) => Calling(q, r)'
         /\ Ending(q, r) => Ending(q, r)'
<1>1. /\ nextOutputIndex' = nextOutputIndex /\ output' = output
      /\ text' = text /\ reasoning' = reasoning
      /\ messageIndex' = messageIndex /\ reasoningIndex' = reasoningIndex
      /\ Opened' = Opened
  BY DEF streamVars, Opened
<1>2. ASSUME NEW i PROVE Kind(i)' = Kind(i) /\ Text(i)' = Text(i)
  BY <1>1 DEF Kind, Text
<1>3. ASSUME NEW i, NEW S PROVE Full(i, S)' = Full(i, S)
  BY <1>2 DEF Full
<1>4. ASSUME NEW i, NEW t PROVE Partial(i, t)' = Partial(i, t)
  BY <1>2 DEF Partial
<1>5. /\ Agrees(r, nextOutputIndex, Opened) => Agrees(r, nextOutputIndex, Opened)'
      /\ Agrees(r, nextOutputIndex - 1, Opened) => Agrees(r, nextOutputIndex - 1, Opened)'
      /\ Agrees(r, nextOutputIndex, {messageIndex}) => Agrees(r, nextOutputIndex, {messageIndex})'
      /\ Agrees(r, nextOutputIndex, {}) => Agrees(r, nextOutputIndex, {})'
  BY <1>1, <1>2 DEF Agrees, Full
<1>6. ASSUME NEW i, NEW t, AgreesBut(r, nextOutputIndex, i, Partial(i, t))
      PROVE  AgreesBut(r, nextOutputIndex, i, Partial(i, t))'
  BY <1>1, <1>2, <1>6 DEF AgreesBut, Full, Partial
<1>7. Idle(q, r) => Idle(q, r)'
  BY <1>5 DEF Idle
<1>8. AddingDelta(q, r) => AddingDelta(q, r)'
  <2>1. SUFFICES ASSUME AddingDelta(q, r) PROVE AddingDelta(q, r)'
    OBVIOUS
  <2>2. PICK i \in Opened, p \in Pieces, t \in Seq(Pieces) :
          /\ i # None
          /\ q = <<Delta(i, p)>>
          /\ r.phase = "created"
          /\ AgreesBut(r, nextOutputIndex, i, Partial(i, t))
          /\ Text(i) = Append(t, p)
    BY <2>1 DEF AddingDelta
  <2>3. i \in Opened' /\ Text(i)' = Append(t, p)
    BY <1>1, <1>2, <2>2
  <2>4. AgreesBut(r, nextOutputIndex, i, Partial(i, t))'
    BY <1>6, <2>2
  <2>5. QED
    BY <2>2, <2>3, <2>4 DEF AddingDelta
<1>9. Calling(q, r) => Calling(q, r)'
  <2>1. SUFFICES ASSUME Calling(q, r) PROVE Calling(q, r)'
    OBVIOUS
  <2>2. PICK i \in 0 .. nextOutputIndex - 1, p \in Pieces :
          LET called == Item("function_call", <<p>>)
          IN /\ i = nextOutputIndex - 1 /\ i \notin Opened
             /\ Kind(i) = "function_call" /\ Text(i) = <<p>>
             /\ r.phase = "created"
             /\ \/ /\ q = <<Added(i, "function_call"), Delta(i, p), Done(i, called)>>
                   /\ Agrees(r, nextOutputIndex - 1, Opened)
                \/ /\ q = <<Delta(i, p), Done(i, called)>>
                   /\ AgreesBut(r, nextOutputIndex, i, Partial(i, <<>>))
                \/ /\ q = <<Done(i, called)>>
                   /\ AgreesBut(r, nextOutputIndex, i, Partial(i, <<p>>))
    BY <2>1 DEF Calling
  <2>3. /\ i \in 0 .. nextOutputIndex' - 1 /\ i = nextOutputIndex' - 1 /\ i \notin Opened'
        /\ Kind(i)' = "function_call" /\ Text(i)' = <<p>>
    BY <1>1, <1>2, <2>2
  <2>4. /\ AgreesBut(r, nextOutputIndex, i, Partial(i, <<>>)) =>
             AgreesBut(r, nextOutputIndex, i, Partial(i, <<>>))'
        /\ AgreesBut(r, nextOutputIndex, i, Partial(i, <<p>>)) =>
             AgreesBut(r, nextOutputIndex, i, Partial(i, <<p>>))'
    BY <1>6
  <2>5. QED
    BY <1>5, <2>2, <2>3, <2>4 DEF Calling
<1>10. Ending(q, r) => Ending(q, r)'
  <2>1. Final' = Final /\ DoneReasoning' = DoneReasoning /\ DoneMessage' = DoneMessage
    BY <1>1, <1>2 DEF Final, DoneReasoning, DoneMessage
  <2>2. QED
    BY <1>1, <1>5, <2>1 DEF Ending
<1>11. Opening(q, r) => Opening(q, r)'
  BY <1>1 DEF Opening
<1>12. AddingText(q, r) => AddingText(q, r)'
  <2>1. SUFFICES ASSUME AddingText(q, r) PROVE AddingText(q, r)'
    OBVIOUS
  <2>2. PICK i \in Opened, p \in Pieces, type \in Types :
          /\ i = nextOutputIndex - 1 /\ i # None
          /\ q = <<Added(i, type), Delta(i, p)>>
          /\ r.phase = "created" /\ Agrees(r, nextOutputIndex - 1, Opened)
          /\ Kind(i) = type /\ Text(i) = <<p>>
    BY <2>1 DEF AddingText
  <2>3. /\ i \in Opened' /\ i = nextOutputIndex' - 1
        /\ Kind(i)' = type /\ Text(i)' = <<p>>
    BY <1>1, <1>2, <2>2
  <2>4. QED
    BY <1>5, <2>2, <2>3 DEF AddingText
<1>13. QED
  BY <1>7, <1>8, <1>9, <1>10, <1>11, <1>12

LEMMA YieldKeeps ==
  ASSUME IInv, Yield PROVE IInv' /\ ClientStep(reader, reader')
<1>1. PICK q, r : q = queue /\ r = reader
  OBVIOUS
<1>2. PICK t, s : t = Tail(q) /\ s = After(r, Head(q))
  OBVIOUS
<1>3. /\ q # <<>> /\ queue' = t /\ reader' = s
      /\ UNCHANGED <<events, stage, streamVars>>
  BY <1>1, <1>2 DEF Yield
<1>4. /\ GeneratorOK /\ Fits(r) /\ stage' = stage
      /\ stage \in {"new", "running", "ended", "thrown"} /\ stage # "new"
  BY <1>1, <1>3 DEF IInv, Waits, GeneratorOK
<1>5. GeneratorOK'
  BY <1>3, <1>4 DEF GeneratorOK, streamVars, Opened
<1>6. CASE stage \in {"running", "thrown"}
  <2>1. Opening(q, r) \/ AddingText(q, r) \/ AddingDelta(q, r) \/ Calling(q, r)
    BY <1>1, <1>3, <1>6 DEF IInv, Waits, Idle
  <2>2. /\ Fits(s) /\ ClientStep(r, s)
        /\ Idle(t, s) \/ AddingDelta(t, s) \/ Calling(t, s)
    BY <1>2, <1>4, <2>1, FromOpening, FromAddingText, FromAddingDelta, FromCalling
  <2>3. Idle(t, s)' \/ AddingDelta(t, s)' \/ Calling(t, s)'
    BY <1>3, <2>2, Unmoved
  <2>4. Idle(queue, reader)' \/ AddingDelta(queue, reader)' \/ Calling(queue, reader)'
    BY <1>3, <2>3
  <2>5. Fits(reader)'
    BY <1>3, <2>2 DEF Fits
  <2>6. Waits(queue, reader)'
    BY <1>4, <1>6, <2>4, <2>5 DEF Waits
  <2>7. QED
    BY <1>1, <1>3, <1>5, <2>2, <2>6 DEF IInv
<1>7. CASE stage = "ended"
  <2>1. Ending(q, r)
    BY <1>1, <1>3, <1>7 DEF IInv, Waits
  <2>2. /\ Fits(s) /\ ClientStep(r, s)
        /\ Ending(t, s) \/ (t = <<>> /\ s.phase = "completed")
    BY <1>2, <1>4, <1>7, <2>1, FromEnding
  <2>3. Ending(t, s) => Ending(t, s)'
    BY <1>3, Unmoved
  <2>4. Ending(queue, reader)' \/ (queue' = <<>> /\ reader'.phase = "completed")
    BY <1>3, <2>2, <2>3
  <2>5. Fits(reader)'
    BY <1>3, <2>2 DEF Fits
  <2>6. Waits(queue, reader)'
    BY <1>4, <1>7, <2>4, <2>5 DEF Waits
  <2>7. QED
    BY <1>1, <1>3, <1>5, <2>2, <2>6 DEF IInv
<1>8. QED
  BY <1>4, <1>6, <1>7

LEMMA StutterKeeps == ASSUME IInv, UNCHANGED vars PROVE IInv'
<1>1. GeneratorOK'
  BY DEF IInv, vars, GeneratorOK, streamVars, Opened
<1>2. PICK q, r : q = queue /\ r = reader
  OBVIOUS
<1>3. /\ queue' = q /\ reader' = r /\ nextOutputIndex' = nextOutputIndex
      /\ stage' = stage /\ UNCHANGED <<events, stage, streamVars>>
  BY <1>2 DEF vars, streamVars
<1>4. Waits(q, r)
  BY <1>2 DEF IInv
<1>5. Waits(q, r)'
  BY <1>3, <1>4, Unmoved DEF Waits, Fits
<1>6. Waits(queue, reader)'
  BY <1>3, <1>5
<1>7. QED
  BY <1>1, <1>6 DEF IInv

LEMMA StepKeeps == IInv /\ [Next]_vars => IInv'
<1> SUFFICES ASSUME IInv, [Next]_vars PROVE IInv'
  OBVIOUS
<1>1. CASE Begin
  BY <1>1, BeginKeeps
<1>2. CASE TextDelta
  BY <1>2, TextDeltaKeeps
<1>3. CASE ReasoningDelta
  BY <1>3, ReasoningDeltaKeeps
<1>4. CASE ToolCall
  BY <1>4, ToolCallKeeps
<1>5. ASSUME NEW kind \in Others, OtherEvent(kind) PROVE IInv'
  BY <1>5, OtherEventKeeps
<1>6. CASE Throw
  BY <1>6, ThrowKeeps
<1>7. CASE Finish
  BY <1>7, FinishKeeps
<1>8. CASE Yield
  BY <1>8, YieldKeeps
<1>9. CASE UNCHANGED vars
  BY <1>9, StutterKeeps
<1>10. QED
  BY <1>1, <1>2, <1>3, <1>4, <1>5, <1>6, <1>7, <1>8, <1>9 DEF Next

(* What the generator has queued is always the rest of what one upstream   *)
(* event makes it yield, and what the client has read is what comes before *)
(* that rest (responses.ts:393-608).                                       *)
THEOREM InvariantHolds == Spec => []IInv
<1>1. QED
  BY InitHolds, StepKeeps, PTL DEF Spec

-----------------------------------------------------------------------------
(* The refinement.                                                         *)

LEMMA ClientStepIsConsumerStep ==
  ASSUME ClientStep(reader, reader') PROVE Consumer!ConsumerNext
<1>1. CASE reader.phase = "new" /\ reader'.phase = "created" /\ reader'.items = reader.items
  BY <1>1 DEF Consumer!ConsumerNext, Consumer!Create
<1>2. CASE /\ reader.phase = "created" /\ reader'.phase = "created"
           /\ \E type \in Types : reader'.items = Append(reader.items, NewItem(type))
  BY <1>2 DEF Consumer!ConsumerNext, Consumer!Add, Consumer!Item, NewItem
<1>3. CASE /\ reader.phase = "created" /\ reader'.phase = "created"
           /\ \E i \in 1 .. Len(reader.items), p \in Pieces :
                /\ reader.items[i].open
                /\ reader'.items = [reader.items EXCEPT ![i] = Longer(reader.items[i], p)]
  BY <1>3 DEF Consumer!ConsumerNext, Consumer!Extend, Longer
<1>4. CASE /\ reader.phase = "created" /\ reader'.phase = "created"
           /\ \E i \in 1 .. Len(reader.items) :
                /\ reader.items[i].open
                /\ reader'.items = [reader.items EXCEPT ![i] = Shut(reader.items[i])]
  BY <1>4 DEF Consumer!ConsumerNext, Consumer!Close, Consumer!Closed, Shut
<1>5. CASE /\ reader.phase = "created" /\ reader'.phase = "completed"
           /\ reader'.items = reader.items /\ reader.items # <<>>
           /\ \A i \in 1 .. Len(reader.items) : ~reader.items[i].open
  BY <1>5 DEF Consumer!ConsumerNext, Consumer!Complete
<1>6. QED
  BY <1>1, <1>2, <1>3, <1>4, <1>5 DEF ClientStep

LEMMA StepImplements ==
  IInv /\ [Next]_vars => [Consumer!ConsumerNext]_(Consumer!consumerVars)
<1> SUFFICES ASSUME IInv, [Next]_vars
             PROVE  [Consumer!ConsumerNext]_(Consumer!consumerVars)
  OBVIOUS
<1>1. CASE Yield
  BY <1>1, YieldKeeps, ClientStepIsConsumerStep
<1>2. CASE reader' = reader
  BY <1>2 DEF Consumer!consumerVars
<1>3. QED
  BY <1>1, <1>2 DEF Next, vars, Begin, TextDelta, ReasoningDelta, ToolCall, OtherEvent, Receive,
                    Throw, Finish

(* For any number of upstream events in any order, the chunks the          *)
(* generator yields are ones a client can follow item by item: indexes are *)
(* dense, no delta comes before its item or after its end, an item is      *)
(* closed with what its deltas add up to, and the final output is the list *)
(* of those items, with no hole (responses.ts:393-608).                    *)
THEOREM StreamCanBeFollowed == Spec => ImplementsConsumer
<1>1. Init => Consumer!ConsumerInit
  BY DEF Init, Consumer!ConsumerInit
<1>2. QED
  BY <1>1, StepImplements, InvariantHolds, PTL
  DEF Spec, ImplementsConsumer, Consumer!ConsumerSpec

-----------------------------------------------------------------------------
(* The stream and the whole answer.  The called indexes hold the calls in  *)
(* the order they came in, whatever was added between them.                *)

Called == (0 .. nextOutputIndex - 1) \ Opened
CallItem(i) == Item("function_call", <<collected.calls[i]>>)

CollectedOK ==
  /\ collected = [text |-> text, reasoning |-> reasoning, calls |-> collected.calls]
  /\ collected.calls \in Seq(Nat)
  /\ \A i \in 1 .. Len(collected.calls) : collected.calls[i] <= Len(events)
  /\ \A i, j \in 1 .. Len(collected.calls) :
       i < j => collected.calls[i] < collected.calls[j]
  /\ reasoningIndex # None => reasoning # <<>>

OutputAgrees ==
  /\ \A j \in Called : \E i \in 1 .. Len(collected.calls) : output[j] = CallItem(i)
  /\ \A i \in 1 .. Len(collected.calls) : \E j \in Called : output[j] = CallItem(i)
  /\ \A j, k \in Called : j < k => output[j].text[1] < output[k].text[1]
  /\ messageIndex # None /\ text = <<>> => stage = "ended" /\ nextOutputIndex = 1

ReaderAgrees ==
  IF reader.phase = "completed" THEN stage = "ended" /\ reader.output = Final
                                ELSE reader.output = <<>>

AgreeInv == IInv /\ CollectedOK /\ OutputAgrees /\ ReaderAgrees

LEMMA CollectedCases ==
  ASSUME NEW s, NEW at,
         s = [text |-> s.text, reasoning |-> s.reasoning, calls |-> s.calls]
  PROVE  /\ Collected(s, "text", at) =
              [text |-> Append(s.text, at), reasoning |-> s.reasoning, calls |-> s.calls]
         /\ Collected(s, "reasoning", at) =
              [text |-> s.text, reasoning |-> Append(s.reasoning, at), calls |-> s.calls]
         /\ Collected(s, "tool-call", at) =
              [text |-> s.text, reasoning |-> s.reasoning, calls |-> Append(s.calls, at)]
         /\ \A kind \in Others : Collected(s, kind, at) = s
<1>0. PICK t, r, c : t = s.text /\ r = s.reasoning /\ c = s.calls
  OBVIOUS
<1>1. PICK u, v, w : u = Append(t, at) /\ v = Append(r, at) /\ w = Append(c, at)
  OBVIOUS
<1>2. /\ s = [text |-> t, reasoning |-> r, calls |-> c]
      /\ s.text = t /\ s.reasoning = r /\ s.calls = c
  BY <1>0
<1>3. /\ [s EXCEPT !.text = u] = [text |-> u, reasoning |-> r, calls |-> c]
      /\ [s EXCEPT !.reasoning = v] = [text |-> t, reasoning |-> v, calls |-> c]
      /\ [s EXCEPT !.calls = w] = [text |-> t, reasoning |-> r, calls |-> w]
  BY <1>2
<1>4. Collected(s, "text", at) = [s EXCEPT !.text = u]
  BY <1>1, <1>2 DEF Collected, Others
<1>5. Collected(s, "reasoning", at) = [s EXCEPT !.reasoning = v]
  BY <1>1, <1>2 DEF Collected, Others
<1>6. Collected(s, "tool-call", at) = [s EXCEPT !.calls = w]
  BY <1>1, <1>2 DEF Collected, Others
<1>7. \A kind \in Others : Collected(s, kind, at) = s
  BY DEF Collected, Others
<1>8. QED
  BY <1>0, <1>1, <1>3, <1>4, <1>5, <1>6, <1>7

LEMMA LongerCalls ==
  ASSUME NEW c \in Seq(Nat), NEW m \in Nat,
         \A i \in 1 .. Len(c) : c[i] <= m,
         \A i, j \in 1 .. Len(c) : i < j => c[i] < c[j]
  PROVE  LET d == Append(c, m + 1)
         IN /\ d \in Seq(Nat) /\ Len(d) = Len(c) + 1 /\ d[Len(c) + 1] = m + 1
            /\ \A i \in 1 .. Len(c) : d[i] = c[i]
            /\ \A i \in 1 .. Len(d) : d[i] <= m + 1
            /\ \A i, j \in 1 .. Len(d) : i < j => d[i] < d[j]
<1> DEFINE d == Append(c, m + 1)
<1>1. /\ Len(c) \in Nat /\ d \in Seq(Nat) /\ Len(d) = Len(c) + 1 /\ d[Len(c) + 1] = m + 1
      /\ \A i \in 1 .. Len(c) : d[i] = c[i]
  BY LenProperties, AppendProperties
<1>2. \A i \in 1 .. Len(c) : c[i] \in Nat
  BY ElementOfSeq
<1> HIDE DEF d
<1>3. ASSUME NEW i \in 1 .. Len(d)
      PROVE  \/ i \in 1 .. Len(c) /\ d[i] = c[i] /\ c[i] \in Nat /\ c[i] <= m
             \/ i = Len(c) + 1 /\ d[i] = m + 1
  <2>1. CASE i \in 1 .. Len(c)
    BY <1>1, <1>2, <2>1
  <2>2. CASE i = Len(c) + 1
    BY <1>1, <2>2
  <2>3. QED
    BY <1>1, <2>1, <2>2
<1>4. \A i \in 1 .. Len(d) : d[i] <= m + 1
  BY <1>3
<1>5. ASSUME NEW i \in 1 .. Len(d), NEW j \in 1 .. Len(d), i < j PROVE d[i] < d[j]
  <2>1. i \in 1 .. Len(c) /\ d[i] = c[i] /\ c[i] \in Nat /\ c[i] <= m
    BY <1>1, <1>3, <1>5
  <2>2. CASE j \in 1 .. Len(c)
    BY <1>1, <1>5, <2>1, <2>2
  <2>3. CASE j = Len(c) + 1
    BY <1>1, <2>1, <2>3
  <2>4. QED
    BY <1>3, <2>2, <2>3
<1>6. QED
  BY <1>1, <1>4, <1>5 DEF d

LEMMA CollectedStep == ASSUME IInv, CollectedOK, Next PROVE CollectedOK'
<1>0. PICK t, r, c, m, s :
        s = collected /\ t = text /\ r = reasoning /\ c = collected.calls /\ m = Len(events)
  OBVIOUS
<1>1. /\ t \in Seq(Pieces) /\ r \in Seq(Pieces) /\ events \in Seq(Kinds) /\ m \in Nat
  BY <1>0, LenProperties DEF IInv, GeneratorOK
<1>2. /\ s = [text |-> t, reasoning |-> r, calls |-> c]
      /\ c \in Seq(Nat) /\ Len(c) \in Nat
      /\ \A i \in 1 .. Len(c) : c[i] <= m
      /\ \A i, j \in 1 .. Len(c) : i < j => c[i] < c[j]
      /\ reasoningIndex # None => r # <<>>
  BY <1>0, LenProperties DEF CollectedOK
<1>a. PICK at : at = m + 1
  OBVIOUS
<1>b. /\ Collected(s, "text", at) = [text |-> Append(t, at), reasoning |-> r, calls |-> c]
      /\ Collected(s, "reasoning", at) = [text |-> t, reasoning |-> Append(r, at), calls |-> c]
      /\ Collected(s, "tool-call", at) = [text |-> t, reasoning |-> r, calls |-> Append(c, at)]
      /\ \A kind \in Others : Collected(s, kind, at) = s
  <2>1. t = s.text /\ r = s.reasoning /\ c = s.calls
    BY <1>2
  <2>2. s = [text |-> s.text, reasoning |-> s.reasoning, calls |-> s.calls]
    BY <1>2, <2>1
  <2>3. QED
    BY <2>1, <2>2, CollectedCases
<1>3. ASSUME NEW kind \in Kinds, Receive(kind)
      PROVE  /\ collected' = Collected(s, kind, at)
             /\ Len(events') = m + 1
  BY <1>0, <1>1, <1>3, <1>a, AppendProperties DEF Receive, Position
<1>4. CASE Begin \/ Throw \/ Finish \/ Yield
  BY <1>4 DEF CollectedOK, Begin, Throw, Finish, Yield, streamVars
<1>5. ASSUME NEW d, Len(events') = m + 1, d = c \/ d = Append(c, at),
             collected' = [text |-> text', reasoning |-> reasoning', calls |-> d],
             reasoningIndex' # None => reasoning' # <<>>
      PROVE CollectedOK'
  <2>1. \A i \in 1 .. Len(c) : c[i] \in Nat
    BY <1>2, ElementOfSeq
  <2>2. /\ d \in Seq(Nat)
        /\ \A i \in 1 .. Len(d) : d[i] <= m + 1
        /\ \A i, j \in 1 .. Len(d) : i < j => d[i] < d[j]
    <3>1. CASE d = c
      BY <1>1, <1>2, <2>1, <3>1
    <3>2. CASE d = Append(c, at)
      BY <1>1, <1>a, <1>2, <3>2, LongerCalls
    <3>3. QED
      BY <1>5, <3>1, <3>2
  <2>3. collected'.calls = d
    BY <1>5
  <2>4. QED
    BY <1>5, <2>2, <2>3 DEF CollectedOK
<1>6. CASE TextDelta
  <2>1. /\ collected' = Collected(s, "text", at) /\ Len(events') = m + 1
        /\ text' = Append(t, at)
        /\ reasoning' = r /\ reasoningIndex' = reasoningIndex
    BY <1>0, <1>3, <1>6, <1>a DEF TextDelta, Kinds, Deltas, Position
  <2>2. collected' = [text |-> text', reasoning |-> reasoning', calls |-> c]
    BY <1>b, <2>1
  <2>3. QED
    BY <1>2, <1>5, <2>1, <2>2
<1>7. CASE ReasoningDelta
  <2>1. /\ collected' = Collected(s, "reasoning", at) /\ Len(events') = m + 1
        /\ reasoning' = Append(r, at)
        /\ text' = t
    BY <1>0, <1>3, <1>7, <1>a DEF ReasoningDelta, Kinds, Deltas, Position
  <2>2. collected' = [text |-> text', reasoning |-> reasoning', calls |-> c]
    BY <1>b, <2>1
  <2>3. reasoning' # <<>>
    BY <1>1, <2>1
  <2>4. QED
    BY <1>5, <2>1, <2>2, <2>3
<1>8. CASE ToolCall
  <2>1. /\ collected' = Collected(s, "tool-call", at) /\ Len(events') = m + 1
        /\ text' = t /\ reasoning' = r /\ reasoningIndex' = reasoningIndex
    BY <1>0, <1>3, <1>8 DEF ToolCall, Kinds, Deltas
  <2>2. PICK d : d = Append(c, at)
    OBVIOUS
  <2>3. collected' = [text |-> text', reasoning |-> reasoning', calls |-> d]
    BY <1>b, <2>1, <2>2
  <2>4. QED
    BY <1>2, <1>5, <2>1, <2>2, <2>3
<1>9. ASSUME NEW kind \in Others, OtherEvent(kind) PROVE CollectedOK'
  <2>1. /\ collected' = Collected(s, kind, at) /\ Len(events') = m + 1
        /\ text' = t /\ reasoning' = r /\ reasoningIndex' = reasoningIndex
    BY <1>0, <1>3, <1>9 DEF OtherEvent, Kinds, streamVars
  <2>2. collected' = [text |-> text', reasoning |-> reasoning', calls |-> c]
    BY <1>2, <1>b, <2>1
  <2>3. QED
    BY <1>2, <1>5, <2>1, <2>2
<1>10. QED
  BY <1>4, <1>6, <1>7, <1>8, <1>9 DEF Next

LEMMA SameCalls ==
  ASSUME OutputAgrees, Called' = Called, collected'.calls = collected.calls,
         \A j \in Called : output'[j] = output[j],
         messageIndex' # None /\ text' = <<>> => stage' = "ended" /\ nextOutputIndex' = 1
  PROVE  OutputAgrees'
<1>1. PICK C, c, o, p : C = Called /\ c = collected.calls /\ o = output /\ p = output'
  OBVIOUS
<1>2. /\ \A j \in C : \E i \in 1 .. Len(c) : o[j] = Item("function_call", <<c[i]>>)
      /\ \A i \in 1 .. Len(c) : \E j \in C : o[j] = Item("function_call", <<c[i]>>)
      /\ \A j, k \in C : j < k => o[j].text[1] < o[k].text[1]
  BY <1>1 DEF OutputAgrees, CallItem
<1>3. \A j \in C : p[j] = o[j]
  BY <1>1
<1>4. /\ \A j \in C : \E i \in 1 .. Len(c) : p[j] = Item("function_call", <<c[i]>>)
      /\ \A i \in 1 .. Len(c) : \E j \in C : p[j] = Item("function_call", <<c[i]>>)
      /\ \A j, k \in C : j < k => p[j].text[1] < p[k].text[1]
  BY <1>2, <1>3
<1>5. Called' = C /\ collected'.calls = c /\ output' = p
  BY <1>1
<1>6. QED
  BY <1>4, <1>5 DEF OutputAgrees, CallItem

LEMMA NextCall ==
  ASSUME CollectedOK, ToolCall
  PROVE  collected'.calls = Append(collected.calls, Position)
<1>1. PICK s, p : s = collected /\ p = Position
  OBVIOUS
<1>2. s = [text |-> s.text, reasoning |-> s.reasoning, calls |-> s.calls]
  BY <1>1 DEF CollectedOK
<1>3. collected' = Collected(s, "tool-call", p)
  BY <1>1 DEF ToolCall, Receive
<1>4. collected' = [text |-> s.text, reasoning |-> s.reasoning, calls |-> Append(s.calls, p)]
  BY <1>2, <1>3, CollectedCases
<1>5. QED
  BY <1>1, <1>4

LEMMA OneMoreCall ==
  ASSUME IInv, CollectedOK, OutputAgrees, ToolCall
  PROVE  OutputAgrees'
<1>1. PICK n, p, c, C, o, q, item :
        /\ n = nextOutputIndex /\ p = Position /\ c = collected.calls /\ C = Called
        /\ o = output /\ q = output' /\ item = Item("function_call", <<p>>)
  OBVIOUS
<1>2. /\ "tool-call" \in Kinds /\ Receive("tool-call")
      /\ nextOutputIndex' = n + 1 /\ q = SetItem(o, n, item)
      /\ text' = text /\ messageIndex' = messageIndex /\ reasoningIndex' = reasoningIndex
  BY <1>1 DEF ToolCall, Kinds, Deltas
<1>3. GeneratorOK /\ stage = "running"
  BY <1>2, Received
<1>4. /\ n \in Nat /\ DOMAIN o = C /\ C = (0 .. n - 1) \ Opened /\ Opened' = Opened
      /\ messageIndex \in {None} \cup 0 .. n - 1 /\ reasoningIndex \in {None} \cup 0 .. n - 1
      /\ None \notin Nat
  BY <1>1, <1>2, <1>3, MinusOne DEF GeneratorOK, Called, Opened, None
<1>5. Called' = C \cup {n} /\ n \notin C
  <2>1. Called' = (0 .. n) \ Opened
    BY <1>2, <1>4 DEF Called
  <2>2. n \notin Opened
    BY <1>4 DEF Opened
  <2>3. QED
    BY <1>4, <2>1, <2>2
<1>6. q[n] = item /\ \A j \in C : q[j] = o[j]
  BY <1>2, <1>4, <1>5 DEF SetItem
<1>7. Len(events) \in Nat /\ p = Len(events) + 1
  BY <1>1, <1>3, LenProperties DEF GeneratorOK, Position
<1>8. /\ c \in Seq(Nat) /\ Len(c) \in Nat
      /\ \A i \in 1 .. Len(c) : c[i] < p /\ c[i] \in Nat
  <2>1. c \in Seq(Nat) /\ \A i \in 1 .. Len(c) : c[i] <= Len(events)
    BY <1>1 DEF CollectedOK
  <2>2. Len(c) \in Nat /\ \A i \in 1 .. Len(c) : c[i] \in Nat
    BY <2>1, LenProperties, ElementOfSeq
  <2>3. QED
    BY <1>7, <2>1, <2>2
<1>9. collected'.calls = Append(c, p)
  BY <1>1, NextCall
<1>10. PICK d, L : d = Append(c, p) /\ L = Len(c)
  OBVIOUS
<1>11. /\ Len(d) = L + 1 /\ d[L + 1] = p /\ \A i \in 1 .. L : d[i] = c[i]
       /\ L \in Nat
  BY <1>7, <1>8, <1>10, AppendProperties
<1>12. /\ \A j \in C : \E i \in 1 .. L : o[j] = Item("function_call", <<c[i]>>)
       /\ \A i \in 1 .. L : \E j \in C : o[j] = Item("function_call", <<c[i]>>)
       /\ \A j, k \in C : j < k => o[j].text[1] < o[k].text[1]
       /\ messageIndex # None => text # <<>>
  BY <1>1, <1>3, <1>10 DEF OutputAgrees, CallItem
<1>13. ASSUME NEW j \in C \cup {n}
       PROVE  \E i \in 1 .. Len(d) : q[j] = Item("function_call", <<d[i]>>)
  <2>1. CASE j \in C
    <3>1. PICK i \in 1 .. L : o[j] = Item("function_call", <<c[i]>>)
      BY <1>12, <2>1
    <3>2. i \in 1 .. Len(d) /\ d[i] = c[i] /\ q[j] = o[j]
      BY <1>6, <1>11, <2>1
    <3>3. QED
      BY <3>1, <3>2
  <2>2. CASE j = n
    <3>1. L + 1 \in 1 .. Len(d)
      BY <1>11
    <3>2. q[j] = Item("function_call", <<d[L + 1]>>)
      BY <1>1, <1>6, <1>11, <2>2
    <3>3. QED
      BY <3>1, <3>2
  <2>3. QED
    BY <2>1, <2>2
<1>14. ASSUME NEW i \in 1 .. Len(d)
       PROVE  \E j \in C \cup {n} : q[j] = Item("function_call", <<d[i]>>)
  <2>1. CASE i \in 1 .. L
    <3>1. PICK j \in C : o[j] = Item("function_call", <<c[i]>>)
      BY <1>12, <2>1
    <3>2. QED
      BY <1>6, <1>11, <2>1, <3>1
  <2>2. CASE i = L + 1
    BY <1>1, <1>6, <1>11, <2>2
  <2>3. i \in 1 .. L \/ i = L + 1
    BY <1>11
  <2>4. QED
    BY <2>1, <2>2, <2>3
<1>15. ASSUME NEW j \in C \cup {n}, NEW k \in C \cup {n}, j < k
       PROVE  q[j].text[1] < q[k].text[1]
  <2>1. j \in C
    BY <1>4, <1>15
  <2>2. CASE k \in C
    BY <1>6, <1>12, <1>15, <2>1, <2>2
  <2>3. CASE k = n
    <3>1. PICK i \in 1 .. L : o[j] = Item("function_call", <<c[i]>>)
      BY <1>12, <2>1
    <3>2. q[j].text[1] = c[i]
      BY <1>6, <2>1, <3>1 DEF Item
    <3>3. q[k].text[1] = p
      BY <1>1, <1>6, <2>3 DEF Item
    <3>4. QED
      BY <1>8, <1>10, <3>2, <3>3
  <2>4. QED
    BY <2>2, <2>3
<1>16. Called' = C \cup {n} /\ collected'.calls = d /\ output' = q
       /\ (messageIndex' # None => text' # <<>>)
  BY <1>1, <1>2, <1>5, <1>9, <1>10, <1>12
<1>17. QED
  BY <1>13, <1>14, <1>15, <1>16 DEF OutputAgrees, CallItem

(* The end closes what is open and leaves the calls where they are.        *)
LEMMA FinishedOutput ==
  ASSUME GeneratorOK, Finish
  PROVE  /\ Called' = Called
         /\ \A j \in Called : output'[j] = output[j]
         /\ nextOutputIndex = 0 => messageIndex' = 0 /\ nextOutputIndex' = 1
         /\ nextOutputIndex # 0 => messageIndex' = messageIndex
<1>1. PICK n, thought, said : /\ n = nextOutputIndex
                              /\ thought = Item("reasoning", reasoning)
                              /\ said = Item("message", text)
  OBVIOUS
<1>2. PICK out : out = IF reasoningIndex = None THEN output
                       ELSE SetItem(output, reasoningIndex, thought)
  OBVIOUS
<1>3. stage # "ended"
  BY DEF Finish, Ready
<1>4. /\ DOMAIN out = (0 .. n - 1) \ {messageIndex}
      /\ \A j \in DOMAIN out : j # reasoningIndex => out[j] = output[j]
      /\ (messageIndex = None /\ AsList(out) = <<>>) <=> n = 0
  BY <1>1, <1>2, <1>3, ClosedReasoning
<1>5. /\ messageIndex' = IF n = 0 THEN n ELSE messageIndex
      /\ nextOutputIndex' = IF n = 0 THEN n + 1 ELSE n
      /\ output' = IF messageIndex' = None THEN out ELSE SetItem(out, messageIndex', said)
      /\ reasoningIndex' = reasoningIndex
  BY <1>1, <1>2, <1>4 DEF Finish
<1>6. /\ n \in Nat /\ None = -1 /\ None \notin Nat
      /\ messageIndex \in {None} \cup 0 .. n - 1
      /\ reasoningIndex \in {None} \cup 0 .. n - 1
  BY <1>1, MinusOne DEF GeneratorOK, None
<1>7. CASE n = 0
  <2>1. Called = {}
    BY <1>1, <1>6, <1>7 DEF Called
  <2>2. Called' = {}
    BY <1>5, <1>6, <1>7 DEF Called, Opened
  <2>3. QED
    BY <1>1, <1>5, <1>7, <2>1, <2>2
<1>8. CASE n # 0
  <2>1. messageIndex' = messageIndex /\ nextOutputIndex' = n /\ Opened' = Opened
    BY <1>5, <1>8 DEF Opened
  <2>2. Called' = Called
    BY <1>1, <2>1 DEF Called
  <2>3. ASSUME NEW j \in Called PROVE output'[j] = output[j]
    <3>1. j \in DOMAIN out /\ j # reasoningIndex /\ j # messageIndex
      BY <1>1, <1>4, <2>3 DEF Called, Opened
    <3>2. output'[j] = out[j]
      BY <1>5, <2>1, <3>1 DEF SetItem
    <3>3. QED
      BY <1>4, <3>1, <3>2
  <2>4. QED
    BY <1>1, <1>8, <2>1, <2>2, <2>3
<1>9. QED
  BY <1>7, <1>8

LEMMA KeptCalls ==
  ASSUME CollectedOK, TextDelta \/ ReasoningDelta
  PROVE  collected'.calls = collected.calls
<1>1. PICK s, p : s = collected /\ p = Position
  OBVIOUS
<1>2. s = [text |-> s.text, reasoning |-> s.reasoning, calls |-> s.calls]
  BY <1>1 DEF CollectedOK
<1>3. CASE TextDelta
  <2>1. collected' = Collected(s, "text", p)
    BY <1>1, <1>3 DEF TextDelta, Receive
  <2>2. collected' = [text |-> Append(s.text, p), reasoning |-> s.reasoning, calls |-> s.calls]
    BY <1>2, <2>1, CollectedCases
  <2>3. QED
    BY <1>1, <2>2
<1>4. CASE ReasoningDelta
  <2>1. collected' = Collected(s, "reasoning", p)
    BY <1>1, <1>4 DEF ReasoningDelta, Receive
  <2>2. collected' = [text |-> s.text, reasoning |-> Append(s.reasoning, p), calls |-> s.calls]
    BY <1>2, <2>1, CollectedCases
  <2>3. QED
    BY <1>1, <2>2
<1>5. QED
  BY <1>3, <1>4

LEMMA NothingNew ==
  ASSUME CollectedOK, NEW kind \in Others, OtherEvent(kind)
  PROVE  collected' = collected
<1>1. PICK s : s = collected
  OBVIOUS
<1>2. s = [text |-> s.text, reasoning |-> s.reasoning, calls |-> s.calls]
  BY <1>1 DEF CollectedOK
<1>3. QED
  BY <1>1, <1>2, CollectedCases DEF OtherEvent, Receive

LEMMA OutputStep == ASSUME IInv, CollectedOK, OutputAgrees, Next PROVE OutputAgrees'
<1>1. /\ GeneratorOK /\ None \notin Nat /\ nextOutputIndex \in Nat
      /\ messageIndex \in {None} \cup 0 .. nextOutputIndex - 1
      /\ reasoningIndex \in {None} \cup 0 .. nextOutputIndex - 1
      /\ text \in Seq(Pieces)
  BY MinusOne DEF IInv, GeneratorOK, None
<1>2. ASSUME NEW kind \in Others, OtherEvent(kind) PROVE collected' = collected
  BY <1>2, NothingNew
<1>3. CASE \/ Begin \/ Throw \/ Yield \/ \E kind \in Others : OtherEvent(kind)
  <2>1. /\ UNCHANGED streamVars /\ collected' = collected
        /\ stage = "ended" => stage' = "ended"
    BY <1>2, <1>3 DEF Begin, Throw, Yield, OtherEvent, Receive, Ready
  <2>2. Called' = Called
    BY <2>1 DEF Called, Opened, streamVars
  <2>3. QED
    BY <2>1, <2>2, SameCalls DEF streamVars, OutputAgrees
<1>4. CASE TextDelta
  <2>1. text' # <<>>
    BY <1>1, <1>4 DEF TextDelta
  <2>2. Called' = Called
    <3>1. CASE messageIndex = None
      BY <1>1, <1>4, <3>1 DEF TextDelta, Called, Opened
    <3>2. CASE messageIndex # None
      BY <1>4, <3>2 DEF TextDelta, Called, Opened
    <3>3. QED
      BY <3>1, <3>2
  <2>3. output' = output
    BY <1>4 DEF TextDelta
  <2>4. collected'.calls = collected.calls
    BY <1>4, KeptCalls
  <2>5. QED
    BY <2>1, <2>2, <2>3, <2>4, SameCalls
<1>5. CASE ReasoningDelta
  <2>1. messageIndex' = messageIndex /\ text' = text /\ output' = output
    BY <1>5 DEF ReasoningDelta
  <2>2. Called' = Called
    <3>1. CASE reasoningIndex = None
      BY <1>1, <1>5, <3>1 DEF ReasoningDelta, Called, Opened
    <3>2. CASE reasoningIndex # None
      BY <1>5, <3>2 DEF ReasoningDelta, Called, Opened
    <3>3. QED
      BY <3>1, <3>2
  <2>3. messageIndex # None => text # <<>>
    BY <1>5 DEF ReasoningDelta, Receive, Ready, OutputAgrees
  <2>4. collected'.calls = collected.calls
    BY <1>5, KeptCalls
  <2>5. QED
    BY <2>1, <2>2, <2>3, <2>4, SameCalls
<1>6. CASE ToolCall
  BY <1>6, OneMoreCall
<1>7. CASE Finish
  <2>1. /\ Called' = Called
        /\ \A j \in Called : output'[j] = output[j]
        /\ nextOutputIndex = 0 => messageIndex' = 0 /\ nextOutputIndex' = 1
        /\ nextOutputIndex # 0 => messageIndex' = messageIndex
    BY <1>1, <1>7, FinishedOutput
  <2>2. stage' = "ended" /\ text' = text /\ collected' = collected /\ stage # "ended"
    BY <1>7 DEF Finish, Ready
  <2>3. messageIndex # None => text # <<>>
    BY <2>2 DEF OutputAgrees
  <2>4. QED
    BY <2>1, <2>2, <2>3, SameCalls
<1>8. QED
  BY <1>3, <1>4, <1>5, <1>6, <1>7 DEF Next

(* What is read next is a chunk without an output, or the end.             *)
LEMMA NextChunk ==
  ASSUME IInv, queue # <<>>
  PROVE  /\ reader.phase # "completed"
         /\ \/ Head(queue).type \in {"created", "added", "delta", "done"}
            \/ stage = "ended" /\ Head(queue) = Completed(Final)
<1>1. PICK q, r : q = queue /\ r = reader
  OBVIOUS
<1>2. /\ Waits(q, r) /\ q # <<>>
      /\ stage \in {"new", "running", "ended", "thrown"}
  BY <1>1 DEF IInv, GeneratorOK
<1>3. CASE Opening(q, r)
  BY <1>1, <1>3 DEF Opening, Created
<1>4. CASE AddingText(q, r)
  BY <1>1, <1>4 DEF AddingText, Added
<1>5. CASE AddingDelta(q, r)
  BY <1>1, <1>5 DEF AddingDelta, Delta
<1>6. CASE Calling(q, r)
  <2>1. /\ r.phase = "created"
        /\ \E i, p, item : Head(q) \in {Added(i, "function_call"), Delta(i, p), Done(i, item)}
    BY <1>6 DEF Calling
  <2>2. QED
    BY <1>1, <2>1 DEF Added, Delta, Done
<1>7. CASE Ending(q, r) /\ stage = "ended"
  <2>1. /\ r.phase = "created"
        /\ \/ \E i : Head(q) = Added(i, "message")
           \/ Head(q) \in {DoneReasoning, DoneMessage}
           \/ Head(q) = Completed(Final)
    BY <1>7 DEF Ending
  <2>2. QED
    BY <1>1, <1>7, <2>1 DEF Added, DoneReasoning, DoneMessage, Done
<1>8. ~Idle(q, r)
  BY <1>2 DEF Idle
<1>9. QED
  BY <1>2, <1>3, <1>4, <1>5, <1>6, <1>7, <1>8 DEF Waits

LEMMA PartialAnswer ==
  ASSUME NEW r, NEW chunk, Fits(r), r.phase # "completed",
         chunk.type \in {"created", "added", "delta", "done"}
  PROVE  After(r, chunk).output = r.output /\ After(r, chunk).phase # "completed"
<1>1. DOMAIN r = {"phase", "items", "output"}
  BY DEF Fits
<1>2. PICK i, a, b, c, x, z :
        /\ i = chunk.index + 1
        /\ a = Append(r.items, [type |-> chunk.item, open |-> TRUE, text |-> <<>>])
        /\ x = [r.items[i] EXCEPT !.text = Append(@, chunk.piece)]
        /\ b = [r.items EXCEPT ![i] = x]
        /\ z = [r.items[i] EXCEPT !.open = FALSE]
        /\ c = [r.items EXCEPT ![i] = z]
  OBVIOUS
<1>3. CASE chunk.type = "created"
  <2>1. After(r, chunk) = [r EXCEPT !.phase = "created"]
    BY <1>3 DEF After
  <2>2. QED
    BY <1>1, <2>1
<1>4. ASSUME NEW items, \/ After(r, chunk) = [r EXCEPT !.items = items]
                        \/ After(r, chunk) = [r EXCEPT !.phase = "lost"]
      PROVE  After(r, chunk).output = r.output /\ After(r, chunk).phase # "completed"
  BY <1>1, <1>4
<1>5. CASE chunk.type = "added"
  <2>1. \/ After(r, chunk) = [r EXCEPT !.items = a]
        \/ After(r, chunk) = [r EXCEPT !.phase = "lost"]
    BY <1>2, <1>5 DEF After
  <2>2. QED
    BY <1>4, <2>1
<1>6. CASE chunk.type = "delta"
  <2>1. \/ After(r, chunk) = [r EXCEPT !.items = b]
        \/ After(r, chunk) = [r EXCEPT !.phase = "lost"]
    BY <1>2, <1>6 DEF After
  <2>2. QED
    BY <1>4, <2>1
<1>7. CASE chunk.type = "done"
  <2>1. \/ After(r, chunk) = [r EXCEPT !.items = c]
        \/ After(r, chunk) = [r EXCEPT !.phase = "lost"]
    BY <1>2, <1>7 DEF After
  <2>2. QED
    BY <1>4, <2>1
<1>8. QED
  BY <1>3, <1>5, <1>6, <1>7

LEMMA ReaderStep == ASSUME IInv, ReaderAgrees, IInv', Next PROVE ReaderAgrees'
<1>1. CASE Yield
  <2>1. PICK q, r : q = queue /\ r = reader
    OBVIOUS
  <2>2. /\ q # <<>> /\ reader' = After(r, Head(q)) /\ stage' = stage
        /\ UNCHANGED streamVars
    BY <1>1, <2>1 DEF Yield
  <2>3. Final' = Final
    BY <2>2 DEF Final, streamVars, Kind, Text
  <2>4. r.output = <<>> /\ r.phase # "completed" /\ Fits(r)
    BY <2>1, <2>2, NextChunk DEF ReaderAgrees, IInv, Waits
  <2>5. CASE Head(q).type \in {"created", "added", "delta", "done"}
    <3>1. reader'.output = <<>> /\ reader'.phase # "completed"
      BY <2>2, <2>4, <2>5, PartialAnswer
    <3>2. QED
      BY <3>1 DEF ReaderAgrees
  <2>6. CASE stage = "ended" /\ Head(q) = Completed(Final)
    <3>1. PICK list : list = Final
      OBVIOUS
    <3>2. \E phase \in {"completed", "lost"} :
            After(r, Completed(list)) = [r EXCEPT !.output = list, !.phase = phase]
      BY DEF After, Completed
    <3>3. reader'.output = list /\ reader'.phase \in {"completed", "lost"}
      BY <2>2, <2>4, <2>6, <3>1, <3>2 DEF Fits
    <3>4. reader'.phase \in {"created", "completed"}
      BY <2>2, <2>6 DEF IInv, Waits, Ending
    <3>5. QED
      BY <2>2, <2>3, <2>6, <3>1, <3>3, <3>4 DEF ReaderAgrees
  <2>7. QED
    BY <2>1, <2>2, <2>5, <2>6, NextChunk
<1>2. CASE reader' = reader /\ queue = <<>> /\ stage # "ended"
  <2>1. reader.phase # "completed"
    BY <1>2 DEF IInv, Waits, Idle, Opening, AddingText, AddingDelta, Calling, GeneratorOK
  <2>2. QED
    BY <1>2, <2>1 DEF ReaderAgrees
<1>3. QED
  BY <1>1, <1>2 DEF Next, Begin, TextDelta, ReasoningDelta, ToolCall, OtherEvent, Receive,
                    Throw, Finish, Ready

LEMMA AgreeInit == Init => AgreeInv
<1> SUFFICES ASSUME Init PROVE AgreeInv
  OBVIOUS
<1>1. CollectedOK
  BY DEF Init, CollectedOK, NothingCollected
<1>2. OutputAgrees
  <2>1. Called = {} /\ collected.calls = <<>> /\ messageIndex = None
    BY DEF Init, Called, NothingCollected
  <2>2. QED
    BY <2>1 DEF OutputAgrees
<1>3. ReaderAgrees
  BY DEF Init, ReaderAgrees
<1>4. QED
  BY <1>1, <1>2, <1>3, InitHolds DEF AgreeInv

LEMMA AgreeStutters == ASSUME AgreeInv, UNCHANGED vars PROVE AgreeInv'
<1>1. IInv'
  BY StutterKeeps DEF AgreeInv
<1>2. UNCHANGED <<events, collected, stage, text, reasoning, nextOutputIndex,
                  messageIndex, reasoningIndex, output, reader>>
  BY DEF vars, streamVars
<1>3. CollectedOK'
  BY <1>2 DEF AgreeInv, CollectedOK
<1>4. OutputAgrees'
  BY <1>2 DEF AgreeInv, OutputAgrees, Called, Opened, CallItem
<1>5. ReaderAgrees'
  BY <1>2 DEF AgreeInv, ReaderAgrees, Final, Kind, Text
<1>6. QED
  BY <1>1, <1>3, <1>4, <1>5 DEF AgreeInv

LEMMA AgreeStep == AgreeInv /\ [Next]_vars => AgreeInv'
<1> SUFFICES ASSUME AgreeInv, [Next]_vars PROVE AgreeInv'
  OBVIOUS
<1>1. CASE Next
  BY <1>1, StepKeeps, CollectedStep, OutputStep, ReaderStep DEF AgreeInv
<1>2. CASE UNCHANGED vars
  BY <1>2, AgreeStutters
<1>3. QED
  BY <1>1, <1>2

(* A list of items of three kinds in a row.                                *)
LEMMA InARow ==
  ASSUME NEW S, NEW a \in Seq(S), NEW b \in Seq(S), NEW c \in Seq(S)
  PROVE  LET s == a \o b \o c
         IN /\ s \in Seq(S) /\ Len(s) = Len(a) + Len(b) + Len(c)
            /\ Len(a) \in Nat /\ Len(b) \in Nat /\ Len(c) \in Nat
            /\ \A i \in 1 .. Len(a) : s[i] = a[i]
            /\ \A i \in 1 .. Len(b) : s[Len(a) + i] = b[i]
            /\ \A i \in 1 .. Len(c) : s[Len(a) + Len(b) + i] = c[i]
<1>1. PICK ab : ab = a \o b
  OBVIOUS
<1>2. PICK s : s = ab \o c
  OBVIOUS
<1>3. Len(a) \in Nat /\ Len(b) \in Nat /\ Len(c) \in Nat
  BY LenProperties
<1>4. /\ ab \in Seq(S) /\ Len(ab) = Len(a) + Len(b)
      /\ \A i \in 1 .. Len(ab) : ab[i] = IF i <= Len(a) THEN a[i] ELSE b[i - Len(a)]
  BY <1>1, ConcatProperties
<1>5. /\ s \in Seq(S) /\ Len(s) = Len(ab) + Len(c)
      /\ \A i \in 1 .. Len(s) : s[i] = IF i <= Len(ab) THEN ab[i] ELSE c[i - Len(ab)]
  <2>1. /\ ab \o c \in Seq(S) /\ Len(ab \o c) = Len(ab) + Len(c)
        /\ \A i \in 1 .. Len(ab) + Len(c) :
             (ab \o c)[i] = IF i <= Len(ab) THEN ab[i] ELSE c[i - Len(ab)]
    <3>1. ab \in Seq(S)
      BY <1>4
    <3>2. QED
      BY <3>1, ConcatProperties
  <2>2. QED
    BY <1>2, <2>1
<1>6. \A i \in 1 .. Len(a) : s[i] = a[i]
  BY <1>3, <1>4, <1>5
<1>7. ASSUME NEW i \in 1 .. Len(b) PROVE s[Len(a) + i] = b[i]
  <2>1. PICK k : k = Len(a) + i
    OBVIOUS
  <2>2. k \in 1 .. Len(ab) /\ ~(k <= Len(a)) /\ k - Len(a) = i /\ k \in 1 .. Len(s)
    BY <1>3, <1>4, <1>5, <2>1
  <2>3. QED
    BY <1>4, <1>5, <2>1, <2>2
<1>8. ASSUME NEW i \in 1 .. Len(c) PROVE s[Len(a) + Len(b) + i] = c[i]
  <2>1. PICK k : k = Len(a) + Len(b) + i
    OBVIOUS
  <2>2. ~(k <= Len(ab)) /\ k - Len(ab) = i /\ k \in 1 .. Len(s)
    BY <1>3, <1>4, <1>5, <2>1
  <2>3. QED
    BY <1>4, <1>5, <2>1, <2>2
<1>9. s = a \o b \o c
  BY <1>1, <1>2
<1>10. QED
  BY <1>3, <1>4, <1>5, <1>6, <1>7, <1>8, <1>9

(* What the whole answer is made of.                                       *)
Thought == IF collected.reasoning = <<>> THEN <<>>
           ELSE <<Item("reasoning", collected.reasoning)>>
Answered == IF collected.text = <<>> /\ collected.calls # <<>> THEN <<>>
            ELSE <<Item("message", collected.text)>>
Calls == [i \in 1 .. Len(collected.calls) |-> Item("function_call", <<collected.calls[i]>>)]

Told(x) ==
  \/ x = Item("reasoning", reasoning) /\ reasoning # <<>>
  \/ x = Item("message", text) /\ text # <<>>
  \/ \E i \in 1 .. Len(collected.calls) : x = CallItem(i)

LEMMA WholeAnswer ==
  ASSUME AgreeInv
  PROVE  /\ \A x : x \in ToSet(ToResponse) \ {Empty} <=> Told(x)
         /\ InUpstreamOrder(ToResponse)
<1>1. PICK a, b, c, s : a = Thought /\ b = Answered /\ c = Calls /\ s = ToResponse
  OBVIOUS
<1>2. s = a \o b \o c
  BY <1>1 DEF ToResponse, Thought, Answered, Calls
<1>3. collected.text = text /\ collected.reasoning = reasoning
  BY DEF AgreeInv, CollectedOK
<1>4. /\ collected.calls \in Seq(Nat) /\ Len(collected.calls) \in Nat
      /\ \A i, j \in 1 .. Len(collected.calls) :
           i < j => collected.calls[i] < collected.calls[j]
  BY LenProperties DEF AgreeInv, CollectedOK
<1>5. /\ reasoning = <<>> => a = <<>>
      /\ reasoning # <<>> => a = <<Item("reasoning", reasoning)>>
  BY <1>1, <1>3 DEF Thought
<1>6. /\ b = <<>> => text = <<>>
      /\ b = <<>> \/ b = <<Item("message", text)>>
  BY <1>1, <1>3 DEF Answered
<1>7. /\ Len(a) \in {0, 1} /\ Len(b) \in {0, 1} /\ Len(c) = Len(collected.calls)
      /\ Len(a) = 1 => reasoning # <<>> /\ a[1] = Item("reasoning", reasoning)
      /\ Len(a) = 0 => reasoning = <<>>
      /\ Len(b) = 1 => b[1] = Item("message", text)
      /\ Len(b) = 0 => text = <<>>
      /\ \A i \in 1 .. Len(c) : c[i] = CallItem(i)
  <2>1. Len(c) = Len(collected.calls) /\ \A i \in 1 .. Len(c) : c[i] = CallItem(i)
    BY <1>1, <1>4 DEF Calls, CallItem
  <2>2. QED
    BY <1>5, <1>6, <2>1
<1> DEFINE S == {Item("reasoning", reasoning), Item("message", text)}
                \cup {CallItem(i) : i \in 1 .. Len(collected.calls)}
<1>8. a \in Seq(S) /\ b \in Seq(S) /\ c \in Seq(S)
  <2>1. \A i \in 1 .. Len(collected.calls) : CallItem(i) \in S
    OBVIOUS
  <2>2. Item("reasoning", reasoning) \in S /\ Item("message", text) \in S
    OBVIOUS
  <2> HIDE DEF S
  <2>3. c \in Seq(S)
    <3>1. c = [i \in 1 .. Len(collected.calls) |-> CallItem(i)]
      BY <1>1 DEF Calls, CallItem
    <3>2. c \in [1 .. Len(collected.calls) -> S]
      BY <2>1, <3>1, Zenon
    <3>3. PICK m \in Nat : c \in [1 .. m -> S]
      BY <1>4, <3>2
    <3>4. QED
      BY <3>3, SeqDef
  <2>4. <<>> \in Seq(S)
    OBVIOUS
  <2>5. ASSUME NEW x \in S PROVE <<x>> \in Seq(S)
    OBVIOUS
  <2>6. QED
    BY <1>5, <1>6, <2>2, <2>3, <2>4, <2>5, Zenon
<1> HIDE DEF S
<1>9. PICK la, lb, lc : la = Len(a) /\ lb = Len(b) /\ lc = Len(c)
  OBVIOUS
<1>a. /\ la \in {0, 1} /\ lb \in {0, 1} /\ lc \in Nat /\ lc = Len(collected.calls)
      /\ la = 0 => reasoning = <<>>
      /\ la = 1 => reasoning # <<>>
      /\ lb = 0 => text = <<>>
  BY <1>4, <1>7, <1>9
<1>b. la \in Nat /\ lb \in Nat /\ lc \in Nat /\ la <= 1 /\ lb <= 1
  <2>1. la \in {0, 1} /\ lb \in {0, 1} /\ lc \in Nat
    BY <1>a
  <2>2. QED
    BY <2>1
<1>10. /\ DOMAIN s = 1 .. la + lb + lc
       /\ la = 1 => s[1] = Item("reasoning", reasoning)
       /\ lb = 1 => s[la + 1] = Item("message", text)
       /\ \A i \in 1 .. lc : s[la + lb + i] = CallItem(i)
  <2>1. /\ a \o b \o c \in Seq(S) /\ Len(a \o b \o c) = Len(a) + Len(b) + Len(c)
        /\ \A i \in 1 .. Len(a) : (a \o b \o c)[i] = a[i]
        /\ \A i \in 1 .. Len(b) : (a \o b \o c)[Len(a) + i] = b[i]
        /\ \A i \in 1 .. Len(c) : (a \o b \o c)[Len(a) + Len(b) + i] = c[i]
    BY <1>8, InARow
  <2>2. /\ s \in Seq(S) /\ Len(s) = la + lb + lc
        /\ \A i \in 1 .. la : s[i] = a[i]
        /\ \A i \in 1 .. lb : s[la + i] = b[i]
        /\ \A i \in 1 .. lc : s[la + lb + i] = c[i]
    BY <1>2, <1>9, <2>1
  <2>3. DOMAIN s = 1 .. la + lb + lc
    BY <2>2, LenProperties
  <2>4. la = 1 => s[1] = a[1]
    BY <2>2
  <2>5. lb = 1 => s[la + 1] = b[1]
    BY <2>2
  <2>6. QED
    BY <1>7, <1>9, <2>2, <2>3, <2>4, <2>5
<1>c. \A k \in DOMAIN s : k \in Nat /\ 1 <= k /\ k <= la + lb + lc
  <2>1. DOMAIN s = 1 .. la + lb + lc
    BY <1>10
  <2>2. QED
    BY <1>b, <2>1
<1>11. ASSUME NEW k \in DOMAIN s
       PROVE  \/ k = 1 /\ la = 1
              \/ k = la + 1 /\ lb = 1
              \/ \E i \in 1 .. lc : k = la + lb + i
  <2>1. CASE k > la + lb
    <3>1. k - (la + lb) \in 1 .. lc /\ k = la + lb + (k - (la + lb))
      BY <1>b, <1>c, <2>1
    <3>2. QED
      BY <3>1
  <2>2. CASE ~(k > la + lb)
    BY <1>b, <1>c, <2>2
  <2>3. QED
    BY <2>1, <2>2
<1>12. \A x : x \in ToSet(s) <=> \E k \in DOMAIN s : x = s[k]
  BY DEF ToSet
<1>13. ASSUME NEW x, x \in ToSet(s), x # Empty PROVE Told(x)
  <2>1. PICK k \in DOMAIN s : x = s[k]
    BY <1>12, <1>13
  <2>2. CASE k = 1 /\ la = 1
    BY <1>10, <1>a, <2>1, <2>2 DEF Told
  <2>3. CASE k = la + 1 /\ lb = 1
    BY <1>10, <1>13, <2>1, <2>3 DEF Told, Empty
  <2>4. CASE \E i \in 1 .. lc : k = la + lb + i
    BY <1>10, <1>a, <2>1, <2>4 DEF Told
  <2>5. QED
    BY <1>11, <2>2, <2>3, <2>4
<1>14. ASSUME NEW x, Told(x) PROVE x \in ToSet(s) /\ x # Empty
  <2>1. CASE x = Item("reasoning", reasoning) /\ reasoning # <<>>
    <3>1. la = 1
      BY <1>a, <2>1
    <3>2. 1 \in DOMAIN s
      <4>1. 1 \in 1 .. la + lb + lc
        BY <1>b, <3>1
      <4>2. QED
        BY <1>10, <4>1
    <3>3. x \in ToSet(s)
      BY <1>10, <1>12, <2>1, <3>1, <3>2
    <3>4. x.type = "reasoning" /\ Empty.type = "message"
      BY <2>1 DEF Empty, Item
    <3>5. QED
      BY <3>3, <3>4
  <2>2. CASE x = Item("message", text) /\ text # <<>>
    <3>1. lb = 1
      BY <1>a, <2>2
    <3>5. la + 1 \in DOMAIN s
      <4>1. la + 1 \in 1 .. la + lb + lc
        BY <1>b, <3>1
      <4>2. QED
        BY <1>10, <4>1
    <3>2. x \in ToSet(s)
      BY <1>10, <1>12, <2>2, <3>1, <3>5
    <3>3. x.text # <<>> /\ Empty.text = <<>>
      BY <2>2 DEF Empty, Item
    <3>4. QED
      BY <3>2, <3>3
  <2>3. ASSUME NEW i \in 1 .. Len(collected.calls), x = CallItem(i)
        PROVE  x \in ToSet(s) /\ x # Empty
    <3>1. i \in 1 .. lc /\ la + lb + i \in DOMAIN s
      <4>1. i \in 1 .. lc
        BY <1>a
      <4>3. la + lb + i \in 1 .. la + lb + lc
        BY <1>b, <4>1
      <4>2. QED
        BY <1>10, <4>1, <4>3
    <3>2. x \in ToSet(s)
      BY <1>10, <1>12, <2>3, <3>1
    <3>3. x.type = "function_call" /\ Empty.type = "message"
      BY <2>3 DEF CallItem, Item, Empty
    <3>4. QED
      BY <3>2, <3>3
  <2>4. QED
    BY <1>14, <2>1, <2>2, <2>3 DEF Told
<1>15. ASSUME NEW k \in DOMAIN s, NEW l \in DOMAIN s, k < l, s[k].type = s[l].type
       PROVE  s[k].type = "function_call" /\ s[k].text[1] < s[l].text[1]
  <2>1. /\ la = 1 => s[1].type = "reasoning"
        /\ lb = 1 => s[la + 1].type = "message"
        /\ \A i \in 1 .. lc : s[la + lb + i].type = "function_call"
    <3>1. \A i : CallItem(i).type = "function_call"
      BY DEF Item, CallItem
    <3>2. Item("reasoning", reasoning).type = "reasoning" /\ Item("message", text).type = "message"
      BY DEF Item
    <3>3. QED
      BY <1>10, <3>1, <3>2
  <2>2. PICK i \in 1 .. lc, j \in 1 .. lc : k = la + lb + i /\ l = la + lb + j
    <3>1. ASSUME NEW h \in DOMAIN s
          PROVE  \/ la = 1 /\ h = 1 /\ s[h].type = "reasoning"
                 \/ lb = 1 /\ h = la + 1 /\ s[h].type = "message"
                 \/ \E i \in 1 .. lc : h = la + lb + i /\ s[h].type = "function_call"
      BY <1>11, <2>1
    <3>2. (\E i \in 1 .. lc : k = la + lb + i) /\ (\E j \in 1 .. lc : l = la + lb + j)
      BY <1>a, <1>15, <3>1
    <3>3. QED
      BY <3>2
  <2>3. i < j
    BY <1>b, <1>15, <2>2
  <2>4. s[k] = CallItem(i) /\ s[l] = CallItem(j)
    BY <1>10, <1>a, <2>2
  <2>5. collected.calls[i] < collected.calls[j]
    BY <1>4, <1>a, <2>3
  <2>6. QED
    BY <2>4, <2>5 DEF CallItem, Item
<1>16. QED
  BY <1>1, <1>13, <1>14, <1>15 DEF InUpstreamOrder

LEMMA StreamedAnswer ==
  ASSUME AgreeInv, stage = "ended"
  PROVE  /\ \A x : x \in ToSet(Final) \ {Empty} <=> Told(x)
         /\ InUpstreamOrder(Final)
         /\ Empty \in ToSet(Final) => Len(Final) = 1
<1>1. PICK n, s : n = nextOutputIndex /\ s = Final
  OBVIOUS
<1>2. /\ n \in Nat /\ None \notin Nat
      /\ messageIndex \in {None} \cup 0 .. n - 1 /\ reasoningIndex \in {None} \cup 0 .. n - 1
      /\ messageIndex # None => messageIndex # reasoningIndex
      /\ messageIndex = None => text = <<>>
      /\ reasoningIndex = None => reasoning = <<>>
      /\ \A j \in Called : output[j] = Item("function_call", output[j].text)
  BY <1>1, MinusOne DEF AgreeInv, IInv, GeneratorOK, None, Called
<1>a. ASSUME NEW j \in Called PROVE output[j].type = "function_call"
  <2>1. PICK t : output[j] = Item("function_call", t)
    BY <1>2
  <2>2. QED
    BY <2>1 DEF Item
<1>3. /\ reasoningIndex # None => reasoning # <<>>
      /\ messageIndex # None /\ text = <<>> => n = 1
      /\ \A j \in Called : \E i \in 1 .. Len(collected.calls) : output[j] = CallItem(i)
      /\ \A i \in 1 .. Len(collected.calls) : \E j \in Called : output[j] = CallItem(i)
      /\ \A j, k \in Called : j < k => output[j].text[1] < output[k].text[1]
  BY <1>1 DEF AgreeInv, CollectedOK, OutputAgrees
<1>4. /\ DOMAIN s = 1 .. n /\ Len(s) = n
      /\ \A k \in 1 .. n : s[k] = Item(Kind(k - 1), Text(k - 1))
  BY <1>1, <1>2 DEF Final
<1>5. ASSUME NEW k \in 1 .. n
      PROVE  /\ k - 1 = reasoningIndex => s[k] = Item("reasoning", reasoning)
             /\ k - 1 = messageIndex => s[k] = Item("message", text)
             /\ k - 1 \in Called => s[k] = output[k - 1]
             /\ k - 1 = reasoningIndex \/ k - 1 = messageIndex \/ k - 1 \in Called
  <2>1. PICK j \in 0 .. n - 1 : j = k - 1
    BY <1>2
  <2>2. s[k] = Item(Kind(j), Text(j))
    BY <1>4, <2>1
  <2>3. j = reasoningIndex => s[k] = Item("reasoning", reasoning)
    BY <2>2 DEF Kind, Text
  <2>4. j = messageIndex => s[k] = Item("message", text)
    BY <1>2, <2>1, <2>2 DEF Kind, Text
  <2>5. j \in Called => s[k] = output[j]
    BY <1>2, <2>2 DEF Kind, Text, Called, Opened
  <2>6. j = reasoningIndex \/ j = messageIndex \/ j \in Called
    BY <1>1, <2>1 DEF Called, Opened
  <2>7. QED
    BY <2>1, <2>3, <2>4, <2>5, <2>6
<1>6. \A x : x \in ToSet(s) <=> \E k \in 1 .. n : x = s[k]
  BY <1>4 DEF ToSet
<1>7. ASSUME NEW x, x \in ToSet(s), x # Empty PROVE Told(x)
  <2>1. PICK k \in 1 .. n : x = s[k]
    BY <1>6, <1>7
  <2>2. CASE k - 1 = reasoningIndex
    <3>1. reasoningIndex # None
      BY <1>2, <2>2
    <3>2. QED
      BY <1>3, <1>5, <2>1, <2>2, <3>1 DEF Told
  <2>3. CASE k - 1 = messageIndex
    BY <1>5, <1>7, <2>1, <2>3 DEF Told, Empty
  <2>4. CASE k - 1 \in Called
    <3>1. PICK i \in 1 .. Len(collected.calls) : output[k - 1] = CallItem(i)
      BY <1>3, <2>4
    <3>2. x = CallItem(i)
      BY <1>5, <2>1, <2>4, <3>1
    <3>3. QED
      BY <3>2 DEF Told
  <2>5. QED
    BY <1>5, <2>2, <2>3, <2>4
<1>8. ASSUME NEW j \in 0 .. n - 1 PROVE \E k \in 1 .. n : k - 1 = j
  <2>1. j + 1 \in 1 .. n /\ (j + 1) - 1 = j
    BY <1>2
  <2>2. QED
    BY <2>1
<1>9. ASSUME NEW x, Told(x) PROVE x \in ToSet(s) /\ x # Empty
  <2>1. CASE x = Item("reasoning", reasoning) /\ reasoning # <<>>
    <3>1. reasoningIndex \in 0 .. n - 1
      BY <1>2, <2>1
    <3>2. PICK k \in 1 .. n : k - 1 = reasoningIndex
      BY <1>8, <3>1
    <3>3. x \in ToSet(s)
      BY <1>5, <1>6, <2>1, <3>2
    <3>4. x.type = "reasoning" /\ Empty.type = "message"
      BY <2>1 DEF Empty, Item
    <3>5. QED
      BY <3>3, <3>4
  <2>2. CASE x = Item("message", text) /\ text # <<>>
    <3>1. messageIndex \in 0 .. n - 1
      BY <1>2, <2>2
    <3>2. PICK k \in 1 .. n : k - 1 = messageIndex
      BY <1>8, <3>1
    <3>3. x \in ToSet(s)
      BY <1>5, <1>6, <2>2, <3>2
    <3>4. x.text # <<>> /\ Empty.text = <<>>
      BY <2>2 DEF Empty, Item
    <3>5. QED
      BY <3>3, <3>4
  <2>3. ASSUME NEW i \in 1 .. Len(collected.calls), x = CallItem(i)
        PROVE  x \in ToSet(s) /\ x # Empty
    <3>1. PICK j \in Called : output[j] = CallItem(i)
      BY <1>3
    <3>2. PICK k \in 1 .. n : k - 1 = j
      BY <1>1, <1>8, <3>1 DEF Called
    <3>3. x \in ToSet(s)
      BY <1>5, <1>6, <2>3, <3>1, <3>2
    <3>4. x.type = "function_call" /\ Empty.type = "message"
      BY <2>3 DEF CallItem, Item, Empty
    <3>5. QED
      BY <3>3, <3>4
  <2>4. QED
    BY <1>9, <2>1, <2>2, <2>3 DEF Told
<1>10. ASSUME NEW k \in 1 .. n, NEW l \in 1 .. n, k < l, s[k].type = s[l].type
       PROVE  s[k].type = "function_call" /\ s[k].text[1] < s[l].text[1]
  <2>1. ASSUME NEW h \in 1 .. n
        PROVE  /\ h - 1 = reasoningIndex => s[h].type = "reasoning"
               /\ h - 1 = messageIndex => s[h].type = "message"
               /\ h - 1 \in Called => s[h].type = "function_call"
    <3>1. h - 1 \in Called => output[h - 1].type = "function_call"
      BY <1>a
    <3>2. QED
      BY <1>5, <3>1 DEF Item
  <2>2. k - 1 # l - 1
    BY <1>10
  <2>3. k - 1 \in Called /\ l - 1 \in Called
    <3>1. PICK a, b : a = k - 1 /\ b = l - 1
      OBVIOUS
    <3>2. /\ a # b
          /\ a = reasoningIndex \/ a = messageIndex \/ a \in Called
          /\ b = reasoningIndex \/ b = messageIndex \/ b \in Called
          /\ a = reasoningIndex => s[k].type = "reasoning"
          /\ a = messageIndex => s[k].type = "message"
          /\ a \in Called => s[k].type = "function_call"
          /\ b = reasoningIndex => s[l].type = "reasoning"
          /\ b = messageIndex => s[l].type = "message"
          /\ b \in Called => s[l].type = "function_call"
      BY <1>5, <2>1, <2>2, <3>1
    <3>3. a \in Called /\ b \in Called
      BY <1>10, <3>2
    <3>4. QED
      BY <3>1, <3>3
  <2>4. PICK a \in Called, b \in Called : a = k - 1 /\ b = l - 1
    BY <2>3
  <2>5. a < b
    BY <1>10, <2>4
  <2>6. output[a].text[1] < output[b].text[1]
    BY <1>3, <2>5
  <2>7. s[k] = output[a] /\ s[l] = output[b]
    BY <1>5, <2>3, <2>4
  <2>8. QED
    BY <2>1, <2>3, <2>6, <2>7
<1>11. ASSUME Empty \in ToSet(s) PROVE n = 1
  <2>1. PICK k \in 1 .. n : s[k] = Empty
    BY <1>6, <1>11
  <2>2. CASE k - 1 = messageIndex
    <3>1. text = <<>>
      <4>1. Item("message", text) = Item("message", <<>>)
        BY <1>5, <2>1, <2>2 DEF Empty
      <4>2. QED
        BY <4>1 DEF Item
    <3>2. messageIndex # None
      BY <1>2, <2>2
    <3>3. QED
      BY <1>3, <3>1, <3>2
  <2>3. CASE k - 1 = reasoningIndex
    BY <1>5, <2>1, <2>3 DEF Empty, Item
  <2>4. CASE k - 1 \in Called
    <3>1. output[k - 1].type = "function_call"
      BY <1>a, <2>4
    <3>2. QED
      BY <1>5, <2>1, <2>4, <3>1 DEF Empty, Item
  <2>5. QED
    BY <1>5, <2>2, <2>3, <2>4
<1>12. InUpstreamOrder(s)
  BY <1>4, <1>10 DEF InUpstreamOrder
<1>13. QED
  BY <1>1, <1>4, <1>7, <1>9, <1>11, <1>12

LEMMA AgreeInvAgrees == AgreeInv => StreamAgreesWithWhole
<1> SUFFICES ASSUME AgreeInv, reader.output # <<>>
             PROVE  /\ ToSet(reader.output) \ {Empty} = ToSet(ToResponse) \ {Empty}
                    /\ InUpstreamOrder(reader.output) /\ InUpstreamOrder(ToResponse)
                    /\ Empty \in ToSet(reader.output) => Len(reader.output) = 1
  BY DEF StreamAgreesWithWhole
<1>1. stage = "ended" /\ reader.output = Final
  BY DEF AgreeInv, ReaderAgrees
<1>2. PICK s, w : s = Final /\ w = ToResponse
  OBVIOUS
<1>3. /\ \A x : x \in ToSet(s) \ {Empty} <=> Told(x)
      /\ InUpstreamOrder(s) /\ (Empty \in ToSet(s) => Len(s) = 1)
  BY <1>1, <1>2, StreamedAnswer
<1>4. (\A x : x \in ToSet(w) \ {Empty} <=> Told(x)) /\ InUpstreamOrder(w)
  BY <1>2, WholeAnswer
<1>5. ToSet(s) \ {Empty} = ToSet(w) \ {Empty}
  BY <1>3, <1>4, Zenon
<1>6. QED
  BY <1>1, <1>2, <1>3, <1>4, <1>5

(* For any number of upstream events in any order, the response the stream *)
(* ends with and the response without a stream hold the same items: the    *)
(* same texts, the tool calls in the upstream's order in both, whatever    *)
(* was opened, closed or filled out of turn on the way, and an empty       *)
(* message only where there is nothing else (responses.ts:306-391 against  *)
(* 393-608).                                                               *)
THEOREM StreamIsTheWhole == Spec => []StreamAgreesWithWhole
<1>1. QED
  BY AgreeInit, AgreeStep, AgreeInvAgrees, PTL DEF Spec

-----------------------------------------------------------------------------
(* The two clients.                                                        *)

Made(phase, t, r, c, reason, u) ==
  [phase |-> phase, text |-> t, reasoning |-> r, calls |-> c, reason |-> reason, usage |-> u]
TheCalls == [i \in 1 .. Len(collected.calls) |-> <<collected.calls[i]>>]

(* Until the end the Chat client has what both other translations have.    *)
Following ==
  /\ aggregate = Made("done", text, reasoning, TheCalls, "none", usage)
  /\ seen = Made(IF stage = "new" THEN "new" ELSE "open",
                 text, reasoning, TheCalls, "none", Chat!NoUsage)
  /\ toolIndex = Len(collected.calls)
  /\ sawToolCall = (collected.calls # <<>>)
Answer ==
  \E reason, u :
    /\ aggregate = Made("done", text, reasoning, TheCalls, reason, u)
    /\ seen = Made("done", text, reasoning, TheCalls, reason,
                   IF includeUsage THEN u ELSE Chat!NoUsage)
ChatInv == IF stage = "ended" THEN Answer ELSE Following

BothInv == AgreeInv /\ ChatInv

LEMMA TookRole ==
  ASSUME NEW t, NEW r, NEW c, NEW reason, NEW u
  PROVE  Chat!Took(Made("new", t, r, c, reason, u), Chat!Role)
           = Made("open", t, r, c, reason, u)
<1>1. PICK s : s = Made("new", t, r, c, reason, u)
  OBVIOUS
<1>2. Chat!Took(s, Chat!Role) = [s EXCEPT !.phase = "open"]
  BY <1>1 DEF Chat!Took, Chat!Role, Made
<1>3. [s EXCEPT !.phase = "open"] = Made("open", t, r, c, reason, u)
  BY <1>1 DEF Made
<1>4. QED
  BY <1>1, <1>2, <1>3

LEMMA TookContent ==
  ASSUME NEW t, NEW r, NEW c, NEW reason, NEW u, NEW x
  PROVE  Chat!Took(Made("open", t, r, c, reason, u), Chat!Content(x))
           = Made("open", Append(t, x), r, c, reason, u)
<1>0. PICK y : y = Append(t, x)
  OBVIOUS
<1>1. PICK s : s = Made("open", t, r, c, reason, u)
  OBVIOUS
<1>2. Chat!Took(s, Chat!Content(x)) = [s EXCEPT !.text = y]
  BY <1>1, <1>0 DEF Chat!Took, Chat!Content, Made
<1>3. [s EXCEPT !.text = y] = Made("open", y, r, c, reason, u)
  BY <1>1 DEF Made
<1>4. QED
  BY <1>0, <1>1, <1>2, <1>3

LEMMA TookReasoning ==
  ASSUME NEW t, NEW r, NEW c, NEW reason, NEW u, NEW x
  PROVE  Chat!Took(Made("open", t, r, c, reason, u), Chat!Reasoning(x))
           = Made("open", t, Append(r, x), c, reason, u)
<1>0. PICK y : y = Append(r, x)
  OBVIOUS
<1>1. PICK s : s = Made("open", t, r, c, reason, u)
  OBVIOUS
<1>2. Chat!Took(s, Chat!Reasoning(x)) = [s EXCEPT !.reasoning = y]
  BY <1>1, <1>0 DEF Chat!Took, Chat!Reasoning, Made
<1>3. [s EXCEPT !.reasoning = y] = Made("open", t, y, c, reason, u)
  BY <1>1 DEF Made
<1>4. QED
  BY <1>0, <1>1, <1>2, <1>3

LEMMA TookCall ==
  ASSUME NEW t, NEW r, NEW c, NEW reason, NEW u, NEW x
  PROVE  Chat!Took(Made("open", t, r, c, reason, u), Chat!Call(Len(c), x))
           = Made("open", t, r, Append(c, <<x>>), reason, u)
<1>0. PICK y : y = Append(c, <<x>>)
  OBVIOUS
<1>1. PICK s : s = Made("open", t, r, c, reason, u)
  OBVIOUS
<1>2. Chat!Took(s, Chat!Call(Len(c), x)) = [s EXCEPT !.calls = y]
  BY <1>1, <1>0 DEF Chat!Took, Chat!Call, Made
<1>3. [s EXCEPT !.calls = y] = Made("open", t, r, y, reason, u)
  BY <1>1 DEF Made
<1>4. QED
  BY <1>0, <1>1, <1>2, <1>3

LEMMA TookFinished ==
  ASSUME NEW t, NEW r, NEW c, NEW reason, NEW u, NEW x
  PROVE  Chat!Took(Made("open", t, r, c, reason, u), Chat!Finished(x))
           = Made("finished", t, r, c, x, u)
<1>1. PICK s : s = Made("open", t, r, c, reason, u)
  OBVIOUS
<1>2. PICK v : v = [s EXCEPT !.phase = "finished"]
  OBVIOUS
<1>3. v = Made("finished", t, r, c, reason, u)
  BY <1>1, <1>2 DEF Made
<1>4. [v EXCEPT !.reason = x] = Made("finished", t, r, c, x, u)
  BY <1>3 DEF Made
<1>5. Chat!Took(s, Chat!Finished(x)) = [s EXCEPT !.phase = "finished", !.reason = x]
  BY <1>1 DEF Chat!Took, Chat!Finished, Made
<1>6. [s EXCEPT !.phase = "finished", !.reason = x] = [v EXCEPT !.reason = x]
  BY <1>2
<1>7. QED
  BY <1>1, <1>4, <1>5, <1>6

LEMMA TookUsage ==
  ASSUME NEW t, NEW r, NEW c, NEW reason, NEW u, NEW x
  PROVE  Chat!Took(Made("finished", t, r, c, reason, u), Chat!Usage(x))
           = Made("finished", t, r, c, reason, x)
<1>1. PICK s : s = Made("finished", t, r, c, reason, u)
  OBVIOUS
<1>2. Chat!Took(s, Chat!Usage(x)) = [s EXCEPT !.usage = x]
  BY <1>1 DEF Chat!Took, Chat!Usage, Made
<1>3. [s EXCEPT !.usage = x] = Made("finished", t, r, c, reason, x)
  BY <1>1 DEF Made
<1>4. QED
  BY <1>1, <1>2, <1>3

LEMMA TookDone ==
  ASSUME NEW t, NEW r, NEW c, NEW reason, NEW u
  PROVE  Chat!Took(Made("finished", t, r, c, reason, u), Chat!Done)
           = Made("done", t, r, c, reason, u)
<1>1. PICK s : s = Made("finished", t, r, c, reason, u)
  OBVIOUS
<1>2. Chat!Took(s, Chat!Done) = [s EXCEPT !.phase = "done"]
  BY <1>1 DEF Chat!Took, Chat!Done, Made
<1>3. [s EXCEPT !.phase = "done"] = Made("done", t, r, c, reason, u)
  BY <1>1 DEF Made
<1>4. QED
  BY <1>1, <1>2, <1>3

LEMMA AggregatedCases ==
  ASSUME NEW t, NEW r, NEW c, NEW reason, NEW u, NEW s,
         s = Made("done", t, r, c, reason, u)
  PROVE  /\ Chat!Aggregated(s, "text") = Made("done", Append(t, Position), r, c, reason, u)
         /\ Chat!Aggregated(s, "reasoning") = Made("done", t, Append(r, Position), c, reason, u)
         /\ Chat!Aggregated(s, "tool-call") = Made("done", t, r, Append(c, <<Position>>), reason, u)
         /\ Chat!Aggregated(s, "step") = Made("done", t, r, c, reason, Position)
         /\ Chat!Aggregated(s, "other") = s
<1>1. PICK p, tx, rx, cx : /\ p = Position /\ tx = Append(t, p) /\ rx = Append(r, p)
                           /\ cx = Append(c, <<p>>)
  OBVIOUS
<1>2. s.text = t /\ s.reasoning = r /\ s.calls = c
  BY DEF Made
<1>3. /\ [s EXCEPT !.text = tx] = Made("done", tx, r, c, reason, u)
      /\ [s EXCEPT !.reasoning = rx] = Made("done", t, rx, c, reason, u)
      /\ [s EXCEPT !.calls = cx] = Made("done", t, r, cx, reason, u)
      /\ [s EXCEPT !.usage = p] = Made("done", t, r, c, reason, p)
  <2>1. [s EXCEPT !.text = tx] = Made("done", tx, r, c, reason, u)
    BY DEF Made
  <2>2. [s EXCEPT !.reasoning = rx] = Made("done", t, rx, c, reason, u)
    BY DEF Made
  <2>3. [s EXCEPT !.calls = cx] = Made("done", t, r, cx, reason, u)
    BY DEF Made
  <2>4. [s EXCEPT !.usage = p] = Made("done", t, r, c, reason, p)
    BY DEF Made
  <2>5. QED
    BY <2>1, <2>2, <2>3, <2>4
<1>4. Chat!Aggregated(s, "text") = [s EXCEPT !.text = tx]
  BY <1>1, <1>2 DEF Chat!Aggregated, Chat!Position, Position
<1>5. Chat!Aggregated(s, "reasoning") = [s EXCEPT !.reasoning = rx]
  BY <1>1, <1>2 DEF Chat!Aggregated, Chat!Position, Position
<1>6. Chat!Aggregated(s, "tool-call") = [s EXCEPT !.calls = cx]
  BY <1>1, <1>2 DEF Chat!Aggregated, Chat!Position, Position
<1>7. Chat!Aggregated(s, "step") = [s EXCEPT !.usage = p]
  BY <1>1 DEF Chat!Aggregated, Chat!Position, Position
<1>8. Chat!Aggregated(s, "other") = s
  BY DEF Chat!Aggregated
<1>9. QED
  BY <1>1, <1>3, <1>4, <1>5, <1>6, <1>7, <1>8

LEMMA TheCallsGrow ==
  ASSUME collected.calls \in Seq(Nat), NEW p \in Nat,
         collected'.calls = Append(collected.calls, p)
  PROVE  /\ TheCalls' = Append(TheCalls, <<p>>) /\ Len(TheCalls) = Len(collected.calls)
         /\ Len(collected'.calls) = Len(collected.calls) + 1 /\ collected'.calls # <<>>
<1>1. PICK c, d, L, z : /\ c = collected.calls /\ d = Append(c, p) /\ L = Len(c)
                        /\ z = [i \in 1 .. L |-> <<c[i]>>]
  OBVIOUS
<1>2. /\ L \in Nat /\ Len(d) = L + 1 /\ d[L + 1] = p
      /\ \A i \in 1 .. L : d[i] = c[i]
  BY <1>1, LenProperties, AppendProperties
<1>3. Len(z) = L
  BY <1>1, <1>2
<1>4. [i \in 1 .. L + 1 |-> <<d[i]>>] = Append(z, <<p>>)
  BY <1>1, <1>2
<1>5. d # <<>>
  BY <1>2
<1>6. collected'.calls = d
  BY <1>1
<1>7. QED
  BY <1>1, <1>2, <1>3, <1>4, <1>5, <1>6 DEF TheCalls

LEMMA TheCallsStay ==
  ASSUME collected'.calls = collected.calls PROVE TheCalls' = TheCalls
BY DEF TheCalls

(* The upstream goes on.                                                   *)
LEMMA ChatText ==
  ASSUME CollectedOK, stage = "running", Following, TextDelta, Chat!TextDelta
  PROVE  Following'
<1>1. PICK t, r, c, u, p, k : /\ t = text /\ r = reasoning /\ c = TheCalls /\ u = usage
                              /\ p = Position /\ k = collected.calls
  OBVIOUS
<1>2. /\ aggregate = Made("done", t, r, c, "none", u)
      /\ seen = Made("open", t, r, c, "none", Chat!NoUsage)
  BY <1>1 DEF Following
<1>3. /\ text' = Append(t, p) /\ reasoning' = r /\ usage' = u
      /\ stage' = "running" /\ collected'.calls = k /\ TheCalls' = c
      /\ toolIndex' = toolIndex /\ sawToolCall' = sawToolCall
  BY <1>1, KeptCalls, TheCallsStay DEF TextDelta, Receive, Chat!TextDelta
<1>4. aggregate' = Made("done", Append(t, p), r, c, "none", u)
  BY <1>1, <1>2, AggregatedCases DEF Chat!TextDelta, Chat!Aggregate
<1>5. seen' = Made("open", Append(t, p), r, c, "none", Chat!NoUsage)
  <2>1. seen' = Chat!Took(seen, Chat!Content(p))
    BY <1>1 DEF Chat!TextDelta, Chat!Emit, Chat!Position, Position
  <2>2. QED
    BY <1>2, <2>1, TookContent
<1>6. QED
  BY <1>1, <1>3, <1>4, <1>5 DEF Following

LEMMA ChatReasoning ==
  ASSUME CollectedOK, stage = "running", Following, ReasoningDelta, Chat!ReasoningDelta
  PROVE  Following'
<1>1. PICK t, r, c, u, p, k : /\ t = text /\ r = reasoning /\ c = TheCalls /\ u = usage
                              /\ p = Position /\ k = collected.calls
  OBVIOUS
<1>2. /\ aggregate = Made("done", t, r, c, "none", u)
      /\ seen = Made("open", t, r, c, "none", Chat!NoUsage)
  BY <1>1 DEF Following
<1>3. /\ text' = t /\ reasoning' = Append(r, p) /\ usage' = u
      /\ stage' = "running" /\ collected'.calls = k /\ TheCalls' = c
      /\ toolIndex' = toolIndex /\ sawToolCall' = sawToolCall
  BY <1>1, KeptCalls, TheCallsStay DEF ReasoningDelta, Receive, Chat!ReasoningDelta
<1>4. aggregate' = Made("done", t, Append(r, p), c, "none", u)
  BY <1>1, <1>2, AggregatedCases DEF Chat!ReasoningDelta, Chat!Aggregate
<1>5. seen' = Made("open", t, Append(r, p), c, "none", Chat!NoUsage)
  <2>1. seen' = Chat!Took(seen, Chat!Reasoning(p))
    BY <1>1 DEF Chat!ReasoningDelta, Chat!Emit, Chat!Position, Position
  <2>2. QED
    BY <1>2, <2>1, TookReasoning
<1>6. QED
  BY <1>1, <1>3, <1>4, <1>5 DEF Following

LEMMA ChatCall ==
  ASSUME IInv, CollectedOK, stage = "running", Following, ToolCall, Chat!ToolCall
  PROVE  Following'
<1>1. PICK t, r, c, u, p, k : /\ t = text /\ r = reasoning /\ c = TheCalls /\ u = usage
                              /\ p = Position /\ k = collected.calls
  OBVIOUS
<1>2. /\ aggregate = Made("done", t, r, c, "none", u)
      /\ seen = Made("open", t, r, c, "none", Chat!NoUsage)
      /\ toolIndex = Len(k) /\ k \in Seq(Nat)
  BY <1>1 DEF Following, CollectedOK
<1>3. p \in Nat
  BY <1>1, LenProperties DEF IInv, GeneratorOK, Position
<1>4. collected'.calls = Append(k, p)
  BY <1>1, NextCall
<1>5. /\ TheCalls' = Append(c, <<p>>) /\ Len(c) = Len(k)
      /\ Len(collected'.calls) = Len(k) + 1 /\ collected'.calls # <<>>
  BY <1>1, <1>2, <1>3, <1>4, TheCallsGrow
<1>6. /\ text' = t /\ reasoning' = r /\ usage' = u /\ stage' = "running"
      /\ toolIndex' = Len(k) + 1 /\ sawToolCall' = TRUE
  BY <1>1, <1>2 DEF ToolCall, Receive, Chat!ToolCall
<1>7. aggregate' = Made("done", t, r, Append(c, <<p>>), "none", u)
  BY <1>1, <1>2, AggregatedCases DEF Chat!ToolCall, Chat!Aggregate
<1>8. seen' = Made("open", t, r, Append(c, <<p>>), "none", Chat!NoUsage)
  <2>1. seen' = Chat!Took(seen, Chat!Call(Len(c), p))
    BY <1>1, <1>2, <1>5 DEF Chat!ToolCall, Chat!Emit, Chat!Position, Position
  <2>2. QED
    BY <1>2, <2>1, TookCall
<1>9. QED
  BY <1>5, <1>6, <1>7, <1>8 DEF Following

LEMMA ChatOther ==
  ASSUME CollectedOK, stage = "running", Following,
         NEW kind \in Others, OtherEvent(kind), Chat!OtherEvent(kind)
  PROVE  Following'
<1>1. PICK t, r, c, u, p, k : /\ t = text /\ r = reasoning /\ c = TheCalls /\ u = usage
                              /\ p = Position /\ k = collected.calls
  OBVIOUS
<1>2. /\ aggregate = Made("done", t, r, c, "none", u)
      /\ seen = Made("open", t, r, c, "none", Chat!NoUsage)
  BY <1>1 DEF Following
<1>3. /\ text' = t /\ reasoning' = r /\ seen' = seen
      /\ stage' = "running" /\ collected'.calls = k /\ TheCalls' = c
      /\ toolIndex' = toolIndex /\ sawToolCall' = sawToolCall
  BY <1>1, NothingNew, TheCallsStay DEF OtherEvent, Receive, Chat!OtherEvent, streamVars
<1>4. aggregate' = Made("done", t, r, c, "none", usage')
  <2>1. CASE kind = "step"
    <3>1. aggregate' = Made("done", t, r, c, "none", p)
      BY <1>1, <1>2, <2>1, AggregatedCases DEF Chat!OtherEvent, Chat!Aggregate
    <3>2. usage' = p
      BY <1>1, <2>1 DEF Chat!OtherEvent, Chat!Position, Position
    <3>3. QED
      BY <3>1, <3>2
  <2>2. CASE kind = "other"
    <3>1. aggregate' = aggregate
      BY <1>2, <2>2, AggregatedCases DEF Chat!OtherEvent, Chat!Aggregate
    <3>2. usage' = u
      BY <1>1, <2>2 DEF Chat!OtherEvent
    <3>3. QED
      BY <1>2, <3>1, <3>2
  <2>3. QED
    BY <2>1, <2>2 DEF Others
<1>5. QED
  BY <1>1, <1>2, <1>3, <1>4 DEF Following

LEMMA EmptyCalls ==
  ASSUME CollectedOK, TheCalls = <<>> PROVE collected.calls = <<>>
<1>1. PICK c : c = collected.calls
  OBVIOUS
<1>2. c \in Seq(Nat) /\ [i \in 1 .. Len(c) |-> <<c[i]>>] = <<>>
  BY <1>1 DEF CollectedOK, TheCalls
<1>3. Len(c) = 0
  BY <1>2
<1>4. QED
  BY <1>1, <1>2, <1>3, EmptySeq

LEMMA ChatFinish ==
  ASSUME CollectedOK, stage = "running", Following, Finish,
         NEW reason, NEW hasUsage, Chat!Finish(reason, hasUsage)
  PROVE  Answer'
<1>1. PICK t, r, c, u, k, w, q : /\ t = text /\ r = reasoning /\ c = TheCalls /\ u = usage
                                 /\ k = collected.calls
                                 /\ w = Chat!FinishReason(reason, sawToolCall)
                                 /\ q = Chat!UsageFromEvent(hasUsage)
  OBVIOUS
<1>2. /\ aggregate = Made("done", t, r, c, "none", u)
      /\ seen = Made("open", t, r, c, "none", Chat!NoUsage)
      /\ sawToolCall = (k # <<>>)
  BY <1>1 DEF Following
<1>3. /\ text' = t /\ reasoning' = r /\ collected' = collected /\ TheCalls' = c
      /\ includeUsage' = includeUsage /\ usage' = q
  BY <1>1, TheCallsStay DEF Finish, Chat!Finish
<1>4. aggregate.calls # <<>> <=> k # <<>>
  <2>1. aggregate.calls = c
    BY <1>2 DEF Made
  <2>2. k = <<>> => c = <<>>
    BY <1>1 DEF TheCalls
  <2>3. c = <<>> => k = <<>>
    BY <1>1, EmptyCalls
  <2>4. QED
    BY <2>1, <2>2, <2>3
<1>5. aggregate' = Made("done", t, r, c, w, q)
  <2>1. Chat!FinishReason(reason, aggregate.calls # <<>>) = w
    BY <1>1, <1>2, <1>4 DEF Chat!FinishReason
  <2>2. aggregate' = [aggregate EXCEPT !.reason = w, !.usage = q]
    BY <1>1, <2>1 DEF Chat!Finish
  <2>3. PICK s, v : s = aggregate /\ v = [s EXCEPT !.reason = w]
    OBVIOUS
  <2>4. v = Made("done", t, r, c, w, u)
    BY <1>2, <2>3 DEF Made
  <2>5. [v EXCEPT !.usage = q] = Made("done", t, r, c, w, q)
    BY <2>4 DEF Made
  <2>6. [s EXCEPT !.reason = w, !.usage = q] = [v EXCEPT !.usage = q]
    BY <2>3
  <2>7. QED
    BY <2>2, <2>3, <2>5, <2>6
<1>6. seen' = Made("done", t, r, c, w, IF includeUsage THEN q ELSE Chat!NoUsage)
  <2>1. PICK f, g : /\ f = Chat!Took(seen, Chat!Finished(w))
                    /\ g = IF includeUsage /\ q # Chat!NoUsage THEN Chat!Took(f, Chat!Usage(q)) ELSE f
    OBVIOUS
  <2>2. f = Made("finished", t, r, c, w, Chat!NoUsage)
    BY <1>2, <2>1, TookFinished
  <2>3. g = Made("finished", t, r, c, w, IF includeUsage THEN q ELSE Chat!NoUsage)
    <3>1. CASE includeUsage /\ q # Chat!NoUsage
      BY <2>1, <2>2, <3>1, TookUsage
    <3>2. CASE ~(includeUsage /\ q # Chat!NoUsage)
      BY <2>1, <2>2, <3>2
    <3>3. QED
      BY <3>1, <3>2
  <2>4. seen' = Chat!Took(g, Chat!Done)
    BY <1>1, <1>3, <2>1 DEF Chat!Finish
  <2>5. QED
    BY <2>3, <2>4, TookDone
<1>7. QED
  BY <1>3, <1>5, <1>6 DEF Answer

LEMMA BothStepIsNext ==
  [Both]_bothVars => [Next]_vars
<1> SUFFICES ASSUME [Both]_bothVars PROVE [Next]_vars
  OBVIOUS
<1>1. CASE Both
  BY <1>1 DEF Both, Next
<1>2. CASE UNCHANGED bothVars
  BY <1>2 DEF bothVars
<1>3. QED
  BY <1>1, <1>2

LEMMA BothIsStream == BothSpec => Spec
<1>1. BothInit => Init
  BY DEF BothInit
<1>2. QED
  BY <1>1, BothStepIsNext, PTL DEF BothSpec, Spec

LEMMA ChatBegins == Init /\ Chat!ChatInit => ChatInv
<1> SUFFICES ASSUME Init, Chat!ChatInit PROVE ChatInv
  OBVIOUS
<1>1. /\ collected.calls = <<>> /\ text = <<>> /\ reasoning = <<>> /\ stage = "new"
  BY DEF Init, NothingCollected
<1>2. TheCalls = <<>>
  BY <1>1 DEF TheCalls
<1>3. PICK s : s = Chat!Unseen
  OBVIOUS
<1>4. s = Made("new", <<>>, <<>>, <<>>, "none", Chat!NoUsage)
  BY <1>3 DEF Chat!Unseen, Made
<1>5. [s EXCEPT !.phase = "done"] = Made("done", <<>>, <<>>, <<>>, "none", Chat!NoUsage)
  BY <1>4 DEF Made
<1>6. /\ aggregate = [s EXCEPT !.phase = "done"] /\ seen = s /\ toolIndex = 0
      /\ sawToolCall = FALSE /\ usage = Chat!NoUsage
  BY <1>3 DEF Chat!ChatInit
<1>7. Following
  BY <1>1, <1>2, <1>4, <1>5, <1>6 DEF Following
<1>8. QED
  BY <1>1, <1>7 DEF ChatInv

LEMMA ChatStays ==
  ASSUME ChatInv, UNCHANGED <<text, reasoning, collected, chatVars>>,
         stage' = stage \/ (stage = "running" /\ stage' = "thrown")
  PROVE  ChatInv'
<1>1. UNCHANGED <<includeUsage, toolIndex, sawToolCall, usage, aggregate, seen>>
  BY DEF chatVars
<1>2. TheCalls' = TheCalls
  BY TheCallsStay
<1>3. Answer => Answer'
  BY <1>1, <1>2 DEF Answer
<1>4. Following => Following'
  BY <1>1, <1>2 DEF Following
<1>5. QED
  BY <1>3, <1>4 DEF ChatInv

LEMMA ChatStep == ASSUME IInv, CollectedOK, ChatInv, Both PROVE ChatInv'
<1>1. CASE Begin /\ Chat!Begin
  <2>1. PICK t, r, c, u : t = text /\ r = reasoning /\ c = TheCalls /\ u = usage
    OBVIOUS
  <2>2. stage = "new" /\ stage' = "running" /\ UNCHANGED <<text, reasoning, collected>>
    BY <1>1 DEF Begin, Ready, streamVars
  <2>3. /\ aggregate = Made("done", t, r, c, "none", u)
        /\ seen = Made("new", t, r, c, "none", Chat!NoUsage)
        /\ toolIndex = Len(collected.calls) /\ sawToolCall = (collected.calls # <<>>)
    BY <2>1, <2>2 DEF ChatInv, Following
  <2>4. /\ UNCHANGED <<aggregate, toolIndex, sawToolCall, usage>>
        /\ seen' = Chat!Took(seen, Chat!Role)
    BY <1>1 DEF Chat!Begin, Chat!Emit
  <2>5. seen' = Made("open", t, r, c, "none", Chat!NoUsage)
    BY <2>3, <2>4, TookRole
  <2>6. TheCalls' = c
    BY <2>1, <2>2, TheCallsStay
  <2>7. QED
    BY <2>1, <2>2, <2>3, <2>4, <2>5, <2>6 DEF ChatInv, Following
<1>2. CASE TextDelta /\ Chat!TextDelta
  <2>1. stage = "running" /\ stage' = "running"
    BY <1>2 DEF TextDelta, Receive, Ready
  <2>2. QED
    BY <1>2, <2>1, ChatText DEF ChatInv
<1>3. CASE ReasoningDelta /\ Chat!ReasoningDelta
  <2>1. stage = "running" /\ stage' = "running"
    BY <1>3 DEF ReasoningDelta, Receive, Ready
  <2>2. QED
    BY <1>3, <2>1, ChatReasoning DEF ChatInv
<1>4. CASE ToolCall /\ Chat!ToolCall
  <2>1. stage = "running" /\ stage' = "running"
    BY <1>4 DEF ToolCall, Receive, Ready
  <2>2. QED
    BY <1>4, <2>1, ChatCall DEF ChatInv
<1>5. ASSUME NEW kind \in Others, OtherEvent(kind), Chat!OtherEvent(kind) PROVE ChatInv'
  <2>1. stage = "running" /\ stage' = "running"
    BY <1>5 DEF OtherEvent, Receive, Ready
  <2>2. QED
    BY <1>5, <2>1, ChatOther DEF ChatInv
<1>6. CASE Throw /\ Chat!Throw
  <2>1. /\ UNCHANGED <<text, reasoning, collected, chatVars>>
        /\ stage = "running" /\ stage' = "thrown"
    BY <1>6 DEF Throw, Ready, streamVars, Chat!Throw, Chat!chatVars, chatVars
  <2>2. QED
    BY <2>1, ChatStays
<1>7. ASSUME NEW reason, NEW hasUsage, Finish, Chat!Finish(reason, hasUsage) PROVE ChatInv'
  <2>1. stage = "running" /\ stage' = "ended"
    BY <1>7 DEF Finish, Ready
  <2>2. QED
    BY <1>7, <2>1, ChatFinish DEF ChatInv
<1>8. CASE Yield /\ UNCHANGED chatVars
  <2>1. UNCHANGED <<text, reasoning, collected, chatVars>> /\ stage' = stage
    BY <1>8 DEF Yield, streamVars
  <2>2. QED
    BY <2>1, ChatStays
<1>9. QED
  BY <1>1, <1>2, <1>3, <1>4, <1>5, <1>6, <1>7, <1>8 DEF Both

LEMMA BothStep == BothInv /\ [Both]_bothVars => BothInv'
<1> SUFFICES ASSUME BothInv, [Both]_bothVars PROVE BothInv'
  OBVIOUS
<1>1. AgreeInv'
  BY BothStepIsNext, AgreeStep DEF BothInv
<1>2. CASE Both
  <2>1. IInv /\ CollectedOK /\ ChatInv
    BY DEF BothInv, AgreeInv
  <2>2. QED
    BY <1>1, <1>2, <2>1, ChatStep DEF BothInv
<1>3. CASE UNCHANGED bothVars
  <2>1. UNCHANGED <<text, reasoning, collected, chatVars>> /\ stage' = stage
    BY <1>3 DEF bothVars, vars, streamVars
  <2>2. QED
    BY <1>1, <2>1, ChatStays DEF BothInv
<1>4. QED
  BY <1>1, <1>2, <1>3 DEF BothInv

THEOREM BothInvariant == BothSpec => []BothInv
<1>1. BothInit => BothInv
  BY AgreeInit, ChatBegins DEF BothInit, BothInv
<1>2. QED
  BY <1>1, BothStep, PTL DEF BothSpec

LEMMA ChatInvAgrees == ChatInv => ChatAgreesWithWhole
<1> SUFFICES ASSUME ChatInv PROVE ChatAgreesWithWhole
  OBVIOUS
<1>1. CASE stage # "ended"
  <2>1. seen.phase \in {"new", "open"}
    BY <1>1 DEF ChatInv, Following, Made
  <2>2. QED
    BY <2>1 DEF ChatAgreesWithWhole
<1>2. CASE stage = "ended"
  <2>1. PICK t, r, c : t = text /\ r = reasoning /\ c = TheCalls
    OBVIOUS
  <2>2. PICK reason, u : /\ aggregate = Made("done", t, r, c, reason, u)
                         /\ seen = Made("done", t, r, c, reason,
                                        IF includeUsage THEN u ELSE Chat!NoUsage)
    BY <1>2, <2>1 DEF ChatInv, Answer
  <2>3. PICK v : v = Chat!NoUsage
    OBVIOUS
  <2>4. [aggregate EXCEPT !.usage = v] = Made("done", t, r, c, reason, v)
    BY <2>2 DEF Made
  <2>5. seen = IF includeUsage THEN aggregate ELSE [aggregate EXCEPT !.usage = v]
    BY <2>2, <2>3, <2>4
  <2>6. seen.phase # "lost"
    BY <2>2 DEF Made
  <2>7. QED
    BY <2>3, <2>5, <2>6 DEF ChatAgreesWithWhole
<1>3. QED
  BY <1>1, <1>2

(* For any number of events, a Chat client that has read its stream to the *)
(* end has, field by field, the completion it would have got without one:  *)
(* texts, tool calls put together by index, reason and, where asked for,   *)
(* usage; and no chunk ever comes out of place (chat.ts:69-146 against     *)
(* 148-246).                                                               *)
THEOREM ChatStreamIsTheWhole == BothSpec => []ChatAgreesWithWhole
<1>1. BothInv => ChatAgreesWithWhole
  BY ChatInvAgrees DEF BothInv
<1>2. QED
  BY <1>1, BothInvariant, PTL

LEMMA BothInvAgrees == BothInv => BothApisAgree
<1> SUFFICES ASSUME BothInv, seen.phase = "done", reader.phase = "completed"
             PROVE  /\ Texts("message") \ {<<>>} = {seen.text} \ {<<>>}
                    /\ Texts("reasoning") \ {<<>>} = {seen.reasoning} \ {<<>>}
                    /\ Texts("function_call") = ToSet(seen.calls)
                    /\ InUpstreamOrder(reader.output)
                    /\ \A i, j \in DOMAIN seen.calls :
                         i < j => seen.calls[i][1] < seen.calls[j][1]
  BY DEF BothApisAgree
<1>1. stage = "ended" /\ reader.output = Final
  BY DEF BothInv, AgreeInv, ReaderAgrees
<1>2. PICK s, c, f : s = ToSet(Final) /\ c = collected.calls /\ f = TheCalls
  OBVIOUS
<1>3. (\A x : x \in s \ {Empty} <=> Told(x)) /\ InUpstreamOrder(reader.output)
  BY <1>1, <1>2, StreamedAnswer DEF BothInv
<1>4. seen.text = text /\ seen.reasoning = reasoning /\ seen.calls = f
  BY <1>1, <1>2 DEF BothInv, ChatInv, Answer, Made
<1>5. /\ DOMAIN f = 1 .. Len(c) /\ \A i \in 1 .. Len(c) : f[i] = <<c[i]>>
      /\ \A i, j \in 1 .. Len(c) : i < j => c[i] < c[j]
  BY <1>2 DEF TheCalls, BothInv, AgreeInv, CollectedOK
<1>6. \A type, y : y \in Texts(type) <=> \E x \in s : x.type = type /\ x.text = y
  BY <1>1, <1>2 DEF Texts
<1>7. /\ \A type, t : Item(type, t).type = type /\ Item(type, t).text = t
      /\ Empty.type = "message" /\ Empty.text = <<>>
  BY DEF Item, Empty
<1>8. ASSUME NEW x, Told(x)
      PROVE  \/ x.type = "reasoning" /\ x.text = reasoning /\ reasoning # <<>>
             \/ x.type = "message" /\ x.text = text /\ text # <<>>
             \/ x.type = "function_call" /\ \E i \in 1 .. Len(c) : x.text = <<c[i]>>
  <2>1. CASE x = Item("reasoning", reasoning) /\ reasoning # <<>>
    BY <1>7, <2>1
  <2>2. CASE x = Item("message", text) /\ text # <<>>
    BY <1>7, <2>2
  <2>3. CASE \E i \in 1 .. Len(c) : x = Item("function_call", <<c[i]>>)
    BY <1>7, <2>3
  <2>4. QED
    BY <1>2, <1>8, <2>1, <2>2, <2>3 DEF Told, CallItem
<1>9. /\ reasoning # <<>> => Told(Item("reasoning", reasoning))
      /\ text # <<>> => Told(Item("message", text))
      /\ \A i \in 1 .. Len(c) : Told(Item("function_call", <<c[i]>>))
  BY <1>2 DEF Told, CallItem
<1>10. Texts("message") \ {<<>>} = {text} \ {<<>>}
  <2>1. ASSUME NEW y \in Texts("message"), y # <<>> PROVE y = text
    <3>1. PICK x \in s : x.type = "message" /\ x.text = y
      BY <1>6
    <3>2. Told(x)
      BY <1>3, <1>7, <2>1, <3>1
    <3>3. QED
      BY <1>8, <3>1, <3>2
  <2>2. text # <<>> => text \in Texts("message")
    BY <1>3, <1>6, <1>7, <1>9
  <2>3. QED
    BY <2>1, <2>2
<1>11. Texts("reasoning") \ {<<>>} = {reasoning} \ {<<>>}
  <2>1. ASSUME NEW y \in Texts("reasoning"), y # <<>> PROVE y = reasoning
    <3>1. PICK x \in s : x.type = "reasoning" /\ x.text = y
      BY <1>6
    <3>2. Told(x)
      BY <1>3, <1>7, <3>1
    <3>3. QED
      BY <1>8, <3>1, <3>2
  <2>2. reasoning # <<>> => reasoning \in Texts("reasoning")
    BY <1>3, <1>6, <1>7, <1>9
  <2>3. QED
    BY <2>1, <2>2
<1>12. \A y : y \in ToSet(f) <=> \E i \in 1 .. Len(c) : y = <<c[i]>>
  BY <1>5 DEF ToSet
<1>13. Texts("function_call") = ToSet(f)
  <2>1. ASSUME NEW y \in Texts("function_call") PROVE y \in ToSet(f)
    <3>1. PICK x \in s : x.type = "function_call" /\ x.text = y
      BY <1>6
    <3>2. Told(x)
      BY <1>3, <1>7, <3>1
    <3>3. QED
      BY <1>8, <1>12, <3>1, <3>2
  <2>2. ASSUME NEW y \in ToSet(f) PROVE y \in Texts("function_call")
    <3>1. PICK i \in 1 .. Len(c) : y = <<c[i]>>
      BY <1>12
    <3>2. PICK x : x = Item("function_call", <<c[i]>>)
      OBVIOUS
    <3>3. Told(x) /\ x.type = "function_call" /\ x.text = y
      BY <1>7, <1>9, <3>1, <3>2
    <3>4. QED
      BY <1>3, <1>6, <3>3
  <2>3. QED
    BY <2>1, <2>2
<1>14. \A i, j \in DOMAIN f : i < j => f[i][1] < f[j][1]
  BY <1>5
<1>15. QED
  BY <1>3, <1>4, <1>10, <1>11, <1>13, <1>14

(* Whichever API a client speaks, the same upstream events leave it with   *)
(* the same text, the same reasoning and the same tool calls, in the       *)
(* upstream's order (chat.ts:148-246, responses.ts:393-608).               *)
THEOREM ApisTellTheSame == BothSpec => []BothApisAgree
<1>1. QED
  BY BothInvAgrees, BothInvariant, PTL
=============================================================================
