------------------------- MODULE RouteStream_proofs --------------------------
(***************************************************************************)
(* What a client of a route is sent, for any upstream that keeps           *)
(* GenerateOnce's promise, any number of events and attempts.              *)
(***************************************************************************)
EXTENDS RouteStream, SequenceTheorems, TLAPS

Message == [type : FinalTypes \cup {"head", "role", "created", "chunk", "error"},
            status : {200} \cup Visible]

Flags ==
  /\ pc \in Pulling \cup {"images", "return", "done"}
  /\ api \in {"chat", "responses"}
  /\ {streaming, iterator, destroyed, closed, watching, ended} \subseteq BOOLEAN

Upstream ==
  /\ calls \in 0 .. MaxAttempts
  /\ shown \in Seq((1 .. MaxAttempts) \X Kinds)
  /\ stopped \in BOOLEAN
  /\ result \in {NotEnded} \cup Outcomes

Has(s, types) == \E i \in 1 .. Len(s) : s[i].type \in types
HasContent(s) == \E i \in 1 .. Len(s) : s[i][2] \in Content \cup {"finish"}

(* Nothing is sent before the stream begins; a stream that goes on has not *)
(* ended, has its opening, and has last shown an event that is no failure. *)
Early == wire = <<>> /\ ~ended
Underway ==
  /\ ~Has(wire, FinalTypes \cup {"error"}) /\ ~ended
  /\ api = "responses" => Has(wire, {"created"})
  /\ shown # <<>> /\ Last(shown)[2] \notin Broken /\ HasContent(shown)
Over ==
  /\ OneEnding /\ CompletedMeansFinished /\ CommittedWithContent
  /\ ended \/ destroyed

Phases ==
  /\ pc \in {"images", "preread", "collect"} => Early
  /\ pc = "emit" => Underway
  /\ pc \in {"return", "done"} => Over
  /\ pc = "done" => ~watching /\ (iterator => result # NotEnded)

IInv == Flags /\ Upstream /\ wire \in Seq(Message) /\ Phases

LEMMA TypeParts == TypeOK <=> Flags /\ Upstream /\ wire \in Seq(Message)
BY DEF TypeOK, Flags, Upstream, Message

-----------------------------------------------------------------------------
(* Sequences of messages.                                                  *)

LEMMA Written ==
  ASSUME NEW s \in Seq(Message), NEW c \in Seq(Message)
  PROVE  /\ s \o c \in Seq(Message)
         /\ Len(s \o c) = Len(s) + Len(c)
         /\ \A i \in 1 .. Len(s) : (s \o c)[i] = s[i]
         /\ \A i \in 1 .. Len(c) : (s \o c)[Len(s) + i] = c[i]
         /\ \A types : Has(s \o c, types) <=> Has(s, types) \/ Has(c, types)
<1>1. PICK t : t = s \o c
  OBVIOUS
<1>2. /\ t \in Seq(Message) /\ Len(t) = Len(s) + Len(c)
      /\ \A i \in 1 .. Len(s) : t[i] = s[i]
      /\ \A i \in 1 .. Len(c) : t[Len(s) + i] = c[i]
  BY <1>1, ConcatProperties
<1>3. ASSUME NEW types PROVE Has(t, types) <=> Has(s, types) \/ Has(c, types)
  <2>1. Len(s) \in Nat /\ Len(c) \in Nat
    OBVIOUS
  <2>2. ASSUME NEW i \in 1 .. Len(t), t[i].type \in types
        PROVE  Has(s, types) \/ Has(c, types)
    <3>1. CASE i <= Len(s)
      BY <1>2, <2>1, <2>2, <3>1 DEF Has
    <3>2. CASE i > Len(s)
      <4>1. i - Len(s) \in 1 .. Len(c) /\ t[Len(s) + (i - Len(s))] = c[i - Len(s)]
        BY <1>2, <2>1, <3>2
      <4>2. Len(s) + (i - Len(s)) = i
        BY <2>1
      <4>3. QED
        BY <2>2, <4>1, <4>2 DEF Has
    <3>3. QED
      BY <2>1, <3>1, <3>2
  <2>3. ASSUME NEW i \in 1 .. Len(s), s[i].type \in types PROVE Has(t, types)
    BY <1>2, <2>1, <2>3 DEF Has
  <2>4. ASSUME NEW i \in 1 .. Len(c), c[i].type \in types PROVE Has(t, types)
    <3>1. Len(s) + i \in 1 .. Len(t)
      BY <1>2, <2>1
    <3>2. QED
      BY <1>2, <2>4, <3>1 DEF Has
  <2>5. QED
    BY <2>2, <2>3, <2>4 DEF Has
<1>4. QED
  BY <1>1, <1>2, <1>3

LEMMA MessageTypes ==
  /\ \A type \in {"head", "role", "created", "chunk", "error"} \cup FinalTypes :
       Sse(type) \in Message /\ Sse(type).type = type
  /\ \A s \in {200} \cup Visible : /\ Reply(s) \in Message
                                   /\ Reply(s).type = "json" /\ Reply(s).status = s
  /\ \A s : Told(s) \in Visible /\ Told(s) # 200
  /\ 400 \in Visible
<1>1. \A type \in {"head", "role", "created", "chunk", "error"} \cup FinalTypes :
        Sse(type) \in Message /\ Sse(type).type = type
  BY DEF Sse, Message
<1>2. \A s \in {200} \cup Visible : /\ Reply(s) \in Message
                                    /\ Reply(s).type = "json" /\ Reply(s).status = s
  BY DEF Reply, Message, FinalTypes
<1>3. 502 \in Visible /\ 400 \in Visible /\ 200 \notin Visible
  BY DEF Visible
<1>4. ASSUME NEW s PROVE Told(s) \in Visible /\ Told(s) # 200
  <2>1. (Told(s) = s /\ s \in Visible) \/ Told(s) = 502
    BY DEF Told
  <2>2. QED
    BY <1>3, <2>1
<1>5. QED
  BY <1>1, <1>2, <1>3, <1>4

(* The chunks of one event.                                                *)
LEMMA ChunksHarmless ==
  ASSUME NEW kind
  PROVE  /\ Chunks(kind) \in Seq(Message)
         /\ ~Has(Chunks(kind), FinalTypes \cup {"error"})
<1>1. CASE Chunks(kind) = <<>>
  BY <1>1 DEF Has
<1>2. CASE Chunks(kind) = <<Sse("chunk")>>
  BY <1>2, MessageTypes DEF Has, Sse, FinalTypes
<1>3. QED
  BY <1>1, <1>2 DEF Chunks

LEMMA OpeningFits ==
  ASSUME api \in {"chat", "responses"}, NEW kind
  PROVE  LET c == <<>> \o <<Sse("head")>> \o Opening \o Chunks(kind)
         IN /\ c \in Seq(Message) /\ ~Has(c, FinalTypes \cup {"error"})
            /\ api = "responses" => Has(c, {"created"})
<1>1. PICK h : h = <<Sse("head")>>
  OBVIOUS
<1>2. PICK o : o = Opening
  OBVIOUS
<1>3. PICK k : k = Chunks(kind)
  OBVIOUS
<1>4. h \in Seq(Message) /\ ~Has(h, FinalTypes \cup {"error"})
  BY <1>1, MessageTypes DEF Has, Sse, FinalTypes
<1>5. o \in Seq(Message) /\ ~Has(o, FinalTypes \cup {"error"})
  BY <1>2, MessageTypes DEF Has, Sse, FinalTypes, Opening
<1>6. api = "responses" => Has(o, {"created"})
  <2> SUFFICES ASSUME api = "responses" PROVE Has(o, {"created"})
    OBVIOUS
  <2>1. o = <<Sse("created")>>
    BY <1>2 DEF Opening
  <2>2. Len(o) = 1 /\ o[1].type = "created"
    BY <2>1 DEF Sse
  <2>3. QED
    BY <2>2 DEF Has
<1>7. k \in Seq(Message) /\ ~Has(k, FinalTypes \cup {"error"})
  BY <1>3, ChunksHarmless
<1>8. PICK ho : ho = h \o o
  OBVIOUS
<1>9. /\ ho \in Seq(Message) /\ ~Has(ho, FinalTypes \cup {"error"})
      /\ api = "responses" => Has(ho, {"created"})
  BY <1>4, <1>5, <1>6, <1>8, Written
<1>10. /\ ho \o k \in Seq(Message) /\ ~Has(ho \o k, FinalTypes \cup {"error"})
       /\ api = "responses" => Has(ho \o k, {"created"})
  BY <1>7, <1>9, Written
<1>11. <<>> \o <<Sse("head")>> \o Opening \o Chunks(kind) = ho \o k
  BY <1>1, <1>2, <1>3, <1>4, <1>8
<1>12. QED
  BY <1>10, <1>11

-----------------------------------------------------------------------------
(* The ends of a response.                                                 *)

(* The client of a request that was not answered yet has gone.             *)
LEMMA UnansweredLeft ==
  ASSUME wire' = <<>>, ended' \/ destroyed'
  PROVE  Over'
<1>1. \A types : On(types)' = {}
  BY DEF On
<1>2. QED
  BY <1>1 DEF Over, OneEnding, CommittedWithContent, CompletedMeansFinished

(* A JSON answer, and nothing else.                                        *)
LEMMA AnswerEnds ==
  ASSUME Early, NEW s \in {200} \cup Visible, SendIfOpen(s), Flags,
         UNCHANGED destroyed,
         s = 200 => Last(shown')[2] = "finish"
  PROVE  /\ wire' \in Seq(Message) /\ ended' \in BOOLEAN /\ Over'
<1>1. CASE CanWrite /\ Send(s)
  <2>1. wire' = <<Reply(s)>> /\ ended' = TRUE
    BY <1>1 DEF Send, Early
  <2>2. /\ wire' \in Seq(Message) /\ Len(wire') = 1
        /\ wire'[1].type = "json" /\ wire'[1].status = s
    BY <2>1, MessageTypes
  <2>3. OneEnding' /\ CommittedWithContent'
    BY <2>2 DEF OneEnding, CommittedWithContent, On, FinalTypes
  <2>4. CompletedMeansFinished'
    BY <2>2 DEF CompletedMeansFinished, On
  <2>5. QED
    BY <2>1, <2>2, <2>3, <2>4 DEF Over
<1>2. CASE ~CanWrite /\ UNCHANGED <<wire, ended>>
  <2>1. wire' = <<>> /\ ended' = ended /\ (ended' \/ destroyed')
    BY <1>2 DEF Early, CanWrite
  <2>2. Over'
    BY <2>1, UnansweredLeft
  <2>3. wire' \in Seq(Message) /\ ended' \in BOOLEAN
    BY <2>1 DEF Flags
  <2>4. QED
    BY <2>2, <2>3
<1>3. QED
  BY <1>1, <1>2 DEF SendIfOpen

(* The client of a stream has gone: nothing more is written.               *)
LEMMA StreamLeft ==
  ASSUME Underway, UNCHANGED wire, HasContent(shown'), ended' \/ destroyed'
  PROVE  Over'
<1>1. \A type \in FinalTypes \cup {"error"} : On({type}) = {}
  BY DEF Underway, Has, On
<1>2. On(FinalTypes) = {}
  BY DEF Underway, Has, On
<1>3. On({"failed"})' = {} /\ On({"json"})' = {} /\ On({"completed"})' = {}
      /\ On({"[DONE]"})' = {} /\ On(FinalTypes)' = {}
  BY <1>1, <1>2 DEF On, FinalTypes
<1>4. OneEnding' /\ CompletedMeansFinished'
  BY <1>3 DEF OneEnding, CompletedMeansFinished
<1>5. CommittedWithContent'
  BY DEF CommittedWithContent, HasContent
<1>6. QED
  BY <1>4, <1>5 DEF Over

(* A stream that has ended, or whose client has gone.                      *)
LEMMA StreamEnds ==
  ASSUME Flags, Underway, wire \in Seq(Message), UNCHANGED <<api, destroyed>>,
         NEW c \in {Failure, Closing}, WriteAndEnd(c), HasContent(shown'),
         c = Closing => Last(shown')[2] = "finish"
  PROVE  wire' \in Seq(Message) /\ ended' \in BOOLEAN /\ Over'
<1>1. Len(wire) \in Nat
  OBVIOUS
<1>2. /\ c \in Seq(Message) /\ Len(c) \in {1, 2}
      /\ \A i \in 1 .. Len(c) : c[i].type \in FinalTypes => i = Len(c)
      /\ ~Has(c, {"json"}) /\ ~Has(c, {"head"})
      /\ Has(c, {"failed"}) => api = "responses"
      /\ Has(c, {"completed"}) => c = Closing
      /\ Has(c, {"[DONE]"}) /\ ~Has(c, {"error"}) => c = Closing
  <2>1. CASE c = <<Sse("error"), Sse("[DONE]")>>
    <3>1. /\ c \in Seq(Message) /\ Len(c) = 2 /\ 1 \in 1 .. Len(c)
          /\ c[1].type = "error" /\ c[2].type = "[DONE]"
      BY <2>1, MessageTypes DEF FinalTypes, Sse
    <3>2. QED
      BY <3>1 DEF Has, FinalTypes
  <2>2. CASE \E type \in {"failed", "completed", "[DONE]"} :
                /\ c = <<Sse(type)>>
                /\ type = "failed" => api = "responses"
                /\ type # "failed" => c = Closing
    <3>1. PICK type \in {"failed", "completed", "[DONE]"} :
             /\ c = <<Sse(type)>>
             /\ type = "failed" => api = "responses"
             /\ type # "failed" => c = Closing
      BY <2>2
    <3>2. c \in Seq(Message) /\ Len(c) = 1 /\ c[1].type = type
      BY <3>1, MessageTypes DEF FinalTypes, Sse
    <3>3. QED
      BY <3>1, <3>2 DEF Has, FinalTypes
  <2>3. QED
    BY <2>1, <2>2 DEF Failure, Closing, Flags
<1>3. CASE CanWrite
  <2>1. wire' = wire \o c /\ ended' = TRUE
    BY <1>3 DEF WriteAndEnd
  <2>2. /\ wire' \in Seq(Message) /\ Len(wire') = Len(wire) + Len(c)
        /\ \A i \in 1 .. Len(wire) : wire'[i] = wire[i]
        /\ \A i \in 1 .. Len(c) : wire'[Len(wire) + i] = c[i]
        /\ \A types : Has(wire', types) <=> Has(wire, types) \/ Has(c, types)
    BY <1>2, <2>1, Written
  <2>3. \A type \in FinalTypes \cup {"error"} : ~Has(wire, {type})
    BY DEF Underway, Has
  <2>4. \A i \in 1 .. Len(wire') : wire'[i].type \in FinalTypes => i = Len(wire')
    <3> SUFFICES ASSUME NEW i \in 1 .. Len(wire'), wire'[i].type \in FinalTypes
                 PROVE  i = Len(wire')
      OBVIOUS
    <3>1. ~(i <= Len(wire))
      BY <1>1, <2>2 DEF Underway, Has
    <3>2. i - Len(wire) \in 1 .. Len(c) /\ Len(wire) + (i - Len(wire)) = i
      BY <1>1, <1>2, <2>2, <3>1
    <3>3. c[i - Len(wire)].type \in FinalTypes
      BY <2>2, <3>2
    <3>4. i - Len(wire) = Len(c)
      BY <1>2, <3>2, <3>3
    <3>5. QED
      BY <1>1, <1>2, <2>2, <3>4
  <2>5. ~Has(wire', {"json"})
    BY <1>2, <2>2, <2>3 DEF FinalTypes
  <2>6. Has(wire', {"failed"}) => Has(wire', {"created"})
    BY <1>2, <2>2, <2>3 DEF FinalTypes, Underway
  <2>7. /\ Has(wire', {"completed"}) => c = Closing
        /\ Has(wire', {"[DONE]"}) /\ ~Has(wire', {"error"}) => c = Closing
    BY <1>2, <2>2, <2>3 DEF FinalTypes
  <2>8. OneEnding'
    BY <2>4, <2>5, <2>6 DEF OneEnding, On, Has
  <2>9. CompletedMeansFinished'
    BY <2>5, <2>7 DEF CompletedMeansFinished, On, Has
  <2>10. CommittedWithContent'
    BY DEF CommittedWithContent, HasContent
  <2>11. QED
    BY <2>1, <2>2, <2>8, <2>9, <2>10 DEF Over
<1>4. CASE ~CanWrite
  <2>1. wire' = wire /\ ended' = ended /\ (ended' \/ destroyed')
    BY <1>4, Zenon DEF WriteAndEnd, CanWrite, Flags
  <2>2. QED
    BY <2>1, StreamLeft DEF Flags
<1>5. QED
  BY <1>3, <1>4

-----------------------------------------------------------------------------
(* The events of the upstream.                                             *)

LEMMA OverStays ==
  ASSUME Over, UNCHANGED <<wire, shown>>, ended => ended', destroyed => destroyed'
  PROVE  Over'
BY DEF Over, OneEnding, CompletedMeansFinished, CommittedWithContent, On

LEMMA PhasesStay ==
  ASSUME Phases, UNCHANGED <<pc, api, iterator, watching, ended, wire, shown, result>>,
         destroyed => destroyed'
  PROVE  Phases'
<1>1. pc \in {"return", "done"} => Over'
  BY OverStays DEF Phases
<1>2. pc = "emit" => Underway'
  BY DEF Phases, Underway, Has, HasContent
<1>3. QED
  BY <1>1, <1>2 DEF Phases, Early

LEMMA ShowAppends ==
  ASSUME Upstream, NEW kind \in Kinds, Show(kind)
  PROVE  /\ Upstream' /\ shown' # <<>> /\ Last(shown')[2] = kind
         /\ HasContent(shown) \/ kind \in Content \cup {"finish"} => HasContent(shown')
<1>1. PICK e : e = <<calls, kind>>
  OBVIOUS
<1>2. e \in (1 .. MaxAttempts) \X Kinds /\ e[2] = kind
  BY <1>1, RouteAssumption DEF Upstream, Show
<1>3. PICK t : t = Append(shown, e)
  OBVIOUS
<1>4. /\ t \in Seq((1 .. MaxAttempts) \X Kinds) /\ Len(t) = Len(shown) + 1
      /\ t[Len(shown) + 1] = e /\ Len(shown) \in Nat
      /\ \A i \in 1 .. Len(shown) : t[i] = shown[i]
  BY <1>2, <1>3, AppendProperties DEF Upstream
<1>5. shown' = t /\ UNCHANGED <<calls, stopped, result>>
  BY <1>1, <1>3 DEF Show
<1>6. Upstream'
  BY <1>4, <1>5 DEF Upstream
<1>7. t # <<>> /\ Last(t)[2] = kind
  BY <1>2, <1>4 DEF Last
<1>8. HasContent(shown) => HasContent(t)
  BY <1>4 DEF HasContent
<1>9. kind \in Content \cup {"finish"} => HasContent(t)
  BY <1>2, <1>4 DEF HasContent
<1>10. QED
  BY <1>5, <1>6, <1>7, <1>8, <1>9

LEMMA FlagsStay ==
  ASSUME Flags, Keep, UNCHANGED iterator, ended' \in BOOLEAN,
         pc' \in Pulling \cup {"images", "return", "done"}
  PROVE  Flags' /\ UNCHANGED <<api, destroyed, watching>>
BY DEF Flags, Keep, requestVars, socketVars

LEMMA PreReadKeeps ==
  ASSUME IInv, NEW kind \in Kinds, Show(kind), PreRead(kind), Keep, UNCHANGED iterator
  PROVE  IInv'
<1> USE DEF IInv
<1>1. Early /\ pc = "preread"
  BY DEF PreRead, Phases
<1>2. Upstream' /\ shown' # <<>> /\ Last(shown')[2] = kind
  BY ShowAppends
<1>3. UNCHANGED <<api, destroyed>> /\ wire = <<>> /\ ~ended
  BY <1>1 DEF Keep, requestVars, socketVars, Early
<1>4. CASE kind \in Broken /\ (\E s \in Statuses : SendIfOpen(Told(s))) /\ Leave
  <2>1. PICK s \in Statuses : SendIfOpen(Told(s))
    BY <1>4
  <2>2. wire' \in Seq(Message) /\ ended' \in BOOLEAN /\ Over'
    BY <1>1, <1>3, <2>1, AnswerEnds, MessageTypes
  <2>3. pc' = "return"
    BY <1>4 DEF Leave
  <2>4. Flags'
    BY <2>2, <2>3, FlagsStay
  <2>5. QED
    BY <1>2, <2>2, <2>3, <2>4 DEF Phases
<1>5. CASE kind = "other" /\ UNCHANGED <<pc, wire, ended>>
  <2>1. Flags'
    BY <1>1, <1>5, FlagsStay DEF Flags
  <2>2. QED
    BY <1>1, <1>2, <1>5, <2>1 DEF Phases, Early
<1>6. CASE /\ kind \in Content \cup {"finish"} /\ UNCHANGED ended
           /\ wire' = wire \o <<Sse("head")>> \o Opening \o Chunks(kind)
           /\ pc' = "emit"
  <2>1. Flags'
    BY <1>6, FlagsStay DEF Flags, Pulling
  <2>2. /\ wire' \in Seq(Message) /\ ~Has(wire', FinalTypes \cup {"error"})
        /\ api = "responses" => Has(wire', {"created"})
    BY <1>3, <1>6, OpeningFits DEF Flags
  <2>3. kind \notin Broken
    BY <1>6 DEF Content, Broken
  <2>4. HasContent(shown')
    BY <1>6, ShowAppends
  <2>5. Underway'
    BY <1>2, <1>3, <1>6, <2>2, <2>3, <2>4 DEF Underway
  <2>6. QED
    BY <1>2, <1>6, <2>1, <2>2, <2>5 DEF Phases
<1>7. CASE ~CanWrite /\ Leave /\ UNCHANGED <<wire, ended>>
  <2>1. wire' = <<>> /\ (ended' \/ destroyed') /\ pc' = "return"
    BY <1>3, <1>7 DEF CanWrite, Leave
  <2>2. Flags' /\ Over' /\ wire' \in Seq(Message)
    BY <1>7, <2>1, FlagsStay, UnansweredLeft DEF Flags
  <2>3. QED
    BY <1>2, <2>1, <2>2 DEF Phases
<1>8. QED
  BY <1>4, <1>5, <1>6, <1>7 DEF PreRead

LEMMA EmitKeeps ==
  ASSUME IInv, NEW kind \in Kinds, Show(kind), Emit(kind), Keep, UNCHANGED iterator
  PROVE  IInv'
<1> USE DEF IInv
<1>1. Underway /\ pc = "emit" /\ HasContent(shown')
  BY ShowAppends DEF Emit, Phases, Underway
<1>2. Upstream' /\ shown' # <<>> /\ Last(shown')[2] = kind
  BY ShowAppends
<1>3. UNCHANGED <<api, destroyed>> /\ ended = FALSE
  BY <1>1, Zenon DEF Keep, requestVars, socketVars, Underway, Flags
<1>4. CASE kind \in Broken /\ WriteAndEnd(Failure) /\ Leave
  <2>1. Failure # Closing
    BY DEF Failure, Closing, Sse
  <2>2. wire' \in Seq(Message) /\ ended' \in BOOLEAN /\ Over'
    BY <1>1, <1>3, <1>4, <2>1, StreamEnds
  <2>3. pc' = "return"
    BY <1>4 DEF Leave
  <2>4. Flags'
    BY <2>2, <2>3, FlagsStay
  <2>5. QED
    BY <1>2, <2>2, <2>3, <2>4 DEF Phases
<1>5. CASE kind \notin Broken /\ CanWrite /\ wire' = wire \o Chunks(kind)
           /\ UNCHANGED ended /\ pc' = "emit"
  <2>1. Flags'
    BY <1>5, FlagsStay DEF Flags, Pulling
  <2>2. /\ wire' \in Seq(Message) /\ ~Has(wire', FinalTypes \cup {"error"})
        /\ api = "responses" => Has(wire', {"created"})
    BY <1>1, <1>5, Written, ChunksHarmless DEF Underway
  <2>3. QED
    BY <1>1, <1>2, <1>3, <1>5, <2>1, <2>2 DEF Phases, Underway
<1>6. CASE kind \notin Broken /\ UNCHANGED <<wire, ended>> /\ pc' = "emit"
  <2>1. Flags'
    BY <1>6, FlagsStay DEF Flags, Pulling
  <2>2. QED
    BY <1>1, <1>2, <1>3, <1>6, <2>1 DEF Phases, Underway, Has
<1>7. CASE ~CanWrite /\ UNCHANGED <<wire, ended>> /\ Leave
  <2>1. (ended' \/ destroyed') /\ pc' = "return"
    BY <1>3, <1>7 DEF CanWrite, Leave
  <2>2. Flags' /\ Over'
    BY <1>1, <1>7, <2>1, FlagsStay, StreamLeft DEF Flags
  <2>3. QED
    BY <1>2, <1>7, <2>1, <2>2 DEF Phases
<1>8. QED
  BY <1>4, <1>5, <1>6, <1>7 DEF Emit, Write

-----------------------------------------------------------------------------
(* The end of the upstream's iterator.                                     *)

LEMMA EndKeeps ==
  ASSUME Upstream, End
  PROVE  Upstream' /\ UNCHANGED shown
BY DEF Upstream, End

LEMMA LeaveKeeps ==
  ASSUME IInv, Upstream', Keep, UNCHANGED iterator, Leave,
         wire' \in Seq(Message), ended' \in BOOLEAN, Over'
  PROVE  IInv'
<1>1. pc' = "return"
  BY DEF Leave
<1>2. Flags'
  BY <1>1, FlagsStay DEF IInv
<1>3. QED
  BY <1>1, <1>2 DEF IInv, Phases

LEMMA ClientReturnsKeeps == IInv /\ ClientReturns => IInv'
<1> SUFFICES ASSUME IInv, ClientReturns PROVE IInv'
  OBVIOUS
<1> USE DEF IInv
<1>1. UNCHANGED <<api, destroyed, shown>> /\ Upstream'
  BY EndKeeps DEF ClientReturns, Keep, requestVars, socketVars
<1>2. shown[Len(shown)][2] \in Terminal
  BY DEF ClientReturns, End, Returned, Complete
<1>3. Last(shown)[2] \notin Broken => Last(shown')[2] = "finish"
  BY <1>1, <1>2 DEF Last, Terminal, Broken
<1>4. CASE pc = "emit" /\ WriteAndEnd(Closing)
  <2>1. Underway
    BY <1>4 DEF Phases
  <2>2. HasContent(shown') /\ Last(shown')[2] = "finish"
    BY <1>1, <1>3, <2>1 DEF Underway
  <2>3. wire' \in Seq(Message) /\ ended' \in BOOLEAN /\ Over'
    BY <1>1, <1>4, <2>1, <2>2, StreamEnds
  <2>4. QED
    BY <1>1, <2>3, LeaveKeeps DEF ClientReturns
<1>5. CASE pc = "collect"
  <2>1. Early
    BY <1>5 DEF Phases
  <2>2. wire' \in Seq(Message) /\ ended' \in BOOLEAN /\ Over'
    <3>1. CASE Last(shown)[2] \in Broken
      <4>1. PICK u \in Statuses : SendIfOpen(Told(u))
        BY <1>5, <3>1 DEF ClientReturns
      <4>2. QED
        BY <1>1, <2>1, <4>1, AnswerEnds, MessageTypes
    <3>2. CASE Last(shown)[2] \notin Broken
      <4>1. SendIfOpen(200)
        BY <1>5, <3>2 DEF ClientReturns
      <4>2. QED
        BY <1>1, <1>3, <2>1, <3>2, <4>1, AnswerEnds
    <3>3. QED
      BY <3>1, <3>2
  <2>3. QED
    BY <1>1, <2>2, LeaveKeeps DEF ClientReturns
<1>6. QED
  BY <1>4, <1>5 DEF ClientReturns

LEMMA ClientThrowsKeeps ==
  ASSUME IInv, NEW s \in Statuses, ClientThrows(s)
  PROVE  IInv'
<1> USE DEF IInv
<1>1. UNCHANGED <<api, destroyed, shown>> /\ Upstream'
  BY EndKeeps DEF ClientThrows, Keep, requestVars, socketVars
<1>2. CASE pc = "emit" /\ WriteAndEnd(Failure)
  <2>1. Underway /\ Failure # Closing
    BY <1>2 DEF Phases, Failure, Closing, Sse
  <2>2. HasContent(shown')
    BY <1>1, <2>1 DEF Underway
  <2>3. wire' \in Seq(Message) /\ ended' \in BOOLEAN /\ Over'
    BY <1>1, <1>2, <2>1, <2>2, StreamEnds
  <2>4. QED
    BY <1>1, <2>3, LeaveKeeps DEF ClientThrows
<1>3. CASE pc # "emit" /\ SendIfOpen(Told(s))
  <2>1. Early
    BY <1>3 DEF ClientThrows, Pulling, Phases
  <2>2. wire' \in Seq(Message) /\ ended' \in BOOLEAN /\ Over'
    BY <1>1, <1>3, <2>1, AnswerEnds, MessageTypes
  <2>3. QED
    BY <1>1, <2>2, LeaveKeeps DEF ClientThrows
<1>4. QED
  BY <1>2, <1>3 DEF ClientThrows

-----------------------------------------------------------------------------
LEMMA InitHolds == Init => IInv
<1> SUFFICES ASSUME Init PROVE IInv
  OBVIOUS
<1>1. Flags
  BY DEF Init, Flags
<1>2. Upstream
  <2>1. <<>> \in Seq((1 .. MaxAttempts) \X Kinds) /\ 0 \in 0 .. MaxAttempts
    BY RouteAssumption
  <2>2. QED
    BY <2>1 DEF Init, OnceInit, Upstream
<1>3. QED
  BY <1>1, <1>2 DEF Init, IInv, Phases, Early

LEMMA StopKeeps == Upstream /\ Stop => Upstream' /\ UNCHANGED <<shown, result>>
BY DEF Upstream, Stop

LEMMA StepKeeps == IInv /\ [Next]_vars => IInv'
<1> SUFFICES ASSUME IInv, [Next]_vars PROVE IInv'
  OBVIOUS
<1> USE DEF IInv
<1>1. CASE RequestRejected
  <2>1. UNCHANGED <<api, destroyed, shown>> /\ Upstream' /\ Early
    BY <1>1 DEF RequestRejected, Keep, requestVars, socketVars, onceVars, Upstream, Phases
  <2>2. wire' \in Seq(Message) /\ ended' \in BOOLEAN /\ Over'
    BY <1>1, <2>1, AnswerEnds, MessageTypes DEF RequestRejected
  <2>3. QED
    BY <1>1, <2>1, <2>2, LeaveKeeps DEF RequestRejected
<1>2. CASE ImagesReady
  <2>1. /\ UNCHANGED <<api, destroyed, watching, shown, wire, ended>> /\ Upstream' /\ Early
        /\ UNCHANGED <<streaming, closed>>
    BY <1>2 DEF ImagesReady, Keep, requestVars, socketVars, onceVars, Upstream, Phases
  <2>2. CASE ~CanWrite /\ Leave /\ UNCHANGED iterator
    <3>1. wire' = <<>> /\ (ended' \/ destroyed')
      BY <2>1, <2>2 DEF CanWrite, Early
    <3>2. QED
      BY <1>2, <2>1, <2>2, <3>1, UnansweredLeft, LeaveKeeps DEF ImagesReady, Flags
  <2>3. CASE iterator' = TRUE /\ pc' \in {"preread", "collect"}
    <3>1. Flags'
      BY <2>1, <2>3 DEF Flags, Pulling
    <3>2. QED
      BY <2>1, <2>3, <3>1 DEF Phases, Early
  <2>4. QED
    BY <1>2, <2>2, <2>3 DEF ImagesReady
<1>3. CASE ClientCalls
  <2>1. /\ UNCHANGED <<pc, api, streaming, iterator, destroyed, closed, watching, ended, wire>>
        /\ UNCHANGED <<shown, stopped, result>> /\ calls' = calls + 1 /\ calls < MaxAttempts
    BY <1>3 DEF ClientCalls, Call, requestVars, socketVars
  <2>2. Upstream'
    BY <2>1, RouteAssumption DEF Upstream
  <2>3. Flags' /\ Phases'
    BY <2>1, PhasesStay DEF Flags
  <2>4. QED
    BY <2>1, <2>2, <2>3
<1>4. ASSUME NEW kind \in Kinds, ClientShows(kind) PROVE IInv'
  <2>1. CASE PreRead(kind)
    BY <1>4, <2>1, PreReadKeeps DEF ClientShows
  <2>2. CASE Emit(kind)
    BY <1>4, <2>2, EmitKeeps DEF ClientShows
  <2>3. CASE Collect
    <3>1. pc = "collect" /\ UNCHANGED <<pc, wire, ended>>
      BY <2>3 DEF Collect
    <3>2. Flags' /\ Upstream'
      BY <1>4, <3>1, FlagsStay, ShowAppends DEF ClientShows, Flags
    <3>3. QED
      BY <3>1, <3>2 DEF Phases, Early
  <2>4. QED
    BY <1>4, <2>1, <2>2, <2>3 DEF ClientShows
<1>5. CASE ClientReturns
  BY <1>5, ClientReturnsKeeps
<1>6. ASSUME NEW s \in Statuses, ClientThrows(s) PROVE IInv'
  BY <1>6, ClientThrowsKeeps
<1>7. CASE IteratorReturned
  <2>1. /\ pc = "return" /\ pc' = "done" /\ watching' = FALSE
        /\ UNCHANGED <<api, streaming, destroyed, closed, iterator, ended, wire>>
    BY <1>7 DEF IteratorReturned, requestVars, socketVars
  <2>2. Upstream' /\ UNCHANGED shown /\ (iterator => result' # NotEnded)
    <3>1. CASE iterator /\ result' = Closed /\ End
      BY <3>1, EndKeeps DEF Closed, NotEnded
    <3>2. CASE (~iterator \/ result # NotEnded) /\ UNCHANGED onceVars
      BY <3>2 DEF onceVars, Upstream
    <3>3. QED
      BY <1>7, <3>1, <3>2 DEF IteratorReturned
  <2>3. Over'
    BY <2>1, <2>2, OverStays DEF Phases
  <2>4. Flags'
    BY <2>1 DEF Flags
  <2>5. QED
    BY <2>1, <2>2, <2>3, <2>4 DEF Phases
<1>8. ASSUME UNCHANGED <<pc, api, streaming, iterator, watching, ended, wire, shown, result>>,
             Upstream', destroyed' \in BOOLEAN, closed' \in BOOLEAN, destroyed => destroyed'
      PROVE  IInv'
  <2>1. Flags'
    BY <1>8 DEF Flags
  <2>2. Phases'
    BY <1>8, PhasesStay
  <2>3. QED
    BY <1>8, <2>1, <2>2
<1>9. CASE SocketLost
  BY <1>8, <1>9 DEF SocketLost, onceVars, requestVars, handlerVars, Upstream, Flags
<1>10. CASE CloseEvent
  <2>1. Upstream' /\ UNCHANGED <<shown, result>>
    <3>1. CASE Stop
      BY <3>1, StopKeeps
    <3>2. CASE UNCHANGED onceVars
      BY <3>2 DEF onceVars, Upstream
    <3>3. QED
      BY <1>10, <3>1, <3>2 DEF CloseEvent
  <2>2. QED
    BY <1>8, <1>10, <2>1 DEF CloseEvent, requestVars, handlerVars, Flags
<1>11. CASE BudgetSpent
  BY <1>8, <1>11, StopKeeps DEF BudgetSpent, requestVars, handlerVars, socketVars, Flags
<1>12. CASE UNCHANGED vars
  BY <1>8, <1>12 DEF vars, onceVars, Upstream, Flags
<1>13. QED
  BY <1>1, <1>2, <1>3, <1>4, <1>5, <1>6, <1>7, <1>9, <1>10, <1>11, <1>12 DEF Next

(* The invariant holds in every reachable state.                           *)
THEOREM InvariantHolds == Spec => []IInv
<1>1. QED
  BY InitHolds, StepKeeps, PTL DEF Spec

(* Every variable keeps its type.                                          *)
THEOREM TypeCorrect == Spec => []TypeOK
<1>1. IInv => TypeOK
  BY TypeParts DEF IInv
<1>2. QED
  BY <1>1, InvariantHolds, PTL

(* The client sees one ending and nothing after it.                        *)
THEOREM OneEndingHolds == Spec => []OneEnding
<1>1. IInv => OneEnding
  <2> SUFFICES ASSUME IInv PROVE OneEnding
    OBVIOUS
  <2>1. CASE wire = <<>>
    BY <2>1 DEF OneEnding, On
  <2>2. CASE ~Has(wire, FinalTypes)
    BY <2>2 DEF OneEnding, On, Has, FinalTypes
  <2>3. QED
    BY <2>1, <2>2 DEF IInv, Flags, Phases, Early, Underway, Over, Has, Pulling
<1>2. QED
  BY <1>1, InvariantHolds, PTL

(* A stream is completed only if the upstream said finish.                 *)
THEOREM CompletedMeansFinishedHolds == Spec => []CompletedMeansFinished
<1>1. IInv => CompletedMeansFinished
  <2> SUFFICES ASSUME IInv PROVE CompletedMeansFinished
    OBVIOUS
  <2>1. CASE wire = <<>>
    BY <2>1 DEF CompletedMeansFinished, On
  <2>2. CASE ~Has(wire, FinalTypes)
    BY <2>2 DEF CompletedMeansFinished, On, Has, FinalTypes
  <2>3. QED
    BY <2>1, <2>2 DEF IInv, Flags, Phases, Early, Underway, Over, Has, Pulling
<1>2. QED
  BY <1>1, InvariantHolds, PTL

(* 200 is committed only with content in hand.                             *)
THEOREM CommittedWithContentHolds == Spec => []CommittedWithContent
<1>1. IInv => CommittedWithContent
  <2> SUFFICES ASSUME IInv PROVE CommittedWithContent
    OBVIOUS
  <2>1. CASE wire = <<>>
    BY <2>1 DEF CommittedWithContent, On
  <2>2. CASE HasContent(shown)
    BY <2>2 DEF CommittedWithContent, HasContent
  <2>3. QED
    BY <2>1, <2>2 DEF IInv, Flags, Phases, Early, Underway, Over, Pulling
<1>2. QED
  BY <1>1, InvariantHolds, PTL

(* However it ends, the handler leaves nothing behind.                     *)
THEOREM HandsBackHolds == Spec => []HandsBack
<1>1. IInv => HandsBack
  BY DEF IInv, Phases, Over, HandsBack
<1>2. QED
  BY <1>1, InvariantHolds, PTL

(* Nothing is written to a client that has gone or been answered.          *)
THEOREM SilentOnceGoneHolds == Spec => SilentOnceGone
<1>1. ASSUME IInv, [Next]_vars, wire' # wire PROVE CanWrite
  <2>1. \A s : SendIfOpen(s) => CanWrite
    BY <1>1 DEF SendIfOpen
  <2>2. \A c : Write(c) \/ WriteAndEnd(c) => CanWrite
    BY <1>1 DEF Write, WriteAndEnd
  <2>3. RequestRejected \/ (\E kind \in Kinds : ClientShows(kind))
          \/ ClientReturns \/ (\E s \in Statuses : ClientThrows(s))
    BY <1>1 DEF Next, vars, ImagesReady, ClientCalls, IteratorReturned, SocketLost,
                CloseEvent, BudgetSpent
  <2>4. ASSUME NEW kind \in Kinds, ClientShows(kind) PROVE CanWrite
    BY <1>1, <2>1, <2>2, <2>4 DEF ClientShows, PreRead, Emit, Collect
  <2>5. QED
    BY <2>1, <2>2, <2>3, <2>4 DEF RequestRejected, ClientReturns, ClientThrows
<1>2. IInv /\ [Next]_vars => [wire' # wire => ~destroyed /\ ~ended]_vars
  BY <1>1 DEF CanWrite
<1>3. QED
  BY <1>2, InvariantHolds, PTL DEF Spec, SilentOnceGone
=============================================================================
