---------------------------- MODULE Stdio_proofs ----------------------------
(***************************************************************************)
(* Stdio, for any frames of the peer, any replies of the service and any   *)
(* number of messages: the types, that every message is written whole or   *)
(* is the last, that nothing follows an error but why, that the peer is    *)
(* told it, that the connection is the Conversation of Session, and that   *)
(* what it hears is what happened.                                         *)
(***************************************************************************)
EXTENDS Stdio, Session_proofs, FiniteSetTheorems

-----------------------------------------------------------------------------
(* Sequences of whatever is in them *)

\* A sequence of its own elements: responses are JSON, of no set worth a name.
IsSeq(s) == s \in Seq({s[i] : i \in DOMAIN s})

\* A sequence over any set is one.
LEMMA SeqIsSeq ==
  ASSUME NEW S, NEW s \in Seq(S)
  PROVE  IsSeq(s)
<1>1. s \in [1 .. Len(s) -> S] /\ Len(s) \in Nat
  BY LenProperties
<1>2. s \in [1 .. Len(s) -> {s[i] : i \in DOMAIN s}]
  BY <1>1
<1> QED BY <1>1, <1>2 DEF IsSeq

\* Its length and its domain.
LEMMA LenOfSeq ==
  ASSUME NEW s, IsSeq(s)
  PROVE  Len(s) \in Nat /\ DOMAIN s = 1 .. Len(s) /\ (s = <<>> <=> Len(s) = 0)
<1> DEFINE S == {s[i] : i \in DOMAIN s}
<1>1. s \in Seq(S)
  BY DEF IsSeq
<1> HIDE DEF S
<1> QED BY <1>1, LenProperties, EmptySeq

\* One more element.
LEMMA AppendToSeq ==
  ASSUME NEW s, IsSeq(s), NEW x
  PROVE  /\ IsSeq(Append(s, x))
         /\ Len(Append(s, x)) = Len(s) + 1
         /\ \A i \in 1 .. Len(s) : Append(s, x)[i] = s[i]
         /\ Append(s, x)[Len(s) + 1] = x
<1> DEFINE S == {s[i] : i \in DOMAIN s}  T == S \cup {x}
<1>1. s \in Seq(S)
  BY DEF IsSeq
<1> HIDE DEF S
<1>2. s \in Seq(T)
  BY <1>1, SeqMonotonic
<1>3. x \in T
  OBVIOUS
<1> HIDE DEF T
<1>4. /\ Append(s, x) \in Seq(T) /\ Len(Append(s, x)) = Len(s) + 1
      /\ \A i \in 1 .. Len(s) : Append(s, x)[i] = s[i]
      /\ Append(s, x)[Len(s) + 1] = x
  BY <1>2, <1>3, AppendProperties
<1>5. IsSeq(Append(s, x))
  BY <1>4, SeqIsSeq
<1> QED BY <1>4, <1>5

\* One less.
LEMMA TailOfSeq ==
  ASSUME NEW s, IsSeq(s), s # <<>>
  PROVE  IsSeq(Tail(s)) /\ Len(Tail(s)) = Len(s) - 1
<1> DEFINE S == {s[i] : i \in DOMAIN s}
<1>1. s \in Seq(S)
  BY DEF IsSeq
<1> HIDE DEF S
<1> QED BY <1>1, HeadTailProperties, SeqIsSeq

\* A single element: what there is of it.
LEMMA SingleIsSeq ==
  ASSUME NEW x
  PROVE  /\ IsSeq(<<x>>) /\ <<x>> # <<>> /\ Len(<<x>>) = 1
         /\ Head(<<x>>) = x /\ Tail(<<x>>) = <<>> /\ <<x>>[1] = x
<1>1. <<x>> \in Seq({x})
  OBVIOUS
<1>2. IsSeq(<<x>>)
  BY <1>1, SeqIsSeq
<1> QED BY <1>2

\* What has no elements.
LEMMA EmptyIsSeq == IsSeq(<<>>)
<1>1. <<>> \in Seq({})
  OBVIOUS
<1> QED BY <1>1, SeqIsSeq

\* As many elements as another sequence has, each made of one of them (finish).
LEMMA MappedSeq ==
  ASSUME NEW S, NEW s \in Seq(S), NEW t, DOMAIN t = DOMAIN s, t = [i \in DOMAIN s |-> t[i]]
  PROVE  IsSeq(t) /\ Len(t) = Len(s) /\ (t = <<>> <=> s = <<>>)
<1> DEFINE T == {t[i] : i \in DOMAIN t}
<1>1. DOMAIN s = 1 .. Len(s) /\ Len(s) \in Nat
  BY LenProperties
<1>2. t \in [1 .. Len(s) -> T]
  BY <1>1
<1>3. t \in Seq(T)
  BY <1>1, <1>2
<1>4. IsSeq(t)
  BY <1>3, SeqIsSeq
<1>5. DOMAIN t = 1 .. Len(t) /\ Len(t) \in Nat
  BY <1>4, LenOfSeq
<1>6. Len(t) = Len(s)
  BY <1>1, <1>5
<1>7. (t = <<>> <=> Len(t) = 0) /\ (s = <<>> <=> Len(s) = 0)
  BY <1>4, LenOfSeq, SeqIsSeq
<1> QED BY <1>4, <1>6, <1>7

-----------------------------------------------------------------------------
(* The inductive invariant *)

\* What a call leaves in the history.
Returns == [id : Nat, result : Results, tools : Toolbox]

\* The types, with those of the sequences.
Typed ==
  /\ TypeOK
  /\ sent \in Seq(Frames)
  /\ returned \in Seq(Returns)
  /\ IsSeq(outbox) /\ IsSeq(out)

\* The task awaits the service for the message it read last.
Awaited ==
  pc \in {"calling", "stopping"} =>
    handled < Len(sent) /\ sent[handled + 1] \in Messages

\* Once it has an error, pump says why at most, and returns.
Faulted ==
  /\ fault # "none" => pc \in {"refusing", "ended"}
  /\ pc = "refusing" => fault = "framing" /\ outbox = <<Refusal>>

\* When it returns because a frame was refused, it has said so, if the peer listens.
Told ==
  (pc = "ended" /\ fault = "framing" /\ ~broken) =>
    /\ Len(out) > 0 /\ Len(out) % 2 = 0
    /\ out[Len(out)].of = Refusal /\ out[Len(out)].part # "torn"

\* Before the framing of the peer is known nothing is written but the refusal.
Unheard ==
  Unsettled => /\ pc \in {"reading", "refusing", "ended"}
               /\ pc = "reading" => out = <<>>

\* Half a message is the first half of the one being written.
HalfWritten ==
  (pc \in {"writing", "refusing"} /\ Len(out) % 2 = 1) =>
    out[Len(out)] = Pieces(Head(outbox))[1]

\* Two writes are one message.
Paired(k) ==
  /\ out[2 * k - 1].of = out[2 * k].of
  /\ \/ Whole(k)
     \/ Unsettled /\ out[2 * k - 1].of = Refusal
     \/ out[2 * k].part = "torn" /\ 2 * k = Len(out) /\ pc = "ended"

AllPaired ==
  /\ \A k \in 1 .. Len(out) \div 2 : Paired(k)
  /\ Len(out) % 2 = 1 => pc \in {"writing", "refusing", "ended"}

IInv ==
  Typed /\ Awaited /\ Faulted /\ Told /\ Unheard /\ HalfWritten /\ AllPaired

\* What a frame of the peer can be.
LEMMA FrameSent ==
  ASSUME Typed, NEW i \in 1 .. Len(sent)
  PROVE  sent[i] \in Frames /\ sent[i] \in Messages \cup NoMessages
<1>1. sent[i] \in Frames
  BY ElementOfSeq DEF Typed
<1> QED BY <1>1, StdioAssumption

\* The peer frames in one of two ways.
LEMMA SetupFields ==
  ASSUME TypeOK
  PROVE  setup.speaks \in {"lines", "headers"}
BY StdioAssumption DEF TypeOK

\* The initial states.
LEMMA InitIInv == Init => IInv
<1> SUFFICES ASSUME Init PROVE IInv
  OBVIOUS
<1> USE DEF Init
<1>1. Len(<<>>) = 0 /\ DOMAIN <<>> = {} /\ <<>> \in Seq(Frames)
      /\ <<>> \in Seq(Returns)
  OBVIOUS
<1>2. tools \in Toolbox
  BY StdioAssumption DEF Toolbox
<1>3. TypeOK
  <2>1. 0 \in 0 .. Len(sent) /\ Len(sent) =< MaxSent /\ Len(returned) =< handled
    BY <1>1, StdioAssumption
  <2> QED BY <1>1, <1>2, <2>1 DEF TypeOK
<1>4. Typed
  BY <1>1, <1>3, EmptyIsSeq DEF Typed
<1>5. Awaited /\ Faulted /\ Told /\ Unheard /\ HalfWritten
  BY DEF Awaited, Faulted, Told, Unheard, HalfWritten
<1>6. AllPaired
  <2>1. Len(out) = 0 /\ 1 .. (Len(out) \div 2) = {}
    BY <1>1
  <2> QED BY <2>1 DEF AllPaired
<1> QED BY <1>4, <1>5, <1>6 DEF IInv

-----------------------------------------------------------------------------
(* What leaves the writes alone *)

\* The messages written stay paired while nothing is written.
LEMMA PairsKept ==
  ASSUME IInv, UNCHANGED <<setup, out>>,
         pc = "ended" => pc' = "ended",
         Len(out) % 2 = 1 => pc' \in {"writing", "refusing", "ended"},
         framing' = framing \/ pc = "reading"
  PROVE  AllPaired'
<1> SUFFICES ASSUME NEW k \in 1 .. Len(out) \div 2
             PROVE  Paired(k)'
  BY DEF AllPaired
<1>1. Paired(k)
  BY DEF IInv, AllPaired
<1>2. Whole(k)' <=> Whole(k)
  BY DEF Whole, OwnFraming
<1>3. CASE framing' = framing
  BY <1>1, <1>2, <1>3 DEF Paired, Unsettled
<1>4. CASE pc = "reading"
  <2>1. CASE Unsettled
    <3>1. Len(out) = 0
      BY <1>4, <2>1 DEF IInv, Unheard
    <3> QED BY <3>1
  <2>2. CASE ~Unsettled
    BY <1>1, <1>2, <1>4, <2>2 DEF Paired
  <2> QED BY <2>1, <2>2
<1> QED BY <1>3, <1>4

\* While the task reads or awaits the service no message is half written.
LEMMA NothingHalf ==
  ASSUME IInv, pc \in {"reading", "calling", "stopping"}
  PROVE  Len(out) % 2 # 1 /\ fault = "none" /\ outbox = <<>>
BY DEF IInv, AllPaired, Faulted, Typed, TypeOK

\* The peer sends.
LEMMA SendKeepsIInv ==
  ASSUME IInv, NEW f \in Frames, Send(f)
  PROVE  IInv'
<1> USE DEF Send
<1>1. sent \in Seq(Frames) /\ Len(sent) \in Nat /\ handled \in 0 .. Len(sent)
  BY LenProperties DEF IInv, Typed, TypeOK
<1>2. /\ sent' \in Seq(Frames) /\ Len(sent') = Len(sent) + 1
      /\ \A i \in 1 .. Len(sent) : sent'[i] = sent[i]
  BY <1>1, AppendProperties
<1>3. TypeOK'
  <2>1. \A i \in DOMAIN sent' : sent'[i] \in Frames
    BY <1>2, LenProperties, ElementOfSeq
  <2>2. handled' \in 0 .. Len(sent') /\ Len(sent') =< MaxSent
    BY <1>1, <1>2, StdioAssumption
  <2> QED BY <2>1, <2>2 DEF IInv, Typed, TypeOK, service
<1>4. Typed'
  BY <1>2, <1>3 DEF IInv, Typed, service, IsSeq
<1>5. Awaited'
  <2> SUFFICES ASSUME pc \in {"calling", "stopping"}
               PROVE  handled < Len(sent') /\ sent'[handled + 1] \in Messages
    BY DEF Awaited
  <2>1. handled < Len(sent) /\ sent[handled + 1] \in Messages
    BY DEF IInv, Awaited
  <2>2. handled + 1 \in 1 .. Len(sent)
    BY <1>1, <2>1
  <2> QED BY <1>1, <1>2, <2>1, <2>2
<1>6. AllPaired'
  BY PairsKept DEF IInv, AllPaired
<1> QED BY <1>4, <1>5, <1>6
        DEF IInv, Faulted, Told, Unheard, Unsettled, HalfWritten, Pieces, service

\* The peer goes.
LEMMA BreakKeepsIInv ==
  ASSUME IInv, Break
  PROVE  IInv'
<1> USE DEF Break
<1>1. Typed'
  BY DEF IInv, Typed, TypeOK, service, IsSeq
<1>2. AllPaired'
  BY PairsKept DEF IInv, AllPaired
<1> QED BY <1>1, <1>2
        DEF IInv, Awaited, Faulted, Told, Unheard, Unsettled, HalfWritten, Pieces

\* The loop ends without an answer: at the end of the stream, by an error in it, or
\* because the process stops.
LEMMA EndKeepsIInv ==
  ASSUME IInv, ReadEof \/ ReadFails \/ Dropped
  PROVE  IInv'
<1>1. /\ pc \in {"reading", "calling", "stopping"} /\ pc' = "ended"
      /\ fault' \in {fault, "read"}
      /\ UNCHANGED <<peer, handled, framing, initialized, service, outbox, out>>
  BY DEF ReadEof, ReadFails, Dropped, AfterError
<1>2. Len(out) % 2 # 1 /\ fault = "none" /\ outbox = <<>>
  BY <1>1, NothingHalf
<1>3. Typed'
  BY <1>1, <1>2 DEF IInv, Typed, TypeOK, service, peer, IsSeq
<1>4. AllPaired'
  BY <1>1, <1>2, PairsKept DEF peer
<1> QED BY <1>1, <1>2, <1>3, <1>4
        DEF IInv, Awaited, Faulted, Told, Unheard, Unsettled, HalfWritten, peer

-----------------------------------------------------------------------------
(* Frames and answers *)

\* The replies of Session are a sequence, as long as what is made of them.
LEMMA RepliesSeq ==
  ASSUME NEW m \in Messages, NEW id, NEW i \in BOOLEAN, NEW called
  PROVE  \E S : Replies(m, id, i, called) \in Seq(S)
<1> DEFINE response == [id |-> IF m.method = "array" THEN NullId ELSE id,
                        what |-> Outcome(m, i, called)]
           S == {response, ListChanged}
<1>1. response \in S /\ ListChanged \in S
  OBVIOUS
<1> HIDE DEF response, S
<1>2. /\ <<>> \in Seq(S) /\ <<response>> \in Seq(S) /\ <<ListChanged>> \in Seq(S)
      /\ <<response, ListChanged>> \in Seq(S)
  BY <1>1
<1>3. Replies(m, id, i, called) \in Seq(S)
  BY <1>2, RepliesShape DEF response
<1> QED BY <1>3

\* A Dispatch leaves something to write exactly if there is a reply.
LEMMA DispatchedWrites ==
  ASSUME Typed, NEW m \in Messages, NEW result, Dispatched(m, result)
  PROVE  /\ IsSeq(outbox') /\ initialized' \in BOOLEAN
         /\ pc' = IF outbox' = <<>> THEN "reading" ELSE "writing"
<1> DEFINE replies == Replies(m, handled', initialized, Called(result))
<1>1. initialized \in BOOLEAN
  BY DEF Typed, TypeOK
<1>2. PICK S : replies \in Seq(S)
  BY <1>1, RepliesSeq
<1>3. /\ outbox' = [i \in DOMAIN replies |->
                      Response(replies[i], m, setup.config, tools, result)]
      /\ pc' = AfterDispatch(replies)
      /\ initialized' = InitializedAfter(m, initialized)
  BY DEF Dispatched
<1> HIDE DEF replies
<1>4. DOMAIN outbox' = DOMAIN replies /\ outbox' = [i \in DOMAIN replies |-> outbox'[i]]
  BY <1>3
<1>5. IsSeq(outbox') /\ (outbox' = <<>> <=> replies = <<>>)
  BY <1>2, <1>4, MappedSeq
<1>6. initialized' \in BOOLEAN
  BY <1>1, <1>3 DEF InitializedAfter
<1> QED BY <1>3, <1>5, <1>6 DEF AfterDispatch

\* A frame settles the framing of the peer, unless it is refused as no frame.
LEMMA FrameSettles ==
  ASSUME Typed, NEW opened \in BOOLEAN, ReadFrame(opened)
  PROVE  /\ handled + 1 \in 1 .. Len(sent)
         /\ sent[handled + 1] \in Messages \cup NoMessages
         /\ framing' \in {"Auto", IF setup.speaks = "lines" THEN "Newline" ELSE "ContentLength"}
         /\ sent[handled + 1].method # "bad frame" => ~Unsettled'
         /\ ~Unsettled => ~Unsettled'
<1>1. pc = "reading" /\ handled < Len(sent) /\ handled \in 0 .. Len(sent) /\ Len(sent) \in Nat
  BY LenProperties DEF ReadFrame, Typed, TypeOK
<1>2. handled + 1 \in 1 .. Len(sent)
  BY <1>1
<1>3. sent[handled + 1] \in Messages \cup NoMessages
  BY <1>2, FrameSent
<1> DEFINE f == sent[handled + 1]
<1>4. /\ framing' = Settled(f, opened) /\ setup' = setup
      /\ opened \/ f.method = "bad frame"
  BY DEF ReadFrame, peer
<1> HIDE DEF f
<1>5. /\ setup.speaks \in {"lines", "headers"}
      /\ framing \in {"Auto", IF setup.speaks = "lines" THEN "Newline" ELSE "ContentLength"}
  BY SetupFields DEF Typed, TypeOK
<1>6. /\ framing' \in {"Auto", IF setup.speaks = "lines" THEN "Newline" ELSE "ContentLength"}
      /\ f.method # "bad frame" => ~Unsettled'
      /\ ~Unsettled => ~Unsettled'
  <2>1. CASE framing # "Auto"
    BY <1>4, <1>5, <2>1 DEF Settled, Unsettled
  <2>2. CASE framing = "Auto" /\ setup.speaks = "headers"
    BY <1>4, <2>2 DEF Settled, Unsettled
  <2>3. CASE framing = "Auto" /\ setup.speaks = "lines"
    BY <1>4, <2>3 DEF Settled, Unsettled
  <2> QED BY <1>5, <2>1, <2>2, <2>3
<1> QED BY <1>2, <1>3, <1>6 DEF f

\* What becomes of the frame read: one more is handled, or it is a message that waits
\* for the service, and only a refused one ends the loop.
LEMMA FrameRead ==
  ASSUME IInv, NEW opened \in BOOLEAN, ReadFrame(opened)
  PROVE  LET f == sent[handled + 1]
         IN  \/ /\ handled' = handled + 1 /\ fault' = "none" /\ ~Unsettled'
                /\ IsSeq(outbox') /\ initialized' \in BOOLEAN
                /\ pc' = IF outbox' = <<>> THEN "reading" ELSE "writing"
             \/ /\ handled' = handled + 1 /\ fault' = "framing"
                /\ outbox' = <<Refusal>> /\ pc' = "refusing"
                /\ initialized' = initialized
             \/ /\ f \in Messages /\ pc' \in {"calling", "stopping"} /\ ~Unsettled'
                /\ UNCHANGED <<handled, initialized, outbox, fault>>
<1> DEFINE f == sent[handled + 1]
<1>1. /\ pc = "reading" /\ Typed /\ initialized \in BOOLEAN
      /\ fault = "none" /\ outbox = <<>>
  BY NothingHalf DEF ReadFrame, IInv, Typed, TypeOK
<1>2. f \in Messages \cup NoMessages /\ (f.method # "bad frame" => ~Unsettled')
  BY <1>1, FrameSettles
<1>3. \/ /\ Skipped("framed", f) /\ handled' = handled + 1
         /\ UNCHANGED <<initialized, pc, outbox, fault>>
      \/ /\ Garbled("framed", f) /\ handled' = handled + 1
         /\ outbox' = <<Refusal>> /\ pc' = "writing"
         /\ UNCHANGED <<initialized, fault>>
      \/ /\ f.method = "bad frame" /\ handled' = handled + 1
         /\ Refuse /\ fault' = "framing"
         /\ UNCHANGED initialized
      \/ f \in Messages /\ Route(f) /\ UNCHANGED fault
  BY DEF ReadFrame
<1> HIDE DEF f
<1>4. CASE /\ Skipped("framed", f) /\ handled' = handled + 1
           /\ UNCHANGED <<initialized, pc, outbox, fault>>
  <2>1. ~Unsettled'
    BY <1>2, <1>4 DEF Skipped
  <2> QED BY <1>1, <1>4, <2>1, EmptyIsSeq
<1>5. CASE /\ Garbled("framed", f) /\ handled' = handled + 1
           /\ outbox' = <<Refusal>> /\ pc' = "writing"
           /\ UNCHANGED <<initialized, fault>>
  <2>1. ~Unsettled'
    BY <1>2, <1>5 DEF Garbled
  <2>2. IsSeq(outbox') /\ outbox' # <<>>
    BY <1>5, SingleIsSeq
  <2> QED BY <1>1, <1>5, <2>1, <2>2
<1>6. CASE /\ f.method = "bad frame" /\ handled' = handled + 1
           /\ Refuse /\ fault' = "framing"
           /\ UNCHANGED initialized
  BY <1>6 DEF Refuse
<1>7. CASE f \in Messages /\ Route(f) /\ UNCHANGED fault
  <2>1. f.method # "bad frame"
    BY <1>7, MessageFields DEF Methods
  <2>2. CASE pc' \in {"calling", "stopping"} /\ UNCHANGED <<handled, initialized, outbox>>
    BY <1>2, <1>7, <2>1, <2>2 DEF f
  <2>3. CASE Dispatched(f, NoResult)
    <3>1. handled' = handled + 1
      BY <2>3 DEF Dispatched
    <3>2. /\ IsSeq(outbox') /\ initialized' \in BOOLEAN
          /\ pc' = IF outbox' = <<>> THEN "reading" ELSE "writing"
      BY <1>1, <1>7, <2>3, DispatchedWrites
    <3> QED BY <1>1, <1>2, <1>7, <2>1, <3>1, <3>2
  <2> QED BY <1>7, <2>2, <2>3 DEF Route
<1> QED BY <1>3, <1>4, <1>5, <1>6, <1>7

\* Reading one.
LEMMA ReadFrameKeepsIInv ==
  ASSUME IInv, NEW opened \in BOOLEAN, ReadFrame(opened)
  PROVE  IInv'
<1>1. /\ pc = "reading" /\ handled < Len(sent) /\ Typed /\ Unheard
      /\ UNCHANGED <<setup, sent, broken, tools, returned, out>>
  BY DEF ReadFrame, IInv, peer, service
<1>2. Len(out) % 2 # 1 /\ fault = "none"
  BY <1>1, NothingHalf
<1>3. /\ handled + 1 \in 1 .. Len(sent)
      /\ framing' \in {"Auto", IF setup.speaks = "lines" THEN "Newline" ELSE "ContentLength"}
      /\ ~Unsettled => ~Unsettled'
  BY <1>1, FrameSettles
<1>4. AllPaired'
  BY <1>1, <1>2, PairsKept
<1>5. Unsettled' => out = <<>>
  BY <1>1, <1>3 DEF Unheard
<1>6. Len(returned) =< handled /\ handled \in 0 .. Len(sent) /\ Len(returned) \in Nat
  BY <1>1, LenProperties DEF Typed, TypeOK
<1>7. handled + 1 \in 0 .. Len(sent) /\ Len(returned) =< handled + 1
  BY <1>1, <1>6, LenProperties DEF Typed
<1> DEFINE f == sent[handled + 1]
<1>8. \/ /\ handled' = handled + 1 /\ fault' = "none" /\ ~Unsettled'
         /\ IsSeq(outbox') /\ initialized' \in BOOLEAN
         /\ pc' = IF outbox' = <<>> THEN "reading" ELSE "writing"
      \/ /\ handled' = handled + 1 /\ fault' = "framing"
         /\ outbox' = <<Refusal>> /\ pc' = "refusing"
         /\ initialized' = initialized
      \/ /\ f \in Messages /\ pc' \in {"calling", "stopping"} /\ ~Unsettled'
         /\ UNCHANGED <<handled, initialized, outbox, fault>>
  BY FrameRead
<1> HIDE DEF f
<1>9. CASE /\ handled' = handled + 1 /\ fault' = "none" /\ ~Unsettled'
           /\ IsSeq(outbox') /\ initialized' \in BOOLEAN
           /\ pc' = IF outbox' = <<>> THEN "reading" ELSE "writing"
  <2>1. Typed'
    BY <1>1, <1>3, <1>7, <1>9 DEF Typed, TypeOK, IsSeq
  <2>2. Awaited' /\ Faulted' /\ Told' /\ Unheard' /\ HalfWritten'
    BY <1>1, <1>2, <1>9 DEF Awaited, Faulted, Told, Unheard, HalfWritten
  <2> QED BY <1>4, <2>1, <2>2 DEF IInv
<1>10. CASE /\ handled' = handled + 1 /\ fault' = "framing"
            /\ outbox' = <<Refusal>> /\ pc' = "refusing"
            /\ initialized' = initialized
  <2>1. IsSeq(outbox') /\ outbox' # <<>>
    BY <1>10, SingleIsSeq
  <2>2. Typed'
    BY <1>1, <1>3, <1>7, <1>10, <2>1 DEF Typed, TypeOK, IsSeq
  <2>3. Refusal' = Refusal
    OBVIOUS
  <2>4. Awaited' /\ Faulted' /\ Told' /\ Unheard' /\ HalfWritten'
    BY <1>1, <1>2, <1>10, <2>3 DEF Awaited, Faulted, Told, Unheard, HalfWritten
  <2> QED BY <1>4, <2>2, <2>4 DEF IInv
<1>11. CASE /\ f \in Messages /\ pc' \in {"calling", "stopping"} /\ ~Unsettled'
            /\ UNCHANGED <<handled, initialized, outbox, fault>>
  <2>1. Typed'
    BY <1>1, <1>3, <1>11 DEF Typed, TypeOK, IsSeq
  <2>2. Awaited'
    BY <1>1, <1>11 DEF Awaited, f
  <2>3. Faulted' /\ Told' /\ Unheard' /\ HalfWritten'
    BY <1>1, <1>2, <1>11 DEF Faulted, Told, Unheard, HalfWritten
  <2> QED BY <1>4, <2>1, <2>2, <2>3 DEF IInv
<1> QED BY <1>8, <1>9, <1>10, <1>11

\* The service answers.
LEMMA AnswerKeepsIInv ==
  ASSUME IInv, NEW result,
         pc \in {"calling", "stopping"}, Dispatched(sent[handled + 1], result),
         UNCHANGED <<peer, framing, out, fault>>,
         tools' \in Toolbox,
         returned' \in Seq(Returns),
         Len(returned') =< Len(returned) + 1
  PROVE  IInv'
<1> DEFINE m == sent[handled + 1]
<1>1. Typed /\ handled < Len(sent) /\ m \in Messages
  BY DEF IInv, Awaited
<1>2. handled' = handled + 1 /\ Dispatched(m, result)
  BY DEF Dispatched
<1> HIDE DEF m
<1>3. /\ IsSeq(outbox') /\ initialized' \in BOOLEAN
      /\ pc' = IF outbox' = <<>> THEN "reading" ELSE "writing"
  BY <1>1, <1>2, DispatchedWrites
<1>4. Len(out) % 2 # 1 /\ fault = "none"
  BY NothingHalf
<1>5. AllPaired'
  BY <1>4, PairsKept DEF peer
<1>6. ~Unsettled'
  BY DEF IInv, Unheard, Unsettled, peer
<1>7. /\ Len(returned) \in Nat /\ Len(returned') \in Nat
      /\ Len(returned) =< handled /\ handled \in 0 .. Len(sent) /\ Len(sent) \in Nat
  BY <1>1, LenProperties DEF Typed, TypeOK
<1>8. handled' \in 0 .. Len(sent) /\ Len(returned') =< handled'
  BY <1>1, <1>2, <1>7
<1>9. Typed'
  BY <1>1, <1>3, <1>8 DEF Typed, TypeOK, IsSeq, peer
<1>10. Awaited' /\ Faulted' /\ Told' /\ Unheard' /\ HalfWritten'
  BY <1>3, <1>4, <1>6 DEF Awaited, Faulted, Told, Unheard, HalfWritten
<1> QED BY <1>5, <1>9, <1>10 DEF IInv

\* Either answer of the service.
LEMMA CalleeKeepsIInv ==
  ASSUME IInv, Callee
  PROVE  IInv'
<1>1. /\ returned \in Seq(Returns) /\ tools \in Toolbox /\ handled \in 0 .. Len(sent)
      /\ Len(sent) \in Nat /\ Len(returned) \in Nat
  BY LenProperties DEF IInv, Typed, TypeOK
<1>2. ASSUME NEW r \in Results, NEW t \in Toolbox, CallReturns(r, t)
      PROVE  IInv'
  <2>1. handled' = handled + 1
    BY <1>2 DEF CallReturns, Dispatched
  <2>2. [id |-> handled', result |-> r, tools |-> t] \in Returns
    BY <1>1, <2>1 DEF Returns
  <2>3. returned' = Append(returned, [id |-> handled', result |-> r, tools |-> t])
    BY <1>2 DEF CallReturns
  <2> DEFINE e == [id |-> handled', result |-> r, tools |-> t]
  <2> HIDE DEF e
  <2>4. returned' \in Seq(Returns) /\ Len(returned') = Len(returned) + 1
    BY <1>1, <2>2, <2>3, AppendProperties DEF e
  <2>5. /\ pc \in {"calling", "stopping"} /\ Dispatched(sent[handled + 1], r)
        /\ UNCHANGED <<peer, framing, out, fault>> /\ tools' \in Toolbox
    BY <1>2 DEF CallReturns
  <2>6. Len(returned') =< Len(returned) + 1
    BY <1>1, <2>4
  <2> QED BY <2>4, <2>5, <2>6, AnswerKeepsIInv
<1>3. ASSUME ShutdownReturns PROVE IInv'
  <2>1. /\ pc \in {"calling", "stopping"} /\ Dispatched(sent[handled + 1], NoResult)
        /\ UNCHANGED <<peer, framing, out, fault>> /\ UNCHANGED <<tools, returned>>
    BY <1>3 DEF ShutdownReturns, service
  <2>2. tools' \in Toolbox /\ returned' \in Seq(Returns) /\ Len(returned') =< Len(returned) + 1
    BY <1>1, <2>1
  <2> QED BY <2>1, <2>2, AnswerKeepsIInv
<1> QED BY <1>2, <1>3 DEF Callee

-----------------------------------------------------------------------------
(* Writing *)

\* Halves and pairs.
LEMMA Halves ==
  ASSUME NEW n \in Nat
  PROVE  /\ n % 2 \in {0, 1} /\ n \div 2 \in Nat
         /\ n % 2 = 0 => (n + 1) % 2 = 1 /\ (n + 1) \div 2 = n \div 2
         /\ n % 2 = 1 =>
              LET k == (n + 1) \div 2
              IN  /\ (n + 1) % 2 = 0 /\ n \in 1 .. n
                  /\ 2 * k - 1 = n /\ 2 * k = n + 1 /\ k \in Nat
                  /\ \A j \in 1 .. k : j \in 1 .. n \div 2 \/ j = k
         /\ \A k \in 1 .. n \div 2 : 2 * k - 1 \in 1 .. n /\ 2 * k \in 1 .. n
OBVIOUS

\* The two writes of a message: both are of it, neither is torn, and they are in the
\* framing of the peer once that is known.
LEMMA PiecesOf ==
  ASSUME TypeOK, NEW message
  PROVE  /\ Pieces(message)[1].of = message /\ Pieces(message)[2].of = message
         /\ Pieces(message)[1].part \in {"length", "body", "newline"}
         /\ Pieces(message)[2].part \in {"length", "body", "newline"}
         /\ ~Unsettled =>
              <<Pieces(message)[1].part, Pieces(message)[2].part>> = OwnFraming
<1>1. /\ setup.speaks \in {"lines", "headers"}
      /\ framing \in {"Auto", IF setup.speaks = "lines" THEN "Newline" ELSE "ContentLength"}
  BY SetupFields DEF TypeOK
<1>2. CASE framing = "ContentLength"
  <2>1. Pieces(message) = <<Piece("length", message), Piece("body", message)>>
    BY <1>2 DEF Pieces
  <2> QED BY <1>1, <1>2, <2>1 DEF Piece, OwnFraming, Unsettled
<1>3. CASE framing # "ContentLength"
  <2>1. Pieces(message) = <<Piece("body", message), Piece("newline", message)>>
    BY <1>3 DEF Pieces
  <2> QED BY <1>1, <1>3, <2>1 DEF Piece, OwnFraming, Unsettled
<1> QED BY <1>2, <1>3

\* The pairs that are there stay while one more piece is written.
LEMMA OldPairsKept ==
  ASSUME IInv, pc # "ended", NEW piece, out' = Append(out, piece),
         UNCHANGED <<setup, framing>>
  PROVE  /\ IsSeq(out') /\ Len(out') = Len(out) + 1 /\ Len(out) \in Nat
         /\ \A i \in 1 .. Len(out) : out'[i] = out[i]
         /\ out'[Len(out) + 1] = piece
         /\ \A k \in 1 .. Len(out) \div 2 : Paired(k)'
         /\ piece.part \in {"length", "body", "newline", "torn"} =>
              \A i \in DOMAIN out' : out'[i].part \in {"length", "body", "newline", "torn"}
<1>1. IsSeq(out) /\ Len(out) \in Nat /\ DOMAIN out = 1 .. Len(out)
  BY LenOfSeq DEF IInv, Typed
<1>2. /\ IsSeq(out') /\ Len(out') = Len(out) + 1
      /\ \A i \in 1 .. Len(out) : out'[i] = out[i]
      /\ out'[Len(out) + 1] = piece
  BY <1>1, AppendToSeq
<1>3. ASSUME NEW k \in 1 .. Len(out) \div 2 PROVE Paired(k)'
  <2>1. Paired(k)
    BY DEF IInv, AllPaired
  <2>2. 2 * k - 1 \in 1 .. Len(out) /\ 2 * k \in 1 .. Len(out)
    BY <1>1, <1>3, Halves
  <2>3. out'[2 * k - 1] = out[2 * k - 1] /\ out'[2 * k] = out[2 * k]
    BY <1>2, <2>2
  <2> QED BY <2>1, <2>3 DEF Paired, Whole, OwnFraming, Unsettled
<1>4. DOMAIN out' = 1 .. Len(out) + 1
  BY <1>2, LenOfSeq
<1>5. \A i \in DOMAIN out : out[i].part \in {"length", "body", "newline", "torn"}
  BY DEF IInv, Typed, TypeOK
<1>6. \A i \in DOMAIN out' : i \in DOMAIN out \/ i = Len(out) + 1
  BY <1>1, <1>4
<1> QED BY <1>1, <1>2, <1>3, <1>5, <1>6

\* A write that comes through.
LEMMA WriteKeepsIInv ==
  ASSUME IInv, Write
  PROVE  IInv'
<1> DEFINE n == Len(out)
           h == Head(outbox)
<1>1. /\ pc \in {"writing", "refusing"} /\ out' = Append(out, NextPiece)
      /\ UNCHANGED <<setup, sent, broken, handled, framing, initialized, tools, returned,
                     fault>>
  BY DEF Write, peer, service
<1>2. /\ TypeOK /\ IsSeq(outbox) /\ outbox # <<>>
      /\ ~Unsettled \/ pc = "refusing"
      /\ pc = "refusing" => fault = "framing" /\ outbox = <<Refusal>>
      /\ pc = "writing" => fault = "none"
  BY <1>1 DEF IInv, Typed, TypeOK, Unheard, Faulted
<1>3. /\ IsSeq(out') /\ Len(out') = n + 1 /\ n \in Nat
      /\ \A i \in 1 .. n : out'[i] = out[i]
      /\ out'[n + 1] = NextPiece
      /\ \A k \in 1 .. n \div 2 : Paired(k)'
      /\ NextPiece.part \in {"length", "body", "newline", "torn"} =>
           \A i \in DOMAIN out' : out'[i].part \in {"length", "body", "newline", "torn"}
  BY <1>1, OldPairsKept
<1>4. NextPiece = Pieces(h)[(n % 2) + 1] /\ n % 2 \in {0, 1}
  BY <1>3, Halves DEF NextPiece
<1>5. /\ Pieces(h)[1].of = h /\ Pieces(h)[2].of = h
      /\ Pieces(h)[1].part \in {"length", "body", "newline"}
      /\ Pieces(h)[2].part \in {"length", "body", "newline"}
      /\ ~Unsettled => <<Pieces(h)[1].part, Pieces(h)[2].part>> = OwnFraming
  BY <1>2, PiecesOf
<1>6. Pieces(h)' = Pieces(h') /\ Unsettled' = Unsettled /\ OwnFraming' = OwnFraming
  BY <1>1 DEF Pieces, Piece, Unsettled, OwnFraming
<1> HIDE DEF n, h
<1>7. CASE n % 2 = 0
  <2>1. /\ NextPiece = Pieces(h)[1] /\ Len(out') % 2 = 1 /\ Len(out') \div 2 = n \div 2
    BY <1>3, <1>4, <1>7, Halves
  <2>2. outbox' = outbox /\ pc' = pc
    BY <2>1 DEF Write
  <2>3. Typed'
    <3>1. \A i \in DOMAIN out' : out'[i].part \in {"length", "body", "newline", "torn"}
      BY <1>3, <1>5, <2>1
    <3>2. IsSeq(outbox')
      BY <1>2, <2>2
    <3>3. TypeOK'
      BY <1>1, <1>2, <2>2, <3>1 DEF TypeOK
    <3> QED BY <1>1, <1>3, <3>2, <3>3 DEF IInv, Typed, IsSeq
  <2>4. AllPaired'
    BY <1>1, <1>3, <2>1, <2>2 DEF AllPaired
  <2>5. HalfWritten'
    <3>1. out'[Len(out')] = Pieces(h)[1]
      BY <1>3, <2>1
    <3>2. (Pieces(Head(outbox))[1])' = Pieces(h)[1]
      BY <1>1, <2>2 DEF Pieces, Piece, h
    <3> QED BY <3>1, <3>2 DEF HalfWritten
  <2>6. Awaited' /\ Faulted' /\ Told' /\ Unheard'
    BY <1>1, <1>2, <1>6, <2>2 DEF IInv, Awaited, Faulted, Told, Unheard
  <2> QED BY <2>3, <2>4, <2>5, <2>6 DEF IInv
<1>8. CASE n % 2 = 1
  <2> DEFINE last == Len(out') \div 2
  <2>1. /\ NextPiece = Pieces(h)[2] /\ Len(out') % 2 = 0 /\ n \in 1 .. n
        /\ 2 * last - 1 = n /\ 2 * last = n + 1 /\ last \in Nat
        /\ \A j \in 1 .. last : j \in 1 .. n \div 2 \/ j = last
    BY <1>3, <1>4, <1>8, Halves
  <2> HIDE DEF last
  <2>2. /\ outbox' = Tail(outbox)
        /\ pc' = IF outbox' # <<>> THEN "writing"
                 ELSE IF pc = "refusing" THEN "ended" ELSE "reading"
    BY <2>1 DEF Write
  <2>3. IsSeq(outbox')
    BY <1>2, <2>2, TailOfSeq
  <2>4. pc = "refusing" => outbox' = <<>> /\ h = Refusal
    BY <1>2, <2>2, SingleIsSeq DEF h
  <2>5. Typed'
    BY <1>1, <1>2, <1>3, <1>5, <2>1, <2>2, <2>3, <2>4 DEF IInv, Typed, TypeOK, IsSeq
  <2>6. out'[n] = Pieces(h)[1] /\ out'[n + 1] = Pieces(h)[2]
    <3>1. out[n] = Pieces(h)[1]
      BY <1>1, <1>8 DEF IInv, HalfWritten, n, h
    <3> QED BY <1>3, <2>1, <3>1
  <2>7. /\ out'[2 * last - 1].of = out'[2 * last].of
        /\ \/ <<out'[2 * last - 1].part, out'[2 * last].part>> = OwnFraming'
           \/ Unsettled' /\ out'[2 * last - 1].of = Refusal
    BY <1>2, <1>5, <1>6, <2>1, <2>4, <2>6
  <2>8. AllPaired'
    <3>1. \A j \in 1 .. last : Paired(j)'
      BY <1>3, <2>1, <2>7 DEF Paired, Whole, Refusal
    <3> QED BY <2>1, <3>1 DEF AllPaired, last
  <2>9. Told'
    <3> SUFFICES ASSUME pc' = "ended"
                 PROVE  /\ Len(out') > 0 /\ Len(out') % 2 = 0
                        /\ out'[Len(out')].of = Refusal /\ out'[Len(out')].part # "torn"
      BY DEF Told, Refusal
    <3>1. pc = "refusing"
      BY <2>2
    <3>2. out'[Len(out')].of = Refusal /\ out'[Len(out')].part # "torn"
      BY <1>3, <1>5, <2>4, <2>6, <3>1
    <3> QED BY <1>3, <2>1, <3>2
  <2>10. Awaited' /\ Faulted' /\ Unheard' /\ HalfWritten'
    BY <1>1, <1>2, <1>6, <2>1, <2>2, <2>4 DEF Awaited, Faulted, Unheard, HalfWritten
  <2> QED BY <2>5, <2>8, <2>9, <2>10 DEF IInv
<1> QED BY <1>4, <1>7, <1>8

\* One that fails, or is given up.
LEMMA WriteFailsKeepsIInv ==
  ASSUME IInv, WriteFails
  PROVE  IInv'
<1> DEFINE torn == Piece("torn", Head(outbox))
<1>1. /\ pc \in {"writing", "refusing"} /\ outbox' = <<>> /\ pc' = "ended"
      /\ fault' = FaultOfWrite /\ broken /\ (out' = Append(out, torn) \/ out' = out)
      /\ UNCHANGED <<setup, sent, broken, handled, framing, initialized, tools, returned>>
  BY DEF WriteFails, AfterError, peer, service
<1>2. /\ TypeOK /\ IsSeq(out) /\ IsSeq(outbox')
      /\ fault' \in {"none", "framing", "read", "write"}
  BY <1>1, EmptyIsSeq DEF IInv, Typed, TypeOK, FaultOfWrite
<1>3. Awaited' /\ Faulted' /\ Told' /\ Unheard' /\ HalfWritten'
  BY <1>1 DEF IInv, Awaited, Faulted, Told, Unheard, HalfWritten
<1>4. CASE out' = out
  <2>1. Typed'
    BY <1>1, <1>2, <1>4 DEF IInv, Typed, TypeOK, IsSeq
  <2>2. AllPaired'
    BY <1>1, <1>4, PairsKept
  <2> QED BY <1>3, <2>1, <2>2 DEF IInv
<1>5. CASE out' = Append(out, torn)
  <2> DEFINE n == Len(out)
  <2>1. torn.part = "torn" /\ torn.of = Head(outbox)
    BY DEF Piece
  <2> HIDE DEF torn
  <2>2. /\ IsSeq(out') /\ Len(out') = n + 1 /\ n \in Nat
        /\ \A i \in 1 .. n : out'[i] = out[i]
        /\ out'[n + 1] = torn
        /\ \A k \in 1 .. n \div 2 : Paired(k)'
        /\ \A i \in DOMAIN out' : out'[i].part \in {"length", "body", "newline", "torn"}
    BY <1>1, <1>5, <2>1, OldPairsKept
  <2>3. Typed'
    BY <1>1, <1>2, <2>2 DEF IInv, Typed, TypeOK, IsSeq
  <2>4. n % 2 \in {0, 1}
    BY <2>2, Halves
  <2>5. CASE n % 2 = 0
    <3>1. Len(out') \div 2 = n \div 2
      BY <2>2, <2>5, Halves
    <3>2. AllPaired'
      BY <1>1, <2>2, <3>1 DEF AllPaired
    <3> QED BY <1>3, <2>3, <3>2 DEF IInv
  <2>6. CASE n % 2 = 1
    <3> DEFINE last == Len(out') \div 2
    <3>1. /\ 2 * last - 1 = n /\ 2 * last = n + 1 /\ n \in 1 .. n
          /\ \A j \in 1 .. last : j \in 1 .. n \div 2 \/ j = last
      BY <2>2, <2>6, Halves
    <3> HIDE DEF last
    <3>2. out'[n].of = Head(outbox)
      <4>1. out[n] = Pieces(Head(outbox))[1]
        BY <1>1, <2>6 DEF IInv, HalfWritten
      <4> QED BY <1>2, <2>2, <3>1, <4>1, PiecesOf
    <3>3. /\ out'[2 * last - 1].of = out'[2 * last].of
          /\ out'[2 * last].part = "torn" /\ 2 * last = Len(out')
      BY <2>1, <2>2, <3>1, <3>2
    <3>4. \A j \in 1 .. last : Paired(j)'
      BY <1>1, <2>2, <3>1, <3>3 DEF Paired
    <3>5. AllPaired'
      BY <1>1, <3>4 DEF AllPaired, last
    <3> QED BY <1>3, <2>3, <3>5 DEF IInv
  <2> QED BY <2>4, <2>5, <2>6
<1> QED BY <1>1, <1>4, <1>5

-----------------------------------------------------------------------------
(* Results *)

\* Every step.
LEMMA NextKeepsIInv == IInv /\ [Next]_vars => IInv'
<1> SUFFICES ASSUME IInv, [Next]_vars PROVE IInv'
  OBVIOUS
<1>1. ASSUME NEW f \in Frames, Send(f) PROVE IInv'
  BY <1>1, SendKeepsIInv
<1>2. CASE Break
  BY <1>2, BreakKeepsIInv
<1>3. ASSUME NEW opened \in BOOLEAN, ReadFrame(opened) PROVE IInv'
  BY <1>3, ReadFrameKeepsIInv
<1>4. CASE ReadEof \/ ReadFails \/ Dropped
  BY <1>4, EndKeepsIInv
<1>5. CASE Write
  BY <1>5, WriteKeepsIInv
<1>6. CASE WriteFails
  BY <1>6, WriteFailsKeepsIInv
<1>7. CASE Callee
  BY <1>7, CalleeKeepsIInv
<1>8. CASE UNCHANGED vars
  <2> USE <1>8 DEF vars
  <2>1. Typed'
    BY DEF IInv, Typed, TypeOK, IsSeq
  <2>2. AllPaired'
    BY PairsKept DEF IInv, AllPaired
  <2> QED BY <2>1, <2>2 DEF IInv, Awaited, Faulted, Told, Unheard, Unsettled, HalfWritten,
                            Pieces
<1> QED BY <1>1, <1>2, <1>3, <1>4, <1>5, <1>6, <1>7, <1>8 DEF Next, Task

\* What pump and write_message rely on, between any two of their steps.
THEOREM PumpIInv == Spec => []IInv
BY InitIInv, NextKeepsIInv, PTL DEF Spec

\* The types.
THEOREM StdioTypeCorrect == Spec => []TypeOK
<1>1. IInv => TypeOK
  BY DEF IInv, Typed
<1> QED BY <1>1, PumpIInv, PTL

\* Whatever write fails, the peer can tell every message from the next
\* (write_message).
THEOREM WrittenWhole == Spec => []WholeReplies
<1>1. IInv => WholeReplies
  BY DEF IInv, AllPaired, Paired, WholeReplies
<1> QED BY <1>1, PumpIInv, PTL

\* After an error nothing is read, nothing written but the refusal, and the error
\* stays the one to return (pump).
THEOREM NothingAfterFault == Spec => FaultIsFinal
<1> DEFINE Final == fault # "none" =>
              /\ fault' = fault
              /\ handled' = handled /\ returned' = returned
              /\ out' # out => fault = "framing" /\ out'[Len(out')].of = Refusal
<1>1. IInv /\ [Next]_vars => [Final]_vars
  <2> SUFFICES ASSUME IInv, Next, fault # "none" PROVE Final
    OBVIOUS
  <2>1. /\ pc \in {"refusing", "ended"}
        /\ pc = "refusing" => fault = "framing" /\ outbox = <<Refusal>>
    BY DEF IInv, Faulted
  <2>2. ASSUME NEW f \in Frames, Send(f) PROVE Final
    BY <2>2 DEF Send, service
  <2>3. CASE Break
    BY <2>3 DEF Break, service
  <2>4. ASSUME NEW opened \in BOOLEAN, ReadFrame(opened) PROVE Final
    BY <2>1, <2>4 DEF ReadFrame
  <2>5. CASE ReadEof \/ ReadFails \/ Dropped
    BY <2>1, <2>5 DEF ReadEof, ReadFails, Dropped
  <2>6. CASE Write \/ WriteFails
    <3>1. pc = "refusing" /\ fault = "framing" /\ outbox = <<Refusal>>
      BY <2>1, <2>6 DEF Write, WriteFails
    <3>2. fault' = fault /\ handled' = handled /\ returned' = returned
      BY <2>6, <3>1 DEF Write, WriteFails, FaultOfWrite, service
    <3>3. Head(outbox) = Refusal
      BY <3>1, SingleIsSeq
    <3>4. ASSUME NEW piece, out' = Append(out, piece), piece.of = Refusal PROVE Final
      <4>1. Len(out') = Len(out) + 1 /\ out'[Len(out) + 1] = piece
        BY <3>4, AppendToSeq DEF IInv, Typed
      <4> QED BY <3>1, <3>2, <3>4, <4>1
    <3>5. NextPiece.of = Refusal
      <4>1. Len(out) % 2 \in {0, 1}
        BY LenOfSeq, Halves DEF IInv, Typed
      <4>2. Pieces(Refusal)[1].of = Refusal /\ Pieces(Refusal)[2].of = Refusal
        BY PiecesOf DEF IInv, Typed
      <4> HIDE DEF Refusal
      <4> QED BY <3>3, <4>1, <4>2 DEF NextPiece
    <3>6. Piece("torn", Head(outbox)).of = Refusal
      BY <3>3 DEF Piece
    <3>7. \/ out' = Append(out, NextPiece)
          \/ out' = Append(out, Piece("torn", Head(outbox)))
          \/ out' = out
      BY <2>6 DEF Write, WriteFails
    <3> QED BY <3>2, <3>4, <3>5, <3>6, <3>7
  <2>7. CASE Callee
    BY <2>1, <2>7 DEF Callee, CallReturns, ShutdownReturns
  <2> QED BY <2>2, <2>3, <2>4, <2>5, <2>6, <2>7 DEF Next, Task
<1> QED BY <1>1, PumpIInv, PTL DEF Spec, FaultIsFinal

\* The peer has the first n messages if these are whole and no more are, or not the
\* next: o is what was written, own the framing it is read in.
LEMMA ArrivedIs ==
  ASSUME NEW o, NEW own, Len(o) \in Nat, NEW n \in 0 .. Len(o) \div 2,
         \A k \in 1 .. n : <<o[2 * k - 1].part, o[2 * k].part>> = own,
         n = Len(o) \div 2 \/ ~(<<o[2 * (n + 1) - 1].part, o[2 * (n + 1)].part>> = own)
  PROVE  (CHOOSE i \in 0 .. Len(o) \div 2 :
            (\A k \in 1 .. i : <<o[2 * k - 1].part, o[2 * k].part>> = own)
              /\ (i = Len(o) \div 2
                    \/ ~(<<o[2 * (i + 1) - 1].part, o[2 * (i + 1)].part>> = own))) = n
<1> DEFINE all == Len(o) \div 2
           In(k) == <<o[2 * k - 1].part, o[2 * k].part>> = own
           Is(i) == (\A k \in 1 .. i : In(k)) /\ (i = all \/ ~In(i + 1))
<1>1. all \in Nat /\ n \in 0 .. all /\ Is(n)
  BY Halves
<1> HIDE DEF all, In
<1>2. ASSUME NEW i \in 0 .. all, NEW j \in 0 .. all, Is(i), Is(j) PROVE ~(i < j)
  <2> SUFFICES ASSUME i < j PROVE FALSE
    OBVIOUS
  <2>1. i + 1 \in 1 .. j /\ i # all
    BY <1>1
  <2> QED BY <1>2, <2>1
<1> HIDE DEF Is
<1>3. \A i \in 0 .. all : Is(i) => i = n
  BY <1>1, <1>2
<1>4. (CHOOSE i \in 0 .. all : Is(i)) \in 0 .. all /\ Is(CHOOSE i \in 0 .. all : Is(i))
  BY <1>1
<1>5. (CHOOSE i \in 0 .. all : Is(i)) = n
  BY <1>3, <1>4
<1> QED BY <1>5 DEF Is, In, all

\* These are the messages it has then, before a step and after.
LEMMA ReceivedIs ==
  ASSUME Len(out) \in Nat, NEW n \in 0 .. Len(out) \div 2, \A k \in 1 .. n : Whole(k),
         n = Len(out) \div 2 \/ ~Whole(n + 1)
  PROVE  Received = [k \in 1 .. n |-> out[2 * k].of]
<1>1. Arrived = n
  BY ArrivedIs DEF Arrived, Whole
<1> QED BY <1>1 DEF Received

\* After it.
LEMMA ReceivedIsNext ==
  ASSUME Len(out') \in Nat, NEW n \in 0 .. Len(out') \div 2,
         \A k \in 1 .. n : Whole(k)',
         n = Len(out') \div 2 \/ ~(Whole(n + 1)')
  PROVE  Received' = [k \in 1 .. n |-> out'[2 * k].of]
<1>1. Arrived' = n
  BY ArrivedIs DEF Arrived, Whole
<1> QED BY <1>1 DEF Received

\* A peer that sent what cannot be a frame is told so in its own framing, if it
\* listens (pump, write_message).
THEOREM RefusedIsTold == Spec => []LastWord
<1>1. IInv => LastWord
  <2> SUFFICES ASSUME IInv, pc = "ended", fault = "framing", ~broken, ~Unsettled
               PROVE  Received # <<>> /\ Received[Len(Received)] = Refusal
    BY DEF LastWord
  <2> DEFINE n == Len(out)  last == n \div 2
  <2>1. /\ n \in Nat /\ n > 0 /\ n % 2 = 0
        /\ out[n].of = Refusal /\ out[n].part # "torn"
    BY LenOfSeq DEF IInv, Told, Typed
  <2>2. n = 2 * last /\ last \in Nat \ {0}
    BY <2>1
  <2>3. \A k \in 1 .. last : Whole(k)
    BY <2>1, <2>2 DEF IInv, AllPaired, Paired
  <2>4. last \in 0 .. Len(out) \div 2
    BY <2>2
  <2>5. Received = [k \in 1 .. last |-> out[2 * k].of]
    BY <2>1, <2>3, <2>4, ReceivedIs
  <2> HIDE DEF last
  <2>6. Len(Received) = last /\ last \in 1 .. last
    BY <2>2, <2>5
  <2>7. Received[last] = Refusal
    BY <2>1, <2>2, <2>5, <2>6
  <2>8. Received # <<>>
    BY <2>2, <2>6
  <2> QED BY <2>6, <2>7, <2>8
<1> QED BY <1>1, PumpIInv, PTL

-----------------------------------------------------------------------------
(* What the peer makes of the responses *)

\* An error is told by its number (error_response, code).
LEMMA ErrorUnderstood ==
  ASSUME NEW id, NEW w \in DOMAIN code, NEW message
  PROVE  Understood(ErrorResponse(id, code[w], message)) = [id |-> id, what |-> w]
<1> DEFINE json == ErrorResponse(id, code[w], message)
<1>1. /\ DOMAIN json = {"jsonrpc", "id", "error"} /\ json.id = id
      /\ json.error.code = code[w]
  BY DEF ErrorResponse
<1>2. \A v \in DOMAIN code : code[v] = code[w] => v = w
  BY DEF code
<1>3. (CHOOSE v \in DOMAIN code : code[v] = json.error.code) = w
  BY <1>1, <1>2
<1> HIDE DEF json
<1>4. "method" \notin DOMAIN json /\ "error" \in DOMAIN json
  BY <1>1
<1> QED BY <1>1, <1>3, <1>4 DEF Understood, json

\* Any other response is told by the members of its result (success_response).
LEMMA ResultUnderstood ==
  ASSUME NEW id, NEW result
  PROVE  LET understood == Understood(SuccessResponse(id, result))
         IN  /\ "tools" \in DOMAIN result /\ "isError" \notin DOMAIN result
                  /\ "protocolVersion" \notin DOMAIN result =>
                  understood = [id |-> id, what |-> "tools"]
             /\ "isError" \in DOMAIN result /\ "tools" \notin DOMAIN result
                  /\ "protocolVersion" \notin DOMAIN result =>
                  understood = [id |-> id, what |-> IF result.isError THEN "isError" ELSE "done"]
             /\ "protocolVersion" \in DOMAIN result /\ "tools" \notin DOMAIN result
                  /\ "isError" \notin DOMAIN result =>
                  understood = [id |-> id, what |-> result.protocolVersion]
             /\ DOMAIN result \cap {"tools", "isError", "protocolVersion"} = {} =>
                  understood = [id |-> id, what |-> "result"]
<1> DEFINE json == SuccessResponse(id, result)
<1>1. DOMAIN json = {"jsonrpc", "id", "result"} /\ json.id = id /\ json.result = result
  BY DEF SuccessResponse
<1> HIDE DEF json
<1>2. /\ "method" \notin DOMAIN json /\ "error" \notin DOMAIN json /\ "result" \in DOMAIN json
  BY <1>1
<1> QED BY <1>1, <1>2 DEF Understood, json

\* The members of what With makes.
LEMMA WithMembers ==
  ASSUME NEW object, NEW member, NEW value, NEW k, k # member
  PROVE  /\ k \in DOMAIN With(object, member, value) <=> k \in DOMAIN object
         /\ k \in DOMAIN object => With(object, member, value)[k] = object[k]
BY DEF With

\* The version is in the answer to initialize (handle_initialize).
LEMMA InitializeUnderstood ==
  ASSUME NEW id, NEW config, NEW version
  PROVE  Understood(SuccessResponse(id, InitializeResult(config, version)))
           = [id |-> id, what |-> version]
<1> DEFINE object == [protocolVersion |-> version,
                      serverInfo |-> ServerInfo(config, version),
                      listChanged |-> config.tools_list_changed]
           result == InitializeResult(config, version)
<1>1. /\ DOMAIN object = {"protocolVersion", "serverInfo", "listChanged"}
      /\ object["protocolVersion"] = version
  OBVIOUS
<1>2. PICK value : result = With(object, "instructions", value)
  BY DEF InitializeResult
<1> HIDE DEF object, result
<1>3. /\ "protocolVersion" \in DOMAIN result /\ result["protocolVersion"] = version
      /\ "tools" \notin DOMAIN result /\ "isError" \notin DOMAIN result
  BY <1>1, <1>2, WithMembers
<1> QED BY <1>3, ResultUnderstood DEF result

\* The reply of a tool is marked as an error or not (ToolReply, tool_error_result).
LEMMA ToolUnderstood ==
  ASSUME NEW id, NEW reply, NEW message
  PROVE  /\ Understood(SuccessResponse(id, ResultJson(reply)))
              = [id |-> id, what |-> IF reply.is_error THEN "isError" ELSE "done"]
         /\ Understood(SuccessResponse(id, ToolErrorResult(message)))
              = [id |-> id, what |-> "isError"]
<1>1. Understood(SuccessResponse(id, ResultJson(reply)))
              = [id |-> id, what |-> IF reply.is_error THEN "isError" ELSE "done"]
  <2> DEFINE object == [content |-> [i \in DOMAIN reply.content |->
                                       ContentJson(reply.content[i])],
                        isError |-> reply.is_error]
             result == ResultJson(reply)
  <2>1. DOMAIN object = {"content", "isError"} /\ object["isError"] = reply.is_error
    OBVIOUS
  <2>2. result = With(object, "structuredContent", reply.structured_content)
    BY DEF ResultJson
  <2> HIDE DEF object, result
  <2>3. /\ "isError" \in DOMAIN result /\ result["isError"] = reply.is_error
        /\ "tools" \notin DOMAIN result /\ "protocolVersion" \notin DOMAIN result
    BY <2>1, <2>2, WithMembers
  <2> QED BY <2>3, ResultUnderstood DEF result
<1>2. Understood(SuccessResponse(id, ToolErrorResult(message)))
              = [id |-> id, what |-> "isError"]
  <2> DEFINE result == ToolErrorResult(message)
  <2>1. DOMAIN result = {"content", "isError"} /\ result["isError"] = TRUE
    BY DEF ToolErrorResult
  <2> HIDE DEF result
  <2>2. /\ "isError" \in DOMAIN result /\ result.isError
        /\ "tools" \notin DOMAIN result /\ "protocolVersion" \notin DOMAIN result
    BY <2>1
  <2> QED BY <2>2, ResultUnderstood DEF result
<1> QED BY <1>1, <1>2

\* Session's view of a result: which variant it is, and whether it is an error.
LEMMA CalledVariant ==
  ASSUME NEW result, Called(result) \in CallResults
  PROVE  /\ Called(result).variant = result.variant
         /\ result.variant \in {"Ok", "Tool", "InvalidParams", "Internal"}
         /\ result.variant = "Ok" => /\ Called(result).isError = result.reply.is_error
                                     /\ result.reply.is_error \in BOOLEAN
<1>1. Called(result).variant \in {"Ok", "Tool", "InvalidParams", "Internal"}
      /\ Called(result).isError \in BOOLEAN
  <2>1. CASE \E e \in BOOLEAN, n \in BOOLEAN : Called(result) = Reply(e, n)
    BY <2>1 DEF Reply
  <2>2. CASE \E v \in {"Tool", "InvalidParams", "Internal"} : Called(result) = Failure(v)
    BY <2>2 DEF Failure
  <2> QED BY <2>1, <2>2 DEF CallResults
<1>2. CASE result.variant = "Ok"
  <2>1. Called(result) = Reply(result.reply.is_error, result.reply.tools_list_changed)
    BY <1>2 DEF Called
  <2>2. Called(result).variant = "Ok" /\ Called(result).isError = result.reply.is_error
    BY <2>1 DEF Reply
  <2> QED BY <1>1, <1>2, <2>2
<1>3. CASE result.variant # "Ok"
  <2>1. Called(result) = Failure(result.variant)
    BY <1>3 DEF Called
  <2>2. Called(result).variant = result.variant
    BY <2>1 DEF Failure
  <2> QED BY <1>1, <1>3, <2>2
<1> QED BY <1>2, <1>3

\* A response under an error's name says that error.
LEMMA ErrorResponded ==
  ASSUME NEW reply, NEW m, NEW config, NEW toolbox, NEW result,
         NEW w \in DOMAIN code, reply.what = w, m.method # "initialize"
  PROVE  Understood(Response(reply, m, config, toolbox, result)) = [id |-> reply.id, what |-> w]
<1>1. \E message : Response(reply, m, config, toolbox, result)
                     = ErrorResponse(reply.id, code[w], message)
  BY DEF Response, code
<1> QED BY <1>1, ErrorUnderstood

\* The peer reads off a response what Session had decided to answer
\* (handle_message, and the JSON route and finish make of it).
LEMMA ResponseUnderstood ==
  ASSUME NEW m \in Messages, NEW i \in BOOLEAN, NEW result, Called(result) \in CallResults,
         NEW config, NEW toolbox, NEW reply, m.method # "initialized",
         reply.what = Outcome(m, i, Called(result))
  PROVE  Understood(Response(reply, m, config, toolbox, result))
           = [id |-> reply.id, what |-> reply.what]
<1> DEFINE json == Response(reply, m, config, toolbox, result)
           Goal == Understood(json) = [id |-> reply.id, what |-> reply.what]
<1>1. m.method \in Methods
  BY MessageFields
<1>2. DOMAIN code = {"PARSE_ERROR", "INVALID_REQUEST", "METHOD_NOT_FOUND", "INVALID_PARAMS",
                     "INTERNAL_ERROR", "NOT_INITIALIZED"}
  BY DEF code
<1>3. /\ result.variant \in {"Ok", "Tool", "InvalidParams", "Internal"}
      /\ Called(result).variant = result.variant
      /\ result.variant = "Ok" => Called(result).isError = result.reply.is_error
                                  /\ result.reply.is_error \in BOOLEAN
  BY CalledVariant
<1>4. ASSUME reply.what \in DOMAIN code, m.method # "initialize" PROVE Goal
  BY <1>4, ErrorResponded
<1>5. ASSUME m.method = "initialize" PROVE Goal
  <2>1. reply.what = Negotiated(m.version) /\ reply.what \notin Labels
    BY <1>5, VersionAnswered DEF Outcome
  <2>2. /\ reply.what \notin DOMAIN code
        /\ reply.what \notin {"tools", "done", "isError", "list_changed"}
    BY <1>2, <2>1 DEF Labels
  <2>3. json = SuccessResponse(reply.id, InitializeResult(config, reply.what))
    BY <1>5, <2>2 DEF Response
  <2> QED BY <2>3, InitializeUnderstood
<1>6. ASSUME m.method = "tools/call", i PROVE Goal
  <2>1. CASE result.variant = "Internal"
    <3>1. reply.what = "INTERNAL_ERROR"
      BY <1>3, <1>6, <2>1 DEF Outcome
    <3> QED BY <1>2, <1>4, <1>6, <3>1
  <2>2. CASE result.variant = "Ok"
    <3>1. reply.what = IF result.reply.is_error THEN "isError" ELSE "done"
      BY <1>3, <1>6, <2>2 DEF Outcome
    <3>2. json = SuccessResponse(reply.id, ResultJson(result.reply))
      BY <1>2, <1>6, <2>2, <3>1 DEF Response
    <3> QED BY <3>1, <3>2, ToolUnderstood
  <2>3. CASE result.variant \in {"Tool", "InvalidParams"}
    <3>1. reply.what = "isError"
      BY <1>3, <1>6, <2>3 DEF Outcome
    <3>2. json = SuccessResponse(reply.id, ToolErrorResult(result.message))
      BY <1>2, <1>6, <2>3, <3>1 DEF Response
    <3> QED BY <3>1, <3>2, ToolUnderstood
  <2> QED BY <1>3, <2>1, <2>2, <2>3
<1>7. ASSUME m.method = "tools/list", i PROVE Goal
  <2>1. reply.what = "tools"
    BY <1>7 DEF Outcome
  <2> DEFINE object == [tools |-> ToolsJson(toolbox)]
  <2>2. json = SuccessResponse(reply.id, object)
    BY <1>2, <1>7, <2>1 DEF Response
  <2>3. DOMAIN object = {"tools"}
    OBVIOUS
  <2> HIDE DEF object, json
  <2>4. Understood(SuccessResponse(reply.id, object)) = [id |-> reply.id, what |-> "tools"]
    BY <2>3, ResultUnderstood
  <2> QED BY <2>1, <2>2, <2>4
<1>8. ASSUME m.method \in {"ping", "shutdown"} PROVE Goal
  <2>1. reply.what = "result"
    BY <1>8 DEF Outcome
  <2> DEFINE object == [nothing |-> m.method]
  <2>2. json = SuccessResponse(reply.id, object)
    BY <1>2, <1>8, <2>1 DEF Response
  <2>3. DOMAIN object = {"nothing"}
    OBVIOUS
  <2> HIDE DEF object, json
  <2>4. Understood(SuccessResponse(reply.id, object)) = [id |-> reply.id, what |-> "result"]
    BY <2>3, ResultUnderstood
  <2> QED BY <2>1, <2>2, <2>4
<1>9. ASSUME \/ m.method \in {"unnamed call", "other", "missing", "array", "wrong version"}
             \/ m.method \in {"tools/list", "tools/call"} /\ ~i
      PROVE  Goal
  <2>1. reply.what \in DOMAIN code
    BY <1>2, <1>9 DEF Outcome
  <2> QED BY <1>4, <1>9, <2>1
<1> HIDE DEF Goal
<1>10. Goal
  BY <1>1, <1>5, <1>6, <1>7, <1>8, <1>9 DEF Methods
<1> QED BY <1>10 DEF Goal

\* The refusal, and the notification, are understood as what they are.
LEMMA OthersUnderstood ==
  ASSUME NEW m, NEW config, NEW toolbox, NEW result, m.method # "initialize"
  PROVE  /\ Understood(Refusal) = ParseError
         /\ Understood(Response(ListChanged, m, config, toolbox, result)) = ListChanged
<1>1. "PARSE_ERROR" \in DOMAIN code
  BY DEF code
<1>2. Understood(Refusal) = ParseError
  BY <1>1, ErrorUnderstood DEF Refusal, ParseError
<1>3. Response(ListChanged, m, config, toolbox, result) = Notification
  BY DEF Response, ListChanged, code
<1>4. "method" \in DOMAIN Notification
  BY DEF Notification
<1>5. Understood(Notification) = ListChanged
  BY <1>4 DEF Understood
<1> QED BY <1>2, <1>3, <1>5

-----------------------------------------------------------------------------
(* What the peer has heard *)

\* Two sequences are one if their elements are.
LEMMA EqualSeqs ==
  ASSUME NEW s, NEW t, IsSeq(s), IsSeq(t), Len(s) = Len(t),
         \A i \in 1 .. Len(s) : s[i] = t[i]
  PROVE  s = t
<1> DEFINE S == {s[i] : i \in DOMAIN s}  T == {t[i] : i \in DOMAIN t}  U == S \cup T
<1>1. s \in Seq(S) /\ t \in Seq(T)
  BY DEF IsSeq
<1> HIDE DEF S, T
<1>2. S \subseteq U /\ T \subseteq U
  OBVIOUS
<1> HIDE DEF U
<1>3. s \in Seq(U) /\ t \in Seq(U)
  BY <1>1, <1>2, SeqMonotonic
<1> QED BY <1>3, SeqEqual

\* One sequence after another.
LEMMA ConcatOfSeqs ==
  ASSUME NEW s, NEW t, IsSeq(s), IsSeq(t)
  PROVE  /\ IsSeq(s \o t) /\ Len(s \o t) = Len(s) + Len(t)
         /\ \A i \in 1 .. Len(s) : (s \o t)[i] = s[i]
         /\ \A i \in 1 .. Len(t) : (s \o t)[Len(s) + i] = t[i]
<1> DEFINE S == {s[i] : i \in DOMAIN s}  T == {t[i] : i \in DOMAIN t}  U == S \cup T
<1>1. s \in Seq(S) /\ t \in Seq(T)
  BY DEF IsSeq
<1> HIDE DEF S, T
<1>2. S \subseteq U /\ T \subseteq U
  OBVIOUS
<1> HIDE DEF U
<1>3. s \in Seq(U) /\ t \in Seq(U) /\ Len(s) \in Nat /\ Len(t) \in Nat
  BY <1>1, <1>2, SeqMonotonic, LenProperties
<1>4. /\ s \o t \in Seq(U) /\ Len(s \o t) = Len(s) + Len(t)
      /\ \A i \in 1 .. Len(s) + Len(t) :
           (s \o t)[i] = IF i <= Len(s) THEN s[i] ELSE t[i - Len(s)]
  BY <1>3, ConcatProperties
<1>5. IsSeq(s \o t)
  BY <1>4, SeqIsSeq
<1>6. \A i \in 1 .. Len(s) : (s \o t)[i] = s[i]
  BY <1>3, <1>4
<1>7. ASSUME NEW i \in 1 .. Len(t) PROVE (s \o t)[Len(s) + i] = t[i]
  <2>1. Len(s) + i \in 1 .. Len(s) + Len(t) /\ ~(Len(s) + i <= Len(s))
        /\ (Len(s) + i) - Len(s) = i
    BY <1>3
  <2> QED BY <1>4, <2>1
<1> QED BY <1>4, <1>5, <1>6, <1>7

\* The empty sequence, before and after.
LEMMA ConcatEmpty ==
  ASSUME NEW s, IsSeq(s)
  PROVE  s \o <<>> = s /\ <<>> \o s = s
<1> DEFINE S == {s[i] : i \in DOMAIN s}
<1>1. s \in Seq(S)
  BY DEF IsSeq
<1> HIDE DEF S
<1> QED BY <1>1, ConcatEmptySeq

\* A sequence of messages, understood.
Meaning(s) == [i \in DOMAIN s |-> Understood(s[i])]

\* It is as long.
LEMMA MeaningSeq ==
  ASSUME NEW s, IsSeq(s)
  PROVE  /\ IsSeq(Meaning(s)) /\ Len(Meaning(s)) = Len(s)
         /\ \A i \in 1 .. Len(s) : Meaning(s)[i] = Understood(s[i])
<1>1. DOMAIN s = 1 .. Len(s)
  BY LenOfSeq
<1>2. DOMAIN Meaning(s) = DOMAIN s /\ Meaning(s) = [i \in DOMAIN s |-> Meaning(s)[i]]
  BY DEF Meaning
<1>3. s \in Seq({s[i] : i \in DOMAIN s})
  BY DEF IsSeq
<1>4. IsSeq(Meaning(s)) /\ Len(Meaning(s)) = Len(s)
  BY <1>2, <1>3, MappedSeq
<1>5. \A i \in 1 .. Len(s) : Meaning(s)[i] = Understood(s[i])
  BY <1>1 DEF Meaning
<1> QED BY <1>4, <1>5

\* What is understood of two sequences is understood of each.
LEMMA MeaningConcat ==
  ASSUME NEW s, NEW t, IsSeq(s), IsSeq(t)
  PROVE  Meaning(s \o t) = Meaning(s) \o Meaning(t)
<1> DEFINE u == Meaning(s \o t)  v == Meaning(s) \o Meaning(t)
<1>1. Len(s) \in Nat /\ Len(t) \in Nat
  BY LenOfSeq
<1>2. /\ IsSeq(s \o t) /\ Len(s \o t) = Len(s) + Len(t)
      /\ \A i \in 1 .. Len(s) : (s \o t)[i] = s[i]
      /\ \A i \in 1 .. Len(t) : (s \o t)[Len(s) + i] = t[i]
  BY ConcatOfSeqs
<1>3. /\ IsSeq(u) /\ Len(u) = Len(s) + Len(t)
      /\ \A i \in 1 .. Len(s) + Len(t) : u[i] = Understood((s \o t)[i])
  BY <1>2, MeaningSeq
<1>4. /\ IsSeq(Meaning(s)) /\ Len(Meaning(s)) = Len(s)
      /\ IsSeq(Meaning(t)) /\ Len(Meaning(t)) = Len(t)
      /\ \A i \in 1 .. Len(s) : Meaning(s)[i] = Understood(s[i])
      /\ \A i \in 1 .. Len(t) : Meaning(t)[i] = Understood(t[i])
  BY MeaningSeq
<1>5. /\ IsSeq(v) /\ Len(v) = Len(s) + Len(t)
      /\ \A i \in 1 .. Len(s) : v[i] = Understood(s[i])
      /\ \A i \in 1 .. Len(t) : v[Len(s) + i] = Understood(t[i])
  BY <1>4, ConcatOfSeqs
<1> HIDE DEF u, v
<1>6. ASSUME NEW i \in 1 .. Len(s) + Len(t) PROVE u[i] = v[i]
  <2>1. CASE i \in 1 .. Len(s)
    BY <1>2, <1>3, <1>5, <2>1
  <2>2. CASE i \notin 1 .. Len(s)
    <3>1. i - Len(s) \in 1 .. Len(t) /\ Len(s) + (i - Len(s)) = i
      BY <1>1, <2>2
    <3>2. (s \o t)[i] = t[i - Len(s)] /\ v[i] = Understood(t[i - Len(s)])
      BY <1>2, <1>5, <3>1
    <3> QED BY <1>3, <3>2
  <2> QED BY <2>1, <2>2
<1>7. u = v
  BY <1>3, <1>5, <1>6, EqualSeqs
<1> QED BY <1>7 DEF u, v

\* Nothing is understood of nothing.
LEMMA MeaningOfFew ==
  /\ Meaning(<<>>) = <<>>
  /\ \A x : Meaning(<<x>>) = <<Understood(x)>>
<1>1. Meaning(<<>>) = <<>>
  <2>1. IsSeq(Meaning(<<>>)) /\ Len(Meaning(<<>>)) = 0
    BY EmptyIsSeq, MeaningSeq
  <2> QED BY <2>1, LenOfSeq
<1>2. ASSUME NEW x PROVE Meaning(<<x>>) = <<Understood(x)>>
  <2>1. IsSeq(<<x>>) /\ Len(<<x>>) = 1 /\ <<x>>[1] = x
    BY SingleIsSeq
  <2>2. IsSeq(Meaning(<<x>>)) /\ Len(Meaning(<<x>>)) = 1 /\ Meaning(<<x>>)[1] = Understood(x)
    BY <2>1, MeaningSeq
  <2>3. /\ IsSeq(<<Understood(x)>>) /\ Len(<<Understood(x)>>) = 1
        /\ <<Understood(x)>>[1] = Understood(x)
    BY SingleIsSeq
  <2> QED BY <2>2, <2>3, EqualSeqs
<1> QED BY <1>1, <1>2

\* What was said, in the framing the peer reads.
Spoken == IF Unsettled THEN <<>> ELSE Received \o outbox

\* What the peer hears is what it understands of that.
LEMMA HeardIsMeaning ==
  Heard = Meaning(Spoken) /\ Heard' = Meaning(Spoken')
BY DEF Heard, Spoken, Meaning

\* While the connection goes on, and its framing is known, every message written has
\* arrived.
LEMMA AllArrived ==
  ASSUME IInv, pc # "ended", ~Unsettled
  PROVE  /\ Received = [k \in 1 .. Len(out) \div 2 |-> out[2 * k].of]
         /\ IsSeq(Received) /\ Len(Received) = Len(out) \div 2
         /\ \A k \in 1 .. Len(out) \div 2 : Whole(k)
<1> DEFINE all == Len(out) \div 2
<1>1. Len(out) \in Nat /\ all \in Nat
  BY LenOfSeq, Halves DEF IInv, Typed
<1>2. \A k \in 1 .. all : Whole(k)
  BY DEF IInv, AllPaired, Paired
<1>3. all \in 0 .. Len(out) \div 2
  BY <1>1
<1>4. Received = [k \in 1 .. all |-> out[2 * k].of]
  BY <1>1, <1>2, <1>3, ReceivedIs
<1> HIDE DEF all
<1> DEFINE S == {out[2 * k].of : k \in 1 .. all}
<1>5. Received \in [1 .. all -> S]
  BY <1>4
<1> HIDE DEF S
<1>6. Received \in Seq(S)
  BY <1>1, <1>5
<1>7. Len(Received) = all
  BY <1>1, <1>4
<1> QED BY <1>2, <1>4, <1>6, <1>7, SeqIsSeq DEF all

\* Nothing arrives while nothing is written.
LEMMA ReceivedKept ==
  ASSUME UNCHANGED <<setup, out>>
  PROVE  Received' = Received
BY DEF Received, Arrived, Whole, OwnFraming

\* Of nothing written nothing arrives.
LEMMA NothingArrives ==
  ASSUME IInv, UNCHANGED <<setup, out>>, out = <<>>
  PROVE  Received' = <<>>
<1>1. Len(out) = 0
  BY LenOfSeq DEF IInv, Typed
<1>2. Len(out) \in Nat /\ 0 \in 0 .. Len(out) \div 2 /\ 0 = Len(out) \div 2 /\ 1 .. 0 = {}
  BY <1>1
<1>3. Received = [k \in 1 .. 0 |-> out[2 * k].of]
  BY <1>2, ReceivedIs
<1>4. Received = <<>>
  BY <1>3
<1> QED BY <1>4, ReceivedKept

\* What the peer heard it has heard, even if the framing is only settled now.
LEMMA HeardKept ==
  ASSUME IInv, UNCHANGED <<setup, out, outbox>>, ~Unsettled => ~Unsettled',
         framing' = framing \/ pc = "reading"
  PROVE  Heard' = Heard
<1>1. CASE Unsettled'
  BY <1>1, HeardIsMeaning DEF Spoken
<1>2. CASE ~Unsettled
  BY <1>2, ReceivedKept, HeardIsMeaning DEF Spoken
<1>3. CASE Unsettled /\ ~Unsettled'
  <2>1. pc = "reading"
    BY <1>3 DEF Unsettled
  <2>2. out = <<>> /\ outbox = <<>>
    BY <1>3, <2>1, NothingHalf DEF IInv, Unheard
  <2>3. Received' \o outbox' = <<>>
    BY <2>2, NothingArrives, EmptyIsSeq, ConcatEmpty
  <2>4. Spoken' = <<>> /\ Spoken = <<>>
    BY <1>3, <2>3 DEF Spoken
  <2> QED BY <2>4, HeardIsMeaning
<1> QED BY <1>1, <1>2, <1>3

\* What is to be written is heard after what was.
LEMMA HeardMore ==
  ASSUME IInv, pc \in {"reading", "calling", "stopping"},
         UNCHANGED <<setup, out>>, ~Unsettled', IsSeq(outbox')
  PROVE  Heard' = Heard \o Meaning(outbox')
<1>1. outbox = <<>>
  BY NothingHalf
<1>2. Spoken' = Received' \o outbox'
  BY DEF Spoken
<1>3. IsSeq(Received') /\ Spoken = Received'
  <2>1. CASE ~Unsettled
    <3>1. IsSeq(Received)
      BY <2>1, AllArrived
    <3>2. Spoken = Received
      BY <1>1, <2>1, <3>1, ConcatEmpty DEF Spoken
    <3> QED BY <3>1, <3>2, ReceivedKept
  <2>2. CASE Unsettled
    <3>1. out = <<>>
      BY <2>2 DEF IInv, Unheard
    <3> QED BY <2>2, <3>1, NothingArrives, EmptyIsSeq DEF Spoken
  <2> QED BY <2>1, <2>2
<1>4. Meaning(Received' \o outbox') = Meaning(Received') \o Meaning(outbox')
  BY <1>3, MeaningConcat
<1> QED BY <1>2, <1>3, <1>4, HeardIsMeaning

\* The first of what is left moved to the end of what was done.
LEMMA MoveFirst ==
  ASSUME NEW s, NEW t, IsSeq(s), IsSeq(t), t # <<>>
  PROVE  Append(s, Head(t)) \o Tail(t) = s \o t
<1> DEFINE S == {s[i] : i \in DOMAIN s}  T == {t[i] : i \in DOMAIN t}  U == S \cup T
           h == Head(t)  rest == Tail(t)
<1>1. s \in Seq(S) /\ t \in Seq(T)
  BY DEF IsSeq
<1> HIDE DEF S, T
<1>2. S \subseteq U /\ T \subseteq U
  OBVIOUS
<1> HIDE DEF U
<1>3. s \in Seq(U) /\ t \in Seq(U)
  BY <1>1, <1>2, SeqMonotonic
<1>4. h \in U /\ rest \in Seq(U) /\ Len(rest) = Len(t) - 1 /\ Len(t) \in Nat \ {0}
      /\ h = t[1] /\ \A i \in 1 .. Len(rest) : rest[i] = t[i + 1]
  BY <1>3, HeadTailProperties, EmptySeq
<1> HIDE DEF h, rest
<1>5. <<h>> \in Seq(U) /\ Len(<<h>>) = 1 /\ <<h>>[1] = h
  BY <1>4
<1>6. /\ <<h>> \o rest \in Seq(U) /\ Len(<<h>> \o rest) = 1 + Len(rest)
      /\ \A i \in 1 .. 1 + Len(rest) :
           (<<h>> \o rest)[i] = IF i <= 1 THEN <<h>>[i] ELSE rest[i - 1]
  BY <1>4, <1>5, ConcatProperties
<1> DEFINE u == <<h>> \o rest
<1> HIDE DEF u
<1>7. u \in Seq(U) /\ Len(u) = Len(t)
  BY <1>4, <1>6 DEF u
<1>8. ASSUME NEW i \in 1 .. Len(u) PROVE u[i] = t[i]
  <2>1. i \in 1 .. 1 + Len(rest)
    BY <1>4, <1>7
  <2>2. u[i] = IF i <= 1 THEN <<h>>[i] ELSE rest[i - 1]
    BY <1>6, <2>1 DEF u
  <2>3. CASE i = 1
    BY <1>4, <1>5, <2>2, <2>3
  <2>4. CASE i # 1
    <3>1. i - 1 \in 1 .. Len(rest) /\ (i - 1) + 1 = i /\ ~(i <= 1)
      BY <1>4, <2>1, <2>4
    <3> QED BY <1>4, <2>2, <3>1
  <2> QED BY <2>3, <2>4
<1>9. u = t
  BY <1>3, <1>7, <1>8, SeqEqual
<1>10. Append(s, h) = s \o <<h>>
  BY <1>3, <1>4, AppendIsConcat
<1>11. (s \o <<h>>) \o rest = s \o u
  BY <1>3, <1>4, <1>5, ConcatAssociative DEF u
<1> QED BY <1>9, <1>10, <1>11 DEF h, rest

\* The second write of a message is its arrival, the first is nothing yet.
LEMMA HeardWhileWritten ==
  ASSUME IInv, Write
  PROVE  Heard' = Heard
<1> DEFINE n == Len(out)  all == n \div 2
<1>1. /\ pc \in {"writing", "refusing"} /\ out' = Append(out, NextPiece)
      /\ UNCHANGED <<setup, framing>> /\ IInv' /\ IsSeq(outbox) /\ outbox # <<>>
  BY WriteKeepsIInv DEF Write, peer, IInv, Typed, TypeOK
<1>2. Unsettled' = Unsettled
  BY <1>1 DEF Unsettled
<1> HIDE DEF n
<1>3. CASE Unsettled
  BY <1>2, <1>3, HeardIsMeaning DEF Spoken
<1>4. CASE ~Unsettled
  <2>1. /\ Received = [k \in 1 .. all |-> out[2 * k].of]
        /\ IsSeq(Received) /\ Len(Received) = all
    BY <1>1, <1>4, AllArrived DEF n
  <2>2. /\ IsSeq(out') /\ Len(out') = n + 1 /\ n \in Nat
        /\ \A i \in 1 .. n : out'[i] = out[i]
        /\ out'[n + 1] = NextPiece
    BY <1>1, OldPairsKept DEF n
  <2>3. /\ n % 2 \in {0, 1} /\ all \in Nat
        /\ \A k \in 1 .. all : 2 * k - 1 \in 1 .. n /\ 2 * k \in 1 .. n
    BY <2>2, Halves
  <2>4. \A k \in 1 .. Len(out') \div 2 : Whole(k)'
    <3> SUFFICES ASSUME NEW k \in 1 .. Len(out') \div 2 PROVE Whole(k)'
      OBVIOUS
    <3>1. Paired(k)'
      BY <1>1 DEF IInv, AllPaired
    <3>2. ASSUME out'[2 * k].part = "torn", 2 * k = Len(out') PROVE FALSE
      <4>1. n % 2 = 1
        BY <2>2, <2>3, <3>2
      <4>2. NextPiece = Pieces(Head(outbox))[2]
        BY <4>1 DEF NextPiece, n
      <4>3. NextPiece.part # "torn"
        BY <1>1, <4>2, PiecesOf DEF IInv, Typed
      <4> QED BY <2>2, <3>2, <4>3
    <3> QED BY <1>2, <1>4, <3>1, <3>2 DEF Paired
  <2>5. Len(out') \div 2 \in Nat /\ Len(out') \in Nat
    BY <2>2, Halves
  <2>6. Received' = [k \in 1 .. Len(out') \div 2 |-> out'[2 * k].of]
    <3>1. Len(out') \div 2 \in 0 .. Len(out') \div 2
      BY <2>5
    <3> QED BY <2>4, <2>5, <3>1, ReceivedIsNext
  <2>7. CASE n % 2 = 0
    <3>1. Len(out') \div 2 = all /\ Len(out') % 2 = 1
      <4>1. Len(out') = n + 1 /\ n \in Nat
        BY <2>2
      <4>2. (n + 1) % 2 = 1 /\ (n + 1) \div 2 = n \div 2
        BY <2>7, <4>1, Halves
      <4> QED BY <4>1, <4>2
    <3>2. outbox' = outbox
      BY <3>1 DEF Write
    <3>3. Received' = Received
      <4> HIDE DEF all
      <4>1. \A k \in 1 .. all : out'[2 * k].of = out[2 * k].of
        BY <2>2, <2>3
      <4> QED BY <2>1, <2>6, <3>1, <4>1
    <3> QED BY <1>2, <3>2, <3>3, HeardIsMeaning DEF Spoken
  <2>8. CASE n % 2 = 1
    <3> DEFINE last == Len(out') \div 2
    <3>1. /\ Len(out') % 2 = 0 /\ 2 * last = n + 1 /\ last = all + 1
          /\ \A k \in 1 .. last : k \in 1 .. all \/ k = last
      BY <2>2, <2>8, Halves
    <3>2. outbox' = Tail(outbox)
      BY <3>1 DEF Write
    <3>3. out'[n + 1].of = Head(outbox)
      <4>1. NextPiece = Pieces(Head(outbox))[2]
        BY <2>8 DEF NextPiece, n
      <4> QED BY <2>2, <4>1, PiecesOf DEF IInv, Typed
    <3>4. Received' = [k \in 1 .. last |-> out'[2 * k].of]
      BY <2>6
    <3> HIDE DEF last, all
    <3>5. Received' = Append(Received, Head(outbox))
      <4> DEFINE h == Head(outbox)
      <4> HIDE DEF h
      <4>1. /\ IsSeq(Append(Received, h)) /\ Len(Append(Received, h)) = all + 1
            /\ \A k \in 1 .. all : Append(Received, h)[k] = Received[k]
            /\ Append(Received, h)[all + 1] = h
        <5>1. IsSeq(Received) /\ Len(Received) = all
          BY <2>1
        <5> QED BY <5>1, AppendToSeq
      <4>2. last \in Nat /\ Len(Received') = last
        BY <2>3, <3>1, <3>4
      <4>3. \A k \in 1 .. last : Received'[k] = Append(Received, h)[k]
        <5>1. Received'[last] = h
          BY <2>3, <3>1, <3>3, <3>4 DEF h
        <5>2. \A k \in 1 .. all : Received'[k] = Received[k]
          BY <2>1, <2>2, <2>3, <3>1, <3>4
        <5> QED BY <3>1, <4>1, <5>1, <5>2
      <4>4. IsSeq(Received')
        <5> DEFINE S == {out'[2 * k].of : k \in 1 .. last}
        <5>1. Received' \in [1 .. last -> S]
          BY <3>4
        <5> HIDE DEF S
        <5>2. Received' \in Seq(S)
          BY <4>2, <5>1
        <5> QED BY <5>2, SeqIsSeq
      <4>5. Received' = Append(Received, h)
        BY <3>1, <4>1, <4>2, <4>3, <4>4, EqualSeqs
      <4> QED BY <4>5 DEF h
    <3>6. Received' \o outbox' = Received \o outbox
      BY <1>1, <2>1, <3>2, <3>5, MoveFirst
    <3> QED BY <1>2, <3>6, HeardIsMeaning DEF Spoken
  <2> QED BY <2>3, <2>7, <2>8
<1> QED BY <1>3, <1>4

\* The start of a sequence that goes on.
LEMMA StartOfConcat ==
  ASSUME NEW s, NEW t, IsSeq(s), IsSeq(t)
  PROVE  Len(s) \in 0 .. Len(s \o t) /\ SubSeq(s \o t, 1, Len(s)) = s
<1> DEFINE u == s \o t  S == {u[i] : i \in DOMAIN u}  start == SubSeq(u, 1, Len(s))
<1>1. Len(s) \in Nat /\ Len(t) \in Nat
  BY LenOfSeq
<1>2. IsSeq(u) /\ Len(u) = Len(s) + Len(t) /\ \A i \in 1 .. Len(s) : u[i] = s[i]
  BY ConcatOfSeqs
<1>3. \A i \in 1 .. Len(s) : u[i] \in S
  <2>1. DOMAIN u = 1 .. Len(u)
    BY <1>2, LenOfSeq
  <2> HIDE DEF u
  <2> QED BY <1>1, <1>2, <2>1
<1> HIDE DEF u, S
<1>4. /\ start \in Seq(S) /\ Len(start) = Len(s)
      /\ \A i \in 1 .. Len(s) : start[i] = u[i]
  BY <1>1, <1>3, SubSeqProperties
<1>5. start = s
  <2>1. IsSeq(start)
    BY <1>4, SeqIsSeq
  <2> HIDE DEF start
  <2> QED BY <1>2, <1>4, <2>1, EqualSeqs
<1> QED BY <1>1, <1>2, <1>5 DEF u

\* What is cut short does not arrive, and takes nothing away that did.
LEMMA TornIsNotHeard ==
  ASSUME IInv, WriteFails, ~Unsettled
  PROVE  Received' = Received
<1> DEFINE n == Len(out)  torn == Piece("torn", Head(outbox))
<1>1. /\ pc \in {"writing", "refusing"} /\ UNCHANGED <<setup, framing>>
      /\ out' = out \/ out' = Append(out, torn)
  BY DEF WriteFails, peer
<1>2. CASE out' = out
  BY <1>1, <1>2, ReceivedKept
<1>3. CASE out' = Append(out, torn)
  <2>1. torn.part = "torn"
    BY DEF Piece
  <2> HIDE DEF n, torn
  <2>2. PICK all \in Nat : all = n \div 2
    BY LenOfSeq, Halves DEF n, IInv, Typed
  <2>3. /\ Received = [k \in 1 .. all |-> out[2 * k].of]
        /\ \A k \in 1 .. all : Whole(k)
    BY <1>1, <2>2, AllArrived DEF n
  <2>4. /\ Len(out') = n + 1 /\ n \in Nat
        /\ \A i \in 1 .. n : out'[i] = out[i]
        /\ out'[n + 1] = torn
    BY <1>1, <1>3, OldPairsKept DEF n
  <2>5. /\ n % 2 \in {0, 1}
        /\ \A k \in 1 .. all : 2 * k - 1 \in 1 .. n /\ 2 * k \in 1 .. n
    BY <2>2, <2>4, Halves
  <2>6. \A k \in 1 .. all : Whole(k)'
    <3> SUFFICES ASSUME NEW k \in 1 .. all PROVE Whole(k)'
      OBVIOUS
    <3>1. out'[2 * k - 1] = out[2 * k - 1] /\ out'[2 * k] = out[2 * k]
      BY <2>4, <2>5
    <3> QED BY <1>1, <2>3, <3>1 DEF Whole, OwnFraming
  <2>7. all \in 0 .. Len(out') \div 2 /\ (all = Len(out') \div 2 \/ ~(Whole(all + 1)'))
    <3>1. CASE n % 2 = 0
      <4>1. (n + 1) \div 2 = n \div 2
        BY <2>4, <3>1, Halves
      <4> QED BY <2>2, <2>4, <4>1
    <3>2. CASE n % 2 = 1
      <4>1. 2 * ((n + 1) \div 2) = n + 1 /\ (n + 1) \div 2 = all + 1
        BY <2>2, <2>4, <3>2, Halves
      <4>2. out'[2 * (all + 1)] = torn
        BY <2>4, <4>1
      <4>3. ~(Whole(all + 1)')
        <5>1. OwnFraming'[2] # "torn"
          BY DEF OwnFraming
        <5>2. out'[2 * (all + 1)].part = "torn"
          BY <2>1, <4>2
        <5>3. Whole(all + 1)' => OwnFraming'[2] = out'[2 * (all + 1)].part
          BY DEF Whole
        <5> QED BY <5>1, <5>2, <5>3
      <4> QED BY <2>4, <2>5, <4>1, <4>3
    <3> QED BY <2>5, <3>1, <3>2
  <2>8. Len(out') \in Nat
    BY <2>4
  <2>9. Received' = [k \in 1 .. all |-> out'[2 * k].of]
    BY <2>6, <2>7, <2>8, ReceivedIsNext
  <2>10. \A k \in 1 .. all : out'[2 * k].of = out[2 * k].of
    BY <2>4, <2>5
  <2> QED BY <2>3, <2>9, <2>10
<1> QED BY <1>1, <1>2, <1>3

\* A write that fails loses what was to be written, the last first.
LEMMA HeardWhenFailed ==
  ASSUME IInv, WriteFails
  PROVE  \E k \in 0 .. Len(Heard) : Heard' = SubSeq(Heard, 1, k)
<1>1. /\ pc \in {"writing", "refusing"} /\ UNCHANGED <<setup, framing>> /\ outbox' = <<>>
  BY DEF WriteFails, peer
<1>2. Unsettled' = Unsettled
  BY <1>1 DEF Unsettled
<1>3. CASE Unsettled
  <2>1. Heard = <<>> /\ Heard' = <<>>
    BY <1>2, <1>3, HeardIsMeaning, MeaningOfFew DEF Spoken
  <2>2. SubSeq(<<>>, 1, 0) = <<>> /\ 0 \in 0 .. Len(<<>>)
    BY SubSeqEmpty
  <2> QED BY <2>1, <2>2
<1>4. CASE ~Unsettled
  <2>1. IsSeq(Received) /\ IsSeq(outbox)
    BY <1>1, <1>4, AllArrived DEF IInv, Typed
  <2>2. Received' = Received
    BY <1>4, TornIsNotHeard
  <2>3. Received \o <<>> = Received
    BY <2>1, ConcatEmpty
  <2>4. Heard' = Meaning(Received)
    BY <1>1, <1>2, <1>4, <2>2, <2>3, HeardIsMeaning DEF Spoken
  <2>5. Heard = Meaning(Received) \o Meaning(outbox)
    BY <1>4, <2>1, MeaningConcat, HeardIsMeaning DEF Spoken
  <2>6. IsSeq(Meaning(Received)) /\ IsSeq(Meaning(outbox))
    BY <2>1, MeaningSeq
  <2>7. /\ Len(Meaning(Received)) \in 0 .. Len(Heard)
        /\ SubSeq(Heard, 1, Len(Meaning(Received))) = Heard'
    BY <2>4, <2>5, <2>6, StartOfConcat
  <2> QED BY <2>7
<1> QED BY <1>3, <1>4

-----------------------------------------------------------------------------
(* The refinement of Conversation *)

\* The one connection there is.
LEMMA PipeAt ==
  ASSUME NEW x, NEW y
  PROVE  /\ "pipe" \in Pipe /\ Pipe \ {"pipe"} = {}
         /\ [c \in Pipe |-> x]["pipe"] = x
         /\ [c \in Pipe |-> y] = [[c \in Pipe |-> x] EXCEPT !["pipe"] = y]
BY DEF Pipe

\* It is over once it is being refused, or has ended.
Over == [c \in Pipe |-> pc \in {"refusing", "ended"}]

\* Whether it is over, before a step and after.
LEMMA OverAt ==
  /\ Over["pipe"] <=> pc \in {"refusing", "ended"}
  /\ (pc' \in {"refusing", "ended"} <=> pc \in {"refusing", "ended"}) => Over' = Over
  /\ pc' \in {"refusing", "ended"} => Over' = [Over EXCEPT !["pipe"] = TRUE]
<1>1. Over["pipe"] <=> pc \in {"refusing", "ended"}
  BY DEF Over, Pipe
<1>2. ASSUME pc' \in {"refusing", "ended"} <=> pc \in {"refusing", "ended"}
      PROVE  Over' = Over
  BY <1>2 DEF Over
<1>3. ASSUME pc' \in {"refusing", "ended"}
      PROVE  Over' = [Over EXCEPT !["pipe"] = TRUE]
  <2>1. \A c \in Pipe : Over'[c] = TRUE
    BY <1>3 DEF Over
  <2>2. Over' = [c \in Pipe |-> TRUE]
    BY <2>1 DEF Over
  <2>3. [Over EXCEPT !["pipe"] = TRUE] = [c \in Pipe |-> TRUE]
    BY DEF Over, Pipe
  <2> QED BY <2>2, <2>3
<1> QED BY <1>1, <1>2, <1>3

\* The Session of the conversation is the one of the connection.
LEMMA SameFrames ==
  /\ Abstract!Messages = Messages /\ Abstract!CallResults = CallResults
  /\ Abstract!ParseError = ParseError
  /\ \A k, f : (Abstract!Skipped(k, f) <=> Skipped(k, f))
               /\ (Abstract!Garbled(k, f) <=> Garbled(k, f))
<1>1. Abstract!Messages = Messages
  BY DEF Abstract!Messages, Messages, Abstract!Message, Message, Abstract!Methods, Methods,
         Abstract!Versions, Versions, Abstract!NoVersion, NoVersion
<1>2. Abstract!CallResults = CallResults
  BY DEF Abstract!CallResults, CallResults, Abstract!Reply, Reply, Abstract!Failure, Failure
<1>3. Abstract!ParseError = ParseError
  BY DEF Abstract!ParseError, ParseError, Abstract!NullId, NullId
<1>4. ASSUME NEW k, NEW f
      PROVE  /\ Abstract!Skipped(k, f) <=> Skipped(k, f)
             /\ Abstract!Garbled(k, f) <=> Garbled(k, f)
  BY DEF Abstract!Skipped, Skipped, Abstract!Garbled, Garbled
<1> QED BY <1>1, <1>2, <1>3, <1>4

\* So are the replies and the handshake of that Session.
LEMMA SameReplies ==
  ASSUME NEW m, NEW id, NEW i, NEW called
  PROVE  /\ Abstract!Replies(m, id, i, called) = Replies(m, id, i, called)
         /\ Abstract!InitializedAfter(m, i) = InitializedAfter(m, i)
<1>1. Abstract!Latest = Latest /\ Abstract!Versions = Versions
  BY DEF Abstract!Latest, Latest, Abstract!Versions, Versions
<1>2. Abstract!Negotiated(m.version) = Negotiated(m.version)
  BY <1>1 DEF Abstract!Negotiated, Negotiated
<1>3. Abstract!Outcome(m, i, called) = Outcome(m, i, called)
  BY <1>2 DEF Abstract!Outcome, Outcome
<1>4. \A o : Abstract!Responses(m, id, o) = Responses(m, id, o)
  BY DEF Abstract!Responses, Responses, Abstract!NullId, NullId
<1>5. Abstract!Notifications(m, i, called) = Notifications(m, i, called)
  BY DEF Abstract!Notifications, Notifications, Abstract!AwaitsCall, AwaitsCall,
         Abstract!ListChanged, ListChanged, Abstract!NoId, NoId
<1>6. Abstract!Replies(m, id, i, called) = Replies(m, id, i, called)
  BY <1>3, <1>4, <1>5 DEF Abstract!Replies, Replies
<1>7. Abstract!InitializedAfter(m, i) = InitializedAfter(m, i)
  BY DEF Abstract!InitializedAfter, InitializedAfter
<1> QED BY <1>6, <1>7

\* The frame is handled: passed over, answered as no message, or as Session does.
LEMMA HandleAbstract ==
  ASSUME pc \notin {"refusing", "ended"}, pc' \notin {"refusing", "ended"},
         handled < Len(sent), UNCHANGED <<sent, broken>>, handled' = handled + 1,
         NEW f, f = sent[handled + 1],
         \/ /\ Skipped("framed", f)
            /\ Heard' = Heard /\ initialized' = initialized
         \/ /\ Garbled("framed", f)
            /\ Heard' = Append(Heard, ParseError) /\ initialized' = initialized
         \/ /\ f \in Messages
            /\ \E called \in CallResults :
                 Heard' = Heard \o Replies(f, handled + 1, initialized, called)
            /\ initialized' = InitializedAfter(f, initialized)
  PROVE  Abstract!Handle("pipe")
<1> DEFINE c      == "pipe"
           Sent   == [d \in Pipe |-> sent]
           Count  == [d \in Pipe |-> handled]
           Opened == [d \in Pipe |-> initialized]
           Said   == [d \in Pipe |-> Heard]
           Gone   == [d \in Pipe |-> broken]
           kind   == [d \in Pipe |-> "framed"]
           m      == Sent[c][Count[c] + 1]
           Skip   == Abstract!Skipped(kind[c], m) /\ UNCHANGED <<Opened, Said>>
           Garble == /\ Abstract!Garbled(kind[c], m)
                     /\ Said' = [Said EXCEPT ![c] = Append(@, Abstract!ParseError)]
                     /\ UNCHANGED Opened
           Answer == /\ m \in Abstract!Messages
                     /\ \E called \in Abstract!CallResults :
                          Said' = [Said EXCEPT ![c] =
                                     @ \o Abstract!Replies(m, Count[c] + 1, Opened[c], called)]
                     /\ Opened' = [Opened EXCEPT ![c] = Abstract!InitializedAfter(m, @)]
<1>1. /\ ~Over[c] /\ Count[c] < Len(Sent[c])
      /\ Count' = [Count EXCEPT ![c] = Count[c] + 1]
      /\ Skip \/ Garble \/ Answer
      /\ UNCHANGED <<Sent, Gone, Over>>
      => Abstract!Handle(c)
  BY DEF Abstract!Handle, Over
<1>2. ~Over[c] /\ Over' = Over
  BY OverAt
<1>3. /\ Sent[c] = sent /\ Count[c] = handled /\ Opened[c] = initialized /\ Said[c] = Heard
      /\ kind[c] = "framed" /\ m = f
  BY PipeAt
<1>4. /\ Count' = [Count EXCEPT ![c] = handled']
      /\ Said' = [Said EXCEPT ![c] = Heard']
      /\ Opened' = [Opened EXCEPT ![c] = initialized']
  BY PipeAt
<1>5. UNCHANGED <<Sent, Gone>> /\ (initialized' = initialized => UNCHANGED Opened)
      /\ (Heard' = Heard => UNCHANGED Said)
  OBVIOUS
<1> HIDE DEF c, Sent, Count, Opened, Said, Gone, kind, m
<1>6. Skip \/ Garble \/ Answer
  <2>1. CASE Skipped("framed", f) /\ Heard' = Heard /\ initialized' = initialized
    BY <1>3, <1>5, <2>1, SameFrames
  <2>2. CASE /\ Garbled("framed", f)
             /\ Heard' = Append(Heard, ParseError) /\ initialized' = initialized
    BY <1>3, <1>4, <1>5, <2>2, SameFrames
  <2>3. CASE /\ f \in Messages
             /\ \E called \in CallResults :
                  Heard' = Heard \o Replies(f, handled + 1, initialized, called)
             /\ initialized' = InitializedAfter(f, initialized)
    <3>1. PICK called \in CallResults :
            Heard' = Heard \o Abstract!Replies(f, handled + 1, initialized, called)
      BY <2>3, SameReplies
    <3>2. initialized' = Abstract!InitializedAfter(f, initialized)
      BY <2>3, SameReplies
    <3>3. Opened' = [Opened EXCEPT ![c] = Abstract!InitializedAfter(m, Opened[c])]
      BY <1>3, <1>4, <3>2
    <3>4. Said' = [Said EXCEPT ![c] =
                     Said[c] \o Abstract!Replies(m, Count[c] + 1, Opened[c], called)]
      BY <1>3, <1>4, <3>1
    <3>5. m \in Abstract!Messages /\ called \in Abstract!CallResults
      BY <1>3, <2>3, SameFrames
    <3>6. Answer
      BY <3>3, <3>4, <3>5
    <3> QED BY <3>6
  <2> QED BY <2>1, <2>2, <2>3
<1>7. Count[c] < Len(Sent[c]) /\ Count' = [Count EXCEPT ![c] = Count[c] + 1]
  BY <1>3, <1>4
<1>8. Abstract!Handle(c)
  BY <1>1, <1>2, <1>5, <1>6, <1>7
<1> QED BY <1>8 DEF c

\* The frame is refused: the peer hears of it, or cannot.
LEMMA RejectAbstract ==
  ASSUME pc \notin {"refusing", "ended"}, pc' \in {"refusing", "ended"},
         handled < Len(sent), sent[handled + 1].method = "bad frame",
         UNCHANGED <<sent, initialized, broken>>, handled' = handled + 1,
         Heard' = Heard \/ Heard' = Append(Heard, ParseError)
  PROVE  Abstract!Reject("pipe")
<1> DEFINE c      == "pipe"
           Sent   == [d \in Pipe |-> sent]
           Count  == [d \in Pipe |-> handled]
           Opened == [d \in Pipe |-> initialized]
           Said   == [d \in Pipe |-> Heard]
           Gone   == [d \in Pipe |-> broken]
<1>1. /\ ~Over[c] /\ Count[c] < Len(Sent[c])
      /\ Sent[c][Count[c] + 1].method = "bad frame"
      /\ Count' = [Count EXCEPT ![c] = @ + 1]
      /\ \/ Said' = [Said EXCEPT ![c] = Append(@, Abstract!ParseError)]
         \/ UNCHANGED Said
      /\ Over' = [Over EXCEPT ![c] = TRUE]
      /\ UNCHANGED <<Sent, Opened, Gone>>
      => Abstract!Reject(c)
  BY DEF Abstract!Reject, Over
<1>2. ~Over[c] /\ Over' = [Over EXCEPT ![c] = TRUE]
  BY OverAt
<1>3. Sent[c] = sent /\ Count[c] = handled /\ Said[c] = Heard
  BY PipeAt
<1>4. Count' = [Count EXCEPT ![c] = handled'] /\ Said' = [Said EXCEPT ![c] = Heard']
  BY PipeAt
<1>5. UNCHANGED <<Sent, Opened, Gone>> /\ (Heard' = Heard => UNCHANGED Said)
  OBVIOUS
<1> HIDE DEF c, Sent, Count, Opened, Said, Gone
<1>6. \/ Said' = [Said EXCEPT ![c] = Append(Said[c], Abstract!ParseError)]
      \/ UNCHANGED Said
  BY <1>3, <1>4, <1>5, SameFrames
<1>7. Abstract!Reject(c)
  BY <1>1, <1>2, <1>3, <1>4, <1>5, <1>6
<1> QED BY <1>7 DEF c

\* The connection ends, and nothing else happens.
LEMMA EndAbstract ==
  ASSUME pc' \in {"refusing", "ended"}, UNCHANGED <<sent, handled, initialized, broken>>,
         Heard' = Heard
  PROVE  Abstract!End("pipe")
<1>1. Over' = [Over EXCEPT !["pipe"] = TRUE]
  BY OverAt
<1> HIDE DEF Heard
<1> QED BY <1>1 DEF Abstract!End, Over

\* Nothing happens that the conversation knows of.
LEMMA StutterAbstract ==
  ASSUME UNCHANGED <<sent, handled, initialized, broken>>, Heard' = Heard,
         pc' \in {"refusing", "ended"} <=> pc \in {"refusing", "ended"}
  PROVE  UNCHANGED Abstract!vars
<1>1. Over' = Over
  BY OverAt
<1> HIDE DEF Heard
<1> QED BY <1>1 DEF Abstract!vars, Over

\* Replies are lost.
LEMMA LoseAbstract ==
  ASSUME broken, pc' \in {"refusing", "ended"},
         UNCHANGED <<sent, handled, initialized, broken>>,
         NEW k \in 0 .. Len(Heard), Heard' = SubSeq(Heard, 1, k)
  PROVE  Abstract!Lose("pipe")
<1> DEFINE Said == [d \in Pipe |-> Heard]
           Gone == [d \in Pipe |-> broken]
<1>1. /\ Gone["pipe"]
      /\ \E n \in 0 .. Len(Said["pipe"]) :
           Said' = [Said EXCEPT !["pipe"] = SubSeq(@, 1, n)]
      /\ \A d \in Pipe : Over[d] => Over'[d]
      /\ \A d \in Pipe \ {"pipe"} : Over'[d] = Over[d]
      /\ UNCHANGED <<[d \in Pipe |-> sent], [d \in Pipe |-> handled],
                     [d \in Pipe |-> initialized], Gone>>
      => Abstract!Lose("pipe")
  BY DEF Abstract!Lose, Over
<1>2. Said["pipe"] = Heard /\ Said' = [Said EXCEPT !["pipe"] = Heard']
  BY PipeAt
<1>3. UNCHANGED <<[d \in Pipe |-> sent], [d \in Pipe |-> handled],
                  [d \in Pipe |-> initialized], Gone>>
  OBVIOUS
<1>4. Gone["pipe"]
  BY DEF Pipe
<1>5. /\ \A d \in Pipe : Over[d] => Over'[d]
      /\ \A d \in Pipe \ {"pipe"} : Over'[d] = Over[d]
  BY DEF Over, Pipe
<1> HIDE DEF Said, Gone, Heard
<1>6. \E n \in 0 .. Len(Said["pipe"]) :
        Said' = [Said EXCEPT !["pipe"] = SubSeq(Said["pipe"], 1, n)]
  BY <1>2
<1> QED BY <1>1, <1>3, <1>4, <1>5, <1>6

\* The peer reads off what is written what Session replied.
LEMMA RepliesUnderstood ==
  ASSUME Typed, NEW m \in Messages, NEW result, Called(result) \in CallResults,
         Dispatched(m, result)
  PROVE  Meaning(outbox') = Replies(m, handled + 1, initialized, Called(result))
<1> DEFINE called   == Called(result)
           R        == Replies(m, handled + 1, initialized, called)
           response == [id |-> IF m.method = "array" THEN NullId ELSE handled + 1,
                        what |-> Outcome(m, initialized, called)]
           answered == m.method = "array" \/ (m.hasId /\ m.method # "initialized")
           notified == AwaitsCall(m, initialized) /\ called.variant = "Ok" /\ called.changed
           json(r)  == Response(r, m, setup.config, tools, result)
<1>1. initialized \in BOOLEAN /\ IsSeq(outbox')
  BY DispatchedWrites DEF Typed, TypeOK
<1>2. outbox' = [i \in DOMAIN R |-> json(R[i])]
  BY DEF Dispatched
<1>3. R = IF answered THEN IF notified THEN <<response, ListChanged>> ELSE <<response>>
                      ELSE IF notified THEN <<ListChanged>> ELSE <<>>
  BY <1>1, RepliesShape
<1>4. answered => Understood(json(response)) = response
  <2> SUFFICES ASSUME answered PROVE Understood(json(response)) = response
    OBVIOUS
  <2>1. m.method # "initialized" /\ response.what = Outcome(m, initialized, Called(result))
    OBVIOUS
  <2> DEFINE reply == response
  <2>2. [id |-> reply.id, what |-> reply.what] = reply
    OBVIOUS
  <2> HIDE DEF response
  <2>3. Understood(json(reply)) = [id |-> reply.id, what |-> reply.what]
    BY <1>1, <2>1, ResponseUnderstood
  <2> QED BY <2>2, <2>3
<1>5. notified => Understood(json(ListChanged)) = ListChanged
  BY OthersUnderstood DEF AwaitsCall
<1>6. \E S : R \in Seq(S)
  BY <1>1, RepliesSeq
<1> HIDE DEF R, json, response, answered, notified
<1>7. \A i \in DOMAIN R : Understood(json(R[i])) = R[i]
  <2>1. CASE answered /\ notified
    <3>1. DOMAIN <<response, ListChanged>> = {1, 2}
      OBVIOUS
    <3> QED BY <1>3, <1>4, <1>5, <2>1, <3>1
  <2>2. CASE answered /\ ~notified
    <3>1. DOMAIN <<response>> = {1}
      OBVIOUS
    <3> QED BY <1>3, <1>4, <2>2, <3>1
  <2>3. CASE ~answered /\ notified
    <3>1. DOMAIN <<ListChanged>> = {1}
      OBVIOUS
    <3> QED BY <1>3, <1>5, <2>3, <3>1
  <2>4. CASE ~answered /\ ~notified
    <3>1. DOMAIN <<>> = {}
      OBVIOUS
    <3> QED BY <1>3, <2>4, <3>1
  <2> QED BY <2>1, <2>2, <2>3, <2>4
<1>8. Meaning(outbox') = [i \in DOMAIN R |-> R[i]]
  BY <1>2, <1>7 DEF Meaning
<1>9. [i \in DOMAIN R |-> R[i]] = R
  <2>1. PICK S : R \in Seq(S)
    BY <1>6
  <2>2. R \in [1 .. Len(R) -> S]
    BY <2>1, LenProperties
  <2> QED BY <2>2
<1> QED BY <1>8, <1>9 DEF R

\* A Dispatch is the handling of the frame read last, wherever the task was.
LEMMA DispatchConverses ==
  ASSUME IInv, pc \in {"reading", "calling", "stopping"}, handled < Len(sent),
         NEW m \in Messages, m = sent[handled + 1],
         NEW result, Called(result) \in CallResults, Dispatched(m, result),
         UNCHANGED <<peer, out>>, ~Unsettled'
  PROVE  Abstract!Handle("pipe")
<1>1. Typed /\ UNCHANGED <<setup, sent, broken>>
  BY DEF IInv, peer
<1>2. /\ IsSeq(outbox') /\ pc' \notin {"refusing", "ended"}
      /\ handled' = handled + 1 /\ initialized' = InitializedAfter(m, initialized)
  BY <1>1, DispatchedWrites DEF Dispatched
<1>3. Heard' = Heard \o Meaning(outbox')
  BY <1>1, <1>2, HeardMore
<1>4. Meaning(outbox') = Replies(m, handled + 1, initialized, Called(result))
  BY <1>1, RepliesUnderstood
<1>5. \E called \in CallResults :
        Heard' = Heard \o Replies(m, handled + 1, initialized, called)
  BY <1>3, <1>4
<1>6. pc \notin {"refusing", "ended"}
  OBVIOUS
<1> QED BY <1>1, <1>2, <1>5, <1>6, HandleAbstract

\* A call that is not made may have failed, for all that it matters.
LEMMA NoResultCalled == Called(NoResult) \in CallResults
BY DEF Called, NoResult, CallError, CallResults

\* The answer of the service completes the handling of the frame read last.
LEMMA CalleeConverses ==
  ASSUME IInv, Callee
  PROVE  Abstract!Handle("pipe")
<1>1. PICK result :
        /\ Called(result) \in CallResults /\ pc \in {"calling", "stopping"}
        /\ Dispatched(sent[handled + 1], result) /\ UNCHANGED <<peer, framing, out>>
  <2>1. ASSUME NEW r \in Results, NEW t \in Toolbox, CallReturns(r, t)
        PROVE  /\ Called(r) \in CallResults /\ pc \in {"calling", "stopping"}
               /\ Dispatched(sent[handled + 1], r) /\ UNCHANGED <<peer, framing, out>>
    BY <2>1, StdioAssumption DEF CallReturns
  <2>2. CASE ShutdownReturns
    BY <2>2, NoResultCalled DEF ShutdownReturns
  <2> QED BY <2>1, <2>2 DEF Callee
<1>2. handled < Len(sent) /\ sent[handled + 1] \in Messages
  BY <1>1 DEF IInv, Awaited
<1>3. ~Unsettled'
  BY <1>1 DEF IInv, Unheard, Unsettled, peer
<1> QED BY <1>1, <1>2, <1>3, DispatchConverses

\* A message of any method, with an id or without.
LEMMA MessageIsMessage ==
  ASSUME NEW p \in Methods, NEW t \in BOOLEAN
  PROVE  Message(p, t) \in Messages
<1> DEFINE flags == BOOLEAN
           all == {Message(m, b) : m \in Methods, b \in flags}
<1>1. t \in flags
  OBVIOUS
<1>2. Messages = all \cup [method : {"initialize"}, hasId : BOOLEAN, version : Versions \cup Retired]
  BY DEF Messages
<1> HIDE DEF flags
<1>3. Message(p, t) \in all
  BY <1>1
<1> HIDE DEF all
<1> QED BY <1>2, <1>3

\* The refusal is heard, if the framing is settled by then.
LEMMA RefusalHeard ==
  ASSUME IInv, pc = "reading", UNCHANGED <<setup, out>>, outbox' = <<Refusal>>, ~Unsettled'
  PROVE  Heard' = Append(Heard, ParseError)
<1>1. IsSeq(outbox')
  BY SingleIsSeq
<1>2. Heard' = Heard \o Meaning(outbox')
  BY <1>1, HeardMore
<1>3. Understood(Refusal) = ParseError
  <2>1. PICK m \in Messages : m.method # "initialize"
    <3>1. "ping" \in Methods /\ TRUE \in BOOLEAN
      BY DEF Methods
    <3>2. Message("ping", TRUE) \in Messages
      BY <3>1, MessageIsMessage
    <3>3. Message("ping", TRUE).method = "ping"
      BY DEF Message
    <3> QED BY <3>2, <3>3
  <2> QED BY <2>1, OthersUnderstood
<1>4. Meaning(outbox') = <<ParseError>>
  BY <1>3, MeaningOfFew
<1>5. IsSeq(Heard)
  <2>1. CASE Unsettled
    BY <2>1, EmptyIsSeq, MeaningOfFew, HeardIsMeaning DEF Spoken
  <2>2. CASE ~Unsettled
    <3>1. IsSeq(Received \o outbox)
      BY <2>2, AllArrived, ConcatOfSeqs DEF IInv, Typed
    <3> QED BY <2>2, <3>1, MeaningSeq, HeardIsMeaning DEF Spoken
  <2> QED BY <2>1, <2>2
<1>6. Heard \o <<ParseError>> = Append(Heard, ParseError)
  <2> DEFINE S == {Heard[i] : i \in DOMAIN Heard}  T == S \cup {ParseError}
  <2>1. Heard \in Seq(S) /\ S \subseteq T
    BY <1>5 DEF IsSeq
  <2> HIDE DEF S
  <2>2. ParseError \in T
    OBVIOUS
  <2> HIDE DEF T
  <2>3. Heard \in Seq(T)
    BY <2>1, SeqMonotonic
  <2> QED BY <2>2, <2>3, AppendIsConcat
<1> QED BY <1>2, <1>4, <1>6

\* Reading a frame handles it, refuses it, or leaves its handling to the service.
LEMMA ReadFrameConverses ==
  ASSUME IInv, NEW opened \in BOOLEAN, ReadFrame(opened)
  PROVE  Abstract!Handle("pipe") \/ Abstract!Reject("pipe") \/ UNCHANGED Abstract!vars
<1> DEFINE f == sent[handled + 1]
<1>1. /\ pc = "reading" /\ handled < Len(sent)
      /\ UNCHANGED <<setup, sent, broken, out>> /\ UNCHANGED peer /\ Typed
  BY DEF ReadFrame, peer, IInv
<1>2. /\ f \in Messages \cup NoMessages
      /\ f.method # "bad frame" => ~Unsettled'
      /\ ~Unsettled => ~Unsettled'
  BY <1>1, FrameSettles
<1>3. \/ /\ Skipped("framed", f) /\ handled' = handled + 1
         /\ UNCHANGED <<initialized, pc, outbox, fault>>
      \/ /\ Garbled("framed", f) /\ handled' = handled + 1
         /\ outbox' = <<Refusal>> /\ pc' = "writing"
         /\ UNCHANGED <<initialized, fault>>
      \/ /\ f.method = "bad frame" /\ handled' = handled + 1
         /\ Refuse /\ fault' = "framing"
         /\ UNCHANGED initialized
      \/ f \in Messages /\ Route(f) /\ UNCHANGED fault
  BY DEF ReadFrame
<1> HIDE DEF f
<1>4. CASE /\ Skipped("framed", f) /\ handled' = handled + 1
           /\ UNCHANGED <<initialized, pc, outbox, fault>>
  <2>1. Heard' = Heard
    BY <1>1, <1>2, <1>4, HeardKept
  <2>2. pc \notin {"refusing", "ended"} /\ pc' \notin {"refusing", "ended"}
    BY <1>1, <1>4
  <2>3. Abstract!Handle("pipe")
    BY <1>1, <1>4, <2>1, <2>2, HandleAbstract DEF f
  <2> QED BY <2>3
<1>5. CASE /\ Garbled("framed", f) /\ handled' = handled + 1
           /\ outbox' = <<Refusal>> /\ pc' = "writing"
           /\ UNCHANGED <<initialized, fault>>
  <2>1. ~Unsettled'
    BY <1>2, <1>5 DEF Garbled
  <2>2. Heard' = Append(Heard, ParseError)
    BY <1>1, <1>5, <2>1, RefusalHeard
  <2>3. pc \notin {"refusing", "ended"} /\ pc' \notin {"refusing", "ended"}
    BY <1>1, <1>5
  <2>4. Abstract!Handle("pipe")
    BY <1>1, <1>5, <2>2, <2>3, HandleAbstract DEF f
  <2> QED BY <2>4
<1>6. CASE /\ f.method = "bad frame" /\ handled' = handled + 1
           /\ Refuse /\ fault' = "framing"
           /\ UNCHANGED initialized
  <2>1. outbox' = <<Refusal>> /\ pc' = "refusing"
    BY <1>6 DEF Refuse
  <2>2. Heard' = Heard \/ Heard' = Append(Heard, ParseError)
    <3>1. CASE Unsettled'
      BY <1>2, <3>1, HeardIsMeaning DEF Spoken
    <3>2. CASE ~Unsettled'
      BY <1>1, <2>1, <3>2, RefusalHeard
    <3> QED BY <3>1, <3>2
  <2>3. pc \notin {"refusing", "ended"} /\ pc' \in {"refusing", "ended"}
    BY <1>1, <2>1
  <2>4. sent[handled + 1].method = "bad frame"
    BY <1>6 DEF f
  <2>5. Abstract!Reject("pipe")
    BY <1>1, <1>6, <2>2, <2>3, <2>4, RejectAbstract
  <2> QED BY <2>5
<1>7. CASE f \in Messages /\ Route(f) /\ UNCHANGED fault
  <2>1. ~Unsettled'
    BY <1>2, <1>7, MessageFields DEF Methods
  <2>2. CASE pc' \in {"calling", "stopping"} /\ UNCHANGED <<handled, initialized, outbox>>
    <3>1. Heard' = Heard
      BY <1>1, <2>1, <2>2, HeardKept
    <3>2. pc' \in {"refusing", "ended"} <=> pc \in {"refusing", "ended"}
      BY <1>1, <2>2
    <3>3. UNCHANGED Abstract!vars
      BY <1>1, <2>2, <3>1, <3>2, StutterAbstract
    <3> QED BY <3>3
  <2>3. CASE Dispatched(f, NoResult)
    <3>1. Abstract!Handle("pipe")
      BY <1>1, <1>7, <2>1, <2>3, NoResultCalled, DispatchConverses DEF f
    <3> QED BY <3>1
  <2> QED BY <1>7, <2>2, <2>3 DEF Route
<1> QED BY <1>3, <1>4, <1>5, <1>6, <1>7

\* Writes are not steps of the conversation, unless one fails.
LEMMA WritesConverse ==
  ASSUME IInv, Write \/ WriteFails
  PROVE  UNCHANGED Abstract!vars \/ Abstract!Lose("pipe")
<1>1. CASE Write
  <2>1. Heard' = Heard
    BY <1>1, HeardWhileWritten
  <2>2. UNCHANGED <<sent, handled, initialized, broken>>
    BY <1>1 DEF Write, peer
  <2>3. pc' \in {"refusing", "ended"} <=> pc \in {"refusing", "ended"}
    <3>1. pc = "refusing" => Tail(outbox) = <<>>
      BY SingleIsSeq DEF IInv, Faulted
    <3> QED BY <1>1, <3>1 DEF Write
  <2>4. UNCHANGED Abstract!vars
    BY <2>1, <2>2, <2>3, StutterAbstract
  <2> QED BY <2>4
<1>2. CASE WriteFails
  <2>1. PICK k \in 0 .. Len(Heard) : Heard' = SubSeq(Heard, 1, k)
    BY <1>2, HeardWhenFailed
  <2>2. /\ broken /\ pc' \in {"refusing", "ended"}
        /\ UNCHANGED <<sent, handled, initialized, broken>>
    BY <1>2 DEF WriteFails, AfterError, peer
  <2>3. Abstract!Lose("pipe")
    BY <2>1, <2>2, LoseAbstract
  <2> QED BY <2>3
<1> QED BY <1>1, <1>2

\* What the peer does itself, and the end of the loop.
LEMMA PeerConverses ==
  ASSUME IInv, (\E f \in Frames : Send(f)) \/ Break \/ ReadEof \/ ReadFails \/ Dropped
  PROVE  Abstract!Send("pipe") \/ Abstract!Break("pipe") \/ Abstract!End("pipe")
<1>1. ASSUME NEW f \in Frames, Send(f) PROVE Abstract!Send("pipe")
  <2>1. /\ UNCHANGED <<setup, handled, framing, initialized, pc, outbox, out, broken>>
        /\ sent' = Append(sent, f)
    BY <1>1 DEF Send
  <2>2. sent \in Seq(Frames)
    BY DEF IInv, Typed
  <2>3. Len(sent') = Len(sent) + 1 /\ SubSeq(sent', 1, Len(sent)) = sent
    <3>1. <<f>> \in Seq(Frames) /\ sent' = sent \o <<f>>
      BY <2>1, <2>2, AppendIsConcat
    <3>2. IsSeq(sent) /\ IsSeq(<<f>>)
      BY <2>2, <3>1, SeqIsSeq
    <3>3. SubSeq(sent', 1, Len(sent)) = sent
      BY <3>1, <3>2, StartOfConcat
    <3>4. Len(sent') = Len(sent) + 1
      BY <2>1, <2>2, AppendProperties
    <3> QED BY <3>3, <3>4
  <2>4. Heard' = Heard
    BY <2>1, HeardKept DEF Unsettled
  <2>5. Over' = Over
    BY <2>1, OverAt
  <2> DEFINE Sent == [d \in Pipe |-> sent]
  <2>6. /\ Len(Sent'["pipe"]) = Len(Sent["pipe"]) + 1
        /\ SubSeq(Sent'["pipe"], 1, Len(Sent["pipe"])) = Sent["pipe"]
        /\ \A d \in Pipe \ {"pipe"} : Sent'[d] = Sent[d]
        /\ UNCHANGED <<[d \in Pipe |-> handled], [d \in Pipe |-> initialized],
                       [d \in Pipe |-> Heard], [d \in Pipe |-> broken], Over>>
        => Abstract!Send("pipe")
    BY DEF Abstract!Send, Over
  <2>7. Sent'["pipe"] = sent' /\ Sent["pipe"] = sent /\ Pipe \ {"pipe"} = {}
    BY PipeAt
  <2>8. UNCHANGED <<[d \in Pipe |-> handled], [d \in Pipe |-> initialized],
                    [d \in Pipe |-> Heard], [d \in Pipe |-> broken], Over>>
    BY <2>1, <2>4, <2>5
  <2> HIDE DEF Sent
  <2> QED BY <2>3, <2>6, <2>7, <2>8
<1>2. CASE Break
  <2>1. /\ UNCHANGED <<setup, sent, handled, framing, initialized, pc, outbox, out>>
        /\ broken' = TRUE
    BY <1>2 DEF Break
  <2>2. Heard' = Heard
    BY <2>1, HeardKept DEF Unsettled
  <2>3. Over' = Over
    BY <2>1, OverAt
  <2>4. [d \in Pipe |-> broken'] = [[d \in Pipe |-> broken] EXCEPT !["pipe"] = TRUE]
    BY <2>1, PipeAt
  <2> HIDE DEF Heard
  <2>5. Abstract!Break("pipe")
    BY <2>1, <2>2, <2>3, <2>4 DEF Abstract!Break, Over
  <2> QED BY <2>5
<1>3. CASE ReadEof \/ ReadFails \/ Dropped
  <2>1. /\ UNCHANGED <<setup, sent, handled, framing, initialized, outbox, out, broken>>
        /\ pc' = "ended"
    BY <1>3 DEF ReadEof, ReadFails, Dropped, AfterError, peer
  <2>2. Heard' = Heard
    BY <2>1, HeardKept DEF Unsettled
  <2>3. Abstract!End("pipe")
    BY <2>1, <2>2, EndAbstract
  <2> QED BY <2>3
<1> QED BY <1>1, <1>2, <1>3

\* The initial states are the conversation's.
LEMMA InitConverses == Init => Abstract!Init
<1> SUFFICES ASSUME Init PROVE Abstract!Init
  OBVIOUS
<1>1. IInv /\ pc = "reading"
  BY InitIInv DEF Init
<1>2. /\ sent = <<>> /\ handled = 0 /\ initialized = FALSE /\ broken = FALSE
      /\ out = <<>> /\ outbox = <<>> /\ pc \notin {"refusing", "ended"}
  BY DEF Init
<1>3. Heard = <<>>
  <2>1. CASE Unsettled
    BY <2>1, HeardIsMeaning, MeaningOfFew DEF Spoken
  <2>2. CASE ~Unsettled
    <3>1. IsSeq(Received) /\ Len(Received) = Len(out) \div 2 /\ Len(out) = 0
      BY <1>1, <1>2, <2>2, AllArrived
    <3>2. Received = <<>>
      BY <3>1, LenOfSeq
    <3>3. Received \o outbox = <<>>
      BY <1>2, <3>2, EmptyIsSeq, ConcatEmpty
    <3> QED BY <2>2, <3>3, HeardIsMeaning, MeaningOfFew DEF Spoken
  <2> QED BY <2>1, <2>2
<1>4. Over = [d \in Pipe |-> FALSE]
  <2>1. (pc \in {"refusing", "ended"}) = FALSE
    BY <1>2
  <2> QED BY <2>1, Zenon DEF Over
<1> HIDE DEF Heard
<1> QED BY <1>2, <1>3, <1>4 DEF Abstract!Init, Over

\* Every step is one of the conversation's, or none.
LEMMA NextConverses == IInv /\ [Next]_vars => [Abstract!Next]_(Abstract!vars)
<1> SUFFICES ASSUME IInv, [Next]_vars PROVE Abstract!Next \/ UNCHANGED Abstract!vars
  OBVIOUS
<1>1. "pipe" \in Pipe
  BY DEF Pipe
<1>2. CASE (\E f \in Frames : Send(f)) \/ Break \/ ReadEof \/ ReadFails \/ Dropped
  BY <1>1, <1>2, PeerConverses DEF Abstract!Next
<1>3. ASSUME NEW opened \in BOOLEAN, ReadFrame(opened)
      PROVE  Abstract!Next \/ UNCHANGED Abstract!vars
  BY <1>1, <1>3, ReadFrameConverses DEF Abstract!Next
<1>4. CASE Write \/ WriteFails
  BY <1>1, <1>4, WritesConverse DEF Abstract!Next
<1>5. CASE Callee
  BY <1>1, <1>5, CalleeConverses DEF Abstract!Next
<1>6. CASE UNCHANGED vars
  <2>1. Heard' = Heard
    BY <1>6, HeardKept DEF vars, Unsettled
  <2> QED BY <1>6, <2>1, StutterAbstract DEF vars
<1> QED BY <1>2, <1>3, <1>4, <1>5, <1>6 DEF Next, Task

\* A framed connection, down to single writes and with what is said in it, is the
\* conversation (pump, write_message, handle_message).
THEOREM PipeConverses == Spec => Converses
BY InitConverses, NextConverses, PumpIInv, PTL DEF Spec, Converses, Abstract!Spec

-----------------------------------------------------------------------------
(* What is said *)

\* r says what message m, with its session open or not, came to.
Says(r, m, opened, toolbox, result) ==
  /\ AwaitsCall(m, opened) => Relays(r, result)
  /\ (m.method = "tools/list" /\ "result" \in DOMAIN r) => Lists(r, toolbox)
  /\ m.method = "initialize" => Introduces(r)

\* A reply is given as the tool made it, a failure as content or as an error
\* (handle_tools_call, to_result_json, tool_error_result).
LEMMA ToolSays ==
  ASSUME NEW m \in Messages, NEW result, Called(result) \in CallResults,
         NEW config, NEW toolbox, NEW reply, m.method = "tools/call",
         reply.what = Outcome(m, TRUE, Called(result))
  PROVE  LET r == Response(reply, m, config, toolbox, result)
         IN  r.id = reply.id /\ Relays(r, result)
<1> DEFINE r == Response(reply, m, config, toolbox, result)
<1>1. /\ result.variant \in {"Ok", "Tool", "InvalidParams", "Internal"}
      /\ Called(result).variant = result.variant
      /\ result.variant = "Ok" => Called(result).isError = result.reply.is_error
                                  /\ result.reply.is_error \in BOOLEAN
  BY CalledVariant
<1>2. DOMAIN code = {"PARSE_ERROR", "INVALID_REQUEST", "METHOD_NOT_FOUND", "INVALID_PARAMS",
                     "INTERNAL_ERROR", "NOT_INITIALIZED"}
  BY DEF code
<1>3. CASE result.variant = "Internal"
  <2>1. reply.what = "INTERNAL_ERROR"
    BY <1>1, <1>3 DEF Outcome
  <2>2. r = ErrorResponse(reply.id, code[reply.what], result.message)
    BY <1>2, <2>1 DEF Response
  <2>3. r.id = reply.id /\ r.error.message = result.message
    BY <2>2 DEF ErrorResponse
  <2> HIDE DEF r
  <2>4. Relays(r, result)
    BY <1>3, <2>3 DEF Relays
  <2> QED BY <2>3, <2>4 DEF r
<1>4. CASE result.variant \in {"Tool", "InvalidParams"}
  <2>1. reply.what = "isError"
    BY <1>1, <1>4 DEF Outcome
  <2>2. r = SuccessResponse(reply.id, ToolErrorResult(result.message))
    BY <1>2, <1>4, <2>1 DEF Response
  <2>3. r.id = reply.id /\ r.result = ToolErrorResult(result.message)
    BY <2>2 DEF SuccessResponse
  <2> HIDE DEF r
  <2>4. r.result["isError"] /\ r.result["content"][1] = ContentJson(Text(result.message))
    BY <2>3 DEF ToolErrorResult
  <2>5. ContentJson(Text(result.message))["text"] = result.message
    BY DEF ContentJson, Text
  <2>6. Relays(r, result)
    BY <1>4, <2>4, <2>5 DEF Relays
  <2> QED BY <2>3, <2>6 DEF r
<1>5. CASE result.variant = "Ok"
  <2> DEFINE object == [content |-> [i \in DOMAIN result.reply.content |->
                                       ContentJson(result.reply.content[i])],
                        isError |-> result.reply.is_error]
             json == ResultJson(result.reply)
  <2>1. reply.what = IF result.reply.is_error THEN "isError" ELSE "done"
    BY <1>1, <1>5 DEF Outcome
  <2>2. r = SuccessResponse(reply.id, json)
    BY <1>2, <1>5, <2>1 DEF Response
  <2>3. r.id = reply.id /\ r.result = json
    BY <2>2 DEF SuccessResponse
  <2>4. DOMAIN object = {"content", "isError"} /\ object["isError"] = result.reply.is_error
    OBVIOUS
  <2>5. json = With(object, "structuredContent", result.reply.structured_content)
    BY DEF ResultJson
  <2> HIDE DEF r, object, json
  <2>6. json["isError"] = result.reply.is_error
    BY <2>4, <2>5, WithMembers
  <2>7. "structuredContent" \in DOMAIN json <=> result.reply.structured_content # Absent
    BY <2>4, <2>5 DEF With
  <2>8. Relays(r, result)
    BY <1>5, <2>3, <2>6, <2>7 DEF Relays
  <2> QED BY <2>3, <2>8 DEF r
<1> QED BY <1>1, <1>3, <1>4, <1>5

\* A response has the id it answers, and says what became of the message
\* (handle_message).
LEMMA ResponseSays ==
  ASSUME NEW m \in Messages, NEW i \in BOOLEAN, NEW result, Called(result) \in CallResults,
         NEW config, NEW toolbox, NEW reply, m.method # "initialized",
         reply.what = Outcome(m, i, Called(result))
  PROVE  LET r == Response(reply, m, config, toolbox, result)
         IN  r.id = reply.id /\ Says(r, m, i, toolbox, result)
<1> DEFINE r == Response(reply, m, config, toolbox, result)
           Goal == r.id = reply.id /\ Says(r, m, i, toolbox, result)
<1>1. m.method \in Methods
  BY MessageFields
<1>2. DOMAIN code = {"PARSE_ERROR", "INVALID_REQUEST", "METHOD_NOT_FOUND", "INVALID_PARAMS",
                     "INTERNAL_ERROR", "NOT_INITIALIZED"}
  BY DEF code
<1>3. ASSUME m.method = "initialize" PROVE Goal
  <2> DEFINE object == [protocolVersion |-> reply.what,
                        serverInfo |-> ServerInfo(config, reply.what),
                        listChanged |-> config.tools_list_changed]
             json == InitializeResult(config, reply.what)
  <2>1. reply.what = Negotiated(m.version) /\ reply.what \notin Labels
    BY <1>3, VersionAnswered DEF Outcome
  <2>2. /\ reply.what \notin DOMAIN code
        /\ reply.what \notin {"tools", "done", "isError", "list_changed"}
    BY <1>2, <2>1 DEF Labels
  <2>3. r = SuccessResponse(reply.id, json)
    BY <1>3, <2>2 DEF Response
  <2>4. r.id = reply.id /\ r.result = json
    BY <2>3 DEF SuccessResponse
  <2>5. /\ DOMAIN object = {"protocolVersion", "serverInfo", "listChanged"}
        /\ object["protocolVersion"] = reply.what
        /\ object["serverInfo"] = ServerInfo(config, reply.what)
    OBVIOUS
  <2>6. PICK value : json = With(object, "instructions", value)
    BY DEF InitializeResult
  <2> HIDE DEF r, object, json
  <2>7. /\ json["protocolVersion"] = reply.what
        /\ json["serverInfo"] = ServerInfo(config, reply.what)
    BY <2>5, <2>6, WithMembers
  <2>8. ServerInfo(config, reply.what) \ {"name", "version"} # {} => reply.what \in Modern
    BY DEF ServerInfo
  <2>9. Introduces(r)
    BY <2>4, <2>7, <2>8 DEF Introduces
  <2> QED BY <1>3, <2>4, <2>9 DEF Says, AwaitsCall, r
<1>4. ASSUME m.method = "tools/call", i PROVE Goal
  <2>1. i = TRUE
    BY <1>4
  <2>2. r.id = reply.id /\ Relays(r, result)
    BY <1>4, <2>1, ToolSays
  <2> HIDE DEF r
  <2> QED BY <1>4, <2>2 DEF Says
<1>5. ASSUME m.method = "tools/list", i PROVE Goal
  <2>1. reply.what = "tools"
    BY <1>5 DEF Outcome
  <2> DEFINE object == [tools |-> ToolsJson(toolbox)]
  <2>2. r = SuccessResponse(reply.id, object)
    BY <1>2, <1>5, <2>1 DEF Response
  <2>3. r.id = reply.id /\ r.result = object
    BY <2>2 DEF SuccessResponse
  <2>4. object["tools"] = ToolsJson(toolbox)
    OBVIOUS
  <2> HIDE DEF r, object
  <2>5. ASSUME NEW k \in DOMAIN toolbox
        PROVE  ToolsJson(toolbox)[k]["name"] = toolbox[k].name
    <3> DEFINE tool == toolbox[k]
               bare == [name |-> tool.name, inputSchema |-> tool.input_schema]
    <3>1. ToolsJson(toolbox)[k] = ToolJson(tool)
      BY DEF ToolsJson
    <3>2. ToolJson(tool) = With(bare, "annotations", tool.annotations)
      BY DEF ToolJson
    <3>3. DOMAIN bare = {"name", "inputSchema"} /\ bare["name"] = tool.name
      OBVIOUS
    <3> HIDE DEF bare
    <3>4. With(bare, "annotations", tool.annotations)["name"] = tool.name
      BY <3>3, WithMembers
    <3> QED BY <3>1, <3>2, <3>4
  <2>6. DOMAIN ToolsJson(toolbox) = DOMAIN toolbox
    BY DEF ToolsJson
  <2>7. Lists(r, toolbox)
    BY <2>3, <2>4, <2>5, <2>6 DEF Lists
  <2> QED BY <1>5, <2>3, <2>7 DEF Says, AwaitsCall
<1>6. ASSUME m.method \in {"ping", "shutdown"} PROVE Goal
  <2>1. reply.what = "result"
    BY <1>6 DEF Outcome
  <2>2. r = SuccessResponse(reply.id, [nothing |-> m.method])
    BY <1>2, <1>6, <2>1 DEF Response
  <2>3. r.id = reply.id
    BY <2>2 DEF SuccessResponse
  <2> HIDE DEF r
  <2> QED BY <1>6, <2>3 DEF Says, AwaitsCall
<1>7. ASSUME \/ m.method \in {"unnamed call", "other", "missing", "array", "wrong version"}
             \/ m.method \in {"tools/list", "tools/call"} /\ ~i
      PROVE  Goal
  <2>1. reply.what \in DOMAIN code
    BY <1>2, <1>7 DEF Outcome
  <2>2. PICK number, message : r = ErrorResponse(reply.id, number, message)
    BY <1>2, <1>7, <2>1 DEF Response
  <2>3. r.id = reply.id /\ DOMAIN r = {"jsonrpc", "id", "error"}
    BY <2>2 DEF ErrorResponse
  <2>4. "result" \notin DOMAIN r
    BY <2>3
  <2> HIDE DEF r
  <2> QED BY <1>7, <2>3, <2>4 DEF Says, AwaitsCall
<1> HIDE DEF Goal
<1>8. Goal
  BY <1>1, <1>3, <1>4, <1>5, <1>6, <1>7 DEF Methods
<1> QED BY <1>8 DEF Goal

\* Whatever a Dispatch leaves to write: what has an id of its own has that of the
\* message, and says what became of it (handle_message).
LEMMA DispatchSays ==
  ASSUME Typed, NEW m \in Messages, NEW result, Called(result) \in CallResults,
         Dispatched(m, result)
  PROVE  \A j \in DOMAIN outbox' :
           Answers(outbox'[j]) =>
             outbox'[j].id = handled + 1 /\ Says(outbox'[j], m, initialized, tools, result)
<1> DEFINE id == handled + 1
           response == [id |-> IF m.method = "array" THEN NullId ELSE id,
                        what |-> Outcome(m, initialized, Called(result))]
           answered == m.method = "array" \/ (m.hasId /\ m.method # "initialized")
           notified == /\ AwaitsCall(m, initialized) /\ Called(result).variant = "Ok"
                       /\ Called(result).changed
           replies == Replies(m, id, initialized, Called(result))
<1>1. /\ outbox' = [i \in DOMAIN replies |->
                      Response(replies[i], m, setup.config, tools, result)]
      /\ initialized \in BOOLEAN
  BY DEF Dispatched, Typed, TypeOK
<1>2. replies = IF answered THEN IF notified THEN <<response, ListChanged>> ELSE <<response>>
                            ELSE IF notified THEN <<ListChanged>> ELSE <<>>
  BY <1>1, RepliesShape
<1> HIDE DEF replies, response
<1>3. \A j \in DOMAIN replies :
        \/ answered /\ replies[j] = response
        \/ notified /\ replies[j] = ListChanged
  <2> HIDE DEF answered, notified
  <2>1. CASE answered /\ notified
    <3>1. replies = <<response, ListChanged>>
      BY <1>2, <2>1
    <3>2. \A j \in DOMAIN replies : j \in {1, 2}
      BY <3>1
    <3>3. replies[1] = response /\ replies[2] = ListChanged
      BY <3>1
    <3> QED BY <2>1, <3>2, <3>3
  <2>2. CASE answered /\ ~notified
    <3>1. replies = <<response>>
      BY <1>2, <2>2
    <3>2. \A j \in DOMAIN replies : j = 1
      BY <3>1
    <3>3. replies[1] = response
      BY <3>1
    <3> QED BY <2>2, <3>2, <3>3
  <2>3. CASE ~answered /\ notified
    BY <1>2, <2>3
  <2>4. CASE ~answered /\ ~notified
    BY <1>2, <2>4
  <2> QED BY <2>1, <2>2, <2>3, <2>4
<1> SUFFICES ASSUME NEW j \in DOMAIN replies,
                    NEW r, r = Response(replies[j], m, setup.config, tools, result),
                    Answers(r)
             PROVE  r.id = id /\ Says(r, m, initialized, tools, result)
  BY <1>1
<1>4. CASE notified /\ replies[j] = ListChanged
  <2>1. m.method # "initialize"
    BY <1>4 DEF AwaitsCall
  <2>2. r = Notification
    BY <1>4, <2>1 DEF Response, ListChanged, code
  <2>3. DOMAIN r = {"jsonrpc", "method"}
    BY <2>2 DEF Notification
  <2> QED BY <2>3 DEF Answers
<1>5. CASE answered /\ replies[j] = response
  <2>1. m.method # "initialized"
    BY <1>5
  <2>2. response.what = Outcome(m, initialized, Called(result))
    BY DEF response
  <2>3. r.id = response.id /\ Says(r, m, initialized, tools, result)
    BY <1>1, <1>5, <2>1, <2>2, ResponseSays
  <2>4. response.id = IF m.method = "array" THEN NullId ELSE id
    BY DEF response
  <2> QED BY <2>3, <2>4 DEF Answers
<1> QED BY <1>3, <1>4, <1>5

-----------------------------------------------------------------------------
(* What is said stays true *)

\* What r says of the message it answers, which was handled.
Answered(r) == Answers(r) => r.id \in 1 .. handled /\ Truthful(r)

\* The tools after the last call.
ToolsNow == IF returned = <<>> THEN Toolboxes[1] ELSE returned[Len(returned)].tools

\* What the service is asked is what the message it is asked for needs.
Serving ==
  /\ pc = "calling" => AwaitsCall(sent[handled + 1], initialized)
  /\ pc = "stopping" => AwaitsShutdown(sent[handled + 1])

\* No length is written before the framing of the peer is known.
NoLength == Unsettled => \A k \in DOMAIN out : out[k].part # "length"

\* The history agrees with what is there and with what is, or was, to be written.
History ==
  /\ Serving /\ NoLength
  /\ \A k \in DOMAIN returned : returned[k].id \in 1 .. handled
  /\ tools = ToolsNow
  /\ \A i \in DOMAIN outbox : Answered(outbox[i])
  /\ \A k \in DOMAIN out : Answered(out[k].of)

\* The first n numbers.
LEMMA UpTo ==
  ASSUME NEW n \in Nat
  PROVE  IsFiniteSet(1 .. n) /\ Cardinality(1 .. n) = n
<1>1. 1 \in Int /\ n \in Int
  OBVIOUS
<1>2. IsFiniteSet(1 .. n)
  BY <1>1, FS_Interval
<1>3. Cardinality(1 .. n) = IF 1 > n THEN 0 ELSE n - 1 + 1
  BY <1>1, FS_Interval
<1> QED BY <1>2, <1>3

\* The tools when the next message is handled are those the service has now
\* (CallReturns).
LEMMA ToolsAtNext ==
  ASSUME Typed, \A k \in DOMAIN returned : returned[k].id \in 1 .. handled
  PROVE  ToolsAt(handled + 1) = ToolsNow
<1> DEFINE before == {k \in DOMAIN returned : returned[k].id < handled + 1}
           n == Len(returned)
<1>1. n \in Nat /\ DOMAIN returned = 1 .. n /\ (returned = <<>> <=> n = 0)
  BY LenProperties, EmptySeq DEF Typed
<1>2. handled \in Nat
  BY LenProperties DEF Typed, TypeOK
<1>3. before = 1 .. n
  BY <1>1, <1>2
<1>4. Cardinality(1 .. n) = n
  BY <1>1, UpTo
<1>5. ToolsAt(handled + 1) = IF before = {} THEN Toolboxes[1] ELSE returned[Cardinality(before)].tools
  BY DEF ToolsAt
<1> HIDE DEF before, n
<1>6. before = {} <=> n = 0
  BY <1>1, <1>3
<1> QED BY <1>1, <1>3, <1>4, <1>5, <1>6 DEF ToolsNow, n

\* The tools an earlier message was answered with are what they were.
LEMMA ToolsAtKept ==
  ASSUME Typed, NEW e, e.id = handled + 1, NEW id \in 1 .. handled,
         returned' = Append(returned, e)
  PROVE  ToolsAt(id)' = ToolsAt(id)
<1> DEFINE before == {k \in DOMAIN returned : returned[k].id < id}
           after == {k \in DOMAIN returned' : returned'[k].id < id}
           n == Len(returned)
<1>1. n \in Nat /\ DOMAIN returned = 1 .. n /\ IsSeq(returned) /\ handled \in Nat
  BY LenProperties, SeqIsSeq DEF Typed, TypeOK
<1>2. /\ IsSeq(returned') /\ Len(returned') = n + 1
      /\ \A k \in 1 .. n : returned'[k] = returned[k]
      /\ returned'[n + 1] = e
  BY <1>1, AppendToSeq
<1>3. DOMAIN returned' = 1 .. n + 1
  BY <1>2, LenOfSeq
<1>4. after = before
  <2>1. \A k \in 1 .. n + 1 : k \in 1 .. n \/ k = n + 1
    BY <1>1
  <2>2. ~(e.id < id)
    BY <1>1
  <2> QED BY <1>1, <1>2, <1>3, <2>1, <2>2
<1>5. before # {} => Cardinality(before) \in 1 .. n
  <2>1. IsFiniteSet(1 .. n) /\ Cardinality(1 .. n) = n
    BY <1>1, UpTo
  <2>2. before \in SUBSET (1 .. n)
    BY <1>1
  <2> HIDE DEF before
  <2>3. IsFiniteSet(before) /\ Cardinality(before) <= Cardinality(1 .. n)
    BY <2>1, <2>2, FS_Subset
  <2>4. Cardinality(before) \in Nat /\ (Cardinality(before) = 0 <=> before = {})
    BY <2>3, FS_CardinalityType, FS_EmptySet
  <2> QED BY <1>1, <2>1, <2>3, <2>4
<1>6. ToolsAt(id) = IF before = {} THEN Toolboxes[1] ELSE returned[Cardinality(before)].tools
  BY DEF ToolsAt
<1>7. ToolsAt(id)' = IF after = {} THEN Toolboxes[1] ELSE returned'[Cardinality(after)].tools
  BY DEF ToolsAt
<1> HIDE DEF before, after
<1> QED BY <1>2, <1>4, <1>5, <1>6, <1>7

\* What was said stays true as the peer sends more, and the service returns from the
\* next call (Send, CallReturns).
LEMMA AnsweredKept ==
  ASSUME Typed,
         sent' = sent \/ \E f \in Frames : sent' = Append(sent, f),
         handled' \in {handled, handled + 1},
         returned' = returned \/ \E e \in Returns : /\ e.id = handled + 1
                                                   /\ returned' = Append(returned, e),
         NEW r, Answered(r)
  PROVE  Answered(r)'
<1> SUFFICES ASSUME Answers(r)
             PROVE  r.id \in 1 .. handled' /\ Truthful(r)'
  BY DEF Answered, Answers, NullId
<1>1. r.id \in 1 .. handled /\ Truthful(r)
  BY DEF Answered
<1>2. handled \in 0 .. Len(sent) /\ Len(sent) \in Nat
  BY LenProperties DEF Typed, TypeOK
<1>3. r.id \in 1 .. handled' /\ r.id \in 1 .. Len(sent)
  BY <1>1, <1>2
<1>4. sent'[r.id] = sent[r.id]
  BY <1>3, AppendProperties DEF Typed
<1>5. CASE returned' = returned
  <2>1. ToolsAt(r.id)' = ToolsAt(r.id)
    BY <1>5 DEF ToolsAt
  <2> QED BY <1>1, <1>3, <1>4, <1>5, <2>1 DEF Truthful
<1>6. ASSUME NEW e \in Returns, e.id = handled + 1, returned' = Append(returned, e)
      PROVE  Truthful(r)'
  <2>1. ToolsAt(r.id)' = ToolsAt(r.id)
    BY <1>1, <1>6, ToolsAtKept
  <2>2. /\ DOMAIN returned = 1 .. Len(returned) /\ DOMAIN returned' = 1 .. Len(returned) + 1
        /\ \A k \in 1 .. Len(returned) : returned'[k] = returned[k]
        /\ returned'[Len(returned) + 1] = e /\ Len(returned) \in Nat
    <3>1. returned \in Seq(Returns)
      BY DEF Typed
    <3> QED BY <1>6, <3>1, AppendProperties, LenProperties
  <2>3. e.id # r.id
    BY <1>1, <1>2, <1>6
  <2>4. \A k \in DOMAIN returned' : k \in DOMAIN returned \/ k = Len(returned) + 1
    BY <2>2
  <2>5. \A k \in DOMAIN returned' : returned'[k].id = r.id => Relays(r, returned'[k].result)
    BY <1>1, <2>2, <2>3, <2>4 DEF Truthful
  <2> QED BY <1>1, <1>4, <2>1, <2>5 DEF Truthful
<1> QED BY <1>3, <1>5, <1>6

\* A Dispatch says what became of its message (handle_message).
LEMMA DispatchAnswers ==
  ASSUME Typed, \A k \in DOMAIN returned : returned[k].id \in 1 .. handled, tools = ToolsNow,
         NEW m \in Messages, m = sent[handled + 1], sent' = sent,
         NEW result, Called(result) \in CallResults, Dispatched(m, result),
         \/ returned' = returned /\ ~AwaitsCall(m, initialized)
         \/ /\ AwaitsCall(m, initialized)
            /\ \E e \in Returns : /\ e.id = handled + 1 /\ e.result = result
                                  /\ returned' = Append(returned, e)
  PROVE  (\A i \in DOMAIN outbox : Answered(outbox[i]))'
<1>1. handled' = handled + 1 /\ handled \in Nat /\ handled + 1 \in 1 .. handled + 1
  BY LenProperties DEF Dispatched, Typed, TypeOK
<1>2. \A i \in DOMAIN outbox' :
        Answers(outbox'[i]) =>
          outbox'[i].id = handled + 1 /\ Says(outbox'[i], m, initialized, tools, result)
  BY DispatchSays
<1> SUFFICES ASSUME NEW i \in DOMAIN outbox', NEW r, r = outbox'[i], Answers(r)
             PROVE  r.id \in 1 .. handled' /\ Truthful(r)'
  BY DEF Answered, Answers, NullId
<1>3. r.id = handled + 1 /\ Says(r, m, initialized, tools, result) /\ sent'[r.id] = m
  BY <1>2
<1>4. r.id \in 1 .. handled'
  BY <1>1, <1>3
<1>5. m.method = "initialize" => Introduces(r)
  BY <1>3 DEF Says
<1>6. CASE returned' = returned
  <2>1. ToolsAt(r.id)' = tools
    <3>1. ToolsAt(r.id)' = ToolsAt(r.id)
      BY <1>6 DEF ToolsAt
    <3> QED BY <1>3, <3>1, ToolsAtNext
  <2>2. \A k \in DOMAIN returned' : returned'[k].id # r.id
    BY <1>1, <1>3, <1>6
  <2>3. (m.method = "tools/list" /\ "result" \in DOMAIN r) => Lists(r, ToolsAt(r.id)')
    BY <1>3, <2>1 DEF Says
  <2>4. Truthful(r)'
    BY <1>3, <1>5, <2>2, <2>3 DEF Truthful
  <2> QED BY <1>4, <2>4
<1>7. ASSUME AwaitsCall(m, initialized), NEW e \in Returns, e.id = handled + 1,
             e.result = result, returned' = Append(returned, e)
      PROVE  Truthful(r)'
  <2>1. Relays(r, result) /\ m.method = "tools/call"
    BY <1>3, <1>7 DEF Says, AwaitsCall
  <2>2. /\ DOMAIN returned = 1 .. Len(returned) /\ DOMAIN returned' = 1 .. Len(returned) + 1
        /\ \A k \in 1 .. Len(returned) : returned'[k] = returned[k]
        /\ returned'[Len(returned) + 1] = e /\ Len(returned) \in Nat
    <3>1. returned \in Seq(Returns)
      BY DEF Typed
    <3> QED BY <1>7, <3>1, AppendProperties, LenProperties
  <2>3. \A k \in DOMAIN returned' : k \in DOMAIN returned \/ k = Len(returned) + 1
    BY <2>2
  <2>4. \A k \in DOMAIN returned : returned'[k].id # r.id
    BY <1>1, <1>3, <2>2
  <2>5. \A k \in DOMAIN returned' : returned'[k].id = r.id => Relays(r, returned'[k].result)
    BY <1>7, <2>1, <2>2, <2>3, <2>4
  <2> QED BY <1>3, <2>1, <2>5 DEF Truthful
<1> QED BY <1>4, <1>6, <1>7

\* The refusal answers no request (pump).
LEMMA RefusalAnswersNone == ~Answers(Refusal)
<1>1. Refusal.id = NullId
  BY DEF Refusal, ErrorResponse
<1> QED BY <1>1 DEF Answers

\* The initial states.
LEMMA InitHistory == Init => History
<1> SUFFICES ASSUME Init PROVE History
  OBVIOUS
<1>1. DOMAIN <<>> = {}
  OBVIOUS
<1>2. returned = <<>> /\ out = <<>> /\ outbox = <<>> /\ tools = Toolboxes[1] /\ pc = "reading"
  BY DEF Init
<1> QED BY <1>1, <1>2 DEF History, Serving, NoLength, ToolsNow

\* What was written, and the calls that have returned, while the service is not heard
\* and nothing is written.
LEMMA SaidKept ==
  ASSUME IInv, History,
         sent' = sent \/ \E f \in Frames : sent' = Append(sent, f),
         handled' \in {handled, handled + 1}, UNCHANGED <<tools, returned, out>>,
         Unsettled' => Unsettled
  PROVE  /\ \A r : Answered(r) => Answered(r)'
         /\ (\A k \in DOMAIN returned : returned[k].id \in 1 .. handled)'
         /\ (tools = ToolsNow)' /\ NoLength'
         /\ (\A k \in DOMAIN out : Answered(out[k].of))'
<1>1. ASSUME NEW r, Answered(r) PROVE Answered(r)'
  BY <1>1, AnsweredKept DEF IInv
<1>2. handled \in Nat
  BY LenProperties DEF IInv, Typed, TypeOK
<1>3. (\A k \in DOMAIN returned : returned[k].id \in 1 .. handled)'
  BY <1>2 DEF History
<1>4. (tools = ToolsNow)'
  BY DEF History, ToolsNow
<1>5. ASSUME NEW k \in DOMAIN out' PROVE Answered(out[k].of)'
  <2> PICK r : r = out[k].of
    OBVIOUS
  <2>1. Answered(r)'
    BY <1>1 DEF History
  <2>2. Answered(out[k].of)' <=> Answered(r)'
    BY DEF Answered, Answers, Truthful
  <2> QED BY <2>1, <2>2
<1>6. NoLength'
  BY DEF History, NoLength
<1> QED BY <1>1, <1>3, <1>4, <1>5, <1>6

\* The peer sends, or is gone, or reading ends (Send, Break, ReadEof, ReadFails, Dropped).
LEMMA QuietKeepsHistory ==
  ASSUME IInv, History,
         sent' = sent \/ \E f \in Frames : sent' = Append(sent, f),
         pc' \in {pc, "ended"},
         UNCHANGED <<setup, framing, handled, initialized, tools, returned, outbox, out>>
  PROVE  History'
<1> USE DEF Unsettled
<1>1. /\ \A r : Answered(r) => Answered(r)'
      /\ (\A k \in DOMAIN returned : returned[k].id \in 1 .. handled)'
      /\ (tools = ToolsNow)' /\ NoLength' /\ (\A k \in DOMAIN out : Answered(out[k].of))'
  BY SaidKept
<1>2. ASSUME NEW i \in DOMAIN outbox' PROVE Answered(outbox[i])'
  <2> PICK r : r = outbox[i]
    OBVIOUS
  <2>1. Answered(r)'
    BY <1>1 DEF History
  <2>2. Answered(outbox[i])' <=> Answered(r)'
    BY DEF Answered, Answers, Truthful
  <2> QED BY <2>1, <2>2
<1>3. Serving'
  <2> SUFFICES ASSUME pc' \in {"calling", "stopping"} PROVE Serving'
    BY DEF Serving
  <2>1. pc' = pc /\ Serving
    BY DEF History
  <2>2. handled + 1 \in 1 .. Len(sent) /\ sent \in Seq(Frames)
    <3>1. /\ handled < Len(sent) /\ handled \in 0 .. Len(sent) /\ sent \in Seq(Frames)
          /\ Len(sent) \in Nat
      BY <2>1, LenProperties DEF IInv, Typed, TypeOK, Awaited
    <3> QED BY <3>1
  <2>3. sent'[handled + 1] = sent[handled + 1]
    BY <2>2, AppendProperties
  <2> QED BY <2>1, <2>3 DEF Serving, AwaitsCall, AwaitsShutdown
<1> QED BY <1>1, <1>2, <1>3 DEF History

\* Reading one (ReadFrame).
LEMMA ReadFrameKeepsHistory ==
  ASSUME IInv, History, NEW opened \in BOOLEAN, ReadFrame(opened)
  PROVE  History'
<1> DEFINE m == sent[handled + 1]
<1>1. /\ pc = "reading" /\ Typed /\ outbox = <<>>
      /\ UNCHANGED <<sent, tools, returned, out>>
  BY NothingHalf DEF ReadFrame, IInv, peer, service
<1>2. \/ /\ Skipped("framed", m) /\ handled' = handled + 1
         /\ UNCHANGED <<initialized, pc, outbox, fault>>
      \/ /\ Garbled("framed", m) /\ handled' = handled + 1
         /\ outbox' = <<Refusal>> /\ pc' = "writing"
         /\ UNCHANGED <<initialized, fault>>
      \/ /\ m.method = "bad frame" /\ handled' = handled + 1
         /\ Refuse /\ fault' = "framing"
         /\ UNCHANGED initialized
      \/ m \in Messages /\ Route(m) /\ UNCHANGED fault
  BY DEF ReadFrame
<1>3. ASSUME handled' \in {handled, handled + 1},
             (\A i \in DOMAIN outbox : Answered(outbox[i]))',
             Serving'
      PROVE  History'
  <2>1. Unsettled' => Unsettled
    BY <1>1, FrameSettles
  <2> QED BY <1>1, <1>3, <2>1, SaidKept DEF History
<1>4. CASE handled' = handled + 1 /\ pc' = "reading" /\ outbox' = <<>>
  <2>1. DOMAIN <<>> = {}
    OBVIOUS
  <2> QED BY <1>3, <1>4, <2>1 DEF Serving
<1>5. CASE handled' = handled + 1 /\ pc' \in {"writing", "refusing"} /\ outbox' = <<Refusal>>
  <2>1. DOMAIN <<Refusal>> = {1} /\ <<Refusal>>[1] = Refusal
    OBVIOUS
  <2>2. (\A i \in DOMAIN outbox : Answered(outbox[i]))'
    BY <1>5, <2>1, RefusalAnswersNone DEF Answered, Answers
  <2> QED BY <1>3, <1>5, <2>2 DEF Serving
<1>6. CASE m \in Messages /\ Route(m)
  <2>1. CASE Dispatched(m, NoResult) /\ ~AwaitsCall(m, initialized)
    <3>2. (\A i \in DOMAIN outbox : Answered(outbox[i]))'
      BY <1>1, <1>6, <2>1, DispatchAnswers, NoResultCalled DEF History
    <3>3. handled' = handled + 1 /\ pc' \in {"reading", "writing"}
      BY <2>1 DEF Dispatched, AfterDispatch
    <3> QED BY <1>3, <3>2, <3>3 DEF Serving
  <2>2. CASE /\ pc' \in {"calling", "stopping"} /\ UNCHANGED <<handled, initialized, outbox>>
             /\ pc' = "calling" => AwaitsCall(m, initialized)
             /\ pc' = "stopping" => AwaitsShutdown(m)
    <3>1. DOMAIN <<>> = {}
      OBVIOUS
    <3>2. Serving'
      BY <1>1, <2>2 DEF Serving
    <3> QED BY <1>1, <1>3, <2>2, <3>1, <3>2
  <2> QED BY <1>6, <2>1, <2>2 DEF Route
<1> HIDE DEF m
<1> QED BY <1>1, <1>2, <1>4, <1>5, <1>6 DEF Refuse

\* The service returns (CallReturns, ShutdownReturns).
LEMMA CalleeKeepsHistory ==
  ASSUME IInv, History, Callee
  PROVE  History'
<1> DEFINE m == sent[handled + 1]
<1>1. ASSUME NEW r \in Results, NEW t \in Toolbox, CallReturns(r, t)
      PROVE  History'
  <2> PICK e : e = [id |-> handled', result |-> r, tools |-> t]
    OBVIOUS
  <2>1. /\ pc = "calling" /\ Dispatched(m, r) /\ tools' = t /\ UNCHANGED <<sent, out>>
        /\ returned' = Append(returned, e)
    BY <1>1 DEF CallReturns, peer
  <2>2. /\ handled' = handled + 1 /\ pc' \in {"reading", "writing"}
        /\ handled \in Nat /\ handled + 1 \in Nat
    BY <2>1, LenProperties DEF Dispatched, AfterDispatch, IInv, Typed, TypeOK
  <2>3. e \in Returns /\ e.id = handled + 1 /\ e.result = r /\ e.tools = t
    BY <2>2 DEF Returns
  <2>4. m \in Messages /\ AwaitsCall(m, initialized) /\ Called(r) \in CallResults
    BY <2>1, StdioAssumption DEF IInv, Awaited, History, Serving
  <2> HIDE DEF m
  <2>5. (\A i \in DOMAIN outbox : Answered(outbox[i]))'
    BY <2>1, <2>3, <2>4, DispatchAnswers DEF IInv, History, m
  <2>6. /\ DOMAIN returned = 1 .. Len(returned) /\ DOMAIN returned' = 1 .. Len(returned) + 1
        /\ \A k \in 1 .. Len(returned) : returned'[k] = returned[k]
        /\ returned'[Len(returned) + 1] = e /\ Len(returned) \in Nat
        /\ Len(returned') = Len(returned) + 1
    <3>1. returned \in Seq(Returns)
      BY DEF IInv, Typed
    <3> QED BY <2>1, <2>3, <3>1, AppendProperties, LenProperties
  <2>7. \A k \in DOMAIN returned' : k \in DOMAIN returned \/ k = Len(returned) + 1
    BY <2>6
  <2>8. (\A k \in DOMAIN returned : returned[k].id \in 1 .. handled)'
    <3>1. \A k \in DOMAIN returned : returned[k].id \in 1 .. handled + 1
      BY <2>2 DEF History
    <3>2. e.id \in 1 .. handled + 1
      BY <2>2, <2>3
    <3> QED BY <2>2, <2>6, <2>7, <3>1, <3>2
  <2>9. (tools = ToolsNow)'
    <3>1. returned' # <<>>
      <4>1. Len(<<>>) = 0
        OBVIOUS
      <4> QED BY <2>6, <4>1
    <3> QED BY <2>1, <2>3, <2>6, <3>1 DEF ToolsNow
  <2>10. ASSUME NEW x, Answered(x) PROVE Answered(x)'
    BY <2>1, <2>2, <2>3, <2>10, AnsweredKept DEF IInv
  <2>11. ASSUME NEW k \in DOMAIN out' PROVE Answered(out[k].of)'
    <3> PICK x : x = out[k].of
      OBVIOUS
    <3>1. Answered(x)'
      BY <2>1, <2>10 DEF History
    <3>2. Answered(out[k].of)' <=> Answered(x)'
      BY <2>1 DEF Answered, Answers, Truthful
    <3> QED BY <3>1, <3>2
  <2>12. NoLength'
    BY <1>1 DEF CallReturns, peer, History, NoLength, Unsettled
  <2> QED BY <2>2, <2>5, <2>8, <2>9, <2>11, <2>12 DEF History, Serving
<1>2. CASE ShutdownReturns
  <2>1. /\ pc = "stopping" /\ Dispatched(m, NoResult)
        /\ UNCHANGED <<sent, out, tools, returned>> /\ Unsettled' = Unsettled
    BY <1>2 DEF ShutdownReturns, peer, service, Unsettled
  <2>2. handled' = handled + 1 /\ pc' \in {"reading", "writing"}
    BY <2>1 DEF Dispatched, AfterDispatch
  <2>3. m \in Messages /\ ~AwaitsCall(m, initialized)
    BY <2>1 DEF IInv, Awaited, History, Serving, AwaitsCall, AwaitsShutdown
  <2> HIDE DEF m
  <2>4. (\A i \in DOMAIN outbox : Answered(outbox[i]))'
    BY <2>1, <2>3, DispatchAnswers, NoResultCalled DEF IInv, History, m
  <2> QED BY <2>1, <2>2, <2>4, SaidKept DEF History, Serving
<1> QED BY <1>1, <1>2 DEF Callee

\* What is said while messages are written is what was to be written.
LEMMA SaidWhileWritten ==
  ASSUME IInv, History, outbox # <<>>,
         \/ out' = out
         \/ \E piece : /\ piece.of = Head(outbox) /\ out' = Append(out, piece)
                       /\ Unsettled => piece.part # "length",
         outbox' \in {outbox, Tail(outbox), <<>>},
         pc' \notin {"calling", "stopping"},
         UNCHANGED <<setup, framing, sent, handled, initialized, tools, returned>>
  PROVE  History'
<1>1. ASSUME NEW r, Answered(r) PROVE Answered(r)'
  BY <1>1 DEF Answered, Answers, Truthful, ToolsAt
<1>2. IsSeq(out) /\ IsSeq(outbox)
  BY DEF IInv, Typed
<1>3. DOMAIN outbox = 1 .. Len(outbox) /\ Len(outbox) \in Nat /\ Len(outbox) > 0
  BY <1>2, LenOfSeq
<1>4. Answered(Head(outbox))
  <2>1. Head(outbox) = outbox[1]
    OBVIOUS
  <2> QED BY <1>3, <2>1 DEF History
<1>5. ASSUME NEW i \in DOMAIN outbox' PROVE \E k \in DOMAIN outbox : outbox'[i] = outbox[k]
  <2>1. CASE outbox' = outbox
    BY <2>1
  <2>2. CASE outbox' = <<>>
    <3>1. DOMAIN <<>> = {}
      OBVIOUS
    <3> QED BY <2>2, <3>1
  <2>3. CASE outbox' = Tail(outbox)
    <3>1. /\ IsSeq(outbox') /\ Len(outbox') = Len(outbox) - 1
          /\ \A k \in 1 .. Len(outbox') : outbox'[k] = outbox[k + 1]
      <4> PICK S : outbox \in Seq(S)
        BY <1>2 DEF IsSeq
      <4>1. \A k \in 1 .. Len(Tail(outbox)) : Tail(outbox)[k] = outbox[k + 1]
        BY HeadTailProperties
      <4>2. IsSeq(Tail(outbox)) /\ Len(Tail(outbox)) = Len(outbox) - 1
        BY <1>2, TailOfSeq
      <4> QED BY <2>3, <4>1, <4>2
    <3>2. DOMAIN outbox' = 1 .. Len(outbox')
      BY <3>1, LenOfSeq
    <3>3. i + 1 \in DOMAIN outbox
      BY <1>3, <3>1, <3>2
    <3> QED BY <3>1, <3>2, <3>3
  <2> QED BY <2>1, <2>2, <2>3
<1>6. ASSUME NEW i \in DOMAIN outbox' PROVE Answered(outbox[i])'
  <2> PICK r : r = outbox'[i]
    OBVIOUS
  <2>1. Answered(r)
    BY <1>5 DEF History
  <2>2. Answered(outbox[i])' <=> Answered(r)'
    BY DEF Answered, Answers, Truthful
  <2> QED BY <1>1, <2>1, <2>2
<1>7. ASSUME NEW k \in DOMAIN out' PROVE Answered(out[k].of)'
  <2> PICK r : r = out'[k].of
    OBVIOUS
  <2>1. Answered(r)
    <3>1. CASE out' = out
      BY <3>1 DEF History
    <3>2. ASSUME NEW piece, piece.of = Head(outbox), out' = Append(out, piece) PROVE Answered(r)
      <4>1. /\ IsSeq(out') /\ Len(out') = Len(out) + 1
            /\ \A j \in 1 .. Len(out) : out'[j] = out[j]
            /\ out'[Len(out) + 1] = piece
        BY <1>2, <3>2, AppendToSeq
      <4>2. DOMAIN out' = 1 .. Len(out) + 1 /\ DOMAIN out = 1 .. Len(out) /\ Len(out) \in Nat
        BY <1>2, <4>1, LenOfSeq
      <4>3. k \in DOMAIN out \/ k = Len(out) + 1
        BY <4>2
      <4>4. CASE k \in DOMAIN out
        BY <4>1, <4>2, <4>4 DEF History
      <4>5. CASE k = Len(out) + 1
        <5>1. r = Head(outbox)
          BY <3>2, <4>1, <4>5
        <5> QED BY <1>4, <5>1
      <4> QED BY <4>3, <4>4, <4>5
    <3> QED BY <3>1, <3>2
  <2>2. Answered(out[k].of)' <=> Answered(r)'
    BY DEF Answered, Answers, Truthful
  <2> QED BY <1>1, <2>1, <2>2
<1>8. (\A k \in DOMAIN returned : returned[k].id \in 1 .. handled)' /\ (tools = ToolsNow)'
  BY DEF History, ToolsNow
<1>9. NoLength'
  <2> SUFFICES ASSUME Unsettled, NEW k \in DOMAIN out' PROVE out'[k].part # "length"
    BY DEF NoLength, Unsettled
  <2>1. CASE out' = out
    BY <2>1 DEF History, NoLength
  <2>2. ASSUME NEW piece, piece.part # "length", out' = Append(out, piece)
        PROVE  out'[k].part # "length"
    <3>1. /\ IsSeq(out') /\ Len(out') = Len(out) + 1
          /\ \A j \in 1 .. Len(out) : out'[j] = out[j]
          /\ out'[Len(out) + 1] = piece
      BY <1>2, <2>2, AppendToSeq
    <3>2. DOMAIN out' = 1 .. Len(out) + 1 /\ DOMAIN out = 1 .. Len(out) /\ Len(out) \in Nat
      BY <1>2, <3>1, LenOfSeq
    <3>3. k \in DOMAIN out \/ k = Len(out) + 1
      BY <3>2
    <3>4. CASE k \in DOMAIN out
      BY <3>1, <3>2, <3>4 DEF History, NoLength
    <3>5. CASE k = Len(out) + 1
      BY <2>2, <3>1, <3>5
    <3> QED BY <3>3, <3>4, <3>5
  <2> QED BY <2>1, <2>2
<1> QED BY <1>6, <1>7, <1>8, <1>9 DEF History, Serving

\* Every step.
LEMMA NextKeepsHistory == IInv /\ History /\ [Next]_vars => History'
<1> SUFFICES ASSUME IInv, History, [Next]_vars PROVE History'
  OBVIOUS
<1>1. CASE (\E f \in Frames : Send(f)) \/ Break \/ ReadEof \/ ReadFails \/ Dropped
             \/ UNCHANGED vars
  <2>1. /\ sent' = sent \/ \E f \in Frames : sent' = Append(sent, f)
        /\ pc' \in {pc, "ended"}
        /\ UNCHANGED <<setup, framing, handled, initialized, tools, returned, outbox, out>>
    BY <1>1 DEF Send, Break, ReadEof, ReadFails, AfterError, Dropped, vars, peer, service
  <2> QED BY <2>1, QuietKeepsHistory
<1>2. ASSUME NEW opened \in BOOLEAN, ReadFrame(opened) PROVE History'
  BY <1>2, ReadFrameKeepsHistory
<1>3. CASE Write
  <2>1. /\ pc \in {"writing", "refusing"} /\ out' = Append(out, NextPiece)
        /\ outbox' \in {outbox, Tail(outbox)} /\ pc' \notin {"calling", "stopping"}
        /\ UNCHANGED <<setup, framing, sent, handled, initialized, tools, returned>>
    BY <1>3 DEF Write, peer, service
  <2>2. TypeOK /\ outbox # <<>> /\ IsSeq(out)
    BY <2>1 DEF IInv, Typed, TypeOK
  <2>3. NextPiece.of = Head(outbox) /\ (Unsettled => NextPiece.part # "length")
    <3>1. Len(out) \in Nat
      BY <2>2, LenOfSeq
    <3>2. Len(out) % 2 = 0 \/ Len(out) % 2 = 1
      BY <3>1
    <3>3. NextPiece = Pieces(Head(outbox))[1] \/ NextPiece = Pieces(Head(outbox))[2]
      BY <3>2 DEF NextPiece
    <3>4. NextPiece.of = Head(outbox)
      BY <2>2, <3>3, PiecesOf
    <3>5. ASSUME Unsettled PROVE NextPiece.part # "length"
      <4>1. Pieces(Head(outbox)) = <<Piece("body", Head(outbox)), Piece("newline", Head(outbox))>>
        BY <3>5 DEF Unsettled, Pieces
      <4> QED BY <3>3, <4>1 DEF Piece
    <3> QED BY <3>4, <3>5
  <2> QED BY <2>1, <2>2, <2>3, SaidWhileWritten
<1>4. CASE WriteFails
  <2>1. /\ pc \in {"writing", "refusing"} /\ outbox' = <<>> /\ pc' = "ended"
        /\ out' = Append(out, Piece("torn", Head(outbox))) \/ out' = out
        /\ UNCHANGED <<setup, framing, sent, handled, initialized, tools, returned>>
    BY <1>4 DEF WriteFails, AfterError, peer, service
  <2>2. outbox # <<>>
    BY <2>1 DEF IInv, Typed, TypeOK
  <2>3. /\ Piece("torn", Head(outbox)).of = Head(outbox)
        /\ Piece("torn", Head(outbox)).part # "length"
    BY DEF Piece
  <2> QED BY <2>1, <2>2, <2>3, SaidWhileWritten
<1>5. CASE Callee
  BY <1>5, CalleeKeepsHistory
<1> QED BY <1>1, <1>2, <1>3, <1>4, <1>5 DEF Next, Task

\* How many messages the peer has: all, or all but one that was torn; none while it
\* waits for a length.
LEMMA SomeArrived ==
  ASSUME IInv, History
  PROVE  \E n \in 0 .. Len(out) \div 2 : Received = [k \in 1 .. n |-> out[2 * k].of]
<1> DEFINE all == Len(out) \div 2
<1>1. Len(out) \in Nat /\ DOMAIN out = 1 .. Len(out) /\ all \in Nat
  BY LenOfSeq DEF IInv, Typed
<1>2. CASE Unsettled
  <2>1. all = 0 \/ ~Whole(1)
    <3> SUFFICES ASSUME all # 0 PROVE ~Whole(1)
      OBVIOUS
    <3>1. 1 \in DOMAIN out
      BY <1>1
    <3>2. out[1].part # "length"
      BY <1>2, <3>1 DEF History, NoLength
    <3>3. 2 * 1 - 1 = 1
      OBVIOUS
    <3>4. OwnFraming = <<"length", "body">>
      BY <1>2 DEF Unsettled, OwnFraming
    <3> QED BY <3>2, <3>3, <3>4 DEF Whole
  <2>2. 0 \in 0 .. all /\ 1 .. 0 = {} /\ 0 + 1 = 1
    BY <1>1
  <2>3. \A k \in 1 .. 0 : Whole(k)
    BY <2>2
  <2>4. Received = [k \in 1 .. 0 |-> out[2 * k].of]
    BY <1>1, <2>1, <2>2, <2>3, ReceivedIs
  <2> QED BY <2>2, <2>4
<1>3. CASE ~Unsettled
  <2>1. \A k \in 1 .. all : Whole(k) \/ k = all
    <3> SUFFICES ASSUME NEW k \in 1 .. all, ~Whole(k) PROVE k = all
      OBVIOUS
    <3>1. 2 * k = Len(out)
      BY <1>3 DEF IInv, AllPaired, Paired
    <3> QED BY <1>1, <3>1
  <2>2. CASE \A k \in 1 .. all : Whole(k)
    <3>1. all \in 0 .. all
      BY <1>1
    <3>2. Received = [k \in 1 .. all |-> out[2 * k].of]
      BY <1>1, <2>2, <3>1, ReceivedIs
    <3> QED BY <3>1, <3>2
  <2>3. CASE \E k \in 1 .. all : ~Whole(k)
    <3>1. /\ all \in 1 .. all /\ ~Whole(all) /\ all - 1 \in 0 .. all /\ all - 1 + 1 = all
          /\ \A k \in 1 .. all - 1 : k \in 1 .. all /\ k # all
      BY <1>1, <2>1, <2>3
    <3> PICK n \in 0 .. all : n = all - 1
      BY <3>1
    <3>2. \A k \in 1 .. n : Whole(k)
      BY <2>1, <3>1
    <3>3. ~Whole(n + 1)
      BY <3>1
    <3>4. Received = [k \in 1 .. n |-> out[2 * k].of]
      BY <1>1, <3>2, <3>3, ReceivedIs
    <3> QED BY <3>4
  <2> QED BY <2>2, <2>3
<1> QED BY <1>2, <1>3

\* What the peer hears is what happened: to its calls, to the tools, to the handshake
\* (handle_message and the JSON made of it).
THEOREM SaidAsHappened == Spec => []SaysWhatHappened
<1>1. Spec => []History
  BY InitHistory, NextKeepsHistory, PumpIInv, PTL DEF Spec
<1>2. IInv /\ History => SaysWhatHappened
  <2> SUFFICES ASSUME IInv, History, NEW i \in DOMAIN Received, NEW r, r = Received[i], Answers(r)
               PROVE  Truthful(r)
    BY DEF SaysWhatHappened
  <2>1. Len(out) \in Nat /\ DOMAIN out = 1 .. Len(out)
    BY LenOfSeq DEF IInv, Typed
  <2>2. PICK n \in 0 .. Len(out) \div 2 : Received = [k \in 1 .. n |-> out[2 * k].of]
    BY SomeArrived
  <2>3. i \in 1 .. n /\ r = out[2 * i].of
    BY <2>2
  <2>4. 2 * i \in 1 .. Len(out)
    BY <2>1, <2>2, <2>3
  <2>5. Answered(r)
    BY <2>1, <2>3, <2>4 DEF History
  <2> QED BY <2>5 DEF Answered
<1> QED BY <1>1, <1>2, PumpIInv, PTL
=============================================================================
