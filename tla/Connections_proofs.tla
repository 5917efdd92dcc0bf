------------------------- MODULE Connections_proofs -------------------------
(***************************************************************************)
(* Connections, for any number of connections of either kind, any frames   *)
(* and any answers of the service: the types, what the task relies on      *)
(* while it awaits the service, that each connection is a Conversation,    *)
(* and what its client may conclude from the replies.                      *)
(***************************************************************************)
EXTENDS Connections, Session_proofs, FiniteSetTheorems

-----------------------------------------------------------------------------
(* Types *)

\* What the task awaits the service for is the message it read last, and only a framed
\* connection is told why it is ended.
InFlight ==
  \A c \in Conns :
    /\ InService(c) => read[c] > 0 /\ sent[c][read[c]] \in Messages
    /\ pc[c] = "calling" => AwaitsCall(sent[c][read[c]], initialized[c])
    /\ pc[c] = "stopping" => AwaitsShutdown(sent[c][read[c]])
    /\ pc[c] = "refusing" => Kind[c] = "framed"

\* The types of the state and of what is in flight.
Typed == TypeOK /\ InFlight

\* The replies to a message are frames (Dispatch).
LEMMA RepliesAreFrames ==
  ASSUME NEW m \in Messages, NEW id \in Nat, NEW i \in BOOLEAN, NEW called
  PROVE  Replies(m, id, i, called) \in Seq(ReplyFrames)
<1> DEFINE response == [id |-> IF m.method = "array" THEN NullId ELSE id,
                        what |-> Outcome(m, i, called)]
<1>1. response \in ReplyFrames
  BY OutcomeKinds DEF ReplyFrames, Labels, NullId
<1>2. ListChanged \in ReplyFrames
  BY DEF ListChanged, ReplyFrames, Labels, NoId
<1> HIDE DEF response
<1>3. /\ <<>> \in Seq(ReplyFrames) /\ <<response>> \in Seq(ReplyFrames)
      /\ <<ListChanged>> \in Seq(ReplyFrames)
      /\ <<response, ListChanged>> \in Seq(ReplyFrames)
  BY <1>1, <1>2
<1> QED BY <1>3, RepliesShape DEF response

\* A parse error is a frame (pump, ws_connection).
LEMMA ParseErrorIsFrame ==
  ParseError \in ReplyFrames /\ <<ParseError>> \in Seq(ReplyFrames) /\ <<ParseError>> # <<>>
BY DEF ParseError, ReplyFrames, Labels, NullId

\* A Dispatch leaves replies to write exactly if there are any, and is counted under a
\* label there is (handle_message).
LEMMA DispatchedTypes ==
  ASSUME TypeOK, NEW c \in Conns, NEW m \in Messages, NEW called,
         Dispatched(c, m, called), read'[c] \in Nat
  PROVE  /\ outbox' \in [Conns -> Seq(ReplyFrames)]
         /\ initialized' \in [Conns -> BOOLEAN]
         /\ requests' \in [Methods \cup {"invalid"} -> Nat]
         /\ pc' = [pc EXCEPT ![c] = IF outbox'[c] = <<>> THEN "reading" ELSE "writing"]
         /\ outbox'[c] = Replies(m, read'[c], initialized[c], called)
         /\ \A d \in Conns \ {c} : outbox'[d] = outbox[d] /\ initialized'[d] = initialized[d]
         /\ initialized'[c] = InitializedAfter(m, initialized[c])
<1> USE DEF TypeOK
<1>1. Replies(m, read'[c], initialized[c], called) \in Seq(ReplyFrames)
  BY RepliesAreFrames
<1>2. outbox' = [outbox EXCEPT ![c] = Replies(m, read'[c], initialized[c], called)]
  BY DEF Dispatched
<1>3. InitializedAfter(m, initialized[c]) \in BOOLEAN
  BY DEF InitializedAfter
<1>4. MethodLabel(m) \in Methods \cup {"invalid"}
  <2>1. m.method \in Methods
    BY MessageFields
  <2> QED BY <2>1 DEF MethodLabel, Methods
<1>5. requests' \in [Methods \cup {"invalid"} -> Nat]
  BY <1>4 DEF Dispatched
<1>6. /\ initialized' \in [Conns -> BOOLEAN]
      /\ \A d \in Conns \ {c} : initialized'[d] = initialized[d]
      /\ initialized'[c] = InitializedAfter(m, initialized[c])
  BY <1>3 DEF Dispatched
<1>7. pc' = [pc EXCEPT ![c] = IF outbox'[c] = <<>> THEN "reading" ELSE "writing"]
  BY DEF Dispatched, Goto, AfterDispatch
<1> QED BY <1>1, <1>2, <1>5, <1>6, <1>7

\* A client's frame comes after those it has sent, and changes none of them.
LEMMA SendAppends ==
  ASSUME TypeOK, NEW c \in Conns, NEW f \in Sendable[c], Send(c, f)
  PROVE  /\ DOMAIN sent' = Conns
         /\ \A d \in Conns : sent'[d] \in Seq(Sendable[d])
         /\ Len(sent'[c]) = Len(sent[c]) + 1
         /\ \A d \in Conns \ {c} : sent'[d] = sent[d]
         /\ \A d \in Conns : \A i \in 1 .. Len(sent[d]) : sent'[d][i] = sent[d][i]
<1>1. sent[c] \in Seq(Sendable[c]) /\ DOMAIN sent = Conns
  BY DEF TypeOK
<1>2. sent' = [sent EXCEPT ![c] = Append(sent[c], f)]
  BY DEF Send
<1>3. DOMAIN sent' = Conns /\ sent'[c] = Append(sent[c], f)
      /\ \A d \in Conns \ {c} : sent'[d] = sent[d]
  BY <1>1, <1>2
<1>4. /\ sent'[c] \in Seq(Sendable[c])
      /\ Len(sent'[c]) = Len(sent[c]) + 1
      /\ \A i \in 1 .. Len(sent[c]) : sent'[c][i] = sent[c][i]
  BY <1>1, <1>3, AppendProperties
<1>5. \A d \in Conns : sent[d] \in Seq(Sendable[d])
  BY DEF TypeOK
<1> QED BY <1>3, <1>4, <1>5

\* The clients only add to what they sent.
LEMMA ClientsKeepTyped ==
  ASSUME Typed, NEW c \in Conns, Client(c)
  PROVE  Typed'
<1> USE DEF Typed, TypeOK
<1>1. ASSUME NEW f \in Sendable[c], Send(c, f)
      PROVE  Typed'
  <2>1. UNCHANGED <<closed, read, initialized, pc, outbox, wire, broken, requests, calls>>
        /\ Len(sent[c]) < MaxSent[c]
    BY <1>1 DEF Send
  <2>2. \A d \in Conns : Len(sent[d]) \in Nat /\ MaxSent[d] \in Nat
    BY ConnectionAssumption, LenProperties
  <2>3. \A d \in Conns : Len(sent'[d]) =< MaxSent[d] /\ read'[d] \in 0 .. Len(sent'[d])
    <3>1. \A d \in Conns : Len(sent[d]) =< MaxSent[d] /\ read[d] \in 0 .. Len(sent[d])
      OBVIOUS
    <3>2. /\ Len(sent'[c]) = Len(sent[c]) + 1
          /\ \A d \in Conns \ {c} : sent'[d] = sent[d]
      BY <1>1, SendAppends
    <3> QED BY ONLY <2>1, <2>2, <3>1, <3>2
  <2>4. TypeOK'
    BY <1>1, <2>1, <2>3, SendAppends
  <2>5. ASSUME NEW d \in Conns
        PROVE  read[d] > 0 => sent'[d][read'[d]] = sent[d][read[d]]
    BY <1>1, <2>1, <2>2, SendAppends
  <2>6. InFlight'
    BY <2>1, <2>5 DEF InFlight, InService
  <2> QED BY <2>4, <2>6
<1>2. CASE Close(c) \/ Break(c)
  <2>1. UNCHANGED <<sent, read, initialized, pc, outbox, wire, requests, calls>>
    BY <1>2 DEF Close, Break
  <2>2. closed' \in [Conns -> BOOLEAN] /\ broken' \in [Conns -> BOOLEAN]
    BY <1>2 DEF Close, Break
  <2> QED BY <2>1, <2>2 DEF InFlight, InService
<1> QED BY <1>1, <1>2 DEF Client

\* What the task needs of the frame it reads.
LEMMA FrameRead ==
  ASSUME Typed, NEW c \in Conns, ReadFrame(c)
  PROVE  /\ read[c] \in Nat /\ read[c] + 1 \in 1 .. Len(sent[c])
         /\ read' = [read EXCEPT ![c] = read[c] + 1]
         /\ read'[c] = read[c] + 1 /\ \A d \in Conns \ {c} : read'[d] = read[d]
         /\ pc[c] = "reading" /\ outbox[c] = <<>>
         /\ UNCHANGED <<clients, wire, calls>>
         /\ sent[c][read[c] + 1] \in Messages \cup NoMessages
<1>1. sent[c] \in Seq(Sendable[c]) /\ read[c] \in 0 .. Len(sent[c])
  BY DEF Typed, TypeOK
<1>2. read[c] < Len(sent[c]) /\ Len(sent[c]) \in Nat /\ read[c] \in Nat
  <2>1. Len(sent[c]) \in Nat
    BY <1>1, LenProperties
  <2>2. read[c] < Len(sent[c])
    BY DEF ReadFrame
  <2> QED BY <1>1, <2>1, <2>2
<1>3. read[c] + 1 \in 1 .. Len(sent[c])
  BY <1>1, <1>2
<1>4. sent[c][read[c] + 1] \in Sendable[c]
  BY <1>1, <1>3, ElementOfSeq
<1>5. Sendable[c] \subseteq Messages \cup NoMessages
  BY ConnectionAssumption
<1>6. read' = [read EXCEPT ![c] = read[c] + 1]
  BY DEF ReadFrame
<1>7. pc[c] = "reading" /\ outbox[c] = <<>> /\ UNCHANGED <<clients, wire, calls>>
  BY DEF ReadFrame, Ready, Typed, TypeOK
<1> QED BY <1>2, <1>3, <1>4, <1>5, <1>6, <1>7 DEF Typed, TypeOK

\* A Dispatch leaves everything typed, whenever it comes.
LEMMA DispatchedKeepsTyped ==
  ASSUME Typed, NEW c \in Conns, NEW m \in Messages, NEW called, Dispatched(c, m, called),
         DOMAIN read' = Conns, read'[c] \in 0 .. Len(sent[c]),
         \A d \in Conns \ {c} : read'[d] = read[d],
         UNCHANGED <<clients, wire>>,
         calls' \in [{"ok", "error", "tool_error"} -> Nat]
  PROVE  Typed'
<1> USE DEF Typed
<1>1. /\ outbox' \in [Conns -> Seq(ReplyFrames)]
      /\ initialized' \in [Conns -> BOOLEAN]
      /\ requests' \in [Methods \cup {"invalid"} -> Nat]
      /\ pc' = [pc EXCEPT ![c] = IF outbox'[c] = <<>> THEN "reading" ELSE "writing"]
      /\ \A d \in Conns \ {c} : outbox'[d] = outbox[d] /\ initialized'[d] = initialized[d]
  <2>1. read'[c] \in Nat
    OBVIOUS
  <2> QED BY <2>1, DispatchedTypes
<1>2. UNCHANGED <<sent, closed, broken>>
  BY DEF clients
<1>3. TypeOK'
  <2>1. \A d \in Conns : Len(sent'[d]) =< MaxSent[d] /\ read'[d] \in 0 .. Len(sent'[d])
    BY <1>2 DEF TypeOK
  <2>2. pc' \in [Conns -> {"reading", "calling", "stopping", "writing", "refusing", "ended"}]
    BY <1>1 DEF TypeOK
  <2>3. \A d \in Conns : pc'[d] \in {"writing", "refusing"} <=> outbox'[d] # <<>>
    BY <1>1 DEF TypeOK
  <2> QED BY <1>1, <1>2, <2>1, <2>2, <2>3 DEF TypeOK
<1>4. InFlight'
  <2>1. pc'[c] \in {"reading", "writing"} /\ \A d \in Conns \ {c} : pc'[d] = pc[d]
    BY <1>1 DEF TypeOK
  <2> QED BY <1>1, <1>2, <2>1 DEF InFlight, InService
<1> QED BY <1>3, <1>4

\* Reading a frame leaves everything typed, whatever the frame (pump, ws_connection).
LEMMA ReadFrameKeepsTyped ==
  ASSUME Typed, NEW c \in Conns, ReadFrame(c)
  PROVE  Typed'
<1> DEFINE f == sent[c][read[c] + 1]
<1> USE DEF Typed
<1>1. /\ read[c] \in Nat /\ read[c] + 1 \in 1 .. Len(sent[c])
      /\ read' = [read EXCEPT ![c] = read[c] + 1] /\ read'[c] = read[c] + 1
      /\ \A d \in Conns \ {c} : read'[d] = read[d]
      /\ pc[c] = "reading" /\ outbox[c] = <<>>
      /\ UNCHANGED <<clients, wire, calls>>
  BY FrameRead
<1>2. UNCHANGED <<sent, closed, broken, wire, calls>>
  BY <1>1 DEF clients
<1>3. DOMAIN read' = Conns
      /\ \A d \in Conns : Len(sent'[d]) =< MaxSent[d] /\ read'[d] \in 0 .. Len(sent'[d])
  BY <1>1, <1>2 DEF TypeOK
<1>4. CASE UNCHANGED <<initialized, pc, outbox, requests>>
  BY <1>1, <1>2, <1>3, <1>4 DEF TypeOK, InFlight, InService
<1>5. ASSUME UNCHANGED <<initialized, requests>>,
             NEW box \in {<<>>, <<ParseError>>}, NEW to \in {"writing", "refusing", "ended"},
             box # <<>> <=> to # "ended", to = "refusing" => Kind[c] = "framed",
             outbox' = [outbox EXCEPT ![c] = box], Goto(c, to)
      PROVE  Typed'
  <2>1. outbox' \in [Conns -> Seq(ReplyFrames)]
    <3>1. <<>> \in Seq(ReplyFrames)
      OBVIOUS
    <3>2. box \in Seq(ReplyFrames)
      BY <1>5, <3>1, ParseErrorIsFrame
    <3> QED BY <1>5, <3>2 DEF TypeOK
  <2>2. pc' = [pc EXCEPT ![c] = to]
    BY <1>5 DEF Goto
  <2>3. /\ pc' \in [Conns -> {"reading", "calling", "stopping", "writing", "refusing", "ended"}]
        /\ pc'[c] = to /\ \A d \in Conns \ {c} : pc'[d] = pc[d]
    BY <1>5, <2>2 DEF TypeOK
  <2>4. \A d \in Conns : pc'[d] \in {"writing", "refusing"} <=> outbox'[d] # <<>>
    BY <1>5, <2>3 DEF TypeOK
  <2>5. TypeOK'
    BY <1>2, <1>3, <1>5, <2>1, <2>3, <2>4 DEF TypeOK
  <2>6. InFlight'
    BY <1>1, <1>2, <1>5, <2>3 DEF InFlight, InService
  <2> QED BY <2>5, <2>6
<1>6. CASE f \in Messages /\ Route(c, f)
  <2>1. CASE Dispatched(c, f, Failure("Tool"))
    <3>1. read'[c] \in 0 .. Len(sent[c]) /\ calls' \in [{"ok", "error", "tool_error"} -> Nat]
      BY <1>1, <1>2 DEF TypeOK
    <3> QED BY <1>1, <1>3, <1>6, <2>1, <3>1, DispatchedKeepsTyped
  <2>2. ASSUME UNCHANGED <<initialized, outbox, requests>>, NEW to \in {"calling", "stopping"},
               Goto(c, to), to = "calling" => AwaitsCall(f, initialized[c]),
               to = "stopping" => AwaitsShutdown(f)
        PROVE  Typed'
    <3>1. /\ pc' \in [Conns -> {"reading", "calling", "stopping", "writing", "refusing", "ended"}]
          /\ pc'[c] = to /\ \A d \in Conns \ {c} : pc'[d] = pc[d]
      BY <2>2 DEF TypeOK, Goto
    <3>2. \A d \in Conns : pc'[d] \in {"writing", "refusing"} <=> outbox'[d] # <<>>
      BY <1>1, <2>2, <3>1 DEF TypeOK
    <3>3. TypeOK'
      BY <1>2, <1>3, <2>2, <3>1, <3>2 DEF TypeOK
    <3>4. InFlight'
      BY <1>1, <1>2, <1>6, <2>2, <3>1 DEF InFlight, InService
    <3> QED BY <3>3, <3>4
  <2> QED BY <1>6, <2>1, <2>2 DEF Route
<1> QED
  <2>1. CASE f.method = "bad frame" /\ Goto(c, AfterBadFrame(Kind[c]))
               /\ outbox' = [outbox EXCEPT ![c] =
                               IF Kind[c] = "framed" THEN <<ParseError>> ELSE <<>>]
               /\ UNCHANGED <<initialized, requests>>
    BY <1>5, <2>1, ParseErrorIsFrame, ConnectionAssumption DEF AfterBadFrame
  <2>2. CASE outbox' = [outbox EXCEPT ![c] = <<ParseError>>] /\ Goto(c, "writing")
               /\ UNCHANGED <<initialized, requests>>
    BY <1>5, <2>2, ParseErrorIsFrame
  <2> QED BY <1>4, <1>6, <2>1, <2>2 DEF ReadFrame

\* The end of a connection that awaits a frame (pump, ws_connection).
LEMMA ReadEndsKeepsTyped ==
  ASSUME Typed, NEW c \in Conns, ReadEnds(c)
  PROVE  Typed'
<1> USE DEF Typed
<1>1. UNCHANGED <<sent, closed, broken, read, initialized, outbox, wire, requests, calls>>
  BY DEF ReadEnds, clients
<1>2. pc' = [pc EXCEPT ![c] = "ended"] /\ pc[c] = "reading"
  BY DEF ReadEnds, Goto
<1>3. TypeOK'
  BY <1>1, <1>2 DEF TypeOK
<1>4. InFlight'
  BY <1>1, <1>2 DEF TypeOK, InFlight, InService
<1> QED BY <1>3, <1>4

\* What a call returned goes under one of three outcomes (handle_tools_call).
LEMMA ResultKinds ==
  ASSUME NEW called \in Returns
  PROVE  CallOutcome(called) \in {"ok", "error", "tool_error"}
<1>1. called \in CallResults
  BY ConnectionAssumption
<1>2. CASE \E e \in BOOLEAN, n \in BOOLEAN : called = Reply(e, n)
  BY <1>2 DEF Reply, CallOutcome
<1>3. CASE \E v \in {"Tool", "InvalidParams", "Internal"} : called = Failure(v)
  BY <1>3 DEF Failure, CallOutcome
<1> QED BY <1>1, <1>2, <1>3 DEF CallResults

\* The answer of the service leaves everything typed (handle_tools_call, route).
LEMMA ServiceKeepsTyped ==
  ASSUME Typed, NEW c \in Conns, Service(c)
  PROVE  Typed'
<1> USE DEF Typed
<1>1. InService(c) => sent[c][read[c]] \in Messages /\ read[c] \in 0 .. Len(sent[c])
  BY DEF InFlight, TypeOK
<1>2. ASSUME NEW called \in Returns, CallReturns(c, called)
      PROVE  Typed'
  <2>1. CallOutcome(called) \in {"ok", "error", "tool_error"}
    BY <1>2, ResultKinds
  <2>2. calls' \in [{"ok", "error", "tool_error"} -> Nat]
    BY <1>2, <2>1 DEF CallReturns, CountCall, TypeOK
  <2>3. InService(c) /\ UNCHANGED read /\ UNCHANGED <<clients, wire>>
        /\ Dispatched(c, sent[c][read[c]], called)
    BY <1>2 DEF CallReturns, InService
  <2> QED BY <1>1, <2>2, <2>3, DispatchedKeepsTyped DEF TypeOK
<1>3. CASE ShutdownReturns(c)
  <2>1. InService(c) /\ UNCHANGED read /\ UNCHANGED <<clients, wire>> /\ calls' = calls
        /\ Dispatched(c, sent[c][read[c]], Failure("Tool"))
    BY <1>3 DEF ShutdownReturns, InService
  <2> QED BY <1>1, <2>1, DispatchedKeepsTyped DEF TypeOK
<1> QED BY <1>2, <1>3 DEF Service

\* Writing takes the replies from the outbox one by one, or drops them all.
LEMMA WritesKeepTyped ==
  ASSUME Typed, NEW c \in Conns, Write(c) \/ WriteFails(c)
  PROVE  Typed'
<1> USE DEF Typed
<1>1. /\ pc[c] \in {"writing", "refusing"} /\ outbox[c] # <<>>
      /\ outbox[c] \in Seq(ReplyFrames) /\ wire[c] \in Seq(ReplyFrames)
  BY DEF Write, WriteFails, TypeOK
<1>2. UNCHANGED <<sent, closed, broken, read, initialized, requests, calls>>
  BY DEF Write, WriteFails, clients
<1>3. <<>> \in Seq(ReplyFrames)
  OBVIOUS
<1>4. Head(outbox[c]) \in ReplyFrames /\ Tail(outbox[c]) \in Seq(ReplyFrames)
  BY <1>1, HeadTailProperties
<1>5. Append(wire[c], Head(outbox[c])) \in Seq(ReplyFrames)
  BY <1>1, <1>4
<1>6. outbox' \in [Conns -> Seq(ReplyFrames)] /\ wire' \in [Conns -> Seq(ReplyFrames)]
      /\ \A d \in Conns \ {c} : outbox'[d] = outbox[d]
  <2>1. CASE Write(c)
    BY <1>4, <1>5, <2>1 DEF Write, TypeOK
  <2>2. CASE WriteFails(c)
    BY <1>3, <2>2 DEF WriteFails, TypeOK
  <2> QED BY <2>1, <2>2
<1>7. PICK to \in {"reading", "writing", "refusing", "ended"} : pc' = [pc EXCEPT ![c] = to]
  <2>1. CASE Write(c) /\ UNCHANGED pc
    <3>1. pc' = [pc EXCEPT ![c] = pc[c]]
      BY <2>1 DEF TypeOK
    <3> QED BY <1>1, <3>1
  <2> QED BY <2>1 DEF Write, WriteFails, Goto
<1>8. pc'[c] \in {"writing", "refusing"} <=> outbox'[c] # <<>>
  <2>1. CASE Write(c)
    BY <1>1, <2>1 DEF Write, Goto, TypeOK
  <2>2. CASE WriteFails(c)
    BY <2>2 DEF WriteFails, Goto, TypeOK
  <2> QED BY <2>1, <2>2
<1>9. TypeOK'
  BY <1>2, <1>6, <1>7, <1>8 DEF TypeOK
<1>10. InFlight'
  <2>1. pc'[c] = to /\ \A d \in Conns \ {c} : pc'[d] = pc[d]
    BY <1>7 DEF TypeOK
  <2>2. to = "refusing" => pc[c] = "refusing"
    BY <2>1 DEF Write, WriteFails, Goto, TypeOK
  <2> QED BY <1>2, <1>7, <2>1, <2>2 DEF InFlight, InService
<1> QED BY <1>9, <1>10

\* Every step leaves everything typed.
LEMMA NextKeepsTyped ==
  ASSUME Typed, [Next]_vars
  PROVE  Typed'
<1>1. CASE UNCHANGED vars
  BY <1>1 DEF Typed, TypeOK, InFlight, InService, vars
<1>2. ASSUME NEW c \in Conns, Task(c) \/ Service(c) \/ Client(c)
      PROVE  Typed'
  BY <1>2, ReadFrameKeepsTyped, ReadEndsKeepsTyped, ServiceKeepsTyped, WritesKeepTyped,
     ClientsKeepTyped DEF Task, Reads
<1> QED BY <1>1, <1>2 DEF Next

\* The state is typed, and what a task awaits the service for is the message it read
\* last, while the client sends on.
THEOREM InFlightIsLastRead == Spec => []Typed
<1>1. Init => Typed
  BY ConnectionAssumption DEF Init, Typed, TypeOK, InFlight, InService
<1> QED BY <1>1, NextKeepsTyped, PTL DEF Spec

\* The state of the connections and of the counters always has its type.
THEOREM ConnectionsTypeCorrect == Spec => []TypeOK
BY InFlightIsLastRead, PTL DEF Typed

-----------------------------------------------------------------------------
(* Each connection is a conversation *)

\* What Converses maps the state of a conversation to.
Count == [c \in Conns |-> IF InService(c) THEN read[c] - 1 ELSE read[c]]
Said == [c \in Conns |-> wire[c] \o outbox[c]]
Over == [c \in Conns |-> pc[c] \in {"refusing", "ended"}]

\* One connection is over or goes on, the others are as they were.
LEMMA OverAt ==
  ASSUME TypeOK, NEW c \in Conns, NEW to, pc' = [pc EXCEPT ![c] = to]
  PROVE  /\ to \in {"refusing", "ended"} => Over' = [Over EXCEPT ![c] = TRUE]
         /\ (to \in {"refusing", "ended"} <=> pc[c] \in {"refusing", "ended"}) => Over' = Over
         /\ pc'[c] = to /\ \A d \in Conns \ {c} : pc'[d] = pc[d]
<1> DEFINE IsOver(p) == p \in {"refusing", "ended"}
<1>1. pc'[c] = to /\ \A d \in Conns \ {c} : pc'[d] = pc[d]
  BY DEF TypeOK
<1>2. /\ Over = [d \in Conns |-> IsOver(pc[d])]
      /\ Over' = [d \in Conns |-> IsOver(pc'[d])]
  BY DEF Over
<1>3. ASSUME NEW p
      PROVE  (IsOver(p) => IsOver(p) = TRUE) /\ (~IsOver(p) => IsOver(p) = FALSE)
  <2>1. IsOver(p) => IsOver(p) = TRUE
    OBVIOUS
  <2>2. ~IsOver(p) => IsOver(p) = FALSE
    OBVIOUS
  <2> QED BY <2>1, <2>2
<1> HIDE DEF IsOver
<1>4. ASSUME IsOver(to) <=> IsOver(pc[c])
      PROVE  IsOver(to) = IsOver(pc[c])
  <2>1. CASE IsOver(to)
    BY <1>3, <1>4, <2>1, Zenon
  <2>2. CASE ~IsOver(to)
    BY <1>3, <1>4, <2>2, Zenon
  <2> QED BY <2>1, <2>2
<1>5. ASSUME IsOver(to)
      PROVE  Over' = [Over EXCEPT ![c] = TRUE]
  <2>1. ASSUME NEW d \in Conns
        PROVE  IsOver(pc'[d]) = IF d = c THEN TRUE ELSE IsOver(pc[d])
    <3>1. CASE d = c
      BY <1>1, <1>3, <1>5, <3>1
    <3>2. CASE d # c
      BY <1>1, <3>2
    <3> QED BY <3>1, <3>2
  <2>2. Over' = [d \in Conns |-> IF d = c THEN TRUE ELSE IsOver(pc[d])]
    BY <1>2, <2>1
  <2> QED BY <1>2, <2>2
<1>6. ASSUME IsOver(to) = IsOver(pc[c])
      PROVE  Over' = Over
  <2>1. ASSUME NEW d \in Conns
        PROVE  IsOver(pc'[d]) = IsOver(pc[d])
    BY <1>1, <1>6, Zenon
  <2> QED BY <1>2, <2>1
<1> QED BY <1>1, <1>4, <1>5, <1>6 DEF IsOver

\* The first reply on the wire and the rest to come are what was said before.
LEMMA WrittenIsSaid ==
  ASSUME NEW S, NEW w \in Seq(S), NEW o \in Seq(S), o # <<>>
  PROVE  Append(w, Head(o)) \o Tail(o) = w \o o
<1> DEFINE h == Head(o)
           v == Tail(o)
           u == Append(w, h)
           s == u \o v
           t == w \o o
<1>1. /\ h \in S /\ v \in Seq(S) /\ Len(v) = Len(o) - 1
      /\ \A i \in 1 .. Len(v) : v[i] = o[i + 1]
  BY HeadTailProperties
<1>2. Len(w) \in Nat /\ Len(o) \in Nat /\ Len(o) > 0 /\ h = o[1]
  BY EmptySeq, LenProperties
<1> HIDE DEF h, v
<1>3. /\ u \in Seq(S) /\ Len(u) = Len(w) + 1 /\ u[Len(w) + 1] = h
      /\ \A i \in 1 .. Len(w) : u[i] = w[i]
  BY <1>1, AppendProperties
<1> HIDE DEF u
<1>4. /\ s \in Seq(S) /\ Len(s) = Len(u) + Len(v)
      /\ \A i \in 1 .. Len(u) + Len(v) : s[i] = IF i <= Len(u) THEN u[i] ELSE v[i - Len(u)]
  BY <1>1, <1>3, ConcatProperties
<1>5. /\ t \in Seq(S) /\ Len(t) = Len(w) + Len(o)
      /\ \A i \in 1 .. Len(w) + Len(o) : t[i] = IF i <= Len(w) THEN w[i] ELSE o[i - Len(w)]
  BY ConcatProperties
<1> HIDE DEF s, t
<1>6. ASSUME NEW i \in 1 .. Len(w) + Len(o)
      PROVE  s[i] = t[i]
  <2>1. i \in 1 .. Len(u) + Len(v)
    BY <1>1, <1>2, <1>3
  <2>2. /\ s[i] = IF i <= Len(w) + 1 THEN u[i] ELSE v[i - (Len(w) + 1)]
        /\ t[i] = IF i <= Len(w) THEN w[i] ELSE o[i - Len(w)]
    BY <1>3, <1>4, <1>5, <2>1
  <2>3. CASE i <= Len(w)
    BY <1>2, <1>3, <2>2, <2>3
  <2>4. CASE i = Len(w) + 1
    BY <1>2, <1>3, <2>2, <2>4
  <2>5. CASE i > Len(w) + 1
    <3>1. i - (Len(w) + 1) \in 1 .. Len(v) /\ (i - (Len(w) + 1)) + 1 = i - Len(w)
      BY <1>1, <1>2, <2>5
    <3>2. s[i] = v[i - (Len(w) + 1)]
      BY <1>2, <2>2, <2>5
    <3>3. t[i] = o[i - Len(w)]
      BY <1>2, <2>2, <2>5
    <3> QED BY <1>1, <3>1, <3>2, <3>3
  <2> QED BY <1>2, <2>3, <2>4, <2>5
<1>7. s = t
  BY <1>1, <1>2, <1>3, <1>4, <1>5, <1>6, SeqEqual
<1> QED BY <1>7 DEF s, t, u, v, h

\* A sequence is the beginning of any that agrees with it as far as it goes.
LEMMA PrefixIsSubSeq ==
  ASSUME NEW S, NEW w \in Seq(S), NEW t, \A i \in 1 .. Len(w) : t[i] = w[i]
  PROVE  SubSeq(t, 1, Len(w)) = w
<1> DEFINE s == SubSeq(t, 1, Len(w))
<1>1. Len(w) \in Nat /\ \A i \in 1 .. Len(w) : w[i] \in S
  BY LenProperties, ElementOfSeq
<1>2. /\ s \in Seq(S) /\ Len(s) = IF 1 <= Len(w) THEN Len(w) - 1 + 1 ELSE 0
      /\ \A i \in 1 .. Len(w) - 1 + 1 : s[i] = t[1 + i - 1]
  BY <1>1, SubSeqProperties
<1> HIDE DEF s
<1>3. Len(s) = Len(w) /\ \A i \in 1 .. Len(s) : s[i] = w[i]
  BY <1>1, <1>2
<1>4. s = w
  BY <1>2, <1>3, SeqEqual
<1> QED BY <1>4 DEF s

\* What is on the wire is the beginning of what was said.
LEMMA WireIsPrefix ==
  ASSUME NEW S, NEW w \in Seq(S), NEW o \in Seq(S)
  PROVE  /\ Len(w) \in 0 .. Len(w \o o)
         /\ SubSeq(w \o o, 1, Len(w)) = w
<1> DEFINE t == w \o o
<1>1. Len(w) \in Nat /\ Len(o) \in Nat
  BY LenProperties
<1>2. /\ t \in Seq(S) /\ Len(t) = Len(w) + Len(o)
      /\ \A i \in 1 .. Len(w) + Len(o) : t[i] = IF i <= Len(w) THEN w[i] ELSE o[i - Len(w)]
  BY ConcatProperties
<1> HIDE DEF t
<1>3. \A i \in 1 .. Len(w) : t[i] = w[i]
  BY <1>1, <1>2
<1>4. SubSeq(t, 1, Len(w)) = w
  BY <1>3, PrefixIsSubSeq
<1> QED BY <1>1, <1>2, <1>4 DEF t

\* The steps of a client are those of the conversation's, or no step of it (Close).
LEMMA ClientsConverse ==
  ASSUME Typed, NEW c \in Conns, Client(c)
  PROVE  Abstract!Send(c) \/ Abstract!Break(c) \/ UNCHANGED Abstract!vars
<1> USE DEF Typed
<1>1. UNCHANGED <<read, initialized, pc, outbox, wire>>
  BY DEF Client, Send, Close, Break
<1>2. Count' = Count /\ Said' = Said /\ Over' = Over
  BY <1>1 DEF Count, Said, Over, InService
<1>3. ASSUME NEW f \in Sendable[c], Send(c, f)
      PROVE  Abstract!Send(c)
  <2>1. /\ Len(sent'[c]) = Len(sent[c]) + 1
        /\ \A d \in Conns \ {c} : sent'[d] = sent[d]
        /\ \A i \in 1 .. Len(sent[c]) : sent'[c][i] = sent[c][i]
    BY <1>3, SendAppends
  <2>2. sent[c] \in Seq(Sendable[c])
    BY DEF TypeOK
  <2>3. Len(sent[c]) \in Nat /\ \A i \in 1 .. Len(sent[c]) : sent[c][i] \in Sendable[c]
    BY <2>2, LenProperties, ElementOfSeq
  <2>4. SubSeq(sent'[c], 1, Len(sent[c])) = sent[c]
    BY <2>1, <2>2, <2>3, PrefixIsSubSeq
  <2>5. UNCHANGED broken
    BY <1>3 DEF Send
  <2> QED BY <1>1, <1>2, <2>1, <2>4, <2>5 DEF Abstract!Send, Count, Said, Over
<1>4. CASE Close(c)
  <2>1. UNCHANGED <<sent, broken>>
    BY <1>4 DEF Close
  <2> QED BY <1>1, <1>2, <2>1 DEF Abstract!vars, Count, Said, Over
<1>5. CASE Break(c)
  <2>1. UNCHANGED sent /\ broken' = [broken EXCEPT ![c] = TRUE]
    BY <1>5 DEF Break
  <2> QED BY <1>1, <1>2, <2>1 DEF Abstract!Break, Count, Said, Over
<1> QED BY <1>3, <1>4, <1>5 DEF Client

\* The end of the stream ends the conversation.
LEMMA ReadEndsConverses ==
  ASSUME Typed, NEW c \in Conns, ReadEnds(c)
  PROVE  Abstract!End(c)
<1> USE DEF Typed
<1>1. UNCHANGED <<sent, broken, read, initialized, outbox, wire>>
  BY DEF ReadEnds, clients
<1>2. pc[c] = "reading" /\ pc' = [pc EXCEPT ![c] = "ended"]
  BY DEF ReadEnds, Goto
<1>3. /\ Over' = [Over EXCEPT ![c] = TRUE]
      /\ pc'[c] = "ended" /\ \A d \in Conns \ {c} : pc'[d] = pc[d]
  BY <1>2, OverAt
<1>4. Count' = Count /\ Said' = Said
  BY <1>1, <1>2, <1>3 DEF Count, Said, InService
<1> QED BY <1>1, <1>3, <1>4 DEF Abstract!End, Count, Said, Over

\* A reply written was said before, and one lost is lost to a client that is gone.
LEMMA WritesConverse ==
  ASSUME Typed, NEW c \in Conns, Write(c) \/ WriteFails(c)
  PROVE  Abstract!End(c) \/ Abstract!Lose(c) \/ UNCHANGED Abstract!vars
<1> USE DEF Typed
<1>1. UNCHANGED <<sent, broken, read, initialized>>
  BY DEF Write, WriteFails, clients
<1>2. pc[c] \in {"writing", "refusing"} /\ outbox[c] # <<>>
      /\ outbox[c] \in Seq(ReplyFrames) /\ wire[c] \in Seq(ReplyFrames)
  BY DEF Write, WriteFails, TypeOK
<1>3. CASE Write(c)
  <2>1. /\ wire' = [wire EXCEPT ![c] = Append(wire[c], Head(outbox[c]))]
        /\ outbox' = [outbox EXCEPT ![c] = Tail(outbox[c])]
    BY <1>3 DEF Write
  <2>2. Said' = Said
    <3>1. wire'[c] \o outbox'[c] = wire[c] \o outbox[c]
      <4>1. wire'[c] = Append(wire[c], Head(outbox[c])) /\ outbox'[c] = Tail(outbox[c])
        BY <2>1 DEF TypeOK
      <4>2. Append(wire[c], Head(outbox[c])) \o Tail(outbox[c]) = wire[c] \o outbox[c]
        BY <1>2, WrittenIsSaid
      <4> QED BY <4>1, <4>2
    <3>2. \A d \in Conns : wire'[d] \o outbox'[d] = wire[d] \o outbox[d]
      BY <2>1, <3>1 DEF TypeOK
    <3> QED BY <3>2 DEF Said
  <2>3. pc' = pc \/ pc' = [pc EXCEPT ![c] = IF pc[c] = "refusing" THEN "ended" ELSE "reading"]
    BY <1>3 DEF Write, Goto
  <2>4. Over' = Over /\ pc'[c] \notin {"calling", "stopping"}
        /\ \A d \in Conns \ {c} : pc'[d] = pc[d]
    <3>1. CASE pc' = pc
      BY <1>2, <3>1 DEF Over
    <3>2. CASE pc' = [pc EXCEPT ![c] = IF pc[c] = "refusing" THEN "ended" ELSE "reading"]
      BY <1>2, <3>2, OverAt
    <3> QED BY <2>3, <3>1, <3>2
  <2>5. Count' = Count
    BY <1>1, <1>2, <2>4 DEF Count, InService
  <2> QED BY <1>1, <2>2, <2>4, <2>5 DEF Abstract!vars, Count, Said, Over
<1>4. CASE WriteFails(c)
  <2>1. /\ broken[c] /\ UNCHANGED wire /\ outbox' = [outbox EXCEPT ![c] = <<>>]
    BY <1>4 DEF WriteFails
  <2>2. PICK to \in {"reading", "ended"} : pc' = [pc EXCEPT ![c] = to]
                                          /\ (to = "reading" => Kind[c] = "websocket")
    BY <1>4 DEF WriteFails, Goto
  <2>3. pc'[c] = to /\ \A d \in Conns \ {c} : pc'[d] = pc[d]
    BY <2>2, OverAt
  <2>4. Count' = Count
    BY <1>1, <1>2, <2>2, <2>3 DEF Count, InService
  <2>5. /\ \A d \in Conns : Over[d] => Over'[d]
        /\ \A d \in Conns \ {c} : Over'[d] = Over[d]
    <3>1. pc[c] = "refusing" => to = "ended"
      BY <2>2 DEF InFlight
    <3>2. \A d \in Conns : pc[d] \in {"refusing", "ended"} => pc'[d] \in {"refusing", "ended"}
      BY <1>2, <2>2, <2>3, <3>1
    <3>3. \A d \in Conns \ {c} : (pc'[d] \in {"refusing", "ended"})
                                   = (pc[d] \in {"refusing", "ended"})
      BY <2>3
    <3> QED BY <3>2, <3>3 DEF Over
  <2>6. PICK n \in 0 .. Len(Said[c]) : Said' = [Said EXCEPT ![c] = SubSeq(Said[c], 1, n)]
    <3>1. /\ Said[c] = wire[c] \o outbox[c]
          /\ Len(wire[c]) \in 0 .. Len(Said[c])
          /\ SubSeq(Said[c], 1, Len(wire[c])) = wire[c]
      BY <1>2, WireIsPrefix DEF Said
    <3>2. wire'[c] \o outbox'[c] = SubSeq(Said[c], 1, Len(wire[c]))
      BY <1>2, <2>1, <3>1, ConcatEmptySeq DEF TypeOK
    <3>3. \A d \in Conns \ {c} : wire'[d] \o outbox'[d] = wire[d] \o outbox[d]
      BY <2>1 DEF TypeOK
    <3>4. Said' = [Said EXCEPT ![c] = SubSeq(Said[c], 1, Len(wire[c]))]
      BY <3>2, <3>3 DEF Said
    <3> QED BY <3>1, <3>4
  <2>7. Abstract!Lose(c)
    BY <1>1, <2>1, <2>4, <2>5, <2>6 DEF Abstract!Lose, Count, Said, Over
  <2> QED BY <2>7
<1> QED BY <1>3, <1>4

\* The count goes on by one, and the replies come after what was said so far.
LEMMA HandledOne ==
  ASSUME Typed, NEW c \in Conns, pc[c] \in {"reading", "calling", "stopping"},
         read'[c] = Count[c] + 1, \A d \in Conns \ {c} : read'[d] = read[d],
         UNCHANGED wire,
         NEW to \in {"reading", "writing", "refusing", "ended"}, pc' = [pc EXCEPT ![c] = to],
         NEW box \in Seq(ReplyFrames), outbox' = [outbox EXCEPT ![c] = box]
  PROVE  /\ Count' = [Count EXCEPT ![c] = Count[c] + 1]
         /\ Said' = [Said EXCEPT ![c] = Said[c] \o box]
         /\ ~Over[c]
<1> USE DEF Typed
<1>1. pc'[c] = to /\ \A d \in Conns \ {c} : pc'[d] = pc[d]
  BY OverAt
<1>2. \A d \in Conns : Count'[d] = IF d = c THEN Count[c] + 1 ELSE Count[d]
  BY <1>1 DEF Count, InService
<1>3. Count' = [Count EXCEPT ![c] = Count[c] + 1]
  BY <1>2 DEF Count
<1>4. outbox[c] = <<>> /\ wire[c] \in Seq(ReplyFrames)
  BY DEF TypeOK
<1>5. wire[c] \o outbox[c] = wire[c]
  BY <1>4, ConcatEmptySeq
<1>6. Said[c] = wire[c] /\ outbox'[c] = box
      /\ \A d \in Conns \ {c} : outbox'[d] = outbox[d]
  BY <1>5 DEF Said, TypeOK
<1>7. \A d \in Conns : wire'[d] \o outbox'[d] = IF d = c THEN Said[c] \o box
                                                         ELSE wire[d] \o outbox[d]
  <2>1. wire'[c] \o outbox'[c] = Said[c] \o box
    BY <1>6
  <2>2. \A d \in Conns \ {c} : wire'[d] \o outbox'[d] = wire[d] \o outbox[d]
    BY <1>6
  <2> QED BY <2>1, <2>2
<1>8. Said' = [Said EXCEPT ![c] = Said[c] \o box]
  BY <1>7 DEF Said
<1>9. ~Over[c]
  BY DEF Over
<1> QED BY <1>3, <1>8, <1>9

\* The Session of the conversation is the one of the connections.
LEMMA SameFrames ==
  /\ Abstract!Messages = Messages /\ Abstract!CallResults = CallResults
  /\ Abstract!ParseError = ParseError
  /\ \A k, f : (Abstract!Skipped(k, f) <=> Skipped(k, f))
               /\ (Abstract!Garbled(k, f) <=> Garbled(k, f))
<1>1. Abstract!Messages = Messages
  BY DEF Abstract!Messages, Messages, Abstract!Message, Message, Abstract!Methods, Methods,
         Abstract!Versions, Versions, Abstract!NoVersion, NoVersion
<1>2. Abstract!CallResults = CallResults
  BY DEF Abstract!CallResults, CallResults, Abstract!Reply, Reply, Abstract!Failure, Failure
<1>3. Abstract!ParseError = ParseError
  BY DEF Abstract!ParseError, ParseError, Abstract!NullId, NullId
<1>4. ASSUME NEW k, NEW f
      PROVE  /\ Abstract!Skipped(k, f) <=> Skipped(k, f)
             /\ Abstract!Garbled(k, f) <=> Garbled(k, f)
  BY DEF Abstract!Skipped, Skipped, Abstract!Garbled, Garbled
<1> QED BY <1>1, <1>2, <1>3, <1>4

\* So are the replies and the handshake of that Session.
LEMMA SameReplies ==
  ASSUME NEW m, NEW id, NEW i, NEW called
  PROVE  /\ Abstract!Replies(m, id, i, called) = Replies(m, id, i, called)
         /\ Abstract!InitializedAfter(m, i) = InitializedAfter(m, i)
<1>1. Abstract!Latest = Latest /\ Abstract!Versions = Versions
  BY DEF Abstract!Latest, Latest, Abstract!Versions, Versions
<1>2. Abstract!Negotiated(m.version) = Negotiated(m.version)
  BY <1>1 DEF Abstract!Negotiated, Negotiated
<1>3. Abstract!Outcome(m, i, called) = Outcome(m, i, called)
  BY <1>2 DEF Abstract!Outcome, Outcome
<1>4. \A o : Abstract!Responses(m, id, o) = Responses(m, id, o)
  BY DEF Abstract!Responses, Responses, Abstract!NullId, NullId
<1>5. Abstract!Notifications(m, i, called) = Notifications(m, i, called)
  BY DEF Abstract!Notifications, Notifications, Abstract!AwaitsCall, AwaitsCall,
         Abstract!ListChanged, ListChanged, Abstract!NoId, NoId
<1>6. Abstract!Replies(m, id, i, called) = Replies(m, id, i, called)
  BY <1>3, <1>4, <1>5 DEF Abstract!Replies, Replies
<1>7. Abstract!InitializedAfter(m, i) = InitializedAfter(m, i)
  BY DEF Abstract!InitializedAfter, InitializedAfter
<1> QED BY <1>6, <1>7

\* A Dispatch is the handling of the next frame, wherever the task was when it came.
LEMMA DispatchConverses ==
  ASSUME Typed, NEW c \in Conns, NEW m \in Messages, NEW called \in CallResults,
         Dispatched(c, m, called), pc[c] \in {"reading", "calling", "stopping"},
         read'[c] = Count[c] + 1, \A d \in Conns \ {c} : read'[d] = read[d],
         Count[c] \in Nat, Count[c] < Len(sent[c]), m = sent[c][Count[c] + 1],
         UNCHANGED <<clients, wire>>
  PROVE  Abstract!Handle(c)
<1> DEFINE r == Replies(m, Count[c] + 1, initialized[c], called)
<1> USE DEF Typed
<1>1. initialized[c] \in BOOLEAN /\ UNCHANGED <<sent, broken, wire>>
  BY DEF TypeOK, clients
<1>2. r \in Seq(ReplyFrames)
  BY <1>1, RepliesAreFrames
<1>3. outbox' = [outbox EXCEPT ![c] = r]
      /\ initialized' = [initialized EXCEPT ![c] = InitializedAfter(m, initialized[c])]
  BY DEF Dispatched
<1>4. PICK to \in {"reading", "writing"} : pc' = [pc EXCEPT ![c] = to]
  BY DEF Dispatched, Goto, AfterDispatch
<1> HIDE DEF r
<1>5. /\ Count' = [Count EXCEPT ![c] = Count[c] + 1]
      /\ Said' = [Said EXCEPT ![c] = Said[c] \o r]
      /\ ~Over[c]
  BY <1>1, <1>2, <1>3, <1>4, HandledOne
<1>6. Over' = Over
  BY <1>4, OverAt
<1>7. UNCHANGED <<sent, broken, Over>>
  BY <1>1, <1>6
<1>8. \E k \in CallResults :
        Said' = [Said EXCEPT ![c] =
                   Said[c] \o Abstract!Replies(m, Count[c] + 1, initialized[c], k)]
  <2>1. Abstract!Replies(m, Count[c] + 1, initialized[c], called) = r
    BY SameReplies DEF r
  <2> QED BY <1>5, <2>1
<1>9. initialized' = [initialized EXCEPT ![c] = Abstract!InitializedAfter(m, initialized[c])]
  BY <1>3, SameReplies
<1> QED BY <1>5, <1>7, <1>8, <1>9, SameFrames DEF Abstract!Handle, Count, Said, Over

\* A call that is not made may have failed, for all that it matters.
LEMMA FailureIsResult == Failure("Tool") \in CallResults
BY DEF CallResults

\* The answer of the service completes the handling of the frame read last.
LEMMA ServiceConverses ==
  ASSUME Typed, NEW c \in Conns, Service(c)
  PROVE  Abstract!Handle(c)
<1> USE DEF Typed
<1>1. PICK called \in CallResults :
        InService(c) /\ UNCHANGED <<read, clients, wire>>
          /\ Dispatched(c, sent[c][read[c]], called)
  BY FailureIsResult, ConnectionAssumption DEF Service, CallReturns, ShutdownReturns, InService
<1>2. sent[c][read[c]] \in Messages /\ read[c] > 0 /\ read[c] \in 0 .. Len(sent[c])
  BY <1>1 DEF InFlight, TypeOK
<1>3. Len(sent[c]) \in Nat
  BY LenProperties DEF TypeOK
<1>4. Count[c] = read[c] - 1
  BY <1>1 DEF Count
<1>5. /\ Count[c] \in Nat /\ Count[c] < Len(sent[c]) /\ read[c] = Count[c] + 1
      /\ pc[c] \in {"reading", "calling", "stopping"}
  BY <1>1, <1>2, <1>3, <1>4 DEF InService
<1> QED BY <1>1, <1>2, <1>5, DispatchConverses

\* Reading a frame handles it, refuses it and ends the conversation, or leaves its
\* handling to the service's answer.
LEMMA ReadFrameConverses ==
  ASSUME Typed, NEW c \in Conns, ReadFrame(c)
  PROVE  Abstract!Handle(c) \/ Abstract!Reject(c) \/ UNCHANGED Abstract!vars
<1> DEFINE f == sent[c][read[c] + 1]
<1> USE DEF Typed
<1>1. /\ read[c] \in Nat /\ read[c] + 1 \in 1 .. Len(sent[c]) /\ read'[c] = read[c] + 1
      /\ \A d \in Conns \ {c} : read'[d] = read[d]
      /\ pc[c] = "reading" /\ outbox[c] = <<>>
      /\ UNCHANGED <<clients, wire>>
  BY FrameRead
<1>2. UNCHANGED <<sent, broken, wire>>
  BY <1>1 DEF clients
<1>3. Count[c] = read[c]
  BY <1>1 DEF Count, InService
<1>4. Len(sent[c]) \in Nat
  BY LenProperties DEF TypeOK
<1>5. read[c] < Len(sent[c]) /\ f = sent[c][Count[c] + 1]
  BY <1>1, <1>3, <1>4
<1>6. ParseError \in ReplyFrames /\ Said[c] \in Seq(ReplyFrames)
  BY ParseErrorIsFrame, ConcatProperties DEF Said, TypeOK
<1>7. Append(Said[c], ParseError) = Said[c] \o <<ParseError>>
  BY <1>6, AppendIsConcat
<1>8. CASE Skipped(Kind[c], f) /\ UNCHANGED <<initialized, pc, outbox, requests>>
  <2>1. Count' = [Count EXCEPT ![c] = Count[c] + 1]
    <3>1. \A d \in Conns : Count'[d] = IF d = c THEN Count[c] + 1 ELSE Count[d]
      BY <1>1, <1>8 DEF Count, InService
    <3> QED BY <3>1 DEF Count
  <2>2. Said' = Said /\ Over' = Over /\ ~Over[c]
    BY <1>1, <1>2, <1>8 DEF Said, Over
  <2>3. Abstract!Skipped(Kind[c], f)
    BY <1>8, SameFrames
  <2> QED BY <1>2, <1>3, <1>5, <1>8, <2>1, <2>2, <2>3 DEF Abstract!Handle, Count, Said, Over
<1>9. CASE /\ Garbled(Kind[c], f) /\ outbox' = [outbox EXCEPT ![c] = <<ParseError>>]
           /\ Goto(c, "writing") /\ UNCHANGED <<initialized, requests>>
  <2>1. pc' = [pc EXCEPT ![c] = "writing"]
    BY <1>9 DEF Goto
  <2>2. /\ Count' = [Count EXCEPT ![c] = Count[c] + 1]
        /\ Said' = [Said EXCEPT ![c] = Said[c] \o <<ParseError>>] /\ ~Over[c]
    BY <1>1, <1>2, <1>3, <1>9, <2>1, ParseErrorIsFrame, HandledOne
  <2>3. Over' = Over
    BY <1>1, <2>1, OverAt
  <2>4. Said' = [Said EXCEPT ![c] = Append(Said[c], Abstract!ParseError)]
    BY <1>7, <2>2, SameFrames
  <2>5. Abstract!Garbled(Kind[c], f)
    BY <1>9, SameFrames
  <2> QED BY <1>2, <1>3, <1>5, <1>9, <2>2, <2>3, <2>4, <2>5
          DEF Abstract!Handle, Count, Said, Over
<1>10. CASE /\ f.method = "bad frame" /\ Goto(c, AfterBadFrame(Kind[c]))
            /\ outbox' = [outbox EXCEPT ![c] =
                             IF Kind[c] = "framed" THEN <<ParseError>> ELSE <<>>]
            /\ UNCHANGED <<initialized, requests>>
  <2>1. PICK to \in {"refusing", "ended"} : pc' = [pc EXCEPT ![c] = to]
    BY <1>10 DEF Goto, AfterBadFrame
  <2>2. PICK box \in {<<>>, <<ParseError>>} : outbox' = [outbox EXCEPT ![c] = box]
    BY <1>10
  <2>3. box \in Seq(ReplyFrames)
    BY <2>2, ParseErrorIsFrame, EmptySeq
  <2>4. /\ Count' = [Count EXCEPT ![c] = Count[c] + 1]
        /\ Said' = [Said EXCEPT ![c] = Said[c] \o box] /\ ~Over[c]
    BY <1>1, <1>2, <1>3, <2>1, <2>2, <2>3, HandledOne
  <2>5. Over' = [Over EXCEPT ![c] = TRUE]
    BY <2>1, OverAt
  <2>6. Said' = [Said EXCEPT ![c] = Append(Said[c], Abstract!ParseError)] \/ Said' = Said
    <3>1. CASE box = <<ParseError>>
      BY <1>7, <2>4, <3>1, SameFrames
    <3>2. CASE box = <<>>
      <4>1. Said[c] \o box = Said[c]
        BY <1>6, <3>2, ConcatEmptySeq
      <4>2. Said' = [Said EXCEPT ![c] = Said[c]]
        BY <2>4, <4>1
      <4> QED BY <4>2 DEF Said
    <3> QED BY <2>2, <3>1, <3>2
  <2>7. Abstract!Reject(c)
    BY <1>2, <1>3, <1>5, <1>10, <2>4, <2>5, <2>6 DEF Abstract!Reject, Count, Said, Over
  <2> QED BY <2>7
<1>11. CASE f \in Messages /\ Route(c, f)
  <2>1. CASE Dispatched(c, f, Failure("Tool"))
    <3>1. Count[c] \in Nat /\ Count[c] < Len(sent[c]) /\ read'[c] = Count[c] + 1
      BY <1>1, <1>3, <1>5
    <3> QED BY <1>1, <1>5, <1>11, <2>1, <3>1, FailureIsResult, DispatchConverses
  <2>2. ASSUME UNCHANGED <<initialized, outbox, requests>>, NEW to \in {"calling", "stopping"},
               Goto(c, to)
        PROVE  UNCHANGED Abstract!vars
    <3>1. pc' = [pc EXCEPT ![c] = to]
      BY <2>2 DEF Goto
    <3>2. Over' = Over /\ pc'[c] = to /\ \A d \in Conns \ {c} : pc'[d] = pc[d]
      BY <1>1, <2>2, <3>1, OverAt
    <3>3. Count' = Count
      BY <1>1, <2>2, <3>2 DEF Count, InService
    <3>4. Said' = Said
      BY <1>2, <2>2 DEF Said
    <3> QED BY <1>2, <2>2, <3>2, <3>3, <3>4 DEF Abstract!vars, Count, Said, Over
  <2> QED BY <1>11, <2>1, <2>2 DEF Route
<1> QED BY <1>8, <1>9, <1>10, <1>11 DEF ReadFrame

\* Every step of a connection is one of its conversation, or none.
LEMMA NextConverses ==
  ASSUME Typed, [Next]_vars
  PROVE  [Abstract!Next]_(Abstract!vars)
<1>1. CASE UNCHANGED vars
  BY <1>1 DEF vars, Abstract!vars, InService
<1>2. ASSUME NEW c \in Conns, Task(c) \/ Service(c) \/ Client(c)
      PROVE  [Abstract!Next]_(Abstract!vars)
  BY <1>2, ReadFrameConverses, ReadEndsConverses, WritesConverse, ServiceConverses,
     ClientsConverse DEF Task, Reads, Abstract!Next
<1> QED BY <1>1, <1>2 DEF Next

\* Each connection implements its Conversation, whatever the others do and whenever
\* the service answers (pump, ws_connection, handle_message).
THEOREM EachConverses == Spec => Converses
<1>1. Init => Abstract!Init
  <2> SUFFICES ASSUME Init
               PROVE  Abstract!Init
    OBVIOUS
  <2>1. \A c \in Conns : wire[c] \o outbox[c] = <<>>
    <3>1. \A c \in Conns : wire[c] = <<>> /\ outbox[c] = <<>>
      BY DEF Init
    <3>2. <<>> \o <<>> = <<>>
      OBVIOUS
    <3> QED BY <3>1, <3>2
  <2>2. Count = [c \in Conns |-> 0] /\ Said = [c \in Conns |-> <<>>]
    BY <2>1 DEF Init, Count, Said, InService
  <2>3. Over = [c \in Conns |-> FALSE]
    <3>1. \A c \in Conns : (pc[c] \in {"refusing", "ended"}) = FALSE
      BY DEF Init
    <3> QED BY <3>1 DEF Over
  <2> QED BY <2>2, <2>3 DEF Init, Abstract!Init, Count, Said, Over
<1> QED BY <1>1, InFlightIsLastRead, NextConverses, PTL DEF Spec, Converses, Abstract!Spec
=============================================================================
