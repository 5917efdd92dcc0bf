-------------------------------- MODULE Stdio --------------------------------
(***************************************************************************)
(* One framed connection as its peer sees it: the frames it sends, the     *)
(* framing the reader settles on, the Session, a service that builds       *)
(* replies, and write_message (src/src/transport.rs) one write at a time.  *)
(* The loop is pump (src/src/runner.rs).  Connections has many of them     *)
(* and abstracts the bytes; FramedTransport has the reader, in bytes.      *)
(***************************************************************************)
EXTENDS Service

CONSTANTS
  Setups,       \* how the peer frames, and the ServerConfig
  Frames,       \* what the peer may send
  Results,      \* what call_tool may return
  Toolboxes,    \* the lists of tools the service may have, the first at the start
  MaxSent,      \* bound: the frames the peer sends,
  MaxAhead      \* and how many of them before they are handled

ASSUME StdioAssumption ==
  /\ Setups \subseteq [speaks : {"lines", "headers"}, config : ServerConfigs]
  /\ Frames \subseteq Messages \cup NoMessages
  /\ \A r \in Results : Called(r) \in CallResults
  /\ 1 \in DOMAIN Toolboxes /\ MaxSent \in Nat /\ MaxAhead \in Nat

VARIABLES
  setup,
  sent,         \* the frames of the peer, one after the other
  handled,      \* how many of them were handled
  framing,      \* field of the transport: Auto, Newline or ContentLength
  initialized,  \* field of the Session
  tools,        \* the service's tools
  pc,           \* reading, calling, stopping, writing, refusing or ended
  outbox,       \* responses and notifications not yet written
  out,          \* the writes that reached the peer
  broken,       \* the peer is gone, or the process has been told to stop
  fault,        \* why pump ended: none, framing, read or write
  returned      \* history: what call_tool returned, and the tools from then on

vars == <<setup, sent, handled, framing, initialized, tools, pc, outbox, out, broken,
          fault, returned>>
service == <<tools, returned>>
peer == <<setup, sent, broken>>

Init ==
  /\ setup \in Setups
  /\ sent = <<>> /\ handled = 0
  /\ framing = "Auto"
  /\ initialized = FALSE
  /\ tools = Toolboxes[1]
  /\ pc = "reading"
  /\ outbox = <<>> /\ out = <<>>
  /\ broken = FALSE /\ fault = "none"
  /\ returned = <<>>

-----------------------------------------------------------------------------
(* The peer *)

Send(f) ==
  /\ pc # "ended" /\ Len(sent) < MaxSent /\ Len(sent) - handled < MaxAhead
  /\ sent' = Append(sent, f)
  /\ UNCHANGED <<setup, handled, framing, initialized, service, pc, outbox, out, broken,
                 fault>>

Break ==
  /\ ~broken /\ broken' = TRUE
  /\ UNCHANGED <<setup, sent, handled, framing, initialized, service, pc, outbox, out,
                 fault>>

-----------------------------------------------------------------------------
(* Reading *)

\* Mutant of Settled: framing is taken for lines until a header line is complete.
SettledLate(f, opened) ==
  IF framing # "Auto" THEN framing
  ELSE IF f.method \in {"blank", "bad frame"} THEN framing ELSE "Newline"

\* The framing after frame f.  A line that is blank or refused settles nothing, a
\* header that opens a frame does, whatever becomes of the frame.
Settled(f, opened) ==
  CASE framing # "Auto" -> framing
    [] framing = "Auto" /\ setup.speaks = "headers" ->
         IF opened THEN "ContentLength" ELSE "Auto"
    [] framing = "Auto" /\ setup.speaks = "lines" ->
         IF f.method \in {"blank", "bad frame"} THEN "Auto" ELSE "Newline"

AfterDispatch(replies) == IF replies = <<>> THEN "reading" ELSE "writing"

\* The Dispatch for message m is there; result is what its call returned, if it made one.
Dispatched(m, result) ==
  LET replies == Replies(m, handled', initialized, Called(result))
  IN  /\ handled' = handled + 1
      /\ initialized' = InitializedAfter(m, initialized)
      /\ outbox' = [i \in DOMAIN replies |->
                      Response(replies[i], m, setup.config, tools, result)]
      /\ pc' = AfterDispatch(replies)

NoResult == CallError("Tool", Absent)

Route(m) ==
  \/ /\ AwaitsCall(m, initialized) /\ pc' = "calling"
     /\ UNCHANGED <<handled, initialized, outbox>>
  \/ /\ AwaitsShutdown(m) /\ pc' = "stopping"
     /\ UNCHANGED <<handled, initialized, outbox>>
  \/ /\ ~AwaitsCall(m, initialized) /\ ~AwaitsShutdown(m)
     /\ Dispatched(m, NoResult)

Refusal == ErrorResponse(NullId, code["PARSE_ERROR"], "parse or framing error")

\* Mutant of Refuse: the error is returned and the peer not told.
RefuseSilently == outbox' = <<>> /\ pc' = "ended"

Refuse == outbox' = <<Refusal>> /\ pc' = "refusing"

\* read_message returns a frame, or refuses one; `opened` is FALSE if the refused line
\* was not even a header.
ReadFrame(opened) ==
  /\ pc = "reading" /\ handled < Len(sent)
  /\ LET f == sent[handled + 1]
     IN  /\ opened \/ f.method = "bad frame"
         /\ framing' = Settled(f, opened)
         /\ \/ /\ Skipped("framed", f) /\ handled' = handled + 1
               /\ UNCHANGED <<initialized, pc, outbox, fault>>
            \/ /\ Garbled("framed", f) /\ handled' = handled + 1
               /\ outbox' = <<Refusal>> /\ pc' = "writing"
               /\ UNCHANGED <<initialized, fault>>
            \/ /\ f.method = "bad frame" /\ handled' = handled + 1
               /\ Refuse /\ fault' = "framing"
               /\ UNCHANGED initialized
            \/ f \in Messages /\ Route(f) /\ UNCHANGED fault
  /\ UNCHANGED <<peer, service, out>>

ReadEof ==
  /\ pc = "reading" /\ handled = Len(sent)
  /\ pc' = "ended"
  /\ UNCHANGED <<peer, handled, framing, initialized, service, outbox, out, fault>>

\* Mutant of AfterError: an error is got over, and the next frame awaited.
AfterErrorGoOn == "reading"

\* pump returns the error.
AfterError == "ended"

\* An io error, perhaps with part of a frame read.
ReadFails ==
  /\ pc = "reading" /\ fault = "none"
  /\ pc' = AfterError /\ fault' = "read"
  /\ UNCHANGED <<peer, handled, framing, initialized, service, outbox, out>>

-----------------------------------------------------------------------------
(* The service *)

CallReturns(result, toolbox) ==
  /\ pc = "calling"
  /\ Dispatched(sent[handled + 1], result)
  /\ tools' = toolbox
  /\ returned' = Append(returned, [id |-> handled', result |-> result, tools |-> toolbox])
  /\ UNCHANGED <<peer, framing, out, fault>>

ShutdownReturns ==
  /\ pc = "stopping"
  /\ Dispatched(sent[handled + 1], NoResult)
  /\ UNCHANGED <<peer, framing, service, out, fault>>

-----------------------------------------------------------------------------
(* write_message *)

Piece(part, message) == [part |-> part, of |-> message]

\* The writes of a message, in the framing detected; a flush follows the last.
Pieces(message) ==
  IF framing = "ContentLength" THEN <<Piece("length", message), Piece("body", message)>>
                               ELSE <<Piece("body", message), Piece("newline", message)>>

NextPiece == Pieces(Head(outbox))[(Len(out) % 2) + 1]

Write ==
  /\ pc \in {"writing", "refusing"} /\ ~broken
  /\ out' = Append(out, NextPiece)
  /\ IF Len(out') % 2 = 1 THEN UNCHANGED <<outbox, pc>>
     ELSE /\ outbox' = Tail(outbox)
          /\ pc' = IF outbox' # <<>> THEN "writing"
                   ELSE IF pc = "refusing" THEN "ended" ELSE "reading"
  /\ UNCHANGED <<peer, handled, framing, initialized, service, fault>>

\* Mutant of FaultOfWrite: the last error is the one that pump returns.
FaultOfLastWrite == "write"

\* A refusal that cannot be written is ignored: the error stays what it was.
FaultOfWrite == IF pc = "refusing" THEN fault ELSE "write"

\* A write or the flush fails, or the future is dropped in it, with some of it written.
WriteFails ==
  /\ pc \in {"writing", "refusing"} /\ broken
  /\ \/ out' = Append(out, Piece("torn", Head(outbox)))
     \/ UNCHANGED out
  /\ outbox' = <<>> /\ pc' = AfterError /\ fault' = FaultOfWrite
  /\ UNCHANGED <<peer, handled, framing, initialized, service>>

\* The process stops while the task waits for a frame or for the service.
Dropped ==
  /\ pc \in {"reading", "calling", "stopping"} /\ broken
  /\ pc' = "ended"
  /\ UNCHANGED <<peer, handled, framing, initialized, service, outbox, out, fault>>

-----------------------------------------------------------------------------

Task ==
  (\E opened \in BOOLEAN : ReadFrame(opened)) \/ ReadEof \/ ReadFails
    \/ Write \/ WriteFails \/ Dropped

Toolbox == {Toolboxes[i] : i \in DOMAIN Toolboxes}

Callee == (\E r \in Results, t \in Toolbox : CallReturns(r, t)) \/ ShutdownReturns

Next == (\E f \in Frames : Send(f)) \/ Break \/ Task \/ Callee

Spec == Init /\ [][Next]_vars

-----------------------------------------------------------------------------
(* What must hold *)

\* The two writes of a message in the peer's own framing, and the messages it has so,
\* one after the other: it cannot tell where the next would begin after one it has not.
OwnFraming == IF setup.speaks = "headers" THEN <<"length", "body">> ELSE <<"body", "newline">>

Whole(k) == <<out[2 * k - 1].part, out[2 * k].part>> = OwnFraming

Arrived ==
  CHOOSE n \in 0 .. Len(out) \div 2 :
    (\A k \in 1 .. n : Whole(k)) /\ (n = Len(out) \div 2 \/ ~Whole(n + 1))

Received == [k \in 1 .. Arrived |-> out[2 * k].of]

\* The type invariant.
TypeOK ==
  /\ setup \in Setups /\ Len(sent) =< MaxSent
  /\ \A i \in DOMAIN sent : sent[i] \in Frames
  /\ handled \in 0 .. Len(sent)
  /\ framing \in {"Auto", IF setup.speaks = "lines" THEN "Newline" ELSE "ContentLength"}
  /\ initialized \in BOOLEAN /\ broken \in BOOLEAN
  /\ tools \in Toolbox
  /\ pc \in {"reading", "calling", "stopping", "writing", "refusing", "ended"}
  /\ pc \in {"writing", "refusing"} <=> outbox # <<>>
  /\ \A i \in DOMAIN out : out[i].part \in {"length", "body", "newline", "torn"}
  /\ fault \in {"none", "framing", "read", "write"}
  /\ Len(returned) =< handled

\* A header that never came through leaves the peer's framing unknown.
Unsettled == setup.speaks = "headers" /\ framing = "Auto"

\* write_message writes "using the detected framing" (transport.rs:198), two writes
\* a message: whatever fails in between, the peer can tell every message from the
\* next in the framing it uses itself, and only the last can be cut short.
WholeReplies ==
  /\ \A k \in 1 .. Len(out) \div 2 :
       LET first == out[2 * k - 1]  second == out[2 * k]
       IN  /\ first.of = second.of
           /\ \/ Whole(k)
              \/ Unsettled /\ first.of = Refusal
              \/ second.part = "torn" /\ 2 * k = Len(out) /\ pc = "ended"
  /\ Len(out) % 2 = 1 => pc \in {"writing", "refusing", "ended"}

\* After an error nothing is read any more, and nothing said but why (MC-4,
\* runner.rs:76-82): what is left of a half-read line or a half-written message
\* is never taken for the start of the next.  And it is that error that pump
\* returns, whatever comes of saying so (runner.rs:90-93).
FaultIsFinal ==
  [][fault # "none" =>
       /\ fault' = fault
       /\ handled' = handled /\ returned' = returned
       /\ out' # out => fault = "framing" /\ out'[Len(out')].of = Refusal]_vars

\* "Say so in the protocol first, best effort, so the peer gets a reason instead of
\* a stream that just stops" (runner.rs:80-82): a peer that still listens has it.
LastWord ==
  (pc = "ended" /\ fault = "framing" /\ ~broken /\ ~Unsettled) =>
    Received # <<>> /\ Received[Len(Received)] = Refusal

\* The toolbox when message id is answered: after the last call before it.
ToolsAt(id) ==
  LET before == {k \in DOMAIN returned : returned[k].id < id}
  IN  IF before = {} THEN Toolboxes[1] ELSE returned[Cardinality(before)].tools

\* r answers a request, under the request's own id.
Answers(r) == "id" \in DOMAIN r /\ r.id # NullId

\* r is what became of a call, a list of the tools there are, the answer to initialize.
Relays(r, call) ==
  CASE call.variant = "Internal" -> r.error.message = call.message
    [] call.variant \in {"Tool", "InvalidParams"} ->
         r.result["isError"] /\ r.result["content"][1]["text"] = call.message
    [] call.variant = "Ok" ->
         /\ r.result["isError"] = call.reply.is_error
         /\ "structuredContent" \in DOMAIN r.result
              <=> call.reply.structured_content # Absent

Lists(r, toolbox) ==
  /\ DOMAIN r.result["tools"] = DOMAIN toolbox
  /\ \A k \in DOMAIN toolbox : r.result["tools"][k]["name"] = toolbox[k].name

Introduces(r) ==
  r.result["serverInfo"] \ {"name", "version"} # {} => r.result["protocolVersion"] \in Modern

\* What r says of what was sent under its id, and of what was called under it.
Truthful(r) ==
  /\ \A k \in DOMAIN returned : returned[k].id = r.id => Relays(r, returned[k].result)
  /\ (sent[r.id].method = "tools/list" /\ "result" \in DOMAIN r) => Lists(r, ToolsAt(r.id))
  /\ sent[r.id].method = "initialize" => Introduces(r)

\* Only a fault the model cannot act on is an error of the protocol; any other
\* failure is content, marked as one, and a reply is given as the tool made it
\* (server.rs:372-381).  A list has the tools of that moment, and an answer to
\* initialize nothing that its version does not have (server.rs:289-292).
SaysWhatHappened == \A i \in DOMAIN Received : Answers(Received[i]) => Truthful(Received[i])

\* What the peer understands, or will: what is written to it in a framing that is
\* not its own it cannot.
Heard ==
  LET heard == IF Unsettled THEN <<>> ELSE Received \o outbox
  IN  [i \in DOMAIN heard |-> Understood(heard[i])]

Pipe == {"pipe"}
Abstract == INSTANCE Conversation
              WITH Conns <- Pipe, Kind <- [c \in Pipe |-> "framed"],
                   sent <- [c \in Pipe |-> sent],
                   handled <- [c \in Pipe |-> handled],
                   initialized <- [c \in Pipe |-> initialized],
                   replies <- [c \in Pipe |-> Heard],
                   broken <- [c \in Pipe |-> broken],
                   over <- [c \in Pipe |-> pc \in {"refusing", "ended"}]

\* Down to single writes and with what is said in it, a framed connection is the
\* conversation Connections is: notifications after the response, nothing lost
\* to a peer that listens (server.rs:70-75).
Converses == Abstract!Spec
=============================================================================
