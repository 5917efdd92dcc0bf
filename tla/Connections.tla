----------------------------- MODULE Connections -----------------------------
(***************************************************************************)
(* The connections of a serving process: one task per connection that      *)
(* reads a frame, has its Session handle it and writes what comes of it    *)
(* (pump, ws_connection in src/src/runner.rs), over one shared ServerCore. *)
(* A task is preempted wherever it awaits: the next frame, the service,    *)
(* and each write.                                                         *)
(***************************************************************************)
EXTENDS Session, FiniteSets

CONSTANTS
  Conns,
  Kind,         \* connection -> "framed" (stdio, unix) or "websocket"
  Sendable,     \* the frames each client sends
  Returns,      \* what the service's tools return
  MaxSent       \* bound: how many frames each client sends

ASSUME ConnectionAssumption ==
  /\ Kind \in [Conns -> {"framed", "websocket"}]
  /\ Sendable \in [Conns -> SUBSET (Messages \cup NoMessages)]
  /\ Returns \subseteq CallResults
  /\ MaxSent \in [Conns -> Nat]

VARIABLES
  sent, closed,   \* each client's frames so far, and whether it has closed
  read,           \* how many of them were read
  initialized,    \* field initialized of each Session
  pc,             \* reading, calling, stopping, writing, refusing or ended
  outbox,         \* replies not yet written
  wire,           \* replies written
  broken,         \* the client's end of the replies is gone
  requests, calls \* the counters, shared by the process

clients == <<sent, closed, broken>>
vars == <<sent, closed, read, initialized, pc, outbox, wire, broken, requests, calls>>

Init ==
  /\ sent = [c \in Conns |-> <<>>] /\ closed = [c \in Conns |-> FALSE]
  /\ read = [c \in Conns |-> 0]
  /\ initialized = [c \in Conns |-> FALSE]
  /\ pc = [c \in Conns |-> "reading"]
  /\ outbox = [c \in Conns |-> <<>>] /\ wire = [c \in Conns |-> <<>>]
  /\ broken = [c \in Conns |-> FALSE]
  /\ requests = [l \in Methods \cup {"invalid"} |-> 0]
  /\ calls = [o \in {"ok", "error", "tool_error"} |-> 0]

-----------------------------------------------------------------------------
(* The clients *)

Send(c, f) ==
  /\ ~closed[c] /\ Len(sent[c]) < MaxSent[c]
  /\ sent' = [sent EXCEPT ![c] = Append(@, f)]
  /\ UNCHANGED <<closed, read, initialized, pc, outbox, wire, broken, requests, calls>>

Close(c) ==
  /\ ~closed[c]
  /\ closed' = [closed EXCEPT ![c] = TRUE]
  /\ UNCHANGED <<sent, read, initialized, pc, outbox, wire, broken, requests, calls>>

Break(c) ==
  /\ ~broken[c]
  /\ broken' = [broken EXCEPT ![c] = TRUE]
  /\ UNCHANGED <<sent, closed, read, initialized, pc, outbox, wire, requests, calls>>

-----------------------------------------------------------------------------
(* Reading a frame *)

Goto(c, to) == pc' = [pc EXCEPT ![c] = to]

\* Mutant of AfterBadFrame: a frame that is no frame is got over.
AfterBadFrameGoOn(kind) == IF kind = "framed" THEN "writing" ELSE "reading"

\* pump says why and returns the error; the websocket loop just ends.
AfterBadFrame(kind) == IF kind = "framed" THEN "refusing" ELSE "ended"

\* Mutant of AfterDispatch: an empty Dispatch is waited for.
AfterDispatchAlwaysWrite(replies) == "writing"

AfterDispatch(replies) == IF replies = <<>> THEN "reading" ELSE "writing"

\* The Dispatch is there: its replies are to be written, and it was counted.
Dispatched(c, m, called) ==
  /\ outbox' = [outbox EXCEPT ![c] = Replies(m, read'[c], initialized[c], called)]
  /\ initialized' = [initialized EXCEPT ![c] = InitializedAfter(m, @)]
  /\ requests' = [requests EXCEPT ![MethodLabel(m)] = @ + 1]
  /\ Goto(c, AfterDispatch(outbox'[c]))

\* The frame, if it is a message: route runs up to its first await.
Route(c, m) ==
  \/ AwaitsCall(m, initialized[c]) /\ Goto(c, "calling")
       /\ UNCHANGED <<initialized, outbox, requests>>
  \/ AwaitsShutdown(m) /\ Goto(c, "stopping")
       /\ UNCHANGED <<initialized, outbox, requests>>
  \/ /\ ~AwaitsCall(m, initialized[c]) /\ ~AwaitsShutdown(m)
     /\ Dispatched(c, m, Failure("Tool"))   \* no call was made: never looked at

\* Mutant of Ready: the service is behind a lock that a call holds.
ReadyUnlessLocked(c) == pc[c] = "reading" /\ \A d \in Conns : pc[d] # "calling"

\* The task awaits its next frame, whatever the other tasks do.
Ready(c) == pc[c] = "reading"

ReadFrame(c) ==
  /\ Ready(c) /\ read[c] < Len(sent[c])
  /\ read' = [read EXCEPT ![c] = @ + 1]
  /\ LET f == sent[c][read[c] + 1]
     IN  \/ Skipped(Kind[c], f) /\ UNCHANGED <<initialized, pc, outbox, requests>>
         \/ /\ Garbled(Kind[c], f)
            /\ outbox' = [outbox EXCEPT ![c] = <<ParseError>>]
            /\ Goto(c, "writing") /\ UNCHANGED <<initialized, requests>>
         \/ /\ f.method = "bad frame"
            /\ Goto(c, AfterBadFrame(Kind[c]))
            /\ outbox' = [outbox EXCEPT ![c] =
                             IF Kind[c] = "framed" THEN <<ParseError>> ELSE <<>>]
            /\ UNCHANGED <<initialized, requests>>
         \/ f \in Messages /\ Route(c, f)
  /\ UNCHANGED <<clients, wire, calls>>

\* The client has closed, or the read fails: either way nothing is said.
ReadEnds(c) ==
  /\ pc[c] = "reading"
  /\ (closed[c] /\ read[c] = Len(sent[c])) \/ broken[c]
  /\ Goto(c, "ended")
  /\ UNCHANGED <<clients, read, initialized, outbox, wire, requests, calls>>

-----------------------------------------------------------------------------
(* The service answers, when it does *)

\* Mutant of CountCall: a call that failed is not counted.
CountCallIfOk(called) ==
  IF called.variant = "Ok" THEN [calls EXCEPT !["ok"] = @ + 1] ELSE calls

CountCall(called) == [calls EXCEPT ![CallOutcome(called)] = @ + 1]

CallReturns(c, called) ==
  /\ pc[c] = "calling"
  /\ calls' = CountCall(called)
  /\ UNCHANGED read
  /\ Dispatched(c, sent[c][read[c]], called)
  /\ UNCHANGED <<clients, wire>>

ShutdownReturns(c) ==
  /\ pc[c] = "stopping"
  /\ UNCHANGED read
  /\ Dispatched(c, sent[c][read[c]], Failure("Tool"))
  /\ UNCHANGED <<clients, wire, calls>>

-----------------------------------------------------------------------------
(* Writing the replies, one frame at a time *)

Write(c) ==
  /\ pc[c] \in {"writing", "refusing"} /\ ~broken[c]
  /\ wire' = [wire EXCEPT ![c] = Append(@, Head(outbox[c]))]
  /\ outbox' = [outbox EXCEPT ![c] = Tail(@)]
  /\ IF outbox'[c] # <<>> THEN UNCHANGED pc
     ELSE Goto(c, IF pc[c] = "refusing" THEN "ended" ELSE "reading")
  /\ UNCHANGED <<clients, read, initialized, requests, calls>>

\* A write that fails ends a framed connection.  A websocket connection goes on
\* after a notification or a parse error it could not send, but not after a
\* response.
WriteFails(c) ==
  /\ pc[c] \in {"writing", "refusing"} /\ broken[c]
  /\ outbox' = [outbox EXCEPT ![c] = <<>>]
  /\ Goto(c, IF Kind[c] = "websocket" /\ Head(outbox[c]) \in {ListChanged, ParseError}
               THEN "reading" ELSE "ended")
  /\ UNCHANGED <<clients, read, initialized, wire, requests, calls>>

-----------------------------------------------------------------------------

\* The steps of the connection's task.
Reads(c) == ReadFrame(c) \/ ReadEnds(c)

Task(c) == Reads(c) \/ Write(c) \/ WriteFails(c)

Service(c) == (\E called \in Returns : CallReturns(c, called)) \/ ShutdownReturns(c)

Client(c) == (\E f \in Sendable[c] : Send(c, f)) \/ Close(c) \/ Break(c)

Next == \E c \in Conns : Task(c) \/ Service(c) \/ Client(c)

Spec == Init /\ [][Next]_vars

\* The runtime polls a task whose frame is there.  The service may never answer,
\* and a write waits for a client that may never read it.
FairSpec == Spec /\ \A c \in Conns : WF_vars(Reads(c))

-----------------------------------------------------------------------------
(* What must hold *)

ReplyFrames == [id : Nat, what : Labels \cup Versions \cup {Latest}]

\* The type invariant.
TypeOK ==
  /\ DOMAIN sent = Conns /\ \A c \in Conns : sent[c] \in Seq(Sendable[c])
  /\ \A c \in Conns : Len(sent[c]) =< MaxSent[c] /\ read[c] \in 0 .. Len(sent[c])
  /\ DOMAIN read = Conns
  /\ closed \in [Conns -> BOOLEAN] /\ broken \in [Conns -> BOOLEAN]
  /\ initialized \in [Conns -> BOOLEAN]
  /\ pc \in [Conns -> {"reading", "calling", "stopping", "writing", "refusing", "ended"}]
  /\ outbox \in [Conns -> Seq(ReplyFrames)] /\ wire \in [Conns -> Seq(ReplyFrames)]
  /\ \A c \in Conns : pc[c] \in {"writing", "refusing"} <=> outbox[c] # <<>>
  /\ requests \in [Methods \cup {"invalid"} -> Nat]
  /\ calls \in [{"ok", "error", "tool_error"} -> Nat]

\* The messages of a client whose handling is complete.
InService(c) == pc[c] \in {"calling", "stopping"}
Handled(c) == 1 .. (IF InService(c) THEN read[c] - 1 ELSE read[c])

Answerable(m) == m \in Messages /\ m.hasId /\ m.method \notin {"initialized", "array"}

\* "a message with no id member is a notification and must never receive a
\* response" (server.rs:201-202), and every other gets one, once, in the order
\* asked, whatever the service does in between and on the other connections.
AnswersOnceInOrder ==
  \A c \in Conns :
    LET answers == {i \in DOMAIN wire[c] : wire[c][i].id # NullId}
        ids     == {wire[c][i].id : i \in answers}
        due     == {i \in Handled(c) : Answerable(sent[c][i])}
    IN  /\ \A i, j \in answers : i < j => wire[c][i].id < wire[c][j].id
        /\ ids \subseteq due
        /\ (pc[c] = "reading" /\ ~broken[c]) => ids = due

\* Some message before the i-th opened the session, and none since closed it.
Handshaken(c, i) ==
  \E j \in 1 .. i - 1 : /\ sent[c][j].method \in {"initialize", "initialized"}
                        /\ \A k \in j + 1 .. i - 1 : sent[c][k].method # "shutdown"

\* "two concurrent connections don't share" the handshake (server.rs:77-79): a
\* request reaches the tools exactly if its own connection has shaken hands,
\* and a call in flight never belongs to one that has not.
HandshakeGuardsTools ==
  \A c \in Conns :
    /\ pc[c] = "calling" => Handshaken(c, read[c])
    /\ \A i \in DOMAIN wire[c] :
         LET id == wire[c][i].id
         IN  (id # NullId /\ sent[c][id].method \in {"tools/list", "tools/call"}) =>
               (wire[c][i].what = "NOT_INITIALIZED" <=> ~Handshaken(c, id))

\* mcp.requests counts every message handled on any connection once, under one
\* label; mcp.tools.call counts every call that reached a tool (README, Metrics).
CountersAgree ==
  LET handled == UNION {{c} \X Handled(c) : c \in Conns}
      at(h)   == sent[h[1]][h[2]]
  IN  /\ \A l \in DOMAIN requests :
           requests[l] = Cardinality({h \in handled : at(h) \in Messages
                                                     /\ MethodLabel(at(h)) = l})
      /\ calls["ok"] + calls["error"] + calls["tool_error"] =
           Cardinality({h \in handled : at(h).method = "tools/call"
                                       /\ Handshaken(h[1], h[2])})

Abstract == INSTANCE Conversation
              WITH handled <- [c \in Conns |-> IF InService(c) THEN read[c] - 1 ELSE read[c]],
                   replies <- [c \in Conns |-> wire[c] \o outbox[c]],
                   over <- [c \in Conns |-> pc[c] \in {"refusing", "ended"}]

\* Each connection is a conversation: handled one frame at a time in order, its
\* notifications after its response (server.rs:72-74), nothing lost to a client
\* that listens.
Converses == Abstract!Spec

\* The client takes what is written to it, sooner or later, or is seen to be gone.
Takes(c) == []<>(pc[c] \notin {"writing", "refusing"})

\* A call that never returns silences its own connection and no other, and so
\* does a client that takes no replies: whoever takes its own has every frame
\* it sent read, unless its connection is in a call, or over (the spawn per
\* connection of serve_unix and axum).
OwnCallOnly ==
  \A c \in Conns :
    Takes(c) =>
      (read[c] < Len(sent[c]) ~> (read[c] = Len(sent[c]) \/ InService(c) \/ pc[c] = "ended"))
=============================================================================
