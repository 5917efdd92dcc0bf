------------------------------- MODULE Session -------------------------------
(***************************************************************************)
(* What a Session (src/src/server.rs) makes of one message: the outcome of *)
(* route, the replies of finish, and the counters it goes under.  Constant *)
(* operators: the state of a session is one Boolean, and the concurrency   *)
(* around it is in Connections.                                            *)
(***************************************************************************)
EXTENDS Naturals, Sequences

CONSTANTS
  Supported,    \* protocol_versions, newest last
  Retired       \* versions a client may ask for that are not among them

\* What an outcome is called here, where it is not a version.
Labels ==
  {"none", "result", "tools", "done", "isError", "list_changed", "PARSE_ERROR",
   "INVALID_REQUEST", "METHOD_NOT_FOUND", "INVALID_PARAMS", "INTERNAL_ERROR",
   "NOT_INITIALIZED"}

ASSUME VersionAssumption ==
  /\ Supported \in Seq(STRING)
  /\ \A i \in DOMAIN Supported : Supported[i] \notin Retired \cup Labels

-----------------------------------------------------------------------------
(* Messages.  A method stands for what route tells apart: "array" is a     *)
(* payload that is not an object, "wrong version" one whose `jsonrpc` is   *)
(* not "2.0", "missing" one with no method, "other" an unknown method, and *)
(* "unnamed call" a tools/call without a tool name.                        *)

Methods == {"initialize", "initialized", "ping", "tools/list", "tools/call",
            "unnamed call", "shutdown", "other", "missing", "array", "wrong version"}

Versions == {Supported[i] : i \in DOMAIN Supported}

\* protocolVersion is absent or not a string
NoVersion == "no version"

Message(method, hasId) == [method |-> method, hasId |-> hasId, version |-> NoVersion]

Messages ==
  {Message(m, b) : m \in Methods, b \in BOOLEAN}
    \cup [method : {"initialize"}, hasId : BOOLEAN, version : Versions \cup Retired]

\* Frames that are not messages: a blank line, text that is not JSON, a websocket
\* frame that is not text, and bytes that are no frame at all.
NoMessages == {Message(f, FALSE) : f \in {"blank", "not JSON", "binary", "bad frame"}}

\* What the runners pass over, and what they answer with a parse error, on a
\* "framed" connection (stdio, unix) and on a "websocket" one.
Skipped(kind, f) == f.method = IF kind = "framed" THEN "blank" ELSE "binary"

Garbled(kind, f) ==
  f.method \in {"not JSON", IF kind = "framed" THEN "binary" ELSE "blank"}

\* What call_tool returns: Ok(reply) with its two flags, or a CallError.
Reply(isError, changed) == [variant |-> "Ok", isError |-> isError, changed |-> changed]
Failure(variant) == [variant |-> variant, isError |-> FALSE, changed |-> FALSE]

CallResults == {Reply(e, n) : e \in BOOLEAN, n \in BOOLEAN}
                 \cup {Failure(v) : v \in {"Tool", "InvalidParams", "Internal"}}

\* The messages whose handling awaits the service.
AwaitsCall(m, initialized) == m.method = "tools/call" /\ initialized
AwaitsShutdown(m) == m.method = "shutdown"

-----------------------------------------------------------------------------
(* Outcomes *)

\* latest_protocol_version: a server may be configured with no version at all.
Latest == IF Supported = <<>> THEN "2025-11-25" ELSE Supported[Len(Supported)]

\* negotiate_version, after the default of handle_initialize
Negotiated(requested) == IF requested \in Versions THEN requested ELSE Latest

\* route, with `called` what call_tool returned if it was called
Outcome(m, initialized, called) ==
  CASE m.method = "initialize"  -> Negotiated(m.version)
    [] m.method = "initialized" -> "none"
    [] m.method \in {"ping", "shutdown"} -> "result"
    [] m.method \in {"tools/list", "tools/call", "unnamed call"} /\ ~initialized
         -> "NOT_INITIALIZED"
    [] m.method = "tools/list" /\ initialized -> "tools"
    [] m.method = "unnamed call" /\ initialized -> "INVALID_PARAMS"
    [] m.method = "tools/call" /\ initialized ->
         IF called.variant = "Internal" THEN "INTERNAL_ERROR"
         ELSE IF called.variant = "Ok" /\ ~called.isError THEN "done" ELSE "isError"
    [] m.method = "other" -> "METHOD_NOT_FOUND"
    [] m.method \in {"missing", "array", "wrong version"} -> "INVALID_REQUEST"

\* Mutant of InitializedAfter: shutdown leaves the session open.
InitializedAfterNoReset(m, initialized) ==
  initialized \/ m.method \in {"initialize", "initialized"}

\* The `initialized` flag after the message.
InitializedAfter(m, initialized) ==
  CASE m.method \in {"initialize", "initialized"} -> TRUE
    [] m.method = "shutdown" -> FALSE
    [] OTHER -> initialized

\* finish: only a message with an id is answered, and `initialized` is not.  An
\* array never reaches finish, and is answered under the null id.
NullId == 0

\* Mutant of Responses: an error is sent back for a notification too.
ResponsesToAnyError(m, id, outcome) ==
  IF m.method = "array" THEN <<[id |-> NullId, what |-> outcome]>>
  ELSE IF (m.hasId /\ outcome # "none") \/ outcome = "METHOD_NOT_FOUND"
         THEN <<[id |-> id, what |-> outcome]>>
  ELSE <<>>

Responses(m, id, outcome) ==
  IF m.method = "array" THEN <<[id |-> NullId, what |-> outcome]>>
  ELSE IF m.hasId /\ outcome # "none" THEN <<[id |-> id, what |-> outcome]>>
  ELSE <<>>

\* Notifications of a Dispatch.  They have no id.
NoId == 0
ListChanged == [id |-> NoId, what |-> "list_changed"]
ParseError == [id |-> NullId, what |-> "PARSE_ERROR"]

Notifications(m, initialized, called) ==
  IF AwaitsCall(m, initialized) /\ called.variant = "Ok" /\ called.changed
    THEN <<ListChanged>> ELSE <<>>

\* The frames handle_message has its caller write, in order.
Replies(m, id, initialized, called) ==
  Responses(m, id, Outcome(m, initialized, called))
    \o Notifications(m, initialized, called)

-----------------------------------------------------------------------------
(* Counters *)

\* mcp.requests{method}
MethodLabel(m) ==
  CASE m.method \in {"missing", "array", "wrong version"} -> "invalid"
    [] m.method = "unnamed call" -> "tools/call"
    [] OTHER -> m.method

\* mcp.tools.call{outcome}
CallOutcome(called) ==
  CASE called.variant = "Ok" -> "ok"
    [] called.variant = "Internal" -> "error"
    [] called.variant \in {"Tool", "InvalidParams"} -> "tool_error"
=============================================================================
