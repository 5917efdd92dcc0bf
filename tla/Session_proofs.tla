--------------------------- MODULE Session_proofs ---------------------------
(***************************************************************************)
(* What a Session makes of one message, for every message and every list   *)
(* of versions: the facts the proofs about connections rest on.            *)
(***************************************************************************)
EXTENDS Session, SequenceTheorems, TLAPS

\* The fields of what a client sends (route), and of what is no message (pump).
LEMMA MessageFields ==
  ASSUME NEW m \in Messages
  PROVE  m.method \in Methods /\ m.hasId \in BOOLEAN
<1>1. CASE \E k \in Methods, b \in BOOLEAN : m = Message(k, b)
  BY <1>1 DEF Message
<1>2. CASE m \in [method : {"initialize"}, hasId : BOOLEAN, version : Versions \cup Retired]
  BY <1>2 DEF Methods
<1> QED BY <1>1, <1>2 DEF Messages

\* A frame that is no message has none of the methods, and no id.
LEMMA NoMessageFields ==
  ASSUME NEW f \in NoMessages
  PROVE  /\ f.method \in {"blank", "not JSON", "binary", "bad frame"}
         /\ f.method \notin Methods /\ ~f.hasId
<1>1. PICK k \in {"blank", "not JSON", "binary", "bad frame"} : f = Message(k, FALSE)
  BY DEF NoMessages
<1>2. f.method = k /\ f.hasId = FALSE
  BY <1>1 DEF Message
<1> QED BY <1>2 DEF Methods

\* The version answered is one of the list, or the default (latest_protocol_version,
\* negotiate_version), and never taken for another outcome.
LEMMA VersionAnswered ==
  ASSUME NEW requested
  PROVE  /\ Negotiated(requested) \in Versions \cup {Latest}
         /\ Negotiated(requested) \notin Labels
<1>1. \A v \in Versions : v \notin Labels
  BY VersionAssumption DEF Versions
<1>2. Supported # <<>> => Latest \in Versions
  <2> SUFFICES ASSUME Supported # <<>>
               PROVE  Supported[Len(Supported)] \in Versions
    BY DEF Latest
  <2>1. Len(Supported) \in Nat \ {0} /\ DOMAIN Supported = 1 .. Len(Supported)
    BY VersionAssumption, EmptySeq, LenProperties
  <2> QED BY <2>1 DEF Versions
<1>3. Latest \notin Labels
  <2>1. "2025-11-25" \notin Labels
    BY DEF Labels
  <2> QED BY <1>1, <1>2, <2>1 DEF Latest
<1> QED BY <1>1, <1>3 DEF Negotiated

\* The outcomes there are (Outcome, route).
LEMMA OutcomeKinds ==
  ASSUME NEW m \in Messages, NEW initialized \in BOOLEAN, NEW called
  PROVE  Outcome(m, initialized, called) \in
           {"none", "result", "tools", "done", "isError", "NOT_INITIALIZED",
            "INVALID_PARAMS", "INVALID_REQUEST", "METHOD_NOT_FOUND", "INTERNAL_ERROR"}
             \cup Versions \cup {Latest}
<1>1. m.method \in Methods
  BY MessageFields
<1>2. CASE m.method = "initialize"
  BY <1>2, VersionAnswered DEF Outcome
<1>3. CASE m.method = "tools/call" /\ initialized
  BY <1>3 DEF Outcome
<1>4. CASE m.method # "initialize" /\ ~(m.method = "tools/call" /\ initialized)
  BY <1>1, <1>4 DEF Outcome, Methods
<1> QED BY <1>2, <1>3, <1>4

\* Every message but `initialized` has an outcome (route).
LEMMA HasOutcome ==
  ASSUME NEW m \in Messages, NEW initialized \in BOOLEAN, NEW called
  PROVE  Outcome(m, initialized, called) = "none" <=> m.method = "initialized"
<1>1. m.method \in Methods
  BY MessageFields
<1>2. CASE m.method = "initialize"
  BY <1>2, VersionAnswered DEF Outcome, Labels
<1>3. CASE m.method = "tools/call" /\ initialized
  BY <1>3 DEF Outcome
<1>4. CASE m.method # "initialize" /\ ~(m.method = "tools/call" /\ initialized)
  BY <1>1, <1>4 DEF Outcome, Methods
<1> QED BY <1>2, <1>3, <1>4

\* A request for the tools is turned away exactly before the handshake
\* (handle_tools_list, handle_tools_call).
LEMMA TurnedAway ==
  ASSUME NEW m, NEW initialized \in BOOLEAN, NEW called,
         m.method \in {"tools/list", "tools/call"}
  PROVE  Outcome(m, initialized, called) = "NOT_INITIALIZED" <=> ~initialized
<1>1. CASE m.method = "tools/list"
  BY <1>1 DEF Outcome
<1>2. CASE m.method = "tools/call"
  BY <1>2 DEF Outcome
<1> QED BY <1>1, <1>2

\* The replies to a message: its response first, if it gets one, and the notification
\* after it, if the call changed the tools (finish, handle_tools_call, pump).
LEMMA RepliesShape ==
  ASSUME NEW m \in Messages, NEW id, NEW initialized \in BOOLEAN, NEW called
  PROVE  LET response == [id |-> IF m.method = "array" THEN NullId ELSE id,
                          what |-> Outcome(m, initialized, called)]
             answered == m.method = "array" \/ (m.hasId /\ m.method # "initialized")
             notified == AwaitsCall(m, initialized) /\ called.variant = "Ok" /\ called.changed
         IN  Replies(m, id, initialized, called) =
               IF answered THEN IF notified THEN <<response, ListChanged>> ELSE <<response>>
                           ELSE IF notified THEN <<ListChanged>> ELSE <<>>
<1> DEFINE outcome  == Outcome(m, initialized, called)
           response == [id |-> IF m.method = "array" THEN NullId ELSE id, what |-> outcome]
           answered == m.method = "array" \/ (m.hasId /\ m.method # "initialized")
           notified == AwaitsCall(m, initialized) /\ called.variant = "Ok" /\ called.changed
<1>1. outcome = "none" <=> m.method = "initialized"
  BY HasOutcome
<1> HIDE DEF outcome
<1>2. Responses(m, id, outcome) = IF answered THEN <<response>> ELSE <<>>
  BY <1>1 DEF Responses
<1>3. Notifications(m, initialized, called) = IF notified THEN <<ListChanged>> ELSE <<>>
  BY DEF Notifications
<1>4. Replies(m, id, initialized, called)
        = Responses(m, id, outcome) \o Notifications(m, initialized, called)
  BY DEF Replies, outcome
<1> HIDE DEF response, answered, notified
<1>5. <<response>> \o <<ListChanged>> = <<response, ListChanged>>
  <2> DEFINE S == {response, ListChanged}
             s == <<response>> \o <<ListChanged>>
             t == <<response, ListChanged>>
  <2>1. <<response>> \in Seq(S) /\ <<ListChanged>> \in Seq(S) /\ t \in Seq(S)
    OBVIOUS
  <2>2. s \in Seq(S) /\ Len(s) = 2 /\ s[1] = response /\ s[2] = ListChanged
    BY <2>1, ConcatProperties
  <2>3. Len(t) = 2 /\ t[1] = response /\ t[2] = ListChanged
    OBVIOUS
  <2> HIDE DEF s, t
  <2>4. s = t
    BY <2>1, <2>2, <2>3, SeqEqual
  <2> QED BY <2>4 DEF s, t
<1>6. Replies(m, id, initialized, called) =
        IF answered THEN IF notified THEN <<response, ListChanged>> ELSE <<response>>
                    ELSE IF notified THEN <<ListChanged>> ELSE <<>>
  <2>1. /\ <<response>> \o <<>> = <<response>>
        /\ <<>> \o <<ListChanged>> = <<ListChanged>>
        /\ <<>> \o <<>> = <<>>
    OBVIOUS
  <2> QED BY <1>2, <1>3, <1>4, <1>5, <2>1
<1> QED BY <1>6 DEF response, answered, notified, outcome
=============================================================================
