--------------------------- MODULE Answers_proofs ---------------------------
(***************************************************************************)
(* What the client of a connection may conclude from its replies, for any  *)
(* number of connections: every request is answered once and in order, and *)
(* the tools only after the handshake.  It follows from each connection    *)
(* being a Conversation, which Connections_proofs shows; the counters,     *)
(* which no conversation has, come last.                                   *)
(***************************************************************************)
EXTENDS Connections_proofs

-----------------------------------------------------------------------------
(* The replies to the first frames of a client *)

\* Some frame before the i-th opened the session, and none since closed it.
Opened(frames, i) ==
  \E j \in 1 .. i - 1 : /\ frames[j].method \in {"initialize", "initialized"}
                        /\ \A k \in j + 1 .. i - 1 : frames[k].method # "shutdown"

\* A request for the tools is turned away exactly while the session is not open.
TurnsAway(m, what, opened) ==
  m.method \in {"tools/list", "tools/call"} => (what = "NOT_INITIALIZED" <=> ~opened)

\* What holds of a session and its replies once n frames are handled; `gone` is a
\* client to whom replies may have been lost.
Kept(frames, n, opened, replies, gone) ==
  LET answers == {i \in DOMAIN replies : replies[i].id # NullId}
  IN  /\ opened <=> Opened(frames, n + 1)
      /\ \A i, j \in answers : i < j => replies[i].id < replies[j].id
      /\ \A i \in answers :
           /\ replies[i].id \in 1 .. n /\ Answerable(frames[replies[i].id])
           /\ TurnsAway(frames[replies[i].id], replies[i].what,
                        Opened(frames, replies[i].id))
      /\ ~gone => \A k \in 1 .. n :
                    Answerable(frames[k]) => \E i \in answers : replies[i].id = k

\* The replies to frame m, the id-th, are its response alone, if it is owed one, and
\* frames without an id.
Answers(m, id, opened, replies) ==
  /\ \A i \in DOMAIN replies :
       /\ replies[i].id \in {NullId, id}
       /\ replies[i].id # NullId =>
            i = 1 /\ Answerable(m) /\ TurnsAway(m, replies[i].what, opened)
  /\ Answerable(m) => 1 \in DOMAIN replies /\ replies[1].id = id

\* The next frame opens the session, closes it or leaves it as it is (route).
LEMMA OpenedStep ==
  ASSUME NEW frames, NEW n \in Nat
  PROVE  Opened(frames, n + 2) <=> InitializedAfter(frames[n + 1], Opened(frames, n + 1))
<1> DEFINE m == frames[n + 1]
           Opens(j, i) == /\ frames[j].method \in {"initialize", "initialized"}
                          /\ \A k \in j + 1 .. i - 1 : frames[k].method # "shutdown"
<1>1. /\ Opened(frames, n + 2) <=> \E j \in 1 .. n + 1 : Opens(j, n + 2)
      /\ Opened(frames, n + 1) <=> \E j \in 1 .. n : Opens(j, n + 1)
  BY DEF Opened
<1>2. ASSUME NEW j \in 1 .. n
      PROVE  Opens(j, n + 2) <=> Opens(j, n + 1) /\ m.method # "shutdown"
  <2>1. j + 1 .. (n + 2) - 1 = (j + 1 .. (n + 1) - 1) \cup {n + 1}
    BY <1>2
  <2> QED BY <2>1
<1>3. Opens(n + 1, n + 2) <=> m.method \in {"initialize", "initialized"}
  OBVIOUS
<1>4. 1 .. n + 1 = (1 .. n) \cup {n + 1}
  OBVIOUS
<1> HIDE DEF Opens, m
<1>5. Opened(frames, n + 2) <=>
        m.method \in {"initialize", "initialized"}
          \/ (Opened(frames, n + 1) /\ m.method # "shutdown")
  BY <1>1, <1>2, <1>3, <1>4
<1>6. CASE m.method \in {"initialize", "initialized"}
  BY <1>5, <1>6 DEF InitializedAfter, m
<1>7. CASE m.method = "shutdown"
  BY <1>5, <1>7 DEF InitializedAfter, m
<1>8. CASE m.method \notin {"initialize", "initialized", "shutdown"}
  <2>1. InitializedAfter(m, Opened(frames, n + 1)) <=> Opened(frames, n + 1)
    BY <1>8 DEF InitializedAfter
  <2> QED BY <1>5, <1>8, <2>1 DEF m
<1> QED BY <1>6, <1>7, <1>8

\* The frames sent later do not matter.
LEMMA OpenedByFirst ==
  ASSUME NEW frames, NEW more, NEW n \in Nat, NEW i \in 1 .. n + 1,
         \A k \in 1 .. n : more[k] = frames[k]
  PROVE  Opened(more, i) <=> Opened(frames, i)
<1>1. \A k \in 1 .. i - 1 : more[k] = frames[k]
  OBVIOUS
<1>2. \A j \in 1 .. i - 1 : \A k \in j + 1 .. i - 1 : k \in 1 .. i - 1
  OBVIOUS
<1> QED BY <1>1, <1>2 DEF Opened

\* A client that sends on takes nothing back.
LEMMA KeptByMore ==
  ASSUME NEW frames, NEW more, NEW n \in Nat, NEW opened, NEW replies, NEW gone,
         Kept(frames, n, opened, replies, gone), \A k \in 1 .. n : more[k] = frames[k]
  PROVE  Kept(more, n, opened, replies, gone)
<1>1. \A i \in 1 .. n + 1 : Opened(more, i) <=> Opened(frames, i)
  BY OpenedByFirst
<1>2. ASSUME NEW i \in 1 .. n, NEW what
      PROVE  TurnsAway(frames[i], what, Opened(frames, i))
               => TurnsAway(more[i], what, Opened(more, i))
  BY <1>1 DEF TurnsAway
<1>3. opened <=> Opened(more, n + 1)
  BY <1>1 DEF Kept
<1>4. ASSUME NEW i \in DOMAIN replies, replies[i].id # NullId
      PROVE  /\ replies[i].id \in 1 .. n /\ Answerable(more[replies[i].id])
             /\ TurnsAway(more[replies[i].id], replies[i].what, Opened(more, replies[i].id))
  <2>1. /\ replies[i].id \in 1 .. n /\ Answerable(frames[replies[i].id])
        /\ TurnsAway(frames[replies[i].id], replies[i].what, Opened(frames, replies[i].id))
    BY <1>4 DEF Kept
  <2>2. more[replies[i].id] = frames[replies[i].id]
    BY <2>1
  <2> QED BY <1>2, <2>1, <2>2
<1>5. \A k \in 1 .. n : Answerable(more[k]) => Answerable(frames[k])
  OBVIOUS
<1> QED BY <1>3, <1>4, <1>5 DEF Kept

\* A client that is gone is owed nothing more, and one that lost the last replies less.
LEMMA KeptByLoss ==
  ASSUME NEW S, NEW frames, NEW n \in Nat, NEW opened, NEW replies \in Seq(S), NEW gone,
         Kept(frames, n, opened, replies, gone), NEW k \in 0 .. Len(replies)
  PROVE  /\ Kept(frames, n, opened, SubSeq(replies, 1, k), TRUE)
         /\ Kept(frames, n, opened, replies, TRUE)
<1> DEFINE s == SubSeq(replies, 1, k)
<1>1. Len(replies) \in Nat /\ DOMAIN replies = 1 .. Len(replies)
  BY LenProperties
<1>2. \A i \in 1 .. k : replies[i] \in S
  BY <1>1, ElementOfSeq
<1>3. /\ s \in Seq(S) /\ Len(s) = IF 1 <= k THEN k - 1 + 1 ELSE 0
      /\ \A i \in 1 .. k - 1 + 1 : s[i] = replies[1 + i - 1]
  BY <1>1, <1>2, SubSeqProperties
<1> HIDE DEF s
<1>4. DOMAIN s = 1 .. k /\ DOMAIN s \subseteq DOMAIN replies
  BY <1>1, <1>3, LenProperties
<1>5. \A i \in DOMAIN s : s[i] = replies[i]
  BY <1>3, <1>4
<1>6. Kept(frames, n, opened, s, TRUE)
  BY <1>4, <1>5 DEF Kept
<1>7. Kept(frames, n, opened, replies, TRUE)
  BY DEF Kept
<1> QED BY <1>6, <1>7 DEF s

\* The handling of one more frame keeps it all.
LEMMA KeptByHandling ==
  ASSUME NEW S, NEW frames, NEW n \in Nat, NEW opened \in BOOLEAN, NEW gone,
         NEW replies \in Seq(S), NEW more \in Seq(S),
         Kept(frames, n, opened, replies, gone),
         Answers(frames[n + 1], n + 1, opened, more)
  PROVE  Kept(frames, n + 1, InitializedAfter(frames[n + 1], opened), replies \o more, gone)
<1> DEFINE all == replies \o more
           m == frames[n + 1]
<1>1. /\ Len(replies) \in Nat /\ DOMAIN replies = 1 .. Len(replies)
      /\ Len(more) \in Nat /\ DOMAIN more = 1 .. Len(more)
  BY LenProperties
<1>2. /\ all \in Seq(S) /\ Len(all) = Len(replies) + Len(more)
      /\ \A i \in 1 .. Len(replies) + Len(more) :
           all[i] = IF i <= Len(replies) THEN replies[i] ELSE more[i - Len(replies)]
  BY ConcatProperties
<1>3. DOMAIN all = 1 .. Len(replies) + Len(more)
  BY <1>2, LenProperties
<1> HIDE DEF all
<1>4. \A i \in DOMAIN replies : i \in DOMAIN all /\ all[i] = replies[i]
  BY <1>1, <1>2, <1>3
<1>5. \A i \in DOMAIN more : Len(replies) + i \in DOMAIN all /\ all[Len(replies) + i] = more[i]
  BY <1>1, <1>2, <1>3
<1>6. ASSUME NEW i \in DOMAIN all, i \notin DOMAIN replies
      PROVE  i - Len(replies) \in DOMAIN more /\ all[i] = more[i - Len(replies)]
  BY <1>1, <1>2, <1>3, <1>6
<1>7. opened <=> Opened(frames, n + 1)
  BY DEF Kept
<1>8. InitializedAfter(m, opened) <=> Opened(frames, n + 2)
  BY <1>7, OpenedStep DEF InitializedAfter
<1>9. ASSUME NEW i \in DOMAIN all, all[i].id # NullId, i \notin DOMAIN replies
      PROVE  /\ i = Len(replies) + 1 /\ all[i].id = n + 1 /\ Answerable(m)
             /\ TurnsAway(m, all[i].what, Opened(frames, n + 1))
  <2>1. i - Len(replies) \in DOMAIN more /\ all[i] = more[i - Len(replies)]
    BY <1>6, <1>9
  <2>2. i - Len(replies) = 1 /\ all[i].id = n + 1 /\ Answerable(m)
        /\ TurnsAway(m, all[i].what, opened)
    BY <1>9, <2>1 DEF Answers
  <2> QED BY <1>1, <1>3, <1>7, <2>2 DEF TurnsAway
<1>10. ASSUME NEW i \in DOMAIN all, all[i].id # NullId, i \in DOMAIN replies
       PROVE  /\ all[i].id \in 1 .. n /\ Answerable(frames[all[i].id])
              /\ TurnsAway(frames[all[i].id], all[i].what, Opened(frames, all[i].id))
  BY <1>4, <1>10 DEF Kept
<1>11. ASSUME NEW i \in DOMAIN all, NEW j \in DOMAIN all, i < j,
              all[i].id # NullId, all[j].id # NullId
       PROVE  all[i].id < all[j].id
  <2>1. CASE j \in DOMAIN replies
    <3>1. i \in DOMAIN replies
      BY <1>1, <1>3, <1>11, <2>1
    <3> QED BY <1>4, <1>11, <2>1, <3>1 DEF Kept
  <2>2. CASE j \notin DOMAIN replies /\ i \in DOMAIN replies
    BY <1>9, <1>10, <1>11, <2>2
  <2>3. CASE j \notin DOMAIN replies /\ i \notin DOMAIN replies
    BY <1>1, <1>9, <1>11, <2>3
  <2> QED BY <2>1, <2>2, <2>3
<1>12. ASSUME ~gone, NEW k \in 1 .. n + 1, Answerable(frames[k])
       PROVE  \E i \in DOMAIN all : all[i].id # NullId /\ all[i].id = k
  <2>1. CASE k = n + 1
    BY <1>1, <1>5, <1>12, <2>1 DEF Answers, NullId
  <2>2. CASE k \in 1 .. n
    <3>1. PICK i \in DOMAIN replies : replies[i].id # NullId /\ replies[i].id = k
      BY <1>12, <2>2 DEF Kept
    <3> QED BY <1>4, <3>1
  <2> QED BY <2>1, <2>2
<1>13. ASSUME NEW i \in DOMAIN all, all[i].id # NullId
       PROVE  /\ all[i].id \in 1 .. n + 1 /\ Answerable(frames[all[i].id])
              /\ TurnsAway(frames[all[i].id], all[i].what, Opened(frames, all[i].id))
  <2>1. CASE i \in DOMAIN replies
    BY <1>10, <1>13, <2>1
  <2>2. CASE i \notin DOMAIN replies
    BY <1>9, <1>13, <2>2
  <2> QED BY <2>1, <2>2
<1>14. (n + 1) + 1 = n + 2
  OBVIOUS
<1>15. Kept(frames, n + 1, InitializedAfter(m, opened), all, gone)
  BY <1>8, <1>11, <1>12, <1>13, <1>14 DEF Kept
<1> QED BY <1>15 DEF all

\* The replies to a message are its answers (finish, handle_tools_call).
LEMMA MessageAnswers ==
  ASSUME NEW m \in Messages, NEW id \in Nat \ {0}, NEW opened \in BOOLEAN, NEW called
  PROVE  Answers(m, id, opened, Replies(m, id, opened, called))
<1> DEFINE outcome  == Outcome(m, opened, called)
           response == [id |-> IF m.method = "array" THEN NullId ELSE id, what |-> outcome]
           r        == Replies(m, id, opened, called)
<1>1. TurnsAway(m, outcome, opened)
  BY TurnedAway DEF TurnsAway
<1> HIDE DEF outcome
<1>2. /\ response.what = outcome /\ response.id \in {NullId, id}
      /\ response.id # NullId => m.method # "array"
      /\ m.method # "array" => response.id = id /\ id # NullId
      /\ ListChanged.id = NullId
  BY DEF ListChanged, NoId, NullId
<1> HIDE DEF response
<1>3. \/ /\ r = <<response>> \/ r = <<response, ListChanged>>
         /\ m.method = "array" \/ (m.hasId /\ m.method # "initialized")
      \/ /\ r = <<>> \/ r = <<ListChanged>>
         /\ m.method # "array" /\ ~(m.hasId /\ m.method # "initialized")
  BY RepliesShape DEF response, outcome
<1> HIDE DEF r
<1>4. CASE /\ r = <<response>> \/ r = <<response, ListChanged>>
           /\ m.method = "array" \/ (m.hasId /\ m.method # "initialized")
  <2>1. DOMAIN r \in {1 .. 1, 1 .. 2} /\ r[1] = response /\ (2 \in DOMAIN r => r[2] = ListChanged)
    BY <1>4
  <2>2. response.id # NullId => Answerable(m)
    BY <1>2, <1>4 DEF Answerable
  <2>3. Answerable(m) => response.id = id
    BY <1>2 DEF Answerable
  <2>4. ASSUME NEW i \in DOMAIN r
        PROVE  /\ r[i].id \in {NullId, id}
               /\ r[i].id # NullId => i = 1 /\ Answerable(m) /\ TurnsAway(m, r[i].what, opened)
    <3>1. i \in {1, 2} /\ (i = 1 => r[i] = response) /\ (i = 2 => r[i] = ListChanged)
      BY <2>1
    <3> QED BY <1>1, <1>2, <2>2, <3>1
  <2>5. 1 \in DOMAIN r
    BY <2>1
  <2> QED BY <2>1, <2>3, <2>4, <2>5 DEF Answers, r
<1>5. CASE /\ r = <<>> \/ r = <<ListChanged>>
           /\ m.method # "array" /\ ~(m.hasId /\ m.method # "initialized")
  <2>1. \A i \in DOMAIN r : r[i] = ListChanged
    BY <1>5
  <2>2. ~Answerable(m)
    BY <1>5 DEF Answerable
  <2> QED BY <1>2, <2>1, <2>2 DEF Answers, r
<1> QED BY <1>3, <1>4, <1>5

\* The indices of a sequence of no frame, and of one of one.
LEMMA ShortSequences ==
  /\ \A i : i \notin DOMAIN <<>>
  /\ \A x : \A i \in DOMAIN <<x>> : <<x>>[i] = x
<1>1. \A i : i \notin DOMAIN <<>>
  OBVIOUS
<1>2. ASSUME NEW x, NEW i \in DOMAIN <<x>>
      PROVE  <<x>>[i] = x
  BY <1>2
<1> QED BY <1>1, <1>2

\* What is no message is answered with nothing, or with a parse error that has no id,
\* and leaves the session as it is (pump, ws_connection).
LEMMA NoMessageAnswers ==
  ASSUME NEW kind \in {"framed", "websocket"}, NEW f \in Messages \cup NoMessages,
         Skipped(kind, f) \/ Garbled(kind, f) \/ f.method = "bad frame",
         NEW id, NEW opened \in BOOLEAN
  PROVE  /\ Answers(f, id, opened, <<>>) /\ Answers(f, id, opened, <<ParseError>>)
         /\ InitializedAfter(f, opened) = opened
<1>1. f.method \in {"blank", "not JSON", "binary", "bad frame"}
  BY DEF Skipped, Garbled
<1>2. ~Answerable(f)
  BY <1>1, MessageFields DEF Answerable, Methods
<1>3. InitializedAfter(f, opened) = opened
  BY <1>1 DEF InitializedAfter
<1>4. ParseError.id = NullId
  BY DEF ParseError
<1>5. ASSUME NEW r, \A i \in DOMAIN r : r[i].id = NullId
      PROVE  Answers(f, id, opened, r)
  BY <1>2, <1>5 DEF Answers
<1>6. Answers(f, id, opened, <<>>)
  BY <1>5, ShortSequences
<1>7. Answers(f, id, opened, <<ParseError>>)
  BY <1>4, <1>5, ShortSequences
<1> QED BY <1>3, <1>6, <1>7

-----------------------------------------------------------------------------
(* Every conversation keeps it *)

\* All of it holds of every connection, for what was said so far.
Promises == \A c \in Conns : Kept(sent[c], Count[c], initialized[c], Said[c], broken[c])

\* The types of what a conversation is made of.
LEMMA ConversationTypes ==
  ASSUME Typed, NEW c \in Conns
  PROVE  /\ sent[c] \in Seq(Messages \cup NoMessages) /\ Len(sent[c]) \in Nat
         /\ Count[c] \in 0 .. Len(sent[c])
         /\ Said[c] \in Seq(ReplyFrames)
         /\ initialized[c] \in BOOLEAN /\ broken[c] \in BOOLEAN
         /\ Kind[c] \in {"framed", "websocket"}
<1> USE DEF Typed
<1>1. sent[c] \in Seq(Sendable[c]) /\ read[c] \in 0 .. Len(sent[c])
  BY DEF TypeOK
<1>2. Sendable[c] \subseteq Messages \cup NoMessages
  BY ConnectionAssumption
<1>3. sent[c] \in Seq(Messages \cup NoMessages)
  BY <1>1, <1>2, SeqMonotonic
<1>4. Len(sent[c]) \in Nat
  BY <1>1, LenProperties
<1>5. Count[c] \in 0 .. Len(sent[c])
  BY <1>1, <1>4 DEF Count, InFlight
<1>6. Said[c] \in Seq(ReplyFrames)
  BY ConcatProperties DEF Said, TypeOK
<1> QED BY <1>3, <1>4, <1>5, <1>6, ConnectionAssumption DEF TypeOK

\* The handling of a frame keeps the promises.
LEMMA HandleKeepsPromises ==
  ASSUME Typed, Promises, NEW c \in Conns, Abstract!Handle(c)
  PROVE  Promises'
<1> DEFINE m == sent[c][Count[c] + 1]
<1>1. /\ sent[c] \in Seq(Messages \cup NoMessages) /\ Len(sent[c]) \in Nat
      /\ Count[c] \in Nat /\ Said[c] \in Seq(ReplyFrames)
      /\ initialized[c] \in BOOLEAN /\ Kind[c] \in {"framed", "websocket"}
  BY ConversationTypes
<1>2. /\ Count[c] < Len(sent[c])
      /\ Count' = [Count EXCEPT ![c] = Count[c] + 1]
      /\ UNCHANGED <<sent, broken>>
  BY DEF Abstract!Handle, Count
<1>3. m \in Messages \cup NoMessages
  BY <1>1, <1>2, ElementOfSeq
<1>4. \/ Abstract!Skipped(Kind[c], m) /\ UNCHANGED <<initialized, Said>>
      \/ /\ Abstract!Garbled(Kind[c], m) /\ UNCHANGED initialized
         /\ Said' = [Said EXCEPT ![c] = Append(Said[c], Abstract!ParseError)]
      \/ /\ m \in Abstract!Messages
         /\ \E called \in Abstract!CallResults :
              Said' = [Said EXCEPT ![c] =
                         Said[c] \o Abstract!Replies(m, Count[c] + 1, initialized[c], called)]
         /\ initialized' =
              [initialized EXCEPT ![c] = Abstract!InitializedAfter(m, initialized[c])]
  BY DEF Abstract!Handle, Count, Said
<1>5. \/ Skipped(Kind[c], m) /\ UNCHANGED <<initialized, Said>>
      \/ /\ Garbled(Kind[c], m) /\ UNCHANGED initialized
         /\ Said' = [Said EXCEPT ![c] = Append(Said[c], ParseError)]
      \/ /\ m \in Messages
         /\ \E called \in CallResults :
              Said' = [Said EXCEPT ![c] =
                         Said[c] \o Replies(m, Count[c] + 1, initialized[c], called)]
         /\ initialized' = [initialized EXCEPT ![c] = InitializedAfter(m, initialized[c])]
  <2>1. CASE /\ m \in Abstract!Messages
             /\ \E called \in Abstract!CallResults :
                  Said' = [Said EXCEPT ![c] =
                    Said[c] \o Abstract!Replies(m, Count[c] + 1, initialized[c], called)]
             /\ initialized' =
                  [initialized EXCEPT ![c] = Abstract!InitializedAfter(m, initialized[c])]
    <3>1. PICK called \in CallResults :
            Said' = [Said EXCEPT ![c] =
                       Said[c] \o Abstract!Replies(m, Count[c] + 1, initialized[c], called)]
      BY <2>1, SameFrames
    <3>2. Abstract!Replies(m, Count[c] + 1, initialized[c], called)
            = Replies(m, Count[c] + 1, initialized[c], called)
      BY SameReplies
    <3>3. Said' = [Said EXCEPT ![c] =
                     Said[c] \o Replies(m, Count[c] + 1, initialized[c], called)]
      BY <3>1, <3>2
    <3>4. initialized' = [initialized EXCEPT ![c] = InitializedAfter(m, initialized[c])]
      BY <2>1, SameReplies
    <3> QED BY <2>1, <3>3, <3>4, SameFrames
  <2> QED BY <1>4, <2>1, SameFrames
<1>6. PICK r \in Seq(ReplyFrames) :
        /\ Answers(m, Count[c] + 1, initialized[c], r)
        /\ Said' = [Said EXCEPT ![c] = Said[c] \o r]
        /\ initialized' = [initialized EXCEPT ![c] = InitializedAfter(m, initialized[c])]
  <2>1. CASE Skipped(Kind[c], m) /\ UNCHANGED <<initialized, Said>>
    <3>1. /\ Answers(m, Count[c] + 1, initialized[c], <<>>) /\ <<>> \in Seq(ReplyFrames)
          /\ InitializedAfter(m, initialized[c]) = initialized[c]
      BY <1>1, <1>3, <2>1, NoMessageAnswers, EmptySeq
    <3>4. Said[c] \o <<>> = Said[c]
      BY <1>1, ConcatEmptySeq
    <3>2. Said = [Said EXCEPT ![c] = Said[c]]
      BY DEF Said
    <3>3. initialized = [initialized EXCEPT ![c] = initialized[c]]
      BY DEF Typed, TypeOK
    <3> QED BY <2>1, <3>1, <3>2, <3>3, <3>4
  <2>2. CASE /\ Garbled(Kind[c], m) /\ UNCHANGED initialized
             /\ Said' = [Said EXCEPT ![c] = Append(Said[c], ParseError)]
    <3>1. /\ Answers(m, Count[c] + 1, initialized[c], <<ParseError>>)
          /\ InitializedAfter(m, initialized[c]) = initialized[c]
      BY <1>1, <1>3, <2>2, NoMessageAnswers
    <3>2. Append(Said[c], ParseError) = Said[c] \o <<ParseError>>
      BY <1>1, ParseErrorIsFrame, AppendIsConcat
    <3>3. initialized = [initialized EXCEPT ![c] = initialized[c]]
      BY DEF Typed, TypeOK
    <3> QED BY <2>2, <3>1, <3>2, <3>3, ParseErrorIsFrame
  <2>3. ASSUME m \in Messages, NEW called \in CallResults,
               Said' = [Said EXCEPT ![c] =
                          Said[c] \o Replies(m, Count[c] + 1, initialized[c], called)],
               initialized' = [initialized EXCEPT ![c] = InitializedAfter(m, initialized[c])]
        PROVE  \E r \in Seq(ReplyFrames) :
                 /\ Answers(m, Count[c] + 1, initialized[c], r)
                 /\ Said' = [Said EXCEPT ![c] = Said[c] \o r]
                 /\ initialized' =
                      [initialized EXCEPT ![c] = InitializedAfter(m, initialized[c])]
    <3>1. Count[c] + 1 \in Nat \ {0}
      BY <1>1
    <3> QED BY <1>1, <2>3, <3>1, MessageAnswers, RepliesAreFrames
  <2> QED BY <1>5, <2>1, <2>2, <2>3
<1>7. Kept(sent[c], Count[c] + 1, InitializedAfter(m, initialized[c]), Said[c] \o r, broken[c])
  BY <1>1, <1>6, KeptByHandling DEF Promises
<1>8. /\ Count'[c] = Count[c] + 1 /\ Said'[c] = Said[c] \o r
      /\ initialized'[c] = InitializedAfter(m, initialized[c])
      /\ \A d \in Conns \ {c} : /\ Count'[d] = Count[d] /\ Said'[d] = Said[d]
                                /\ initialized'[d] = initialized[d]
  BY <1>2, <1>6 DEF Count, Said, Typed, TypeOK
<1>9. UNCHANGED <<sent, broken>>
  BY <1>2
<1> QED BY <1>7, <1>8, <1>9 DEF Promises

\* So does the refusal of what is no frame.
LEMMA RejectKeepsPromises ==
  ASSUME Typed, Promises, NEW c \in Conns, Abstract!Reject(c)
  PROVE  Promises'
<1> DEFINE m == sent[c][Count[c] + 1]
<1>1. /\ sent[c] \in Seq(Messages \cup NoMessages) /\ Len(sent[c]) \in Nat
      /\ Count[c] \in Nat /\ Said[c] \in Seq(ReplyFrames)
      /\ initialized[c] \in BOOLEAN /\ Kind[c] \in {"framed", "websocket"}
  BY ConversationTypes
<1>2. /\ Count[c] < Len(sent[c]) /\ m.method = "bad frame"
      /\ Count' = [Count EXCEPT ![c] = Count[c] + 1]
      /\ UNCHANGED <<sent, initialized, broken>>
  BY DEF Abstract!Reject, Count
<1>3. m \in Messages \cup NoMessages
  <2>1. Count[c] + 1 \in 1 .. Len(sent[c])
    <3>1. Count[c] < Len(sent[c])
      BY <1>2
    <3> QED BY <1>1, <3>1
  <2> QED BY <1>1, <2>1, ElementOfSeq
<1>4. Said' = [Said EXCEPT ![c] = Append(Said[c], ParseError)] \/ Said' = Said
  <2>1. Said' = [Said EXCEPT ![c] = Append(Said[c], Abstract!ParseError)] \/ Said' = Said
    BY DEF Abstract!Reject, Said
  <2> QED BY <2>1, SameFrames
<1>5. /\ Answers(m, Count[c] + 1, initialized[c], <<>>)
      /\ Answers(m, Count[c] + 1, initialized[c], <<ParseError>>)
      /\ InitializedAfter(m, initialized[c]) = initialized[c]
  BY <1>1, <1>2, <1>3, NoMessageAnswers
<1>6. <<>> \in Seq(ReplyFrames) /\ <<ParseError>> \in Seq(ReplyFrames)
  BY EmptySeq, ParseErrorIsFrame
<1>7. Kept(sent[c], Count[c], initialized[c], Said[c], broken[c])
  BY DEF Promises
<1>8. /\ Kept(sent[c], Count[c] + 1, initialized[c], Said[c] \o <<>>, broken[c])
      /\ Kept(sent[c], Count[c] + 1, initialized[c], Said[c] \o <<ParseError>>, broken[c])
  <2>1. ASSUME NEW r \in Seq(ReplyFrames), Answers(m, Count[c] + 1, initialized[c], r)
        PROVE  Kept(sent[c], Count[c] + 1, InitializedAfter(m, initialized[c]),
                    Said[c] \o r, broken[c])
    BY <1>1, <1>7, <2>1, KeptByHandling
  <2> HIDE DEF m
  <2> QED BY <1>5, <1>6, <2>1
<1>9. Said[c] \o <<>> = Said[c] /\ Said[c] \o <<ParseError>> = Append(Said[c], ParseError)
  BY <1>1, ConcatEmptySeq, ParseErrorIsFrame, AppendIsConcat
<1>10. /\ Count'[c] = Count[c] + 1 /\ \A d \in Conns \ {c} : Count'[d] = Count[d]
      /\ Said'[c] \in {Said[c], Append(Said[c], ParseError)}
      /\ \A d \in Conns \ {c} : Said'[d] = Said[d]
  BY <1>2, <1>4 DEF Count, Said
<1>11. Kept(sent[c], Count'[c], initialized[c], Said'[c], broken[c])
  BY <1>8, <1>9, <1>10
<1>12. UNCHANGED <<sent, initialized, broken>>
  BY <1>2
<1> QED BY <1>10, <1>11, <1>12 DEF Promises

\* A client that sends on, or is gone, and replies lost with it.
LEMMA OthersKeepPromises ==
  ASSUME Typed, Promises, NEW c \in Conns,
         Abstract!Send(c) \/ Abstract!Break(c) \/ Abstract!End(c) \/ Abstract!Lose(c)
  PROVE  Promises'
<1>1. /\ sent[c] \in Seq(Messages \cup NoMessages) /\ Len(sent[c]) \in Nat
      /\ Count[c] \in 0 .. Len(sent[c]) /\ Said[c] \in Seq(ReplyFrames)
      /\ broken[c] \in BOOLEAN /\ Count[c] \in Nat
  BY ConversationTypes
<1>2. Kept(sent[c], Count[c], initialized[c], Said[c], broken[c])
  BY DEF Promises
<1>3. CASE Abstract!Send(c)
  <2>1. /\ Len(sent'[c]) = Len(sent[c]) + 1
        /\ SubSeq(sent'[c], 1, Len(sent[c])) = sent[c]
        /\ \A d \in Conns \ {c} : sent'[d] = sent[d]
        /\ UNCHANGED <<Count, initialized, Said, broken>>
    BY <1>3 DEF Abstract!Send, Count, Said
  <2>2. \A k \in 1 .. Count[c] : sent'[c][k] = sent[c][k]
    <3> SUFFICES ASSUME NEW k \in 1 .. Count[c]
                 PROVE  sent'[c][k] = SubSeq(sent'[c], 1, Len(sent[c]))[k]
      BY <2>1
    <3>1. k \in 1 .. Len(sent[c])
      BY <1>1
    <3> QED BY <1>1, <3>1
  <2>3. Kept(sent'[c], Count[c], initialized[c], Said[c], broken[c])
    BY <1>1, <1>2, <2>2, KeptByMore
  <2> QED BY <2>1, <2>3 DEF Promises
<1>4. CASE Abstract!Break(c)
  <2>1. broken' = [broken EXCEPT ![c] = TRUE]
        /\ UNCHANGED <<sent, Count, initialized, Said>>
    BY <1>4 DEF Abstract!Break, Count, Said
  <2>2. broken'[c] = TRUE /\ \A d \in Conns \ {c} : broken'[d] = broken[d]
    BY <2>1 DEF Typed, TypeOK
  <2>3. Len(Said[c]) \in 0 .. Len(Said[c])
    BY <1>1, LenProperties
  <2>4. Kept(sent[c], Count[c], initialized[c], Said[c], TRUE)
    BY <1>1, <1>2, <2>3, KeptByLoss
  <2> QED BY <2>1, <2>2, <2>4 DEF Promises
<1>5. CASE Abstract!End(c)
  <2>1. UNCHANGED <<sent, Count, initialized, Said, broken>>
    BY <1>5 DEF Abstract!End, Count, Said
  <2> QED BY <2>1 DEF Promises
<1>6. CASE Abstract!Lose(c)
  <2>1. /\ broken[c] /\ UNCHANGED <<sent, Count, initialized, broken>>
        /\ \E n \in 0 .. Len(Said[c]) : Said' = [Said EXCEPT ![c] = SubSeq(Said[c], 1, n)]
    BY <1>6 DEF Abstract!Lose, Count, Said
  <2>2. PICK n \in 0 .. Len(Said[c]) : Said' = [Said EXCEPT ![c] = SubSeq(Said[c], 1, n)]
    BY <2>1
  <2>3. Said'[c] = SubSeq(Said[c], 1, n) /\ \A d \in Conns \ {c} : Said'[d] = Said[d]
    BY <2>2 DEF Said
  <2>4. broken[c] = TRUE
    BY <1>1, <2>1
  <2>5. Kept(sent[c], Count[c], initialized[c], SubSeq(Said[c], 1, n), TRUE)
    BY <1>1, <1>2, <2>2, KeptByLoss
  <2> QED BY <2>1, <2>3, <2>4, <2>5 DEF Promises
<1> QED BY <1>3, <1>4, <1>5, <1>6

\* Nothing is handled yet, and nothing said.
LEMMA InitPromises == Init => Promises
<1> SUFFICES ASSUME Init, NEW c \in Conns
             PROVE  Kept(sent[c], Count[c], initialized[c], Said[c], broken[c])
  BY DEF Promises
<1>1. Count[c] = 0 /\ ~initialized[c]
  BY DEF Init, Count, InService
<1>2. Said[c] = <<>>
  <2>1. <<>> \o <<>> = <<>>
    OBVIOUS
  <2> QED BY <2>1 DEF Init, Said
<1>3. ~Opened(sent[c], 0 + 1)
  BY DEF Opened
<1>4. \A i : i \notin DOMAIN <<>>
  BY ShortSequences
<1> QED BY <1>1, <1>2, <1>3, <1>4 DEF Kept

\* What was said on every connection keeps to what its client was promised, at each
\* moment and whatever the other connections do (handle_message, pump).
THEOREM PromisesKept == Spec => []Promises
<1>1. ASSUME Typed, Promises, [Next]_vars
      PROVE  Promises'
  <2>1. CASE UNCHANGED Abstract!vars
    <3>1. UNCHANGED <<sent, Count, initialized, Said, broken>>
      BY <2>1 DEF Abstract!vars, Count, Said
    <3> QED BY <1>1, <3>1 DEF Promises
  <2>2. ASSUME NEW c \in Conns,
               \/ Abstract!Send(c) \/ Abstract!Break(c) \/ Abstract!Handle(c)
               \/ Abstract!Reject(c) \/ Abstract!End(c) \/ Abstract!Lose(c)
        PROVE  Promises'
    BY <1>1, <2>2, HandleKeepsPromises, RejectKeepsPromises, OthersKeepPromises
  <2>3. [Abstract!Next]_(Abstract!vars)
    BY <1>1, NextConverses
  <2> QED BY <2>1, <2>2, <2>3 DEF Abstract!Next
<1> QED BY <1>1, InitPromises, InFlightIsLastRead, PTL DEF Spec

\* A concatenation begins with its first part.
LEMMA ConcatBegins ==
  ASSUME NEW S, NEW w \in Seq(S), NEW o \in Seq(S)
  PROVE  \A i \in DOMAIN w : i \in DOMAIN (w \o o) /\ (w \o o)[i] = w[i]
<1> DEFINE t == w \o o
<1>1. Len(w) \in Nat /\ DOMAIN w = 1 .. Len(w) /\ Len(o) \in Nat
  BY LenProperties
<1>2. /\ t \in Seq(S) /\ Len(t) = Len(w) + Len(o)
      /\ \A i \in 1 .. Len(w) + Len(o) : t[i] = IF i <= Len(w) THEN w[i] ELSE o[i - Len(w)]
  BY ConcatProperties
<1>3. DOMAIN t = 1 .. Len(w) + Len(o)
  BY <1>2, LenProperties
<1> HIDE DEF t
<1>4. \A i \in DOMAIN w : i \in DOMAIN t /\ t[i] = w[i]
  BY <1>1, <1>2, <1>3
<1> QED BY <1>4 DEF t

\* What is on the wire was said, at the same place, and the rest is in the outbox.
LEMMA WireIsSaid ==
  ASSUME Typed, NEW c \in Conns
  PROVE  /\ \A i \in DOMAIN wire[c] : i \in DOMAIN Said[c] /\ Said[c][i] = wire[c][i]
         /\ outbox[c] = <<>> => Said[c] = wire[c]
         /\ Handled(c) = 1 .. Count[c]
<1>1. wire[c] \in Seq(ReplyFrames) /\ outbox[c] \in Seq(ReplyFrames)
  BY DEF Typed, TypeOK
<1>2. Said[c] = wire[c] \o outbox[c]
  BY DEF Said
<1>3. \A i \in DOMAIN wire[c] : i \in DOMAIN Said[c] /\ Said[c][i] = wire[c][i]
  <2>1. \A i \in DOMAIN wire[c] : i \in DOMAIN (wire[c] \o outbox[c])
                                    /\ (wire[c] \o outbox[c])[i] = wire[c][i]
    BY <1>1, ConcatBegins, Zenon
  <2> QED BY <1>2, <2>1, Zenon
<1>4. outbox[c] = <<>> => Said[c] = wire[c]
  BY <1>1, <1>2, ConcatEmptySeq
<1>5. Handled(c) = 1 .. Count[c]
  BY DEF Handled, Count
<1> QED BY <1>3, <1>4, <1>5

\* Every request of a client that listens is answered once, in the order asked, and
\* nothing else is answered, however many connections there are (handle_message).
THEOREM AnsweredOnceInOrder == Spec => []AnswersOnceInOrder
<1>1. ASSUME Typed, Promises
      PROVE  AnswersOnceInOrder
  <2> SUFFICES ASSUME NEW c \in Conns
               PROVE  LET answers == {i \in DOMAIN wire[c] : wire[c][i].id # NullId}
                          ids     == {wire[c][i].id : i \in answers}
                          due     == {i \in Handled(c) : Answerable(sent[c][i])}
                      IN  /\ \A i, j \in answers : i < j => wire[c][i].id < wire[c][j].id
                          /\ ids \subseteq due
                          /\ (pc[c] = "reading" /\ ~broken[c]) => ids = due
    BY DEF AnswersOnceInOrder
  <2> DEFINE answers == {i \in DOMAIN wire[c] : wire[c][i].id # NullId}
             ids     == {wire[c][i].id : i \in answers}
             due     == {i \in Handled(c) : Answerable(sent[c][i])}
  <2>1. Kept(sent[c], Count[c], initialized[c], Said[c], broken[c])
    BY <1>1 DEF Promises
  <2>2. /\ \A i \in DOMAIN wire[c] : i \in DOMAIN Said[c] /\ Said[c][i] = wire[c][i]
        /\ outbox[c] = <<>> => Said[c] = wire[c]
        /\ Handled(c) = 1 .. Count[c]
    BY <1>1, WireIsSaid
  <2>3. \A i, j \in answers : i < j => wire[c][i].id < wire[c][j].id
    BY <2>1, <2>2 DEF Kept
  <2>4. ASSUME NEW i \in answers
        PROVE  wire[c][i].id \in due
    BY <2>1, <2>2, <2>4 DEF Kept
  <2>5. ASSUME pc[c] = "reading", ~broken[c], NEW k \in due
        PROVE  k \in ids
    <3>1. outbox[c] = <<>>
      BY <1>1, <2>5 DEF Typed, TypeOK
    <3>2. PICK i \in DOMAIN Said[c] : Said[c][i].id # NullId /\ Said[c][i].id = k
      BY <2>1, <2>2, <2>5 DEF Kept
    <3> QED BY <2>2, <3>1, <3>2
  <2> QED BY <2>3, <2>4, <2>5
<1> QED BY <1>1, PromisesKept, InFlightIsLastRead, PTL

\* The tools are reached exactly after the handshake of the connection itself, whatever
\* any other has shaken (Session, ServerCore).
THEOREM HandshakeFirst == Spec => []HandshakeGuardsTools
<1>1. ASSUME Typed, Promises
      PROVE  HandshakeGuardsTools
  <2> SUFFICES ASSUME NEW c \in Conns
               PROVE  /\ pc[c] = "calling" => Handshaken(c, read[c])
                      /\ \A i \in DOMAIN wire[c] :
                           LET id == wire[c][i].id
                           IN  (id # NullId /\ sent[c][id].method \in {"tools/list", "tools/call"})
                                 => (wire[c][i].what = "NOT_INITIALIZED" <=> ~Handshaken(c, id))
    BY DEF HandshakeGuardsTools
  <2>1. Kept(sent[c], Count[c], initialized[c], Said[c], broken[c])
    BY <1>1 DEF Promises
  <2>2. \A i : Handshaken(c, i) <=> Opened(sent[c], i)
    BY DEF Handshaken, Opened
  <2>3. ASSUME pc[c] = "calling"
        PROVE  Handshaken(c, read[c])
    <3>1. initialized[c] /\ InService(c)
      BY <1>1, <2>3 DEF Typed, InFlight, AwaitsCall, InService
    <3>2. read[c] \in Nat
      <4>1. read[c] \in 0 .. Len(sent[c]) /\ Len(sent[c]) \in Nat
        BY <1>1, LenProperties DEF Typed, TypeOK
      <4> QED BY <4>1
    <3>3. Count[c] + 1 = read[c]
      BY <3>1, <3>2 DEF Count
    <3> QED BY <2>1, <2>2, <3>1, <3>3 DEF Kept
  <2>4. ASSUME NEW i \in DOMAIN wire[c], wire[c][i].id # NullId,
               sent[c][wire[c][i].id].method \in {"tools/list", "tools/call"}
        PROVE  wire[c][i].what = "NOT_INITIALIZED" <=> ~Handshaken(c, wire[c][i].id)
    <3>1. i \in DOMAIN Said[c] /\ Said[c][i] = wire[c][i]
      BY <1>1, <2>4, WireIsSaid
    <3>2. TurnsAway(sent[c][wire[c][i].id], wire[c][i].what, Opened(sent[c], wire[c][i].id))
      BY <2>1, <2>4, <3>1 DEF Kept
    <3> QED BY <2>2, <2>4, <3>2 DEF TurnsAway
  <2> QED BY <2>3, <2>4
<1> QED BY <1>1, PromisesKept, InFlightIsLastRead, PTL

-----------------------------------------------------------------------------
(* The counters *)

\* A step that completes the handling of no frame counts nothing, ...
Quiet ==
  /\ Count' = Count /\ UNCHANGED <<requests, calls>>
  /\ \A c \in Conns : \A k \in 1 .. Count[c] : sent'[c][k] = sent[c][k]

\* ... and one that does counts a message under its label, and its call if it made one.
Counts(c) ==
  LET f == sent[c][Count[c] + 1]
  IN  /\ Count' = [Count EXCEPT ![c] = Count[c] + 1] /\ UNCHANGED sent
      /\ \/ /\ f \in Messages
            /\ requests' = [requests EXCEPT ![MethodLabel(f)] = @ + 1]
            /\ \/ /\ AwaitsCall(f, initialized[c])
                  /\ \E o \in {"ok", "error", "tool_error"} : calls' = [calls EXCEPT ![o] = @ + 1]
               \/ ~AwaitsCall(f, initialized[c]) /\ UNCHANGED calls
         \/ /\ f \notin Messages /\ f.method # "tools/call"
            /\ UNCHANGED <<requests, calls>>

\* A Dispatch counts its message (handle_message).
LEMMA DispatchCounts ==
  ASSUME Typed, NEW c \in Conns, NEW m \in Messages, NEW called,
         Dispatched(c, m, called), pc[c] \in {"reading", "calling", "stopping"},
         read'[c] = Count[c] + 1, read'[c] \in Nat, \A d \in Conns \ {c} : read'[d] = read[d],
         UNCHANGED wire
  PROVE  /\ Count' = [Count EXCEPT ![c] = Count[c] + 1]
         /\ requests' = [requests EXCEPT ![MethodLabel(m)] = @ + 1]
<1> DEFINE r == Replies(m, read'[c], initialized[c], called)
<1>1. r \in Seq(ReplyFrames)
  BY RepliesAreFrames DEF Typed, TypeOK
<1>2. outbox' = [outbox EXCEPT ![c] = r]
  BY DEF Dispatched
<1> HIDE DEF r
<1>3. PICK to \in {"reading", "writing"} : pc' = [pc EXCEPT ![c] = to]
  BY DEF Dispatched, Goto, AfterDispatch
<1>4. Count' = [Count EXCEPT ![c] = Count[c] + 1]
  BY <1>1, <1>2, <1>3, HandledOne
<1> QED BY <1>4 DEF Dispatched

\* Reading a frame counts it, unless it is left to the service.
LEMMA ReadFrameCounts ==
  ASSUME Typed, NEW c \in Conns, ReadFrame(c)
  PROVE  Quiet \/ Counts(c)
<1> DEFINE f == sent[c][read[c] + 1]
<1>1. /\ read[c] \in Nat /\ read'[c] = read[c] + 1 /\ \A d \in Conns \ {c} : read'[d] = read[d]
      /\ pc[c] = "reading" /\ outbox[c] = <<>>
      /\ UNCHANGED <<clients, wire, calls>>
      /\ f \in Messages \cup NoMessages
  BY FrameRead
<1>2. UNCHANGED <<sent, wire, calls>>
  BY <1>1 DEF clients
<1>3. Count[c] = read[c]
  BY <1>1 DEF Count, InService
<1>4. f.method \in {"blank", "not JSON", "binary", "bad frame"} =>
        f \notin Messages /\ f.method # "tools/call"
  BY MessageFields DEF Methods
<1>5. CASE Skipped(Kind[c], f) /\ UNCHANGED <<initialized, pc, outbox, requests>>
  <2>1. \A d \in Conns : Count'[d] = IF d = c THEN Count[c] + 1 ELSE Count[d]
    BY <1>1, <1>5 DEF Count, InService
  <2>2. Count' = [Count EXCEPT ![c] = Count[c] + 1]
    BY <2>1 DEF Count
  <2>3. f.method \in {"blank", "binary"}
    BY <1>5 DEF Skipped
  <2> QED BY <1>2, <1>3, <1>4, <1>5, <2>2, <2>3 DEF Counts
<1>6. ASSUME f.method \in {"blank", "not JSON", "binary", "bad frame"}, UNCHANGED requests,
             NEW to \in {"writing", "refusing", "ended"}, Goto(c, to),
             NEW box \in {<<>>, <<ParseError>>}, outbox' = [outbox EXCEPT ![c] = box]
      PROVE  Counts(c)
  <2>1. pc' = [pc EXCEPT ![c] = to]
    BY <1>6 DEF Goto
  <2>2. box \in Seq(ReplyFrames)
    BY <1>6, ParseErrorIsFrame, EmptySeq
  <2>3. Count' = [Count EXCEPT ![c] = Count[c] + 1]
    BY <1>1, <1>2, <1>3, <1>6, <2>1, <2>2, HandledOne
  <2> QED BY <1>2, <1>3, <1>4, <1>6, <2>3 DEF Counts
<1>7. CASE f \in Messages /\ Route(c, f)
  <2>1. CASE ~AwaitsCall(f, initialized[c]) /\ Dispatched(c, f, Failure("Tool"))
    <3>1. /\ read'[c] = Count[c] + 1 /\ read'[c] \in Nat
          /\ pc[c] \in {"reading", "calling", "stopping"}
      BY <1>1, <1>3
    <3>2. /\ Count' = [Count EXCEPT ![c] = Count[c] + 1]
          /\ requests' = [requests EXCEPT ![MethodLabel(f)] = @ + 1]
      BY <1>1, <1>2, <1>7, <2>1, <3>1, DispatchCounts
    <3> QED BY <1>2, <1>3, <1>7, <2>1, <3>2 DEF Counts
  <2>2. ASSUME UNCHANGED <<initialized, outbox, requests>>, NEW to \in {"calling", "stopping"},
               Goto(c, to)
        PROVE  Quiet
    <3>1. pc' = [pc EXCEPT ![c] = to]
      BY <2>2 DEF Goto
    <3>2. pc'[c] = to /\ \A d \in Conns \ {c} : pc'[d] = pc[d]
      BY <3>1, OverAt DEF Typed
    <3>3. Count' = Count
      BY <1>1, <2>2, <3>2 DEF Count, InService
    <3> QED BY <1>2, <2>2, <3>3 DEF Quiet
  <2> QED BY <1>7, <2>1, <2>2 DEF Route
<1> QED
  <2>1. CASE f.method = "bad frame" /\ Goto(c, AfterBadFrame(Kind[c]))
               /\ outbox' = [outbox EXCEPT ![c] =
                               IF Kind[c] = "framed" THEN <<ParseError>> ELSE <<>>]
               /\ UNCHANGED <<initialized, requests>>
    BY <1>6, <2>1 DEF AfterBadFrame
  <2>2. CASE Garbled(Kind[c], f) /\ outbox' = [outbox EXCEPT ![c] = <<ParseError>>]
               /\ Goto(c, "writing") /\ UNCHANGED <<initialized, requests>>
    BY <1>6, <2>2 DEF Garbled
  <2> QED BY <1>5, <1>7, <2>1, <2>2 DEF ReadFrame

\* The answer of the service counts the message that awaited it, and its call
\* (handle_tools_call).
LEMMA ServiceCounts ==
  ASSUME Typed, NEW c \in Conns, Service(c)
  PROVE  Counts(c)
<1> DEFINE f == sent[c][read[c]]
<1>1. PICK called : InService(c) /\ UNCHANGED <<read, clients, wire>> /\ Dispatched(c, f, called)
  BY DEF Service, CallReturns, ShutdownReturns, InService
<1>2. f \in Messages /\ read[c] > 0 /\ read[c] \in 0 .. Len(sent[c])
  BY <1>1 DEF Typed, InFlight, TypeOK
<1>3. Len(sent[c]) \in Nat
  BY LenProperties DEF Typed, TypeOK
<1>4. /\ Count[c] = read[c] - 1 /\ read[c] = Count[c] + 1 /\ read[c] \in Nat
      /\ pc[c] \in {"reading", "calling", "stopping"}
  BY <1>1, <1>2, <1>3 DEF Count, InService
<1>5. /\ Count' = [Count EXCEPT ![c] = Count[c] + 1]
      /\ requests' = [requests EXCEPT ![MethodLabel(f)] = @ + 1]
  BY <1>1, <1>2, <1>4, DispatchCounts
<1>6. UNCHANGED sent
  BY <1>1 DEF clients
<1>7. \/ /\ AwaitsCall(f, initialized[c])
         /\ \E o \in {"ok", "error", "tool_error"} : calls' = [calls EXCEPT ![o] = @ + 1]
      \/ ~AwaitsCall(f, initialized[c]) /\ UNCHANGED calls
  <2>1. ASSUME NEW k \in Returns, CallReturns(c, k)
        PROVE  /\ AwaitsCall(f, initialized[c])
               /\ \E o \in {"ok", "error", "tool_error"} : calls' = [calls EXCEPT ![o] = @ + 1]
    <3>1. AwaitsCall(f, initialized[c])
      BY <2>1 DEF CallReturns, Typed, InFlight
    <3>2. CallOutcome(k) \in {"ok", "error", "tool_error"}
      BY <2>1, ResultKinds
    <3>3. calls' = [calls EXCEPT ![CallOutcome(k)] = @ + 1]
      BY <2>1 DEF CallReturns, CountCall
    <3> QED BY <3>1, <3>2, <3>3
  <2>2. ASSUME ShutdownReturns(c)
        PROVE  ~AwaitsCall(f, initialized[c]) /\ UNCHANGED calls
    BY <2>2 DEF ShutdownReturns, Typed, InFlight, AwaitsShutdown, AwaitsCall
  <2> QED BY <2>1, <2>2 DEF Service
<1> QED BY <1>2, <1>4, <1>5, <1>6, <1>7 DEF Counts

\* Every step counts one message, with its call, or nothing.
LEMMA NextCounts ==
  ASSUME Typed, [Next]_vars
  PROVE  Quiet \/ \E c \in Conns : Counts(c)
<1>1. CASE UNCHANGED vars
  BY <1>1 DEF vars, Quiet, Count, InService
<1>2. ASSUME NEW c \in Conns, ReadEnds(c) \/ Write(c) \/ WriteFails(c)
      PROVE  Quiet
  <2>1. UNCHANGED <<sent, read, requests, calls>>
    BY <1>2 DEF ReadEnds, Write, WriteFails, clients
  <2>2. PICK to \in {"reading", "writing", "refusing", "ended"} : pc' = [pc EXCEPT ![c] = to]
    <3>1. CASE UNCHANGED pc /\ pc[c] \in {"writing", "refusing"}
      <4>1. pc' = [pc EXCEPT ![c] = pc[c]]
        BY <3>1 DEF Typed, TypeOK
      <4> QED BY <3>1, <4>1
    <3> QED BY <1>2, <3>1 DEF ReadEnds, Write, WriteFails, Goto
  <2>3. pc'[c] = to /\ \A d \in Conns \ {c} : pc'[d] = pc[d]
    BY <2>2, OverAt DEF Typed
  <2>4. pc[c] \notin {"calling", "stopping"}
    BY <1>2 DEF ReadEnds, Write, WriteFails
  <2>5. Count' = Count
    BY <2>1, <2>2, <2>3, <2>4 DEF Count, InService
  <2> QED BY <2>1, <2>5 DEF Quiet
<1>3. ASSUME NEW c \in Conns, Client(c)
      PROVE  Quiet
  <2>1. Count' = Count /\ UNCHANGED <<requests, calls>>
    BY <1>3 DEF Client, Send, Close, Break, Count, InService
  <2>2. \A d \in Conns : \A k \in 1 .. Len(sent[d]) : sent'[d][k] = sent[d][k]
    <3>1. CASE UNCHANGED sent
      BY <3>1
    <3>2. ASSUME NEW f \in Sendable[c], Send(c, f)
          PROVE  \A d \in Conns : \A k \in 1 .. Len(sent[d]) : sent'[d][k] = sent[d][k]
      BY <3>2, SendAppends DEF Typed
    <3> QED BY <1>3, <3>1, <3>2 DEF Client, Close, Break
  <2>3. ASSUME NEW d \in Conns, NEW k \in 1 .. Count[d]
        PROVE  k \in 1 .. Len(sent[d])
    <3>1. Count[d] \in 0 .. Len(sent[d]) /\ Len(sent[d]) \in Nat
      BY ConversationTypes
    <3> QED BY <3>1
  <2> QED BY <2>1, <2>2, <2>3 DEF Quiet
<1> QED BY <1>1, <1>2, <1>3, ReadFrameCounts, ServiceCounts DEF Next, Task, Reads

\* The frames handled, and those a counter is about.
Frames == UNION {{c} \X Handled(c) : c \in Conns}
At(h) == sent[h[1]][h[2]]
Labelled(l) == {h \in Frames : At(h) \in Messages /\ MethodLabel(At(h)) = l}
Called == {h \in Frames : At(h).method = "tools/call" /\ Handshaken(h[1], h[2])}

\* Finitely many frames are handled, and the counters have counted them.
Counted ==
  /\ IsFiniteSet(Frames)
  /\ \A l \in Methods \cup {"invalid"} : requests[l] = Cardinality(Labelled(l))
  /\ calls["ok"] + calls["error"] + calls["tool_error"] = Cardinality(Called)

\* The frames handled are the first of each client.
LEMMA FramesAreFirst ==
  \A h : h \in Frames <=> \E c \in Conns : \E k \in 1 .. Count[c] : h = <<c, k>>
<1>1. \A c \in Conns : Handled(c) = 1 .. Count[c]
  BY DEF Handled, Count
<1>2. \A h : h \in Frames <=> \E c \in Conns : h \in {c} \X Handled(c)
  BY DEF Frames
<1>3. ASSUME NEW c \in Conns, NEW h
      PROVE  h \in {c} \X Handled(c) <=> \E k \in 1 .. Count[c] : h = <<c, k>>
  <2>1. \A N : h \in {c} \X N <=> \E k \in N : h = <<c, k>>
    OBVIOUS
  <2> QED BY <1>1, <2>1, Zenon
<1> QED BY <1>2, <1>3

\* So they are after a step.
LEMMA FramesAreFirstNext ==
  \A h : h \in Frames' <=> \E c \in Conns : \E k \in 1 .. Count'[c] : h = <<c, k>>
<1>1. \A c \in Conns : Handled(c)' = 1 .. Count'[c]
  BY DEF Handled, Count, InService
<1>2. \A h : h \in Frames' <=> \E c \in Conns : h \in {c} \X Handled(c)'
  BY DEF Frames
<1>3. ASSUME NEW c \in Conns, NEW h
      PROVE  h \in {c} \X Handled(c)' <=> \E k \in 1 .. Count'[c] : h = <<c, k>>
  <2>1. \A N : h \in {c} \X N <=> \E k \in N : h = <<c, k>>
    OBVIOUS
  <2> QED BY <1>1, <2>1, Zenon
<1> QED BY <1>2, <1>3

\* Where nothing is handled, the counters still agree.
LEMMA QuietKeepsCounted ==
  ASSUME Typed, Counted, Quiet
  PROVE  Counted'
<1>1. Count' = Count /\ UNCHANGED <<requests, calls>>
  BY DEF Quiet
<1>2. Frames' = Frames
  BY <1>1, FramesAreFirst, FramesAreFirstNext
<1>3. ASSUME NEW h \in Frames
      PROVE  At(h)' = At(h) /\ (Handshaken(h[1], h[2])' <=> Handshaken(h[1], h[2]))
  <2>1. PICK c \in Conns : \E k \in 1 .. Count[c] : h = <<c, k>>
    BY FramesAreFirst
  <2>2. PICK k \in 1 .. Count[c] : h = <<c, k>>
    BY <2>1
  <2>3. h[1] = c /\ h[2] = k
    BY <2>2
  <2>4. Count[c] \in Nat
    <3>1. Count[c] \in 0 .. Len(sent[c]) /\ Len(sent[c]) \in Nat
      BY ConversationTypes
    <3> QED BY <3>1
  <2>5. \A i \in 1 .. Count[c] : sent'[c][i] = sent[c][i]
    BY DEF Quiet
  <2>6. Opened(sent'[c], k) <=> Opened(sent[c], k)
    <3>1. k \in 1 .. Count[c] + 1
      BY <2>4
    <3> QED BY <2>4, <2>5, <3>1, OpenedByFirst
  <2>7. Handshaken(c, k) <=> Opened(sent[c], k)
    BY DEF Handshaken, Opened
  <2>8. Handshaken(c, k)' <=> Opened(sent'[c], k)
    BY DEF Handshaken, Opened
  <2>9. At(h)' = At(h)
    BY <2>3, <2>5 DEF At
  <2> QED BY <2>3, <2>6, <2>7, <2>8, <2>9
<1>4. \A l \in Methods \cup {"invalid"} : Labelled(l)' = Labelled(l)
  BY <1>2, <1>3 DEF Labelled
<1>5. Called' = Called
  BY <1>2, <1>3 DEF Called
<1> QED BY <1>1, <1>2, <1>4, <1>5 DEF Counted

\* One more in a finite set.
LEMMA OneMore ==
  ASSUME NEW S, IsFiniteSet(S), NEW T, T \subseteq S, NEW x, x \notin S
  PROVE  /\ Cardinality(T \cup {x}) = Cardinality(T) + 1
         /\ IsFiniteSet(S \cup {x})
<1>1. IsFiniteSet(T) /\ x \notin T
  BY FS_Subset
<1> QED BY <1>1, FS_AddElement

\* One more frame is handled, and no other.
LEMMA FramesGrow ==
  ASSUME Typed, NEW c \in Conns, Count' = [Count EXCEPT ![c] = Count[c] + 1]
  PROVE  /\ Frames' = Frames \cup {<<c, Count[c] + 1>>}
         /\ <<c, Count[c] + 1>> \notin Frames
<1> DEFINE x == <<c, Count[c] + 1>>
<1>1. Count[c] \in Nat
  <2>1. Count[c] \in 0 .. Len(sent[c]) /\ Len(sent[c]) \in Nat
    BY ConversationTypes
  <2> QED BY <2>1
<1>2. Count'[c] = Count[c] + 1 /\ \A d \in Conns \ {c} : Count'[d] = Count[d]
  BY DEF Count
<1>3. ASSUME NEW h \in Frames'
      PROVE  h \in Frames \cup {x}
  <2>1. PICK d \in Conns : \E k \in 1 .. Count'[d] : h = <<d, k>>
    BY FramesAreFirstNext
  <2>2. PICK k \in 1 .. Count'[d] : h = <<d, k>>
    BY <2>1
  <2>3. CASE k \in 1 .. Count[d]
    BY <2>2, <2>3, FramesAreFirst
  <2>4. CASE k \notin 1 .. Count[d]
    <3>1. d = c /\ k = Count[c] + 1
      BY <1>1, <1>2, <2>4
    <3> QED BY <2>2, <3>1
  <2> QED BY <2>3, <2>4
<1>4. ASSUME NEW h \in Frames
      PROVE  h \in Frames'
  <2>1. PICK d \in Conns : \E k \in 1 .. Count[d] : h = <<d, k>>
    BY FramesAreFirst
  <2>2. PICK k \in 1 .. Count[d] : h = <<d, k>>
    BY <2>1
  <2>3. k \in 1 .. Count'[d]
    BY <1>1, <1>2
  <2> QED BY <2>2, <2>3, FramesAreFirstNext
<1>5. x \in Frames'
  <2>1. Count[c] + 1 \in 1 .. Count'[c]
    BY <1>1, <1>2
  <2> QED BY <2>1, FramesAreFirstNext
<1>6. x \notin Frames
  <2> SUFFICES ASSUME x \in Frames
               PROVE  FALSE
    OBVIOUS
  <2>1. PICK d \in Conns : \E k \in 1 .. Count[d] : x = <<d, k>>
    BY FramesAreFirst
  <2>2. Count[c] + 1 \in 1 .. Count[c]
    BY <2>1
  <2> QED BY <1>1, <2>2
<1> QED BY <1>3, <1>4, <1>5, <1>6

\* The handling of a frame is counted once, and under one label (handle_message,
\* handle_tools_call).
LEMMA CountsKeepsCounted ==
  ASSUME Typed, Promises, Counted, NEW c \in Conns, Counts(c)
  PROVE  Counted'
<1> DEFINE f == sent[c][Count[c] + 1]
           x == <<c, Count[c] + 1>>
           calling == f.method = "tools/call" /\ Handshaken(c, Count[c] + 1)
<1>1. /\ Count' = [Count EXCEPT ![c] = Count[c] + 1] /\ UNCHANGED sent
      /\ \/ /\ f \in Messages
            /\ requests' = [requests EXCEPT ![MethodLabel(f)] = @ + 1]
            /\ \/ /\ AwaitsCall(f, initialized[c])
                  /\ \E o \in {"ok", "error", "tool_error"} : calls' = [calls EXCEPT ![o] = @ + 1]
               \/ ~AwaitsCall(f, initialized[c]) /\ UNCHANGED calls
         \/ /\ f \notin Messages /\ f.method # "tools/call"
            /\ UNCHANGED <<requests, calls>>
  BY DEF Counts
<1>2. Frames' = Frames \cup {x} /\ x \notin Frames
  BY <1>1, FramesGrow
<1>3. /\ At(x) = f /\ \A h : At(h)' = At(h)
      /\ \A d, k : Handshaken(d, k)' <=> Handshaken(d, k)
  BY <1>1 DEF At, Handshaken
<1>4. AwaitsCall(f, initialized[c]) <=> calling
  <2>1. initialized[c] <=> Opened(sent[c], Count[c] + 1)
    BY DEF Promises, Kept
  <2>2. Handshaken(c, Count[c] + 1) <=> Opened(sent[c], Count[c] + 1)
    BY DEF Handshaken, Opened
  <2> QED BY <2>1, <2>2 DEF AwaitsCall
<1>5. IsFiniteSet(Frames')
  BY <1>2, OneMore DEF Counted
<1>6. ASSUME NEW l \in Methods \cup {"invalid"}
      PROVE  requests'[l] = Cardinality(Labelled(l)')
  <2>1. Labelled(l)' = IF f \in Messages /\ MethodLabel(f) = l THEN Labelled(l) \cup {x}
                                                             ELSE Labelled(l)
    BY <1>2, <1>3 DEF Labelled
  <2>2. requests'[l] = IF f \in Messages /\ MethodLabel(f) = l THEN requests[l] + 1
                                                             ELSE requests[l]
    BY <1>1 DEF Typed, TypeOK
  <2>3. Labelled(l) \subseteq Frames
    BY DEF Labelled
  <2>4. Cardinality(Labelled(l) \cup {x}) = Cardinality(Labelled(l)) + 1
    BY <1>2, <2>3, OneMore DEF Counted
  <2> QED BY <2>1, <2>2, <2>4 DEF Counted
<1>7. Called' = IF calling THEN Called \cup {x} ELSE Called
  <2>1. x[1] = c /\ x[2] = Count[c] + 1
    OBVIOUS
  <2> QED BY <1>2, <1>3, <2>1 DEF Called
<1>8. calls'["ok"] + calls'["error"] + calls'["tool_error"]
        = IF calling THEN calls["ok"] + calls["error"] + calls["tool_error"] + 1
                     ELSE calls["ok"] + calls["error"] + calls["tool_error"]
  <2>1. CASE calling
    <3>1. PICK o \in {"ok", "error", "tool_error"} : calls' = [calls EXCEPT ![o] = @ + 1]
      BY <1>1, <1>4, <2>1
    <3>2. calls \in [{"ok", "error", "tool_error"} -> Nat]
      BY DEF Typed, TypeOK
    <3> HIDE DEF calling
    <3>3. CASE o = "ok"
      BY <2>1, <3>1, <3>2, <3>3
    <3>4. CASE o = "error"
      BY <2>1, <3>1, <3>2, <3>4
    <3>5. CASE o = "tool_error"
      BY <2>1, <3>1, <3>2, <3>5
    <3> QED BY <3>3, <3>4, <3>5
  <2>2. CASE ~calling
    <3>1. UNCHANGED calls
      BY <1>1, <1>4, <2>2
    <3> QED BY <2>2, <3>1
  <2> QED BY <2>1, <2>2
<1>9. Called \subseteq Frames
  BY DEF Called
<1>10. Cardinality(Called \cup {x}) = Cardinality(Called) + 1
  BY <1>2, <1>9, OneMore DEF Counted
<1>11. calls'["ok"] + calls'["error"] + calls'["tool_error"] = Cardinality(Called')
  <2> HIDE DEF calling, x
  <2> QED BY <1>7, <1>8, <1>10 DEF Counted
<1> QED BY <1>5, <1>6, <1>11 DEF Counted

\* At the start there is nothing to count.
LEMMA InitCounted == Init => Counted
<1> SUFFICES ASSUME Init
             PROVE  Counted
  OBVIOUS
<1>1. \A c \in Conns : Count[c] = 0
  BY DEF Init, Count, InService
<1>2. Frames = {}
  <2>1. \A h : h \notin Frames
    BY <1>1, FramesAreFirst
  <2> QED BY <2>1
<1>3. Called = {} /\ \A l : Labelled(l) = {}
  BY <1>2 DEF Called, Labelled
<1>4. IsFiniteSet({}) /\ Cardinality({}) = 0
  BY FS_EmptySet
<1>5. \A l \in Methods \cup {"invalid"} : requests[l] = 0
  BY DEF Init
<1>6. calls["ok"] = 0 /\ calls["error"] = 0 /\ calls["tool_error"] = 0
  BY DEF Init
<1>7. calls["ok"] + calls["error"] + calls["tool_error"] = 0
  BY <1>6
<1> QED BY <1>2, <1>3, <1>4, <1>5, <1>7 DEF Counted

\* Every message handled is counted once, on whatever connection and in whatever order
\* calls return, and every call that reached a tool (handle_message, handle_tools_call).
THEOREM CountersRight == Spec => []CountersAgree
<1>1. ASSUME Typed, Promises, Counted, [Next]_vars
      PROVE  Counted'
  BY <1>1, NextCounts, QuietKeepsCounted, CountsKeepsCounted
<1>2. Spec => []Counted
  BY <1>1, InitCounted, InFlightIsLastRead, PromisesKept, PTL DEF Spec
<1>3. ASSUME Typed, Counted
      PROVE  CountersAgree
  <2>1. DOMAIN requests = Methods \cup {"invalid"}
    BY <1>3 DEF Typed, TypeOK
  <2> QED BY <1>3, <2>1 DEF CountersAgree, Counted, Labelled, Called, Frames, At
<1> QED BY <1>2, <1>3, InFlightIsLastRead, PTL
=============================================================================
