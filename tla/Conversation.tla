---------------------------- MODULE Conversation ----------------------------
(***************************************************************************)
(* What a client of src/src/server.rs and src/src/runner.rs may rely on:   *)
(* its frames are handled one at a time, in the order sent, each in one    *)
(* step and by the state of its own connection alone; the replies come in  *)
(* that order, whole, until the connection is over.                        *)
(***************************************************************************)
EXTENDS Session

CONSTANTS Conns, Kind

VARIABLES
  sent,         \* the frames each client has sent
  handled,      \* how many of them have been handled
  initialized,  \* the handshake state of each session
  replies,      \* the replies on their way to each client, or there
  broken,       \* the client no longer takes replies
  over          \* the connection is over

vars == <<sent, handled, initialized, replies, broken, over>>

Init ==
  /\ sent = [c \in Conns |-> <<>>]
  /\ handled = [c \in Conns |-> 0]
  /\ initialized = [c \in Conns |-> FALSE]
  /\ replies = [c \in Conns |-> <<>>]
  /\ broken = [c \in Conns |-> FALSE]
  /\ over = [c \in Conns |-> FALSE]

Send(c) ==
  /\ Len(sent'[c]) = Len(sent[c]) + 1
  /\ SubSeq(sent'[c], 1, Len(sent[c])) = sent[c]
  /\ \A d \in Conns \ {c} : sent'[d] = sent[d]
  /\ UNCHANGED <<handled, initialized, replies, broken, over>>

Break(c) ==
  /\ broken' = [broken EXCEPT ![c] = TRUE]
  /\ UNCHANGED <<sent, handled, initialized, replies, over>>

Handle(c) ==
  /\ ~over[c] /\ handled[c] < Len(sent[c])
  /\ LET id == handled[c] + 1
         m  == sent[c][id]
     IN  /\ handled' = [handled EXCEPT ![c] = id]
         /\ \/ /\ Skipped(Kind[c], m)
               /\ UNCHANGED <<initialized, replies>>
            \/ /\ Garbled(Kind[c], m)
               /\ replies' = [replies EXCEPT ![c] = Append(@, ParseError)]
               /\ UNCHANGED initialized
            \/ /\ m \in Messages
               /\ \E called \in CallResults :
                    replies' = [replies EXCEPT ![c] =
                                  @ \o Replies(m, id, initialized[c], called)]
               /\ initialized' =
                    [initialized EXCEPT ![c] = InitializedAfter(m, @)]
  /\ UNCHANGED <<sent, broken, over>>

\* A frame that is no frame ends the connection, with a reply if there can be one.
Reject(c) ==
  /\ ~over[c] /\ handled[c] < Len(sent[c])
  /\ sent[c][handled[c] + 1].method = "bad frame"
  /\ handled' = [handled EXCEPT ![c] = @ + 1]
  /\ \/ replies' = [replies EXCEPT ![c] = Append(@, ParseError)]
     \/ UNCHANGED replies
  /\ over' = [over EXCEPT ![c] = TRUE]
  /\ UNCHANGED <<sent, initialized, broken>>

End(c) ==
  /\ over' = [over EXCEPT ![c] = TRUE]
  /\ UNCHANGED <<sent, handled, initialized, replies, broken>>

\* Replies are lost only to a client that has stopped taking them, the last first.
Lose(c) ==
  /\ broken[c]
  /\ \E n \in 0 .. Len(replies[c]) :
       replies' = [replies EXCEPT ![c] = SubSeq(@, 1, n)]
  /\ \A d \in Conns : over[d] => over'[d]
  /\ \A d \in Conns \ {c} : over'[d] = over[d]
  /\ UNCHANGED <<sent, handled, initialized, broken>>

Next ==
  \E c \in Conns : Send(c) \/ Break(c) \/ Handle(c) \/ Reject(c) \/ End(c) \/ Lose(c)

Spec == Init /\ [][Next]_vars
=============================================================================
