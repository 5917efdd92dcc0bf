---------------------------- MODULE MCWebsocket ----------------------------
(* Instances of Websocket for TLC. *)
EXTENDS Websocket, TLC

CONSTANTS a, b      \* clients

MCIssuers == {"idp", "idp/", "other"}
MCTrimmed == [i \in MCIssuers |-> IF i = "idp/" THEN "idp" ELSE i]

Bears(scheme, t) == [words |-> "two", scheme |-> scheme, token |-> t]

GoodToken == [genuine |-> TRUE, lifetime |-> "now", iss |-> "idp", aud |-> {"here"}]

\* Headers that carry no token, a good token under either scheme, one that is forged,
\* and genuine tokens of every kind; and, from the other client, a good token.
MCEveryHeader ==
  [words : {"none", "unreadable", "one"}]
    \cup {Bears("Bearer", NoToken), Bears("Bearer", GoodToken), Bears("Basic", GoodToken),
          Bears("bearer", [GoodToken EXCEPT !.genuine = FALSE])}
    \cup {Bears("bearer", t) : t \in {u \in Tokens : u.genuine}}

MCSends == (a :> MCEveryHeader) @@ (b :> {Bears("bearer", GoodToken)})
=============================================================================
