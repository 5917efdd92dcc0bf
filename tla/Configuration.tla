--------------------------- MODULE Configuration ---------------------------
(***************************************************************************)
(* ServerConfig (src/src/config.rs): what a server starts from, what each  *)
(* builder method makes of it, and what `serve` reads in it.  Constant     *)
(* operators: a builder takes a configuration and returns one.             *)
(***************************************************************************)
EXTENDS FiniteSets

CONSTANTS
  Issuers,      \* issuer URLs,
  Trimmed,      \* each without its trailing slashes
  Audiences

Unbound == "unbound"    \* None, for a binding or a URL

ASSUME IssuerAssumption ==
  /\ Trimmed \in [Issuers -> Issuers]
  /\ \A i \in Issuers : Trimmed[Trimmed[i]] = Trimmed[i]
  /\ Unbound \notin Issuers \cup Audiences

Transports == {"stdio", "websocket", "unix"}

\* WsAuth: the secret and the URL of a JWKS document are left out.
WsAuth(strategy) == [strategy |-> strategy, url |-> Unbound]
OidcIssuer(url) == [strategy |-> "OidcIssuer", url |-> url]

WsAuths == {WsAuth(s) : s \in {"None", "Secret", "Jwks"}} \cup {OidcIssuer(i) : i \in Issuers}

Bindings == [issuer : Issuers \cup {Unbound}, audience : Audiences \cup {Unbound}]

\* The optional parts of an initialize answer.
Descriptions == {"instructions", "title", "description", "websiteUrl"}

ServerConfigs ==
  [transports : SUBSET Transports, default_transport : Transports,
   ws_auth : WsAuths, ws_claim_bindings : Bindings,
   described : SUBSET Descriptions, tools_list_changed : BOOLEAN]

\* ServerConfig::new.  The name and the version are left out, and protocol_versions
\* is Supported of Session, max_content_length MaxLen of FramedTransport.
New ==
  [transports |-> {"stdio"}, default_transport |-> "stdio",
   ws_auth |-> WsAuth("None"),
   ws_claim_bindings |-> [issuer |-> Unbound, audience |-> Unbound],
   described |-> {}, tools_list_changed |-> FALSE]

-----------------------------------------------------------------------------
(* The builder methods *)

WithWebsocket(c) == [c EXCEPT !.transports = @ \cup {"websocket"}]

\* Mutant of WithoutWebsocket: a default transport stays that is off now.
WithoutWebsocketKeepsDefault(c) == [c EXCEPT !.transports = @ \ {"websocket"}]

WithoutWebsocket(c) ==
  [c EXCEPT !.transports = @ \ {"websocket"},
            !.default_transport = IF @ = "websocket" THEN "stdio" ELSE @]

WithUnix(c) == [c EXCEPT !.transports = @ \cup {"unix"}]

DefaultTransport(c, kind) == [c EXCEPT !.default_transport = kind]

WebsocketAuth(c, auth) == [c EXCEPT !.ws_auth = auth]

WebsocketExpectedIssuer(c, i) == [c EXCEPT !.ws_claim_bindings.issuer = i]

WebsocketExpectedAudience(c, a) == [c EXCEPT !.ws_claim_bindings.audience = a]

\* The four methods named after what they set.
Describe(c, what) == [c EXCEPT !.described = @ \cup {what}]

ToolsListChanged(c, yes) == [c EXCEPT !.tools_list_changed = yes]

\* What one more call may make of a configuration, as to where it listens and whom
\* it admits.
ListenerBuilt(c) ==
  {WithWebsocket(c), WithoutWebsocket(c), WithUnix(c)}
    \cup {DefaultTransport(c, k) : k \in Transports}
    \cup {WebsocketAuth(c, a) : a \in WsAuths}
    \cup {WebsocketExpectedIssuer(c, i) : i \in Issuers}
    \cup {WebsocketExpectedAudience(c, a) : a \in Audiences}

-----------------------------------------------------------------------------
(* What is read in it *)

\* EnabledTransports::allows
Allows(c, kind) == kind \in c.transports

\* `--transport`, if the command line has one.
NoTransport == "no transport"
Chosen(c, transport) ==
  IF transport = NoTransport THEN c.default_transport ELSE transport
=============================================================================
