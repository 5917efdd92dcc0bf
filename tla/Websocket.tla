------------------------------ MODULE Websocket ------------------------------
(***************************************************************************)
(* A server from its first builder call to its websocket clients: serve,   *)
(* serve_websocket and ws_handler (src/src/runner.rs) with the             *)
(* Authenticator of src/src/auth.rs.  Requests are tasks of their own.     *)
(* One of them is preempted where it waits for the lock of the verifier to *)
(* store it, and where the verifier fetches keys; its client may go at     *)
(* either place, and the request with it.                                  *)
(***************************************************************************)
EXTENDS Auth

CONSTANTS
  Clients,      \* each makes one request
  Sends,        \* the headers each of them may send
  Documents     \* the issuers a discovery document may name

ASSUME WebsocketAssumption ==
  Sends \in [Clients -> SUBSET Headers] /\ Documents \subseteq Issuers

VARIABLES
  features,     \* the features of the build that matter here
  config,       \* the ServerConfig, under construction and then fixed
  phase,        \* configuring, discovering, binding, listening, failed or elsewhere
  auth,         \* the Authenticator: its kind, and its bindings
  discovered,   \* the issuer the discovery document named
  shared,       \* the verifier behind the lock, named after who built it
  pc,           \* each request: none, asked, storing, verifying, or how it ended
  header,       \* its header
  verifier      \* the verifier it uses

vars == <<features, config, phase, auth, discovered, shared, pc, header, verifier>>
server == <<features, config, auth, discovered>>
requests == <<shared, pc, header, verifier>>

NoVerifier == "no verifier"
NoHeader == [words |-> "not sent"]
NotYet == [kind |-> "not yet"]

ASSUME ClientAssumption == NoVerifier \notin Clients

Init ==
  /\ features \in {{}, {"websocket"}, {"websocket", "auth"}}
  /\ config = New
  /\ phase = "configuring"
  /\ auth = NotYet /\ discovered = Unbound
  /\ shared = NoVerifier
  /\ pc = [c \in Clients |-> "none"]
  /\ header = [c \in Clients |-> NoHeader]
  /\ verifier = [c \in Clients |-> NoVerifier]

-----------------------------------------------------------------------------
(* Starting *)

Configure ==
  /\ phase = "configuring"
  /\ config' \in ListenerBuilt(config) /\ config' # config
  /\ UNCHANGED <<features, phase, auth, discovered, requests>>

\* Authenticator::from without discovery.  A build without the feature has none.
Authenticator(b) ==
  [kind |-> IF "auth" \in features THEN config.ws_auth.strategy ELSE "None",
   bindings |-> b]

\* Mutant of Refused: a build without the feature serves without authentication.
RefusedIfNotAllowed(kind) ==
  ~Allows(config, kind) \/ (kind = "websocket" /\ "websocket" \notin features)

\* What serve and serve_websocket refuse before they do anything.
Refused(kind) ==
  \/ ~Allows(config, kind)
  \/ /\ kind = "websocket"
     /\ \/ "websocket" \notin features
        \/ "auth" \notin features /\ config.ws_auth.strategy # "None"

Discovers == "auth" \in features /\ config.ws_auth.strategy = "OidcIssuer"

Serve(transport) ==
  /\ phase = "configuring"
  /\ LET kind == Chosen(config, transport)
     IN  \/ Refused(kind) /\ phase' = "failed" /\ UNCHANGED auth
         \/ /\ ~Refused(kind) /\ kind # "websocket"
            /\ phase' = "elsewhere" /\ UNCHANGED auth
         \/ /\ ~Refused(kind) /\ kind = "websocket"
            /\ Discovers
            /\ phase' = "discovering" /\ UNCHANGED auth
         \/ /\ ~Refused(kind) /\ kind = "websocket"
            /\ ~Discovers
            /\ phase' = "binding" /\ auth' = Authenticator(config.ws_claim_bindings)
  /\ UNCHANGED <<features, config, discovered, requests>>

\* from_oidc_issuer: the document names an issuer; DiscoveryFails: there is none.
Discover(issuer) ==
  /\ phase = "discovering"
  /\ IF DiscoveryAgrees(config.ws_auth.url, issuer, config.ws_claim_bindings)
       THEN /\ phase' = "binding" /\ discovered' = issuer
            /\ auth' = [kind |-> "Jwks",
                        bindings |-> DiscoveredBindings(issuer, config.ws_claim_bindings)]
       ELSE phase' = "failed" /\ UNCHANGED <<auth, discovered>>
  /\ UNCHANGED <<features, config, requests>>

DiscoveryFails ==
  /\ phase = "discovering" /\ phase' = "failed"
  /\ UNCHANGED <<server, requests>>

\* TcpListener::bind
Bind ==
  /\ phase = "binding" /\ phase' \in {"listening", "failed"}
  /\ UNCHANGED <<server, requests>>

-----------------------------------------------------------------------------
(* Requests *)

Goto(c, to) == pc' = [pc EXCEPT ![c] = to]

Ask(c, h) ==
  /\ phase = "listening" /\ pc[c] = "none"
  /\ header' = [header EXCEPT ![c] = h]
  /\ Goto(c, "asked")
  /\ UNCHANGED <<server, phase, shared, verifier>>

Verdict(c, admitted) == Goto(c, IF admitted THEN "open" ELSE "refused")

\* Mutant of Waits: a verification holds the lock of the verifier.
WaitsForTheLock(c) == pc[c] = "asked" /\ \A d \in Clients : pc[d] # "verifying"

\* The task of the request can run, whatever the others do.
Waits(c) == pc[c] = "asked"

\* Mutant of Found: every request builds a verifier.
FoundNever == NoVerifier

\* get_verifier, under the read lock: the one that is kept.
Found == shared

\* Authenticator::check, up to the first point where it may wait, and get_verifier:
\* the verifier that is there, or else one of its own.
Check(c) ==
  /\ Waits(c)
  /\ LET t == ExtractBearer(header[c])
     IN  \/ auth.kind = "None" /\ Verdict(c, TRUE) /\ UNCHANGED verifier
         \/ /\ auth.kind = "Secret" /\ UNCHANGED verifier
            /\ Verdict(c, t # NoToken /\ Decodes(t, Validation(auth.bindings)))
         \/ auth.kind = "Jwks" /\ t = NoToken /\ Verdict(c, FALSE) /\ UNCHANGED verifier
         \/ /\ auth.kind = "Jwks" /\ t # NoToken /\ Found # NoVerifier
            /\ verifier' = [verifier EXCEPT ![c] = Found] /\ Goto(c, "verifying")
         \/ /\ auth.kind = "Jwks" /\ t # NoToken /\ Found = NoVerifier
            /\ verifier' = [verifier EXCEPT ![c] = c] /\ Goto(c, "storing")
  /\ UNCHANGED <<server, phase, shared, header>>

\* Mutant of Stored: the verifier is used and not kept.
StoredNever(c) == shared

\* The last one to store its verifier wins.
Stored(c) == verifier[c]

Store(c) ==
  /\ pc[c] = "storing"
  /\ shared' = Stored(c)
  /\ Goto(c, "verifying")
  /\ UNCHANGED <<server, phase, header, verifier>>

\* verify: the keys are there, or have been fetched, or cannot be.
Verify(c) ==
  /\ pc[c] = "verifying"
  /\ LET t == ExtractBearer(header[c])
     IN  \/ Verdict(c, SignatureVerifies(t) /\ CheckClaimBindings(t, auth.bindings))
         \/ Goto(c, "unverified")
  /\ UNCHANGED <<server, phase, shared, header, verifier>>

\* The client goes, and the handler is dropped where it waits.
Leave(c) ==
  /\ pc[c] \in {"asked", "storing", "verifying"}
  /\ Goto(c, "gone")
  /\ UNCHANGED <<server, phase, shared, header, verifier>>

-----------------------------------------------------------------------------

Start ==
  \/ Configure \/ \E t \in Transports \cup {NoTransport} : Serve(t)
  \/ (\E i \in Documents : Discover(i)) \/ DiscoveryFails \/ Bind

Handler(c) == Check(c) \/ Store(c)

Next ==
  \/ Start
  \/ \E c \in Clients : (\E h \in Sends[c] : Ask(c, h)) \/ Handler(c) \/ Verify(c) \/ Leave(c)

Spec == Init /\ [][Next]_vars

\* The runtime runs a request that can go on; the provider of the keys owes nothing.
FairSpec == Spec /\ \A c \in Clients : WF_vars(Handler(c))
-----------------------------------------------------------------------------
(* What must hold *)

Ended == {"open", "refused", "unverified", "gone"}

\* The type invariant; and a build without a feature starts nothing that needs it.
TypeOK ==
  /\ features \in SUBSET {"websocket", "auth"}
  /\ config \in ServerConfigs
  /\ phase \in {"configuring", "discovering", "binding", "listening", "failed", "elsewhere"}
  /\ auth \in {NotYet} \cup [kind : {"None", "Secret", "Jwks"}, bindings : Bindings]
  /\ phase \in {"discovering", "binding", "listening"} =>
       "websocket" \in features /\ ("auth" \in features \/ config.ws_auth.strategy = "None")
  /\ discovered \in Issuers \cup {Unbound}
  /\ shared \in Clients \cup {NoVerifier}
  /\ pc \in [Clients -> {"none", "asked", "storing", "verifying"} \cup Ended]
  /\ header \in [Clients -> Headers \cup {NoHeader}]
  /\ verifier \in [Clients -> Clients \cup {NoVerifier}]

\* What the configuration asks of a client, in the words of config.rs: the strategy,
\* and the bindings, of which OidcIssuer fixes the first (auth.rs:63-64).
Policy ==
  [required |-> CASE config.ws_auth.strategy = "None"   -> "nothing"
                  [] config.ws_auth.strategy = "Secret" -> "secret"
                  [] OTHER                              -> "keys",
   lifetimes |-> IF config.ws_auth.strategy = "Secret" THEN {"now", "not yet"} ELSE {"now"},
   issuer |-> IF config.ws_auth.strategy = "OidcIssuer"
                THEN Trimmed[discovered] ELSE config.ws_claim_bindings.issuer,
   audience |-> config.ws_claim_bindings.audience]

Abstract == INSTANCE Admission
              WITH policy <- IF phase = "listening" THEN Policy
                             ELSE [required |-> "nothing yet"],
                   verdict <- [c \in Clients |-> IF pc[c] \in {"storing", "verifying"}
                                                   THEN "asked" ELSE pc[c]]

\* Whoever gets a session has met the configured policy, and whoever has met it
\* gets one unless the keys are out of reach: through discovery, the bindings
\* that the Authenticator keeps, the two libraries, two requests that build the
\* verifier at once and clients that leave (auth.rs:1-10, config.rs:88-91).
Admits == Abstract!Spec

\* "lazy key fetching + caching" (auth.rs:159): requests that race to build the
\* verifier build one each; but whoever goes on to verify does so with the one
\* that is kept at that moment, its own or another's, and once one is kept no
\* request builds its own any more, and the next finds one, whoever has left.
VerifierIsKept ==
  [][\A c \in Clients :
       /\ (pc'[c] = "verifying" /\ pc[c] # "verifying")
            => verifier'[c] = shared' /\ shared' # NoVerifier
       /\ shared # NoVerifier
            => shared' # NoVerifier /\ (pc'[c] = "storing" => pc[c] = "storing")]_vars

\* "If websocket was the default transport it falls back to stdio" (config.rs:236-237):
\* no builder call, in whatever order, leaves a default that was served unserved,
\* but for a call of default_transport itself.
DefaultStaysServed ==
  [][Allows(config, config.default_transport)
       => \/ Allows(config', config'.default_transport)
          \/ \E k \in Transports : config' = DefaultTransport(config, k)]_vars

\* One request that waits for the keys holds up no other: no lock of the crate's own
\* is held across the fetch (what the key library makes requests wait for is its own).
NobodyIsHeldUp ==
  \A c \in Clients : pc[c] \in {"asked", "storing"} ~> pc[c] \notin {"asked", "storing"}

\* OidcIssuer "binds the token's `iss` to the discovered issuer automatically"
\* (auth.rs:63-64): a token of that issuer, valid and for the right audience, is
\* not turned away.
IssuersTokensAdmitted ==
  \A c \in Clients :
    LET t == ExtractBearer(header[c])
        required == config.ws_claim_bindings.audience
    IN  (discovered # Unbound /\ pc[c] = "refused" /\ t # NoToken)
          => ~(t.genuine /\ t.lifetime = "now" /\ t.iss = discovered
                 /\ (required # Unbound => required \in t.aud))
=============================================================================
