-------------------------- MODULE Websocket_proofs --------------------------
(***************************************************************************)
(* Websocket, for any issuers, audiences, headers and number of clients:   *)
(* the types, the verifier that is kept, the builder calls, and that the   *)
(* server admits exactly whom its configuration describes.                 *)
(***************************************************************************)
EXTENDS Websocket, TLAPS

-----------------------------------------------------------------------------
(* Types *)

\* Every builder method returns a ServerConfig (src/src/config.rs).
LEMMA BuiltIsConfig ==
  ASSUME NEW c \in ServerConfigs, NEW d \in ListenerBuilt(c)
  PROVE  d \in ServerConfigs
<1> USE DEF ServerConfigs
<1>1. CASE d \in {WithWebsocket(c), WithoutWebsocket(c), WithUnix(c)}
  <2>1. CASE d = WithWebsocket(c)
    <3>1. c.transports \cup {"websocket"} \in SUBSET Transports
      BY DEF Transports
    <3> QED BY <2>1, <3>1 DEF WithWebsocket
  <2>2. CASE d = WithoutWebsocket(c)
    <3>1. c.transports \ {"websocket"} \in SUBSET Transports /\ "stdio" \in Transports
      BY DEF Transports
    <3> QED BY <2>2, <3>1 DEF WithoutWebsocket
  <2>3. CASE d = WithUnix(c)
    <3>1. c.transports \cup {"unix"} \in SUBSET Transports
      BY DEF Transports
    <3> QED BY <2>3, <3>1 DEF WithUnix
  <2> QED BY <1>1, <2>1, <2>2, <2>3
<1>2. ASSUME NEW k \in Transports, d = DefaultTransport(c, k)
      PROVE  d \in ServerConfigs
  BY <1>2 DEF DefaultTransport
<1>3. ASSUME NEW a \in WsAuths, d = WebsocketAuth(c, a)
      PROVE  d \in ServerConfigs
  BY <1>3 DEF WebsocketAuth
<1>4. ASSUME NEW i \in Issuers, d = WebsocketExpectedIssuer(c, i)
      PROVE  d \in ServerConfigs
  BY <1>4 DEF WebsocketExpectedIssuer, Bindings
<1>5. ASSUME NEW a \in Audiences, d = WebsocketExpectedAudience(c, a)
      PROVE  d \in ServerConfigs
  BY <1>5 DEF WebsocketExpectedAudience, Bindings
<1> QED BY <1>1, <1>2, <1>3, <1>4, <1>5 DEF ListenerBuilt

\* The strategy is one of four, and a URL goes with OidcIssuer (WsAuth).
LEMMA Strategies ==
  ASSUME NEW c \in ServerConfigs
  PROVE  /\ c.ws_auth.strategy \in {"None", "Secret", "Jwks", "OidcIssuer"}
         /\ c.ws_auth.strategy = "OidcIssuer" => c.ws_auth.url \in Issuers
         /\ c.ws_claim_bindings \in Bindings
BY DEF ServerConfigs, WsAuths, WsAuth, OidcIssuer

\* What discovery makes of bindings are bindings (from_oidc_issuer).
LEMMA DiscoveredAreBindings ==
  ASSUME NEW b \in Bindings, NEW i \in Issuers
  PROVE  /\ DiscoveredBindings(i, b) \in Bindings
         /\ DiscoveredBindings(i, b).issuer = Trimmed[i]
         /\ DiscoveredBindings(i, b).audience = b.audience
BY IssuerAssumption DEF DiscoveredBindings, Bindings

\* The configuration, the authenticator and the requests have their types, and what
\* a build lacks is never started (serve, serve_websocket).
THEOREM WebsocketTypeCorrect == Spec => []TypeOK
<1> USE WebsocketAssumption
<1>1. Init => TypeOK
  <2>1. New \in ServerConfigs
    BY DEF New, ServerConfigs, Transports, WsAuths, WsAuth, Bindings
  <2> QED BY <2>1 DEF Init, TypeOK
<1>2. ASSUME TypeOK, [Next]_vars
      PROVE  TypeOK'
  <2>1. CASE UNCHANGED vars
    BY <1>2, <2>1 DEF vars, TypeOK
  <2>2. CASE Configure
    BY <1>2, <2>2, BuiltIsConfig DEF Configure, requests, TypeOK
  <2>3. ASSUME NEW t \in Transports \cup {NoTransport}, Serve(t)
        PROVE  TypeOK'
    <3>1. config.ws_auth.strategy \in {"None", "Secret", "Jwks", "OidcIssuer"}
          /\ config.ws_claim_bindings \in Bindings
      BY <1>2, Strategies DEF TypeOK
    <3>2. auth' \in {NotYet} \cup [kind : {"None", "Secret", "Jwks"}, bindings : Bindings]
      <4>1. CASE UNCHANGED auth
        BY <1>2, <4>1 DEF TypeOK
      <4>2. CASE ~Discovers /\ auth' = Authenticator(config.ws_claim_bindings)
        BY <3>1, <4>2 DEF Discovers, Authenticator
      <4> QED BY <2>3, <4>1, <4>2 DEF Serve
    <3>3. phase' \in {"failed", "elsewhere", "discovering", "binding"}
      BY <2>3 DEF Serve
    <3>4. phase' \in {"discovering", "binding"} =>
            "websocket" \in features /\ ("auth" \in features \/ config.ws_auth.strategy = "None")
      BY <2>3 DEF Serve, Refused
    <3> QED BY <1>2, <2>3, <3>2, <3>3, <3>4 DEF Serve, requests, TypeOK
  <2>4. ASSUME NEW i \in Documents, Discover(i)
        PROVE  TypeOK'
    <3>1. config.ws_claim_bindings \in Bindings
      BY <1>2, Strategies DEF TypeOK
    <3> QED BY <1>2, <2>4, <3>1, DiscoveredAreBindings DEF Discover, requests, TypeOK
  <2>5. CASE DiscoveryFails \/ Bind
    BY <1>2, <2>5 DEF DiscoveryFails, Bind, server, requests, TypeOK
  <2>6. ASSUME NEW c \in Clients, NEW h \in Sends[c], Ask(c, h)
        PROVE  TypeOK'
    <3>1. h \in Headers
      BY <2>6
    <3> QED BY <1>2, <2>6, <3>1 DEF Ask, Goto, server, TypeOK
  <2>7. ASSUME NEW c \in Clients, Handler(c) \/ Verify(c) \/ Leave(c)
        PROVE  TypeOK'
    <3>1. CASE Check(c)
      <4>1. pc' \in [Clients -> {"none", "asked", "storing", "verifying"} \cup Ended]
        BY <1>2, <2>7, <3>1 DEF Check, Found, Verdict, Goto, Ended, TypeOK
      <4>2. verifier' \in [Clients -> Clients \cup {NoVerifier}]
        BY <1>2, <2>7, <3>1 DEF Check, Found, TypeOK
      <4> QED BY <1>2, <3>1, <4>1, <4>2 DEF Check, server, TypeOK
    <3>2. CASE Store(c)
      BY <1>2, <2>7, <3>2 DEF Store, Stored, Goto, server, TypeOK
    <3>3. CASE Verify(c)
      <4>1. pc' \in [Clients -> {"none", "asked", "storing", "verifying"} \cup Ended]
        BY <1>2, <2>7, <3>3 DEF Verify, Verdict, Goto, Ended, TypeOK
      <4> QED BY <1>2, <3>3, <4>1 DEF Verify, server, TypeOK
    <3>4. CASE Leave(c)
      BY <1>2, <2>7, <3>4 DEF Leave, Goto, server, Ended, TypeOK
    <3> QED BY <2>7, <3>1, <3>2, <3>3, <3>4 DEF Handler
  <2> QED BY <1>2, <2>1, <2>2, <2>3, <2>4, <2>5, <2>6, <2>7 DEF Next, Start
<1> QED BY <1>1, <1>2, PTL DEF Spec

-----------------------------------------------------------------------------
(* The verifier that is kept, and the builder calls *)

\* A request that is about to store a verifier has built it itself.
OwnVerifier == \A c \in Clients : pc[c] = "storing" => verifier[c] = c

\* OwnVerifier is an invariant (get_verifier).
LEMMA VerifiersAreOwn == Spec => []OwnVerifier
<1> USE DEF OwnVerifier, TypeOK
<1>1. Init => OwnVerifier
  BY DEF Init
<1>2. ASSUME TypeOK, OwnVerifier, [Next]_vars
      PROVE  OwnVerifier'
  <2>1. CASE UNCHANGED vars \/ Start
    BY <1>2, <2>1 DEF vars, Start, Configure, Serve, Discover, DiscoveryFails, Bind, requests
  <2>2. ASSUME NEW c \in Clients, NEW h \in Sends[c], Ask(c, h)
        PROVE  OwnVerifier'
    BY <1>2, <2>2 DEF Ask, Goto
  <2>3. ASSUME NEW c \in Clients, Handler(c) \/ Verify(c) \/ Leave(c)
        PROVE  OwnVerifier'
    BY <1>2, <2>3 DEF Handler, Check, Store, Verify, Leave, Verdict, Goto
  <2> QED BY <1>2, <2>1, <2>2, <2>3 DEF Next
<1> QED BY WebsocketTypeCorrect, <1>1, <1>2, PTL DEF Spec

\* Whoever goes on to verify does so with the verifier that is kept, and once one is
\* kept no request builds another, however those that build one overlap and
\* whoever leaves (get_verifier).
THEOREM VerifierKept == Spec => VerifierIsKept
<1> DEFINE Kept(c) ==
      /\ (pc'[c] = "verifying" /\ pc[c] # "verifying")
           => verifier'[c] = shared' /\ shared' # NoVerifier
      /\ shared # NoVerifier
           => shared' # NoVerifier /\ (pc'[c] = "storing" => pc[c] = "storing")
<1>1. ASSUME TypeOK, OwnVerifier, [Next]_vars
      PROVE  [\A c \in Clients : Kept(c)]_vars
  <2> SUFFICES ASSUME NEW d \in Clients PROVE Kept(d) \/ UNCHANGED vars
    OBVIOUS
  <2>1. CASE Start
    BY <2>1 DEF Start, Configure, Serve, Discover, DiscoveryFails, Bind, server, requests
  <2>2. ASSUME NEW c \in Clients, NEW h \in Sends[c], Ask(c, h)
        PROVE  Kept(d)
    BY <1>1, <2>2 DEF Ask, Goto, TypeOK
  <2>3. ASSUME NEW c \in Clients, Check(c)
        PROVE  Kept(d)
    BY <1>1, <2>3 DEF Check, Found, Waits, Verdict, Goto, TypeOK
  <2>4. ASSUME NEW c \in Clients, Store(c)
        PROVE  Kept(d)
    <3>1. shared' = c /\ verifier'[c] = c /\ c # NoVerifier
      BY <1>1, <2>4, ClientAssumption DEF Store, Stored, OwnVerifier
    <3> QED BY <1>1, <2>4, <3>1 DEF Store, Goto, TypeOK
  <2>5. ASSUME NEW c \in Clients, Verify(c) \/ Leave(c)
        PROVE  Kept(d)
    BY <1>1, <2>5 DEF Verify, Leave, Verdict, Goto, TypeOK
  <2> QED BY <1>1, <2>1, <2>2, <2>3, <2>4, <2>5 DEF Next, Handler
<1> QED BY WebsocketTypeCorrect, VerifiersAreOwn, <1>1, PTL DEF Spec, VerifierIsKept

\* No builder call but default_transport itself leaves a default that was served
\* unserved, and none turns stdio off (with_websocket, without_websocket, with_unix).
LEMMA BuilderKeepsDefault ==
  ASSUME NEW c \in ServerConfigs, NEW d \in ListenerBuilt(c), "stdio" \in c.transports
  PROVE  /\ "stdio" \in d.transports
         /\ Allows(c, c.default_transport) =>
              \/ Allows(d, d.default_transport)
              \/ \E k \in Transports : d = DefaultTransport(c, k)
<1> USE DEF ServerConfigs, Allows
<1>1. CASE d = WithWebsocket(c)
  <2>1. d.transports = c.transports \cup {"websocket"}
        /\ d.default_transport = c.default_transport
    BY <1>1 DEF WithWebsocket
  <2> QED BY <2>1
<1>2. CASE d = WithoutWebsocket(c)
  <2>1. d.transports = c.transports \ {"websocket"}
    BY <1>2 DEF WithoutWebsocket
  <2>2. d.default_transport =
          IF c.default_transport = "websocket" THEN "stdio" ELSE c.default_transport
    BY <1>2 DEF WithoutWebsocket
  <2> QED BY <2>1, <2>2
<1>3. CASE d = WithUnix(c)
  <2>1. d.transports = c.transports \cup {"unix"}
        /\ d.default_transport = c.default_transport
    BY <1>3 DEF WithUnix
  <2> QED BY <2>1
<1>4. CASE \E k \in Transports : d = DefaultTransport(c, k)
  BY <1>4 DEF DefaultTransport
<1>5. CASE \/ \E a \in WsAuths : d = WebsocketAuth(c, a)
           \/ \E i \in Issuers : d = WebsocketExpectedIssuer(c, i)
           \/ \E a \in Audiences : d = WebsocketExpectedAudience(c, a)
  BY <1>5 DEF WebsocketAuth, WebsocketExpectedIssuer, WebsocketExpectedAudience
<1> QED BY <1>1, <1>2, <1>3, <1>4, <1>5 DEF ListenerBuilt

\* Stdio is never turned off: there is no builder method for it.
LEMMA StdioStays == Spec => []("stdio" \in config.transports)
<1>1. Init => "stdio" \in config.transports
  BY DEF Init, New
<1>2. ASSUME TypeOK, "stdio" \in config.transports, [Next]_vars
      PROVE  ("stdio" \in config.transports)'
  <2>1. CASE Configure
    BY <1>2, <2>1, BuilderKeepsDefault DEF Configure, TypeOK
  <2>2. CASE config' = config
    BY <1>2, <2>2
  <2>3. Configure \/ config' = config
    BY <1>2 DEF Next, Start, Serve, Discover, DiscoveryFails, Bind, Ask, Handler, Check,
                Store, Verify, Leave, vars, server
  <2> QED BY <2>1, <2>2, <2>3
<1> QED BY WebsocketTypeCorrect, <1>1, <1>2, PTL DEF Spec

\* What is built after any number of calls serves its default (ServerConfig).
THEOREM DefaultServed == Spec => DefaultStaysServed
<1>1. ASSUME TypeOK, "stdio" \in config.transports, [Next]_vars
      PROVE  [Allows(config, config.default_transport)
                => \/ Allows(config', config'.default_transport)
                   \/ \E k \in Transports : config' = DefaultTransport(config, k)]_vars
  <2>1. CASE Configure
    BY <1>1, <2>1, BuilderKeepsDefault DEF Configure, TypeOK
  <2>2. Configure \/ config' = config
    BY <1>1 DEF Next, Start, Serve, Discover, DiscoveryFails, Bind, Ask, Handler, Check,
                Store, Verify, Leave, vars, server
  <2> QED BY <2>1, <2>2
<1> QED BY WebsocketTypeCorrect, StdioStays, <1>1, PTL DEF Spec, DefaultStaysServed

-----------------------------------------------------------------------------
(* Whoever meets the policy is admitted, and nobody else *)

\* A token passes jsonwebtoken, set up by Authenticator::from, exactly if it meets the
\* bindings; a token whose nbf lies ahead passes.
LEMMA SecretMeets ==
  ASSUME NEW t \in Tokens \cup {NoToken}, NEW b \in Bindings,
         NEW p, p.lifetimes = {"now", "not yet"}, p.issuer = b.issuer, p.audience = b.audience
  PROVE  (t # NoToken /\ Decodes(t, Validation(b))) <=> Abstract!Meets(t, p)
<1>1. CASE t = NoToken
  BY <1>1 DEF NoToken, Abstract!Meets
<1>2. CASE t \in Tokens /\ t # NoToken
  <2>1. t.lifetime \in {"no exp", "past", "now", "not yet"}
    BY <1>2 DEF Tokens
  <2>2. b.issuer # Unbound => b.issuer # NoClaim
    BY ClaimAssumption DEF Bindings
  <2>3. Abstract!Meets(t, p) <=>
          /\ t.genuine /\ t.lifetime \in {"now", "not yet"}
          /\ b.issuer # Unbound => t.iss = b.issuer
          /\ b.audience # Unbound => b.audience \in t.aud
    BY DEF Abstract!Meets, Abstract!Unbound, Unbound
  <2>4. Decodes(t, Validation(b)) <=>
          /\ t.genuine /\ t.lifetime \in {"now", "not yet"}
          /\ b.issuer # Unbound => t.iss = b.issuer
          /\ b.audience # Unbound => b.audience \in t.aud
    BY <2>1, <2>2 DEF Decodes, Validation, Claims
  <2> QED BY <1>2, <2>3, <2>4
<1> QED BY <1>1, <1>2

\* A token passes jwtk and check_claim_bindings exactly if it meets the bindings now.
LEMMA KeysMeet ==
  ASSUME NEW t \in Tokens \cup {NoToken}, NEW b \in Bindings,
         NEW p, p.lifetimes = {"now"}, p.issuer = b.issuer, p.audience = b.audience
  PROVE  (SignatureVerifies(t) /\ CheckClaimBindings(t, b)) <=> Abstract!Meets(t, p)
<1>1. CASE t = NoToken
  BY <1>1 DEF NoToken, Abstract!Meets, SignatureVerifies
<1>2. CASE t \in Tokens
  <2>1. t.lifetime \in {"no exp", "past", "now", "not yet"}
    BY <1>2 DEF Tokens
  <2> QED BY <2>1 DEF SignatureVerifies, CheckClaimBindings, Claims, Abstract!Meets,
                      Abstract!Unbound, Unbound
<1> QED BY <1>1, <1>2

\* The Authenticator is the configured one: its kind goes with the strategy, and its
\* bindings are those of the policy, from before the listener is bound; and only a
\* request that carried a token gets as far as the verifier.
AuthFits ==
  /\ phase = "discovering" =>
       "auth" \in features /\ config.ws_auth.strategy = "OidcIssuer"
  /\ phase \in {"binding", "listening"} =>
       /\ auth.kind = IF config.ws_auth.strategy = "OidcIssuer"
                        THEN "Jwks" ELSE config.ws_auth.strategy
       /\ auth.bindings \in Bindings
       /\ auth.bindings.audience = config.ws_claim_bindings.audience
       /\ auth.bindings.issuer = IF config.ws_auth.strategy = "OidcIssuer"
                                   THEN Trimmed[discovered]
                                   ELSE config.ws_claim_bindings.issuer
  /\ \A c \in Clients :
       /\ pc[c] # "none" => phase = "listening" /\ header[c] \in Headers
       /\ pc[c] \in {"storing", "verifying"} =>
            auth.kind = "Jwks" /\ ExtractBearer(header[c]) # NoToken

\* AuthFits is an invariant (Authenticator::from, from_oidc_issuer, check).
THEOREM AuthenticatorFits == Spec => []AuthFits
<1> USE WebsocketAssumption
<1>1. Init => AuthFits
  BY DEF Init, AuthFits
<1>2. ASSUME TypeOK, AuthFits, [Next]_vars
      PROVE  AuthFits'
  <2>1. CASE UNCHANGED vars
    BY <1>2, <2>1 DEF vars, AuthFits
  <2>2. CASE Configure
    BY <1>2, <2>2 DEF Configure, requests, AuthFits
  <2>3. ASSUME NEW t \in Transports \cup {NoTransport}, Serve(t)
        PROVE  AuthFits'
    <3>1. config.ws_auth.strategy \in {"None", "Secret", "Jwks", "OidcIssuer"}
          /\ config.ws_claim_bindings \in Bindings
      BY <1>2, Strategies DEF TypeOK
    <3>2. phase = "configuring" /\ UNCHANGED <<features, config, discovered, requests>>
      BY <2>3 DEF Serve
    <3>3. CASE phase' \in {"failed", "elsewhere"}
      BY <1>2, <3>2, <3>3 DEF requests, AuthFits
    <3>4. CASE phase' = "discovering"
      BY <1>2, <2>3, <3>2, <3>4 DEF Serve, Discovers, requests, AuthFits
    <3>5. CASE phase' = "binding"
      <4>1. ~Discovers /\ auth' = Authenticator(config.ws_claim_bindings)
            /\ ("auth" \in features \/ config.ws_auth.strategy = "None")
        BY <2>3, <3>5 DEF Serve, Refused
      <4>2. config.ws_auth.strategy # "OidcIssuer" /\ auth'.kind = config.ws_auth.strategy
            /\ auth'.bindings = config.ws_claim_bindings
        BY <4>1 DEF Discovers, Authenticator
      <4> QED BY <1>2, <3>1, <3>2, <3>5, <4>2 DEF requests, AuthFits
    <3> QED BY <2>3, <3>3, <3>4, <3>5 DEF Serve
  <2>4. ASSUME NEW i \in Documents, Discover(i)
        PROVE  AuthFits'
    <3>1. config.ws_claim_bindings \in Bindings
      BY <1>2, Strategies DEF TypeOK
    <3> QED BY <1>2, <2>4, <3>1, DiscoveredAreBindings DEF Discover, requests, AuthFits
  <2>5. CASE DiscoveryFails \/ Bind
    BY <1>2, <2>5 DEF DiscoveryFails, Bind, server, requests, AuthFits
  <2>6. ASSUME NEW c \in Clients, NEW h \in Sends[c], Ask(c, h)
        PROVE  AuthFits'
    <3>1. h \in Headers
      BY <2>6
    <3> QED BY <1>2, <2>6, <3>1 DEF Ask, Goto, server, AuthFits, TypeOK
  <2>7. ASSUME NEW c \in Clients, Handler(c) \/ Verify(c) \/ Leave(c)
        PROVE  AuthFits'
    <3> USE DEF Goto, server, AuthFits, TypeOK
    <3>1. CASE Check(c)
      BY <1>2, <2>7, <3>1 DEF Check, Waits, Verdict
    <3>2. CASE Store(c)
      BY <1>2, <2>7, <3>2 DEF Store
    <3>3. CASE Verify(c)
      BY <1>2, <2>7, <3>3 DEF Verify, Verdict
    <3>4. CASE Leave(c)
      BY <1>2, <2>7, <3>4 DEF Leave
    <3> QED BY <2>7, <3>1, <3>2, <3>3, <3>4 DEF Handler
  <2> QED BY <1>2, <2>1, <2>2, <2>3, <2>4, <2>5, <2>6, <2>7 DEF Next, Start
<1> QED BY WebsocketTypeCorrect, <1>1, <1>2, PTL DEF Spec

\* What a header carries is a token or none (extract_bearer).
LEMMA BearsToken ==
  ASSUME NEW h \in Headers
  PROVE  /\ ExtractBearer(h) \in Tokens \cup {NoToken}
         /\ Abstract!ExtractBearer(h) = ExtractBearer(h)
<1>1. CASE h.words = "two"
  <2>1. h \in [words : {"two"}, scheme : {"Bearer", "bearer", "Basic"},
               token : Tokens \cup {NoToken}]
    BY <1>1 DEF Headers
  <2> QED BY <2>1 DEF ExtractBearer, Abstract!ExtractBearer, Abstract!NoToken, NoToken
<1>2. CASE h.words # "two"
  BY <1>2 DEF ExtractBearer, Abstract!ExtractBearer, Abstract!NoToken, NoToken
<1> QED BY <1>1, <1>2

\* Each verdict of check is the one the policy asks for (Authenticator::check).
LEMMA ChecksPolicy ==
  ASSUME TypeOK, AuthFits, NEW c \in Clients, pc[c] # "none"
  PROVE  LET t == ExtractBearer(header[c])
         IN  /\ auth.kind = "None" => Abstract!Admissible(header[c], Policy)
             /\ auth.kind = "Secret" =>
                  ((t # NoToken /\ Decodes(t, Validation(auth.bindings)))
                     <=> Abstract!Admissible(header[c], Policy))
             /\ auth.kind = "Jwks" =>
                  /\ (SignatureVerifies(t) /\ CheckClaimBindings(t, auth.bindings))
                       <=> Abstract!Admissible(header[c], Policy)
                  /\ Policy.required = "keys"
<1> DEFINE t == ExtractBearer(header[c])
<1>1. config.ws_auth.strategy \in {"None", "Secret", "Jwks", "OidcIssuer"}
  BY Strategies DEF TypeOK
<1>2. phase = "listening" /\ header[c] \in Headers
  BY DEF AuthFits
<1>3. t \in Tokens \cup {NoToken} /\ Abstract!ExtractBearer(header[c]) = t
  BY <1>2, BearsToken
<1>4. /\ auth.bindings \in Bindings
      /\ Policy.issuer = auth.bindings.issuer /\ Policy.audience = auth.bindings.audience
  BY <1>2 DEF AuthFits, Policy
<1>5. /\ auth.kind = "None" <=> Policy.required = "nothing"
      /\ auth.kind = "Secret" => Policy.lifetimes = {"now", "not yet"}
      /\ auth.kind = "Jwks" => Policy.lifetimes = {"now"} /\ Policy.required = "keys"
  BY <1>1, <1>2 DEF AuthFits, Policy
<1>6. Abstract!Admissible(header[c], Policy)
        <=> (auth.kind = "None" \/ Abstract!Meets(t, Policy))
  BY <1>3, <1>5 DEF Abstract!Admissible
<1> HIDE DEF t
<1>7. auth.kind = "Secret" => ((t # NoToken /\ Decodes(t, Validation(auth.bindings)))
                                 <=> Abstract!Admissible(header[c], Policy))
  BY <1>3, <1>4, <1>5, <1>6, SecretMeets
<1>8. auth.kind = "Jwks" => ((SignatureVerifies(t) /\ CheckClaimBindings(t, auth.bindings))
                               <=> Abstract!Admissible(header[c], Policy))
  BY <1>3, <1>4, <1>5, <1>6, KeysMeet
<1> QED BY <1>5, <1>6, <1>7, <1>8 DEF t

\* A server listens under one policy and decides each request by it and by its own
\* header alone, in one step (serve_websocket, ws_handler, Authenticator).
THEOREM AdmitsByPolicy == Spec => Admits
<1> DEFINE P == IF phase = "listening" THEN Policy ELSE [required |-> "nothing yet"]
           V == [c \in Clients |-> IF pc[c] \in {"storing", "verifying"} THEN "asked" ELSE pc[c]]
<1>1. Init => Abstract!Init
  BY DEF Init, Abstract!Init, Abstract!NotListening, Abstract!NoHeader, NoHeader
<1>2. ASSUME TypeOK, AuthFits, [Next]_vars
      PROVE  [Abstract!Next]_Abstract!vars
  <2> USE DEF Abstract!vars
  <2>1. CASE UNCHANGED vars
    BY <2>1 DEF vars, Policy
  <2>2. CASE Start
    <3>1. UNCHANGED <<pc, header>> /\ phase # "listening"
      BY <2>2 DEF Start, Configure, Serve, Discover, DiscoveryFails, Bind, requests
    <3>2. CASE phase' # "listening"
      BY <3>1, <3>2
    <3>3. CASE phase' = "listening"
      <4>1. P = Abstract!NotListening
        BY <3>1 DEF Abstract!NotListening
      <4>2. P' # Abstract!NotListening
        <5>1. (Policy # [required |-> "nothing yet"])'
          BY DEF Policy
        <5> QED BY <3>3, <5>1 DEF Abstract!NotListening
      <4>3. V' = V
        BY <3>1
      <4> QED BY <3>1, <4>1, <4>2, <4>3 DEF Abstract!Listen, Abstract!Next
    <3> QED BY <3>2, <3>3
  <2>3. ASSUME NEW c \in Clients, NEW h \in Sends[c], Ask(c, h)
        PROVE  Abstract!Ask(c)
    <3>1. h \in Abstract!Headers
      BY <2>3, WebsocketAssumption
         DEF Headers, Abstract!Headers, Tokens, Abstract!Tokens, NoToken, Abstract!NoToken,
             NoClaim, Abstract!NoClaim
    <3>2. P # Abstract!NotListening /\ P' = P
      <4>1. Policy.required # "nothing yet"
        BY DEF Policy
      <4> QED BY <2>3, <4>1 DEF Ask, server, Policy, Abstract!NotListening
    <3>3. V' = [V EXCEPT ![c] = "asked"] /\ V[c] = "none"
      BY <1>2, <2>3 DEF Ask, Goto, TypeOK
    <3>4. header' = [header EXCEPT ![c] = h]
      BY <2>3 DEF Ask
    <3> QED BY <3>1, <3>2, <3>3, <3>4 DEF Abstract!Ask
  <2>4. ASSUME NEW c \in Clients, Handler(c) \/ Verify(c) \/ Leave(c)
        PROVE  Abstract!Decide(c) \/ Abstract!Leave(c) \/ UNCHANGED Abstract!vars
    <3>1. pc[c] \in {"asked", "storing", "verifying"} /\ UNCHANGED <<server, phase, header>>
      BY <2>4 DEF Handler, Check, Waits, Store, Verify, Leave
    <3>2. P # Abstract!NotListening /\ P' = P /\ P = Policy
      <4>1. Policy.required # "nothing yet"
        BY DEF Policy
      <4>2. phase = "listening"
        BY <1>2, <2>4, <3>1 DEF AuthFits
      <4> QED BY <3>1, <4>1, <4>2 DEF server, Policy, Abstract!NotListening
    <3>3. V[c] = "asked"
      BY <3>1
    <3>4. ASSUME NEW v, v \notin {"storing", "verifying"}, Goto(c, v)
          PROVE  V' = [V EXCEPT ![c] = v]
      BY <1>2, <3>4 DEF Goto, TypeOK
    <3>5. ASSUME NEW v \in {"storing", "verifying"}, Goto(c, v)
          PROVE  V' = V
      BY <1>2, <3>3, <3>5 DEF Goto, TypeOK
    <3>6. ASSUME NEW admitted \in BOOLEAN, Verdict(c, admitted),
                 admitted <=> Abstract!Admissible(header[c], Policy)
          PROVE  Abstract!Decide(c)
      <4>1. V' = [V EXCEPT ![c] = IF admitted THEN "open" ELSE "refused"]
        BY <3>4, <3>6 DEF Verdict
      <4> QED BY <3>1, <3>2, <3>3, <3>6, <4>1 DEF Abstract!Decide
    <3>7. CASE Check(c)
      <4>1. CASE Goto(c, "verifying") \/ Goto(c, "storing")
        BY <3>1, <3>2, <3>5, <4>1
      <4>2. CASE auth.kind = "None" /\ Verdict(c, TRUE)
        BY <1>2, <2>4, <3>1, <3>6, <4>2, ChecksPolicy
      <4>3. CASE auth.kind = "Secret"
                 /\ Verdict(c, ExtractBearer(header[c]) # NoToken
                                 /\ Decodes(ExtractBearer(header[c]), Validation(auth.bindings)))
        BY <1>2, <2>4, <3>1, <3>6, <4>3, ChecksPolicy
      <4>4. CASE auth.kind = "Jwks" /\ ExtractBearer(header[c]) = NoToken /\ Verdict(c, FALSE)
        <5>1. ~SignatureVerifies(ExtractBearer(header[c]))
          BY <4>4 DEF SignatureVerifies, NoToken
        <5> QED BY <1>2, <2>4, <3>1, <3>6, <4>4, <5>1, ChecksPolicy
      <4> QED BY <3>7, <4>1, <4>2, <4>3, <4>4 DEF Check
    <3>8. CASE Store(c)
      BY <3>1, <3>2, <3>5, <3>8 DEF Store
    <3>9. CASE Verify(c)
      <4>1. auth.kind = "Jwks"
        BY <1>2, <2>4, <3>9 DEF Verify, AuthFits
      <4>2. CASE Verdict(c, SignatureVerifies(ExtractBearer(header[c]))
                              /\ CheckClaimBindings(ExtractBearer(header[c]), auth.bindings))
        BY <1>2, <2>4, <3>1, <3>6, <4>1, <4>2, ChecksPolicy
      <4>3. CASE Goto(c, "unverified")
        <5>1. Policy.required = "keys"
          BY <1>2, <2>4, <3>1, <4>1, ChecksPolicy
        <5>2. V' = [V EXCEPT ![c] = "unverified"]
          BY <3>4, <4>3
        <5> QED BY <3>1, <3>2, <3>3, <5>1, <5>2 DEF Abstract!Decide
      <4> QED BY <3>9, <4>2, <4>3 DEF Verify
    <3>10. CASE Leave(c)
      <4>1. V' = [V EXCEPT ![c] = "gone"]
        BY <3>4, <3>10 DEF Leave
      <4> QED BY <3>1, <3>2, <3>3, <4>1 DEF Abstract!Leave
    <3> QED BY <2>4, <3>7, <3>8, <3>9, <3>10 DEF Handler
  <2> QED BY <1>2, <2>1, <2>2, <2>3, <2>4 DEF Next, Abstract!Next
<1> QED BY WebsocketTypeCorrect, AuthenticatorFits, <1>1, <1>2, PTL
        DEF Spec, Admits, Abstract!Spec
=============================================================================
