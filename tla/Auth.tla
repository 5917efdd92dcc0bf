-------------------------------- MODULE Auth --------------------------------
(***************************************************************************)
(* What src/src/auth.rs makes of one Authorization header, of one token    *)
(* and of one discovery document.  Constant operators: the authenticator   *)
(* at work among concurrent requests is in Websocket.                      *)
(***************************************************************************)
EXTENDS Configuration

NoClaim == "no claim"
NoToken == [genuine |-> FALSE]      \* there is none

ASSUME ClaimAssumption == NoClaim \notin Issuers \cup Audiences \cup {Unbound}

\* `genuine`: signed, with an acceptable alg, by the secret or a key of the JWKS.
\* `lifetime`: the token has no exp, has expired, is valid now, or its nbf lies ahead.
Tokens ==
  [genuine : BOOLEAN, lifetime : {"no exp", "past", "now", "not yet"},
   iss : Issuers \cup {NoClaim}, aud : SUBSET Audiences]

\* A header of two words, or none that can be taken apart.
Headers ==
  [words : {"none", "unreadable", "one"}]
    \cup [words : {"two"}, scheme : {"Bearer", "bearer", "Basic"},
          token : Tokens \cup {NoToken}]

-----------------------------------------------------------------------------
(* extract_bearer *)

ExtractBearer(h) ==
  IF h.words = "two" /\ h.scheme \in {"Bearer", "bearer"} THEN h.token ELSE NoToken

-----------------------------------------------------------------------------
(* A shared secret *)

\* Mutant of Validation: a binding is compared when its claim is there, and the
\* claim need not be.
ValidationIfPresent(b) ==
  [required |-> {"exp"}, issuer |-> b.issuer, audience |-> b.audience,
   validate_aud |-> b.audience # Unbound]

\* Authenticator::from, Secret
Validation(b) ==
  [required |-> {"exp"} \cup (IF b.issuer # Unbound THEN {"iss"} ELSE {})
                        \cup (IF b.audience # Unbound THEN {"aud"} ELSE {}),
   issuer |-> b.issuer, audience |-> b.audience,
   validate_aud |-> b.audience # Unbound]

Claims(t) ==
  (IF t.lifetime # "no exp" THEN {"exp"} ELSE {})
    \cup (IF t.iss # NoClaim THEN {"iss"} ELSE {})
    \cup (IF t.aud # {} THEN {"aud"} ELSE {})

\* jsonwebtoken::decode, which by default looks at exp and not at nbf.
Decodes(t, v) ==
  /\ t.genuine
  /\ v.required \subseteq Claims(t)
  /\ t.lifetime # "past"
  /\ (v.issuer # Unbound /\ "iss" \in Claims(t)) => t.iss = v.issuer
  /\ (v.validate_aud /\ "aud" \in Claims(t)) => v.audience \in t.aud

-----------------------------------------------------------------------------
(* The keys of a provider *)

\* RemoteJwksVerifier::verify, when it can reach its keys.
SignatureVerifies(t) == t.genuine /\ t.lifetime \notin {"past", "not yet"}

CheckClaimBindings(t, b) ==
  /\ "exp" \in Claims(t)
  /\ b.issuer # Unbound => t.iss = b.issuer
  /\ b.audience # Unbound => b.audience \in t.aud

\* from_oidc_issuer: whether the document of `url`, which names `issuer`, will do,
\* and what the bindings are then.
DiscoveryAgrees(url, issuer, b) ==
  /\ Trimmed[issuer] = Trimmed[url]
  /\ b.issuer # Unbound => Trimmed[b.issuer] = Trimmed[issuer]

DiscoveredBindings(issuer, b) == [b EXCEPT !.issuer = Trimmed[issuer]]
=============================================================================
