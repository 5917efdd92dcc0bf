------------------------------ MODULE Admission ------------------------------
(***************************************************************************)
(* What a server that listens on a websocket promises (src/src/auth.rs,    *)
(* WsAuth and WsClaimBindings of src/src/config.rs): from the start to the *)
(* end it has one policy, and each request is decided once, in one step,   *)
(* by that policy and its own header alone.                                *)
(***************************************************************************)
EXTENDS Auth

CONSTANT Clients

VARIABLES
  policy,   \* nothing while it does not listen
  header,   \* what each client has sent
  verdict   \* none, asked, open, refused, unverified or gone

vars == <<policy, header, verdict>>

NotListening == [required |-> "nothing yet"]
NoHeader == [words |-> "not sent"]

Init ==
  /\ policy = NotListening
  /\ header = [c \in Clients |-> NoHeader]
  /\ verdict = [c \in Clients |-> "none"]

\* "the token's `iss` must equal `issuer` and its `aud` must contain `audience`"
Meets(t, p) ==
  /\ t.genuine /\ t.lifetime \in p.lifetimes
  /\ p.issuer # Unbound => t.iss = p.issuer
  /\ p.audience # Unbound => p.audience \in t.aud

\* "Validates an `Authorization: Bearer <jwt>` header"
Admissible(h, p) ==
  p.required = "nothing" \/ Meets(ExtractBearer(h), p)

Listen ==
  /\ policy = NotListening /\ policy' # NotListening
  /\ UNCHANGED <<header, verdict>>

Ask(c) ==
  /\ policy # NotListening /\ verdict[c] = "none"
  /\ \E h \in Headers : header' = [header EXCEPT ![c] = h]
  /\ verdict' = [verdict EXCEPT ![c] = "asked"]
  /\ UNCHANGED policy

\* Nothing but missing keys keeps a request from the answer it deserves.
Decide(c) ==
  /\ policy # NotListening /\ verdict[c] = "asked"
  /\ \/ /\ verdict' = [verdict EXCEPT ![c] =
                         IF Admissible(header[c], policy) THEN "open" ELSE "refused"]
     \/ policy.required = "keys" /\ verdict' = [verdict EXCEPT ![c] = "unverified"]
  /\ UNCHANGED <<policy, header>>

Leave(c) ==
  /\ verdict[c] = "asked" /\ verdict' = [verdict EXCEPT ![c] = "gone"]
  /\ UNCHANGED <<policy, header>>

Next == Listen \/ \E c \in Clients : Ask(c) \/ Decide(c) \/ Leave(c)

Spec == Init /\ [][Next]_vars
=============================================================================
