------------------------------ MODULE Session ------------------------------
(***************************************************************************)
(* Access tokens, from the moment one is issued to the last request that   *)
(* presents it: Issue and Verify of platform/auth/jwt.go, the guard of     *)
(* platform/middleware/auth.go, across restarts of the api that may change *)
(* its configuration.                                                      *)
(*                                                                         *)
(* A token is its own proof.  The server keeps nothing about it, so what   *)
(* it is worth later depends on the clock and on the configuration then,   *)
(* which need not be the one it was issued under.  The signature and the   *)
(* checks of golang-jwt are external code: a token verifies under the      *)
(* secret that signed it, its dates are whole seconds, and a token that is *)
(* expired is reported so even when more is wrong with it, unless the      *)
(* signature is.                                                           *)
(***************************************************************************)
EXTENDS Integers, FiniteSets

CONSTANTS
  Accounts,   \* the accounts there are
  Requests,   \* the requests in flight
  Configs,    \* the configurations the api is started with
  Second,     \* ticks of the clock in a second
  MaxTime,    \* bound on the clock, in ticks
  MaxTokens   \* bound on the tokens issued

ASSUME SessionAssumption ==
  /\ Second \in Nat \ {0} /\ MaxTime \in Nat /\ MaxTokens \in Nat
  /\ \A c \in Configs : c.ttl \in Nat \ {0} /\ c.gate \in BOOLEAN
  /\ "none" \notin Accounts

VARIABLES
  now,       \* the clock
  config,    \* the configuration of the running process
  verified,  \* accounts whose address is confirmed
  tokens,    \* every token ever issued
  req        \* the requests

vars == <<now, config, verified, tokens, req>>

----------------------------------------------------------------------------
\* Tokens

\* What a request may put in its Authorization header besides a token: nothing,
\* another scheme, the scheme alone, or something nobody signed.
BadHeaders == [kind : {"none", "basic", "empty", "forged"}]

\* Mutant: dates are rounded up to the second.
NumericDateUp(t) == ((t + Second - 1) \div Second) * Second

\* NewNumericDate drops the fraction of a second.
NumericDate(t) == (t \div Second) * Second

\* told is the expiry Issue returns beside the token, which keeps its fraction;
\* gate and confirmed are history.
Issue(a) ==
  [kind |-> "token", uid |-> a, secret |-> config.secret, issuer |-> config.issuer,
   nbf |-> NumericDate(now), exp |-> NumericDate(now + config.ttl),
   told |-> now + config.ttl, gate |-> config.gate, confirmed |-> a \in verified']

\* Mutant: a token of another issuer will do.
VerifyAnyIssuer(t) ==
  IF t.secret # config.secret THEN "invalid_token"
  ELSE IF now >= t.exp THEN "token_expired"
  ELSE IF now < t.nbf THEN "invalid_token"
  ELSE "passed"

Verify(t) ==
  IF t.secret # config.secret THEN "invalid_token"
  ELSE IF now >= t.exp THEN "token_expired"
  ELSE IF now < t.nbf \/ t.issuer # config.issuer THEN "invalid_token"
  ELSE "passed"

\* JWTAuth, up to c.Next().
Guard(h) ==
  CASE h.kind = "none" -> "missing_token"
    [] h.kind \in {"basic", "empty", "forged"} -> "invalid_token"
    [] OTHER -> Verify(h)

----------------------------------------------------------------------------
\* Requests

NoRequest == [at |-> "idle", header |-> [kind |-> "none"], since |-> 0,
              answer |-> "none", uid |-> "none"]

\* A call of a guarded route with any header.
Call(r, h) ==
  /\ req[r].at = "idle"
  /\ req' = [req EXCEPT ![r] =
       IF Guard(h) = "passed"
       THEN [at |-> "handler", header |-> h, since |-> now, answer |-> "passed", uid |-> h.uid]
       ELSE [NoRequest EXCEPT !.header = h, !.since = now, !.answer = Guard(h)]]
  /\ UNCHANGED <<now, config, verified, tokens>>

\* The handler answers, whatever it does: Logout revokes nothing, and nobody
\* looks at the token again, which may expire meanwhile.
Handled(r) ==
  /\ req[r].at = "handler"
  /\ req' = [req EXCEPT ![r].at = "idle"]
  /\ UNCHANGED <<now, config, verified, tokens>>

----------------------------------------------------------------------------
\* Sessions

\* Mutant: the gate is not looked at.
MayOpenAlways(a) == TRUE

\* Register and Login: with the gate on, only for a confirmed address.
MayOpen(a) == ~config.gate \/ a \in verified

OpenSession(a) ==
  /\ MayOpen(a) /\ Cardinality(tokens) < MaxTokens
  /\ UNCHANGED verified
  /\ tokens' = tokens \cup {Issue(a)}
  /\ UNCHANGED <<now, config, req>>

\* VerifyEmail confirms the address, then opens a session.
VerifyEmail(a) ==
  /\ a \notin verified /\ Cardinality(tokens) < MaxTokens
  /\ verified' = verified \cup {a}
  /\ tokens' = tokens \cup {Issue(a)}
  /\ UNCHANGED <<now, config, req>>

----------------------------------------------------------------------------

Tick ==
  /\ now < MaxTime
  /\ now' = now + 1
  /\ UNCHANGED <<config, verified, tokens, req>>

\* A new process, whose requests in flight are gone, perhaps configured anew.
Restart(c) ==
  /\ config' = c
  /\ req' = [r \in Requests |-> NoRequest]
  /\ UNCHANGED <<now, verified, tokens>>

Init ==
  /\ now = 0 /\ config \in Configs
  /\ verified = {} /\ tokens = {}
  /\ req = [r \in Requests |-> NoRequest]

Next ==
  \/ \E r \in Requests :
       \/ \E h \in BadHeaders \cup tokens : Call(r, h)
       \/ Handled(r)
  \/ \E a \in Accounts : OpenSession(a) \/ VerifyEmail(a)
  \/ Tick
  \/ \E c \in Configs : Restart(c)

Spec == Init /\ [][Next]_vars

----------------------------------------------------------------------------
\* Properties

Tokens == [kind : {"token"}, uid : Accounts, secret : {c.secret : c \in Configs},
           issuer : {c.issuer : c \in Configs}, nbf : Nat, exp : Nat, told : Nat,
           gate : BOOLEAN, confirmed : BOOLEAN]

\* Types of the tokens and the requests.
TypeOK ==
  /\ now \in 0 .. MaxTime /\ config \in Configs
  /\ verified \subseteq Accounts
  /\ tokens \subseteq Tokens
  /\ \A r \in Requests :
       /\ req[r].at \in {"idle", "handler"}
       /\ req[r].header \in BadHeaders \cup tokens
       /\ req[r].since \in 0 .. now
       /\ req[r].uid \in Accounts \cup {"none"}

\* Was this request let past the guard?
LetIn(r) == req[r].uid # "none"

\* Whoever is let in presented a token issued to the account it acts for, under
\* the secret and the issuer of the process that let it in: a restart that
\* changes either revokes every token, and none outlives the expiry its client
\* was told.  (JWTAuth, Verify)
LetInByOwnToken ==
  \A r \in Requests : LetIn(r) =>
    /\ req[r].header \in tokens
    /\ req[r].header.uid = req[r].uid
    /\ req[r].header.secret = config.secret /\ req[r].header.issuer = config.issuer
    /\ req[r].since < req[r].header.told

\* A token of the running configuration is not refused early: called expired
\* only in its last second at the earliest, called invalid never, not even in
\* the second it was issued.  (Issue, Verify)
NotRefusedEarly ==
  \A r \in Requests :
    ( /\ ~LetIn(r) /\ req[r].header \in tokens
      /\ req[r].header.secret = config.secret /\ req[r].header.issuer = config.issuer )
    => req[r].answer = "token_expired" /\ req[r].since > req[r].header.told - Second

\* Of every state: the guard lets in by the token that was issued, all of its
\* life and no longer.
Inv == TypeOK /\ LetInByOwnToken /\ NotRefusedEarly

\* With the gate on nobody acts for an unconfirmed address, but with a token
\* left from a process that had the gate off.  (Register, Login, VerifyEmail)
GateHoldsForItsOwnTokens ==
  \A r \in Requests :
    LetIn(r) /\ config.gate => req[r].uid \in verified \/ ~req[r].header.gate

\* What the documentation says and switching the gate on does not keep: with
\* the gate on, a valid token was issued to a verified account.
ValidTokensAreVerified ==
  \A r \in Requests : LetIn(r) /\ config.gate => req[r].header.confirmed
=============================================================================
