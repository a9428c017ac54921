--------------------------- MODULE SessionProofs ---------------------------
(***************************************************************************)
(* What a token is worth, for any accounts, requests, configurations and   *)
(* clock, whatever fraction of a second it counts in.                      *)
(*                                                                         *)
(* The server keeps nothing about its tokens, so the invariant is about    *)
(* the tokens as they were issued (Issued): dates that were cut to the     *)
(* second but not by a whole one, and an address confirmed for good if the *)
(* gate was on.  What the guard made of a token (Judged) follows, and      *)
(* stays true until a restart, which ends every request.                   *)
(***************************************************************************)
EXTENDS Session, TLAPS

\* Of every token, how it was issued.
Issued ==
  \A t \in tokens :
    /\ t.nbf <= now
    /\ t.exp <= t.told /\ t.told < t.exp + Second
    /\ t.gate => t.uid \in verified

\* Of every request with a token, what the guard made of it.
Judged ==
  \A r \in Requests :
    /\ LetIn(r) =>
         /\ req[r].header \in tokens
         /\ req[r].header.uid = req[r].uid
         /\ req[r].header.secret = config.secret /\ req[r].header.issuer = config.issuer
         /\ req[r].since < req[r].header.exp
    /\ ( /\ ~LetIn(r) /\ req[r].header \in tokens
         /\ req[r].header.secret = config.secret /\ req[r].header.issuer = config.issuer )
       => req[r].answer = "token_expired" /\ req[r].since >= req[r].header.exp

Answers == {"none", "passed", "missing_token", "invalid_token", "token_expired"}

\* The fields a request has are those NoRequest has.
Shaped == req \in [Requests -> [at : {"idle", "handler"}, header : BadHeaders \cup Tokens,
                                since : 0 .. MaxTime, answer : Answers,
                                uid : Accounts \cup {"none"}]]

TokenInv == TypeOK /\ Shaped /\ Issued /\ Judged

----------------------------------------------------------------------------
\* Dates and headers

\* A date loses less than a second.
LEMMA DateCut ==
  ASSUME NEW t \in Nat
  PROVE /\ NumericDate(t) \in Nat
        /\ NumericDate(t) <= t /\ t < NumericDate(t) + Second
<1>1. Second \in Nat /\ Second > 0
  BY SessionAssumption
<1>2. t = Second * (t \div Second) + (t % Second) /\ t % Second \in 0 .. Second - 1
      /\ t \div Second \in Nat
  BY <1>1
<1>3. (t \div Second) * Second = Second * (t \div Second)
  BY <1>1, <1>2
<1>4. Second * (t \div Second) \in Nat
  BY <1>1, <1>2
<1> QED
  BY <1>1, <1>2, <1>3, <1>4 DEF NumericDate

\* No other header is a token.
LEMMA HeadersApart == BadHeaders \cap Tokens = {}
BY DEF BadHeaders, Tokens

LEMMA IssueTyped ==
  ASSUME TypeOK, NEW a \in Accounts
  PROVE /\ Issue(a) \in Tokens /\ Issue(a).uid = a /\ Issue(a).gate = config.gate
        /\ Issue(a).nbf <= now
        /\ Issue(a).exp <= Issue(a).told /\ Issue(a).told < Issue(a).exp + Second
<1>1. now \in Nat /\ config.ttl \in Nat /\ now + config.ttl \in Nat /\ config.gate \in BOOLEAN
      /\ config \in Configs
  BY SessionAssumption DEF TypeOK
<1>2. NumericDate(now) \in Nat /\ NumericDate(now) <= now
  BY <1>1, DateCut
<1>3. NumericDate(now + config.ttl) \in Nat /\ NumericDate(now + config.ttl) <= now + config.ttl
      /\ now + config.ttl < NumericDate(now + config.ttl) + Second
  BY <1>1, DateCut
<1> QED
  BY <1>1, <1>2, <1>3 DEF Issue, Tokens

----------------------------------------------------------------------------
\* Every step

LEMMA InitHolds == Init => TokenInv
<1> SUFFICES ASSUME Init PROVE TokenInv
  OBVIOUS
<1>1. NoRequest.header \in BadHeaders
  BY DEF NoRequest, BadHeaders
<1>2. TypeOK
  BY <1>1, SessionAssumption DEF Init, TypeOK, NoRequest
<1>3. Shaped
  BY <1>1, SessionAssumption DEF Init, Shaped, NoRequest, Answers
<1>4. Issued /\ Judged
  BY DEF Init, Issued, Judged, LetIn, NoRequest
<1> QED
  BY <1>2, <1>3, <1>4 DEF TokenInv

\* The guard lets a token in exactly when it should.
LEMMA GuardJudges ==
  ASSUME TokenInv, NEW r \in Requests, NEW h \in BadHeaders \cup tokens, Call(r, h)
  PROVE TokenInv'
<1> USE DEF TokenInv
<1> DEFINE q == IF Guard(h) = "passed"
                THEN [at |-> "handler", header |-> h, since |-> now, answer |-> "passed",
                      uid |-> h.uid]
                ELSE [NoRequest EXCEPT !.header = h, !.since = now, !.answer = Guard(h)]
<1>1. /\ req' = [req EXCEPT ![r] = q]
      /\ now' = now /\ config' = config /\ verified' = verified /\ tokens' = tokens
  BY DEF Call
<1>2. h \in BadHeaders \cup Tokens /\ now \in 0 .. MaxTime
  BY DEF TypeOK
<1>3. Guard(h) = "passed" =>
        /\ h \in tokens /\ h.secret = config.secret /\ h.issuer = config.issuer /\ now < h.exp
        /\ h.uid \in Accounts
  <2>1. SUFFICES ASSUME Guard(h) = "passed"
                 PROVE h \in tokens /\ Verify(h) = "passed"
    BY DEF Verify, TypeOK, Tokens
  <2> QED
    BY <2>1 DEF Guard, BadHeaders, TypeOK, Tokens
<1>4. h \in tokens /\ Guard(h) # "passed" /\ h.secret = config.secret /\ h.issuer = config.issuer
        => Guard(h) = "token_expired" /\ now >= h.exp
  BY DEF Guard, Verify, TypeOK, Tokens, Issued
<1>5. CASE Guard(h) = "passed"
  <2>1. /\ q.at = "handler" /\ q.header = h /\ q.since = now /\ q.answer = "passed"
        /\ q.uid = h.uid /\ h.uid # "none"
    BY <1>3, <1>5, SessionAssumption
  <2>2. q \in [at : {"idle", "handler"}, header : BadHeaders \cup Tokens, since : 0 .. MaxTime,
               answer : Answers, uid : Accounts \cup {"none"}]
    BY <1>2, <1>3, <1>5 DEF Answers
  <2>3. Shaped'
    BY <1>1, <2>2 DEF Shaped
  <2>4. TypeOK'
    BY <1>1, <1>2, <1>3, <1>5, <2>1 DEF TypeOK, Shaped
  <2>5. Issued' /\ Judged'
    BY <1>1, <1>3, <1>5, <2>1 DEF Issued, Judged, LetIn, Shaped
  <2> QED
    BY <2>3, <2>4, <2>5
<1>6. CASE Guard(h) # "passed"
  <2>1. Guard(h) \in Answers
    BY DEF Guard, Verify, Answers
  <2>2. q = [at |-> "idle", header |-> h, since |-> now, answer |-> Guard(h), uid |-> "none"]
    BY <1>6 DEF NoRequest
  <2>3. q \in [at : {"idle", "handler"}, header : BadHeaders \cup Tokens, since : 0 .. MaxTime,
               answer : Answers, uid : Accounts \cup {"none"}]
    BY <1>2, <2>1, <2>2
  <2>4. /\ q.at = "idle" /\ q.header = h /\ q.since = now /\ q.answer = Guard(h)
        /\ q.uid = "none"
    BY <2>2
  <2>5. Shaped'
    BY <1>1, <2>3 DEF Shaped
  <2> HIDE DEF q
  <2>6. /\ req'[r] = q
        /\ \A s \in Requests \ {r} : req'[s] = req[s]
    BY <1>1 DEF Shaped
  <2>7. TypeOK'
    BY <1>1, <1>2, <2>4, <2>6 DEF TypeOK
  <2>8. Issued' /\ Judged'
    BY <1>1, <1>4, <1>6, <2>4, <2>6 DEF Issued, Judged, LetIn
  <2> QED
    BY <2>5, <2>7, <2>8
<1> QED
  BY <1>5, <1>6

\* A new token changes nothing for the requests, nor for the older ones.
LEMMA TokenAdded ==
  ASSUME TokenInv, NEW a \in Accounts, tokens' = tokens \cup {Issue(a)},
         now' = now, config' = config, req' = req,
         verified \subseteq verified', verified' \subseteq Accounts,
         config.gate => a \in verified'
  PROVE TokenInv'
<1> USE DEF TokenInv
<1> DEFINE t == Issue(a)
<1>1. /\ t \in Tokens /\ t.uid = a /\ t.gate = config.gate /\ t.nbf <= now
      /\ t.exp <= t.told /\ t.told < t.exp + Second
  BY IssueTyped
<1>2. TypeOK'
  BY <1>1 DEF TypeOK
<1>3. Shaped'
  BY DEF Shaped
<1>4. Issued'
  BY <1>1 DEF Issued
<1>5. Judged'
  <2>1. \A r \in Requests : req[r].header \in tokens \/ req[r].header \in BadHeaders
    BY DEF TypeOK
  <2>2. \A r \in Requests : req[r].header \in tokens' => req[r].header \in tokens
    BY <1>1, <2>1, HeadersApart
  <2> QED
    BY <2>2 DEF Judged, LetIn
<1> QED
  BY <1>2, <1>3, <1>4, <1>5

LEMMA StepHolds == TokenInv /\ [Next]_vars => TokenInv'
<1> SUFFICES ASSUME TokenInv, [Next]_vars PROVE TokenInv'
  OBVIOUS
<1> USE DEF TokenInv
<1>1. ASSUME NEW r \in Requests, Handled(r) PROVE TokenInv'
  <2>1. /\ now' = now /\ config' = config /\ verified' = verified /\ tokens' = tokens
        /\ req' = [req EXCEPT ![r].at = "idle"]
    BY <1>1 DEF Handled
  <2>2. \A s \in Requests :
          /\ req'[s].header = req[s].header /\ req'[s].since = req[s].since
          /\ req'[s].answer = req[s].answer /\ req'[s].uid = req[s].uid
          /\ req'[s].at \in {"idle", "handler"}
    BY <2>1 DEF Shaped
  <2>3. Shaped'
    BY <2>1 DEF Shaped
  <2> QED
    BY <2>1, <2>2, <2>3 DEF TypeOK, Issued, Judged, LetIn
<1>2. ASSUME NEW a \in Accounts, OpenSession(a) PROVE TokenInv'
  BY <1>2, TokenAdded DEF OpenSession, MayOpen, TypeOK
<1>3. ASSUME NEW a \in Accounts, VerifyEmail(a) PROVE TokenInv'
  <2>1. verified' = verified \cup {a} /\ verified \subseteq Accounts
    BY <1>3 DEF VerifyEmail, TypeOK
  <2> QED
    BY <1>3, <2>1, TokenAdded DEF VerifyEmail
<1>4. ASSUME Tick PROVE TokenInv'
  <2>1. now' = now + 1 /\ now' \in 0 .. MaxTime /\ now \in 0 .. MaxTime /\ MaxTime \in Nat
    BY <1>4, SessionAssumption DEF Tick, TypeOK
  <2>2. config' = config /\ verified' = verified /\ tokens' = tokens /\ req' = req
    BY <1>4 DEF Tick
  <2>3. TypeOK'
    BY <2>1, <2>2 DEF TypeOK
  <2>4. Issued'
    BY <2>1, <2>2 DEF Issued, TypeOK, Tokens
  <2> QED
    BY <2>2, <2>3, <2>4 DEF Shaped, Judged, LetIn
<1>5. ASSUME NEW c \in Configs, Restart(c) PROVE TokenInv'
  <2>1. /\ config' = c /\ now' = now /\ verified' = verified /\ tokens' = tokens
        /\ req' = [r \in Requests |-> NoRequest]
    BY <1>5 DEF Restart
  <2>2. NoRequest.header \in BadHeaders
    BY DEF NoRequest, BadHeaders
  <2>3. TypeOK' /\ Shaped'
    BY <2>1, <2>2, SessionAssumption DEF TypeOK, Shaped, NoRequest, Answers
  <2>4. NoRequest.header \notin tokens
    BY <2>2, HeadersApart DEF TypeOK
  <2>5. Judged'
    BY <2>1, <2>4 DEF Judged, LetIn, NoRequest
  <2> QED
    BY <2>1, <2>3, <2>5 DEF Issued
<1>6. CASE UNCHANGED vars
  BY <1>6 DEF vars, TypeOK, Shaped, Issued, Judged, LetIn
<1> QED
  BY <1>1, <1>2, <1>3, <1>4, <1>5, <1>6, GuardJudges DEF Next

THEOREM TokensHold == Spec => []TokenInv
BY InitHolds, StepHolds, PTL DEF Spec

\* The guard lets in by a token of one's own, of the running configuration, up
\* to the expiry that was told, and refuses no such token before.  (JWTAuth,
\* Issue, Verify)
THEOREM GuardKeepsItsWord == Spec => []Inv
<1>1. TokenInv => Inv
  <2> SUFFICES ASSUME TokenInv PROVE Inv
    OBVIOUS
  <2>1. \A t \in tokens : t.exp \in Nat /\ t.told \in Nat /\ t.exp <= t.told
                          /\ t.told < t.exp + Second
    BY DEF TokenInv, TypeOK, Tokens, Issued
  <2>2. \A r \in Requests : req[r].since \in Nat
    BY SessionAssumption DEF TokenInv, TypeOK
  <2>3. LetInByOwnToken
    BY <2>1, <2>2 DEF TokenInv, Judged, LetInByOwnToken
  <2>4. NotRefusedEarly
    BY <2>1, <2>2, SessionAssumption DEF TokenInv, Judged, NotRefusedEarly
  <2> QED
    BY <2>3, <2>4 DEF Inv, TokenInv
<1> QED
  BY <1>1, TokensHold, PTL

\* With the gate on nobody acts for an unconfirmed address but by a token from
\* before the gate.  (Register, Login, VerifyEmail)
THEOREM GateHolds == Spec => []GateHoldsForItsOwnTokens
<1>1. TokenInv => GateHoldsForItsOwnTokens
  BY DEF TokenInv, Issued, Judged, GateHoldsForItsOwnTokens
<1> QED
  BY <1>1, TokensHold, PTL
=============================================================================
