---------------------------- MODULE AuthProofs -----------------------------
(***************************************************************************)
(* Theorems about Auth, for any number of requests, accounts and secrets   *)
(* and for every policy.                                                   *)
(***************************************************************************)
EXTENDS Auth, FiniteSetTheorems, TLAPS

----------------------------------------------------------------------------
\* Types

LEMMA NoRequestType ==
  ASSUME NEW e \in Emails, NEW a \in Answers
  PROVE  [NoRequest(e) EXCEPT !.answer = a] \in Request
<1>1. NoSecret \in Secrets
  BY AuthAssumption DEF Secrets, NoSecret
<1> QED
  BY <1>1 DEF NoRequest, Request, Ops, Steps

LEMMA FinishedType ==
  ASSUME NEW q \in Request, NEW a \in Answers
  PROVE  Finished(q, a) \in Request
<1>1. q.email \in Emails
  BY DEF Request
<1>2. [q EXCEPT !.step = "done", !.answer = a, !.password = NoPassword, !.now = 0] \in Request
  BY DEF Request, Steps
<1> QED
  BY <1>1, <1>2, NoRequestType DEF Finished

LEMMA AnswerType ==
  ASSUME TypeOK, NEW r \in Requests, NEW a \in Answers, Answer(r, a)
  PROVE  req' \in [Requests -> Request]
BY FinishedType DEF Answer, TypeOK

LEMMA GotoType ==
  ASSUME TypeOK, NEW r \in Requests, NEW step \in Steps, Goto(r, step)
  PROVE  req' \in [Requests -> Request]
BY DEF Goto, TypeOK, Request

LEMMA AdvancedType ==
  ASSUME NEW q \in Request, NEW step \in Steps, NEW s \in Secrets, NEW n \in Nat,
         NEW e \in Emails
  PROVE  /\ [q EXCEPT !.step = step, !.secret = s] \in Request
         /\ [q EXCEPT !.step = step, !.now = n] \in Request
         /\ [q EXCEPT !.step = step, !.email = e, !.now = n] \in Request
BY DEF Request

LEMMA WrittenType ==
  ASSUME TypeOK, NEW r \in Requests, NEW step \in Steps, Written(r, step)
  PROVE  req' \in [Requests -> Request]
BY AnswerType, GotoType DEF Written, Answers

LEMMA ArriveType ==
  ASSUME TypeOK, NEW r \in Requests, NEW op \in Ops, NEW step \in Steps, NEW e \in Emails,
         NEW p \in Passwords \cup {NoPassword}, NEW s \in Secrets,
         Arrive(r, op, step, e, p, s)
  PROVE  req' \in [Requests -> Request]
<1> DEFINE live == \/ op = "ResetPassword" /\ LiveLink(s)
                   \/ op = "VerifyEmail" /\ LiveCode(e, s)
           old == op = "VerifyEmail" /\ Verified(e)
<1>1. live \in BOOLEAN /\ old \in BOOLEAN
  OBVIOUS
<1> HIDE DEF live, old
<1>2. req' = [req EXCEPT ![r] =
       [op |-> op, step |-> step, email |-> e, password |-> p, secret |-> s,
        now |-> 0, live |-> live, wasVerified |-> old, answer |-> "none"]]
  BY DEF Arrive, live, old
<1> QED
  BY <1>1, <1>2 DEF TypeOK, Request, Answers

LEMMA AnswerAtOnceType ==
  ASSUME TypeOK, NEW r \in Requests, NEW e \in Emails, NEW a \in Answers,
         AnswerAtOnce(r, e, a)
  PROVE  req' \in [Requests -> Request]
BY NoRequestType DEF AnswerAtOnce, TypeOK

LEMMA FreshRowType ==
  ASSUME TypeOK, issued < MaxSecrets, NEW row \in SecretRow, NEW ttl \in Nat
  PROVE  FreshRow(row, ttl) \in SecretRow /\ issued + 1 \in Secrets
<1> DEFINE h == issued + 1
           x == clock + ttl
<1>1. h \in Secrets /\ x \in Nat
  BY AuthAssumption DEF TypeOK, Secrets
<1> HIDE DEF h, x
<1>2. [row EXCEPT !.hash = h, !.attempts = 0, !.expires = x, !.consumed = FALSE] \in SecretRow
  BY <1>1 DEF SecretRow
<1> QED
  BY <1>1, <1>2 DEF FreshRow, h, x

LEMMA RowType ==
  ASSUME NEW row \in SecretRow
  PROVE  /\ Charged(row) \in SecretRow
         /\ Burnt(row) \in SecretRow
         /\ [row EXCEPT !.consumed = TRUE] \in SecretRow
<1> DEFINE n == row.attempts + 1
<1>1. n \in Nat
  BY DEF SecretRow
<1> HIDE DEF n
<1>2. [row EXCEPT !.attempts = n] \in SecretRow
  BY <1>1 DEF SecretRow
<1>3. Burnt(row) \in SecretRow /\ [row EXCEPT !.consumed = TRUE] \in SecretRow
  BY DEF Burnt, SecretRow
<1> QED
  BY <1>2, <1>3 DEF Charged, n

\* Every reachable state is well typed.
THEOREM TypeCorrect == Spec => []TypeOK
<1>1. Init => TypeOK
  <2> SUFFICES ASSUME Init PROVE TypeOK
    OBVIOUS
  <2>1. NoRow \in SecretRow /\ 0 \in Secrets
    BY AuthAssumption DEF NoRow, SecretRow, NoSecret, Secrets
  <2>2. \A e \in Emails : NoRequest(e) \in Request
    BY <2>1 DEF NoRequest, NoSecret, Request, Ops, Steps, Answers
  <2>3. req \in [Requests -> Request]
    BY <2>2 DEF Init
  <2> QED
    BY <2>1, <2>3, AuthAssumption DEF Init, TypeOK
<1>2. TypeOK /\ [Next]_vars => TypeOK'
  <2> SUFFICES ASSUME TypeOK, [Next]_vars PROVE TypeOK'
    OBVIOUS
  <2> USE DEF table
  <2>1. CASE UNCHANGED vars
    BY <2>1 DEF vars, TypeOK
  <2>2. CASE Tick
    BY <2>2, AuthAssumption DEF Tick, TypeOK
  <2>3. CASE Crash
    <3>1. req' \in [Requests -> Request]
      BY <2>3, FinishedType DEF Crash, TypeOK, Answers
    <3> QED BY <2>3, <3>1 DEF Crash, TypeOK
  <2>4. ASSUME NEW r \in Requests, Serves(r) PROVE TypeOK'
    <3> USE <2>4
    <3>1. CASE AnsweredUnread(r)
      BY <3>1, AnswerAtOnceType DEF AnsweredUnread, TypeOK, Answers
    <3>2. CASE RegisterLookup(r)
      <4>1. req' \in [Requests -> Request]
        BY <3>2, AnswerAtOnceType, ArriveType, AuthAssumption
           DEF RegisterLookup, Answers, Ops, Steps, Secrets, NoSecret
      <4> QED BY <3>2, <4>1 DEF RegisterLookup, TypeOK
    <3>3. CASE Create(r)
      <4>1. req' \in [Requests -> Request]
        BY <3>3, AnswerType, WrittenType DEF Create, Answers, Steps
      <4>2. registered' \subseteq Emails /\ password' \in [Emails -> Passwords \cup {NoPassword}]
        BY <3>3 DEF Create, InsertUser, TypeOK, Request
      <4> QED BY <3>3, <4>1, <4>2 DEF Create, TypeOK
    <3>4. CASE LoginLookup(r)
      <4>1. req' \in [Requests -> Request]
        BY <3>4, AnswerAtOnceType, ArriveType, AuthAssumption
           DEF LoginLookup, Answers, Ops, Steps, Secrets, NoSecret
      <4> QED BY <3>4, <4>1 DEF LoginLookup, TypeOK
    <3>5. CASE LoginTouch(r)
      BY <3>5, AnswerType DEF LoginTouch, TypeOK, Answers
    <3>6. CASE ResendLookup(r)
      <4>1. req' \in [Requests -> Request]
        BY <3>6, AnswerAtOnceType, ArriveType, AuthAssumption
           DEF ResendLookup, Answers, Ops, Steps, Secrets, NoSecret
      <4> QED BY <3>6, <4>1 DEF ResendLookup, TypeOK
    <3>7. CASE PutVerification(r)
      <4>1. IssueEnds(r, TRUE) \in Answers
        BY DEF IssueEnds, RegisterAnswer, Answers
      <4>2. req' \in [Requests -> Request]
        <5>1. CASE req' = [req EXCEPT ![r] = [@ EXCEPT !.step = "send", !.secret = issued + 1]]
          <6>1. issued + 1 \in Secrets
            BY <3>7, AuthAssumption DEF PutVerification, TypeOK, Secrets
          <6>2. req[r] \in Request /\ "send" \in Steps
            BY DEF TypeOK, Steps
          <6> DEFINE x == [req[r] EXCEPT !.step = "send", !.secret = issued + 1]
          <6>3. x \in Request
            BY <6>1, <6>2, AdvancedType DEF Request
          <6> HIDE DEF x
          <6>4. req' = [req EXCEPT ![r] = x]
            BY <5>1 DEF x
          <6> QED BY <6>3, <6>4 DEF TypeOK
        <5> QED BY <3>7, <4>1, <5>1, AnswerType DEF PutVerification
      <4>3. code' \in [Emails -> SecretRow] /\ issued' \in Secrets
        <5>1. code[req[r].email] \in SecretRow /\ CodeTTL \in Nat
          BY AuthAssumption DEF TypeOK, Request
        <5> QED BY <3>7, <5>1, FreshRowType DEF PutVerification, TypeOK
      <4> QED BY <3>7, <4>2, <4>3 DEF PutVerification, TypeOK
    <3>8. CASE SendVerification(r)
      <4>1. IssueEnds(r, FALSE) \in Answers
        BY DEF IssueEnds, RegisterAnswer, Answers
      <4>2. mailbox' \in [Emails -> SUBSET Secrets]
        BY <3>8 DEF SendVerification, Deliver, TypeOK, Request
      <4> QED BY <3>8, <4>1, <4>2, AnswerType DEF SendVerification, TypeOK
    <3>9. CASE ArriveWithCode(r)
      <4>1. req' \in [Requests -> Request]
        BY <3>9, ArriveType, AuthAssumption
           DEF ArriveWithCode, TypeOK, Ops, Steps, Secrets, NoSecret
      <4> QED BY <3>9, <4>1 DEF ArriveWithCode, TypeOK
    <3>10. CASE VerifyLookup(r)
      BY <3>10, AnswerType, GotoType DEF VerifyLookup, TypeOK, Answers, Steps
    <3>11. CASE FindVerification(r)
      <4>1. req' \in [Requests -> Request]
        <5>1. AfterFind(r) \in {"reject", "record", "consume"} /\ clock \in Nat
          BY AuthAssumption DEF AfterFind, TypeOK
        <5>2. CASE AfterFind(r) = "reject"
          BY <3>11, <5>2, AnswerType DEF FindVerification, Answers
        <5>3. CASE AfterFind(r) # "reject"
          <6>1. AfterFind(r) \in Steps
            BY <5>1, <5>3 DEF Steps
          <6>2. req' = [req EXCEPT ![r] = [@ EXCEPT !.step = AfterFind(r), !.now = clock]]
            BY <3>11, <5>3 DEF FindVerification
          <6> QED BY <5>1, <6>1, <6>2 DEF TypeOK, Request
        <5> QED BY <5>2, <5>3
      <4> QED BY <3>11, <4>1 DEF FindVerification, TypeOK
    <3>12. CASE RecordVerificationAttempt(r)
      <4>1. code' \in [Emails -> SecretRow]
        BY <3>12, RowType DEF RecordVerificationAttempt, TypeOK, Request
      <4> QED BY <3>12, <4>1, AnswerType DEF RecordVerificationAttempt, TypeOK, Answers
    <3>13. CASE ConsumeVerification(r)
      <4>1. code' \in [Emails -> SecretRow]
        BY <3>13, RowType DEF ConsumeVerification, TypeOK, Request
      <4> QED BY <3>13, <4>1, WrittenType DEF ConsumeVerification, TypeOK, Steps
    <3>14. CASE MarkAfterVerify(r)
      <4>1. verifiedAt' \in [Emails -> Nat \cup {Never}]
        BY <3>14 DEF MarkAfterVerify, Mark, TypeOK, Request
      <4> QED BY <3>14, <4>1, AnswerType DEF MarkAfterVerify, TypeOK, Answers
    <3>15. CASE ForgotLookup(r)
      <4>1. req' \in [Requests -> Request]
        BY <3>15, AnswerAtOnceType, ArriveType, AuthAssumption
           DEF ForgotLookup, Answers, Ops, Steps, Secrets, NoSecret
      <4> QED BY <3>15, <4>1 DEF ForgotLookup, TypeOK
    <3>16. CASE PutReset(r)
      <4>1. req' \in [Requests -> Request]
        <5>1. CASE req' = [req EXCEPT ![r] = [@ EXCEPT !.step = "sendReset", !.secret = issued + 1]]
          <6>1. issued + 1 \in Secrets
            BY <3>16, AuthAssumption DEF PutReset, TypeOK, Secrets
          <6>2. req[r] \in Request /\ "sendReset" \in Steps
            BY DEF TypeOK, Steps
          <6> DEFINE x == [req[r] EXCEPT !.step = "sendReset", !.secret = issued + 1]
          <6>3. x \in Request
            BY <6>1, <6>2, AdvancedType DEF Request
          <6> HIDE DEF x
          <6>4. req' = [req EXCEPT ![r] = x]
            BY <5>1 DEF x
          <6> QED BY <6>3, <6>4 DEF TypeOK
        <5> QED BY <3>16, <5>1, AnswerType DEF PutReset, Answers
      <4>2. reset' \in [Emails -> SecretRow] /\ issued' \in Secrets
        <5>1. reset[req[r].email] \in SecretRow /\ ResetTTL \in Nat
          BY AuthAssumption DEF TypeOK, Request
        <5> QED BY <3>16, <5>1, FreshRowType DEF PutReset, TypeOK
      <4> QED BY <3>16, <4>1, <4>2 DEF PutReset, TypeOK
    <3>17. CASE SendReset(r)
      <4>1. mailbox' \in [Emails -> SUBSET Secrets]
        BY <3>17 DEF SendReset, Deliver, TypeOK, Request
      <4> QED BY <3>17, <4>1, AnswerType DEF SendReset, TypeOK, Answers
    <3>18. CASE ArriveWithLink(r)
      <4>1. req' \in [Requests -> Request]
        BY <3>18, ArriveType, AuthAssumption
           DEF ArriveWithLink, TypeOK, Ops, Steps, Secrets, NoSecret
      <4> QED BY <3>18, <4>1 DEF ArriveWithLink, TypeOK
    <3>19. CASE FindReset(r)
      <4>1. req' \in [Requests -> Request]
        <5>1. ASSUME NEW owner \in Emails,
                     req' = [req EXCEPT ![r] = [@ EXCEPT !.step = "update", !.email = owner,
                                                      !.now = clock]]
              PROVE  req' \in [Requests -> Request]
          <6>1. clock \in Nat
            BY AuthAssumption DEF TypeOK
          <6>2. req[r] \in Request /\ "update" \in Steps /\ NoSecret \in Secrets
            BY AuthAssumption DEF TypeOK, Steps, Secrets, NoSecret
          <6> DEFINE x == [req[r] EXCEPT !.step = "update", !.email = owner, !.now = clock]
          <6>3. x \in Request
            BY <6>1, <6>2, AdvancedType
          <6> HIDE DEF x
          <6>4. req' = [req EXCEPT ![r] = x]
            BY <5>1 DEF x
          <6> QED BY <6>3, <6>4 DEF TypeOK
        <5> QED BY <3>19, <5>1, AnswerType DEF FindReset, Answers
      <4> QED BY <3>19, <4>1 DEF FindReset, TypeOK
    <3>20. CASE UpdatePassword(r)
      <4>1. password' \in [Emails -> Passwords \cup {NoPassword}]
        BY <3>20 DEF UpdatePassword, TypeOK, Request
      <4> QED BY <3>20, <4>1, WrittenType DEF UpdatePassword, TypeOK, Steps
    <3>21. CASE ConsumeReset(r)
      <4>1. reset' \in [Emails -> SecretRow]
        BY <3>21, RowType DEF ConsumeReset, TypeOK, Request
      <4> QED BY <3>21, <4>1, WrittenType DEF ConsumeReset, TypeOK, Steps
    <3>22. CASE MarkAfterReset(r)
      <4>1. verifiedAt' \in [Emails -> Nat \cup {Never}]
        BY <3>22 DEF MarkAfterReset, Mark, TypeOK, Request
      <4> QED BY <3>22, <4>1, AnswerType DEF MarkAfterReset, TypeOK, Answers
    <3>23. CASE StatementFails(r)
      <4>1. FailureAnswer(r) \in Answers
        BY DEF FailureAnswer, IssueEnds, RegisterAnswer, Answers
      <4> QED BY <3>23, <4>1, AnswerType DEF StatementFails, TypeOK
    <3> QED
      BY <3>1, <3>2, <3>3, <3>4, <3>5, <3>6, <3>7, <3>8, <3>9, <3>10, <3>11, <3>12, <3>13,
         <3>14, <3>15, <3>16, <3>17, <3>18, <3>19, <3>20, <3>21, <3>22, <3>23 DEF Serves
  <2> QED BY <2>1, <2>2, <2>3, <2>4 DEF Next
<1> QED BY <1>1, <1>2, PTL DEF Spec

----------------------------------------------------------------------------
\* The gate

\* A step of one request leaves the others as they are.
LEMMA OthersUntouched ==
  ASSUME TypeOK, NEW r \in Requests, Serves(r), NEW q \in Requests, q # r
  PROVE  req'[q] = req[q]
<1>1. \A a \in Answers : Answer(r, a) => req'[q] = req[q]
  BY DEF Answer, TypeOK
<1> QED
  BY <1>1
     DEF TypeOK, Serves, AnsweredUnread, AnswerAtOnce, RegisterLookup, Arrive, Create, Written,
         Goto, Answer, LoginLookup, LoginTouch, ResendLookup, PutVerification, SendVerification,
         ArriveWithCode, VerifyLookup, FindVerification, RecordVerificationAttempt,
         ConsumeVerification, MarkAfterVerify, ForgotLookup, PutReset, SendReset, ArriveWithLink,
         FindReset, UpdatePassword, ConsumeReset, MarkAfterReset, StatementFails

\* A confirmed address stays confirmed.
LEMMA VerifiedStays ==
  ASSUME TypeOK, [Next]_vars, NEW e \in Emails, Verified(e)
  PROVE  Verified(e)'
<1>1. ASSUME NEW r \in Requests, Mark(r) PROVE Verified(e)'
  BY <1>1 DEF Mark, Verified, Never, TypeOK, Request
<1>2. CASE verifiedAt' = verifiedAt
  BY <1>2 DEF Verified
<1>3. ASSUME NEW r \in Requests, Serves(r) PROVE verifiedAt' = verifiedAt \/ Mark(r)
  BY <1>3
     DEF table, Serves, AnsweredUnread, RegisterLookup, Create, LoginLookup, LoginTouch,
         ResendLookup, PutVerification, SendVerification, ArriveWithCode, VerifyLookup,
         FindVerification, RecordVerificationAttempt, ConsumeVerification, MarkAfterVerify,
         ForgotLookup, PutReset, SendReset, ArriveWithLink, FindReset, UpdatePassword,
         ConsumeReset, MarkAfterReset, StatementFails
<1> QED
  BY <1>1, <1>2, <1>3 DEF Next, Tick, Crash, table, vars

\* Which handler a request is in follows from its step, and no request has an
\* answer before it is done.
Control(q) ==
  /\ q.step # "done" => q.answer = "none"
  /\ q.step = "create" => q.op = "Register"
  /\ q.step = "touch" => q.op = "Login"
  /\ q.step \in {"put", "send"} => q.op \in {"Register", "ResendVerification"}
  /\ q.step \in {"lookup", "find", "record", "consume", "mark"} => q.op = "VerifyEmail"
  /\ q.step \in {"putReset", "sendReset"} => q.op = "ForgotPassword"
  /\ q.step \in {"findReset", "update", "burn", "markReset"} => q.op = "ResetPassword"

\* A login past its lookup has seen a confirmed address.
GateInv ==
  \A r \in Requests :
    /\ Control(req[r])
    /\ req[r].step = "touch" /\ RequireVerifiedEmail => Verified(req[r].email)
    /\ /\ req[r].answer = "session"
       /\ RequireVerifiedEmail \/ req[r].op = "VerifyEmail"
       => Verified(req[r].email)

LEMMA FinishedGate ==
  ASSUME NEW q \in Request, NEW a \in Answers
  PROVE  /\ Finished(q, a).step = "done" /\ Finished(q, a).answer = a
         /\ Finished(q, a).email = q.email
         /\ Finished(q, a).op \in {"none", q.op}
BY DEF Finished, NoRequest, Request

LEMMA GateStep ==
  ASSUME TypeOK, GateInv, [Next]_vars
  PROVE  GateInv'
<1> DEFINE After(e) == verifiedAt'[e] # Never
           Ok(q) == /\ Control(q)
                    /\ q.step = "touch" /\ RequireVerifiedEmail => After(q.email)
                    /\ /\ q.answer = "session"
                       /\ RequireVerifiedEmail \/ q.op = "VerifyEmail"
                       => After(q.email)
<1> SUFFICES ASSUME NEW q \in Requests PROVE Ok(req'[q])
  BY DEF GateInv, Verified, Never
<1>1. Ok(req[q])
  BY VerifiedStays DEF GateInv, Verified, TypeOK, Request
<1>2. CASE req'[q] = req[q]
  BY <1>1, <1>2
\* An answer other than a session puts the request beyond the invariant.
<1>3. ASSUME NEW a \in Answers, Answer(q, a), a # "session" PROVE Ok(req'[q])
  <2>1. req'[q] = Finished(req[q], a)
    BY <1>3 DEF Answer, TypeOK
  <2> QED BY <1>3, <2>1, FinishedGate DEF Control, TypeOK
<1>4. ASSUME Answer(q, "session"), req[q].op # "VerifyEmail" \/ After(req[q].email),
             RequireVerifiedEmail => After(req[q].email)
      PROVE  Ok(req'[q])
  <2>1. req'[q] = Finished(req[q], "session")
    BY <1>4 DEF Answer, TypeOK
  <2> QED BY <1>4, <2>1, FinishedGate DEF Control, TypeOK, Answers
<1>5. ASSUME NEW e \in Emails, NEW a \in Answers, a # "session", AnswerAtOnce(q, e, a)
      PROVE  Ok(req'[q])
  BY <1>5 DEF AnswerAtOnce, NoRequest, Control, TypeOK
<1>6. CASE Serves(q)
  <2>1. CASE AnsweredUnread(q) \/ RegisterLookup(q) \/ ResendLookup(q) \/ ForgotLookup(q)
              \/ ArriveWithCode(q) \/ ArriveWithLink(q)
    BY <1>5, <2>1 DEF AnsweredUnread, RegisterLookup, ResendLookup, ForgotLookup,
         ArriveWithCode, ArriveWithLink, Arrive, Control, TypeOK, Answers
  <2>2. CASE LoginLookup(q)
    <3>1. verifiedAt' = verifiedAt
      BY <2>2 DEF LoginLookup, table
    <3> QED BY <1>5, <2>2, <3>1
          DEF LoginLookup, MayLogin, Arrive, Verified, Control, TypeOK, Answers
  <2>3. CASE Create(q) \/ UpdatePassword(q) \/ ConsumeReset(q) \/ ConsumeVerification(q)
    BY <1>1, <1>3, <2>3 DEF Create, UpdatePassword, ConsumeReset, ConsumeVerification,
         Written, Goto, Control, TypeOK, Request, Answers
  <2>4. CASE LoginTouch(q)
    BY <1>1, <1>4, <2>4 DEF LoginTouch, Control, TypeOK
  <2>5. CASE PutVerification(q) \/ SendVerification(q)
    <3>1. req[q].op # "VerifyEmail"
      BY <1>1, <2>5 DEF PutVerification, SendVerification, Control
    <3>2. ASSUME NEW f \in BOOLEAN, Answer(q, IssueEnds(q, f)) PROVE Ok(req'[q])
      BY <1>3, <1>4, <3>1, <3>2 DEF IssueEnds, RegisterAnswer, Answers
    <3>3. CASE req' = [req EXCEPT ![q] = [@ EXCEPT !.step = "send", !.secret = issued + 1]]
      BY <1>1, <2>5, <3>3 DEF PutVerification, SendVerification, Control, TypeOK, Request
    <3> QED BY <2>5, <3>2, <3>3 DEF PutVerification, SendVerification
  <2>6. CASE VerifyLookup(q)
    BY <1>1, <1>3, <2>6 DEF VerifyLookup, Goto, Control, TypeOK, Request, Answers
  <2>7. CASE FindVerification(q)
    <3>1. AfterFind(q) \in {"reject", "record", "consume"}
      BY DEF AfterFind
    <3>2. CASE AfterFind(q) # "reject"
      <4> DEFINE x == [req[q] EXCEPT !.step = AfterFind(q), !.now = clock]
      <4>1. req'[q] = x
        BY <2>7, <3>2 DEF FindVerification, TypeOK
      <4>2. x.step \in {"record", "consume"} /\ x.op = "VerifyEmail" /\ x.answer = "none"
        BY <1>1, <2>7, <3>1, <3>2 DEF FindVerification, Control, TypeOK, Request
      <4> HIDE DEF x
      <4> QED BY <4>1, <4>2 DEF Control
    <3> QED BY <1>3, <2>7, <3>2 DEF FindVerification, Answers
  <2>8. CASE RecordVerificationAttempt(q) \/ SendReset(q) \/ MarkAfterReset(q)
    BY <1>3, <2>8 DEF RecordVerificationAttempt, SendReset, MarkAfterReset, Answers
  <2>9. CASE MarkAfterVerify(q)
    <3>1. After(req[q].email)
      BY <2>9 DEF MarkAfterVerify, Mark, Verified, Never, TypeOK, Request
    <3> QED BY <1>3, <1>4, <2>9, <3>1 DEF MarkAfterVerify, Answers
  <2>10. CASE PutReset(q)
    <3>1. CASE req' = [req EXCEPT ![q] = [@ EXCEPT !.step = "sendReset", !.secret = issued + 1]]
      BY <1>1, <2>10, <3>1 DEF PutReset, Control, TypeOK, Request
    <3> QED BY <1>3, <2>10, <3>1 DEF PutReset, Answers
  <2>11. CASE FindReset(q)
    <3>1. ASSUME NEW owner \in Emails,
                 req' = [req EXCEPT ![q] = [@ EXCEPT !.step = "update", !.email = owner,
                                                     !.now = clock]]
          PROVE  Ok(req'[q])
      <4> DEFINE x == [req[q] EXCEPT !.step = "update", !.email = owner, !.now = clock]
      <4>1. req'[q] = x
        BY <3>1 DEF TypeOK
      <4>2. x.step = "update" /\ x.op = "ResetPassword" /\ x.answer = "none"
        BY <1>1, <2>11 DEF FindReset, Control, TypeOK, Request
      <4> HIDE DEF x
      <4> QED BY <4>1, <4>2 DEF Control
    <3> QED BY <1>3, <2>11, <3>1 DEF FindReset, Answers
  <2>12. CASE StatementFails(q)
    <3>1. FailureAnswer(q) = "session" => req[q].op = "Register" /\ ~RequireVerifiedEmail
      BY DEF FailureAnswer, IssueEnds, RegisterAnswer
    <3>2. FailureAnswer(q) \in Answers
      BY DEF FailureAnswer, IssueEnds, RegisterAnswer, Answers
    <3> QED BY <1>3, <1>4, <2>12, <3>1, <3>2 DEF StatementFails
  <2> QED
    BY <1>6, <2>1, <2>2, <2>3, <2>4, <2>5, <2>6, <2>7, <2>8, <2>9, <2>10, <2>11, <2>12
       DEF Serves
<1>7. CASE \E r \in Requests : r # q /\ Serves(r)
  BY <1>2, <1>7, OthersUntouched
<1>8. CASE Crash
  BY <1>1, <1>8, FinishedGate DEF Crash, Control, TypeOK, Answers
<1> QED
  BY <1>2, <1>6, <1>7, <1>8 DEF Next, Tick, vars

\* With the gate on no session is ever opened for an unconfirmed address.
THEOREM SessionsVerified == Spec => []SessionsAreVerified
<1>1. Init => GateInv
  BY DEF Init, GateInv, Control, NoRequest
<1>2. TypeOK /\ GateInv /\ [Next]_vars => GateInv'
  BY GateStep
<1>3. GateInv => SessionsAreVerified
  BY DEF GateInv, SessionsAreVerified
<1> QED
  BY <1>1, <1>2, <1>3, TypeCorrect, PTL DEF Spec

----------------------------------------------------------------------------
\* Secrets

\* All a step can do to a stored secret is replace it by a new one, charge an
\* attempt to it or spend it; and time only moves forward.
LEMMA SecretsOnlyAge ==
  ASSUME TypeOK, [Next]_vars
  PROVE  /\ clock \in Nat /\ clock' \in Nat /\ clock <= clock'
         /\ issued' \in {issued, issued + 1}
         /\ \A e \in Emails :
              \/ code'[e] = code[e]
              \/ code'[e].hash = issued + 1 /\ issued' = issued + 1
              \/ code'[e] = Charged(code[e])
              \/ code'[e] = [code[e] EXCEPT !.consumed = TRUE]
         /\ \A e \in Emails :
              \/ reset'[e] = reset[e]
              \/ reset'[e].hash = issued + 1 /\ issued' = issued + 1
              \/ reset'[e] = Burnt(reset[e])
<1>1. clock \in Nat /\ clock' \in Nat /\ clock <= clock'
  <2>1. clock' = clock \/ Tick
    BY DEF vars, table, Next, Crash, Serves, AnsweredUnread, RegisterLookup, Create,
         LoginLookup, LoginTouch, ResendLookup, PutVerification, SendVerification,
         ArriveWithCode, VerifyLookup, FindVerification, RecordVerificationAttempt,
         ConsumeVerification, MarkAfterVerify, ForgotLookup, PutReset, SendReset,
         ArriveWithLink, FindReset, UpdatePassword, ConsumeReset, MarkAfterReset, StatementFails
  <2> QED BY <2>1, AuthAssumption DEF Tick, TypeOK
<1>2. ASSUME NEW r \in Requests, Serves(r)
      PROVE  \/ UNCHANGED <<code, reset, issued>>
             \/ PutVerification(r) \/ PutReset(r) \/ RecordVerificationAttempt(r)
             \/ ConsumeVerification(r) \/ ConsumeReset(r)
  BY <1>2 DEF table, Serves, AnsweredUnread, RegisterLookup, Create,
       LoginLookup, LoginTouch, ResendLookup, SendVerification, ArriveWithCode, VerifyLookup,
       FindVerification, MarkAfterVerify, ForgotLookup, SendReset, ArriveWithLink, FindReset,
       UpdatePassword, MarkAfterReset, StatementFails
<1> DEFINE Ages(e) ==
      /\ \/ code'[e] = code[e]
         \/ code'[e].hash = issued + 1 /\ issued' = issued + 1
         \/ code'[e] = Charged(code[e])
         \/ code'[e] = [code[e] EXCEPT !.consumed = TRUE]
      /\ \/ reset'[e] = reset[e]
         \/ reset'[e].hash = issued + 1 /\ issued' = issued + 1
         \/ reset'[e] = Burnt(reset[e])
<1>3. ASSUME NEW r \in Requests, Serves(r), NEW e \in Emails
      PROVE  Ages(e) /\ issued' \in {issued, issued + 1}
  <2>1. CASE PutVerification(r)
    BY <2>1 DEF PutVerification, FreshRow, TypeOK, SecretRow
  <2>2. CASE PutReset(r)
    BY <2>2 DEF PutReset, FreshRow, TypeOK, SecretRow
  <2>3. CASE RecordVerificationAttempt(r)
    BY <2>3 DEF RecordVerificationAttempt, TypeOK
  <2>4. CASE ConsumeVerification(r)
    BY <2>4 DEF ConsumeVerification, TypeOK
  <2>5. CASE ConsumeReset(r)
    BY <2>5 DEF ConsumeReset, TypeOK
  <2> QED BY <1>2, <1>3, <2>1, <2>2, <2>3, <2>4, <2>5
<1>4. ASSUME NEW e \in Emails
      PROVE  Ages(e) /\ issued' \in {issued, issued + 1}
  <2>1. CASE UNCHANGED <<code, reset, issued>>
    BY <2>1
  <2> QED BY <1>3, <2>1 DEF Next, Tick, Crash, vars, table
<1>5. issued' \in {issued, issued + 1}
  <2>1. ASSUME NEW r \in Requests, Serves(r) PROVE issued' \in {issued, issued + 1}
    BY <1>2, <2>1 DEF PutVerification, PutReset, RecordVerificationAttempt,
         ConsumeVerification, ConsumeReset
  <2> QED BY <2>1 DEF Next, Tick, Crash, vars
<1> QED BY <1>1, <1>4, <1>5

\* A code, or a link, that is live after a step.
CodeAfter(e, s) == s # NoSecret /\ code'[e].hash = s /\ UsableCode(code'[e], clock')
LinkAfter(s) ==
  s # NoSecret /\ \E e \in Emails : reset'[e].hash = s /\ UsableReset(reset'[e], clock')

LEMMA DeadStep ==
  ASSUME TypeOK, [Next]_vars, NEW s \in 1 .. issued
  PROVE  /\ \A e \in Emails : CodeAfter(e, s) => LiveCode(e, s)
         /\ LinkAfter(s) => LiveLink(s)
<1>1. issued \in Nat /\ s \in Nat /\ s # issued + 1 /\ MaxAttempts \in Nat
  BY AuthAssumption DEF TypeOK, Secrets
<1>2. clock \in Nat /\ clock' \in Nat /\ clock <= clock'
  BY SecretsOnlyAge
<1>3. ASSUME NEW e \in Emails, CodeAfter(e, s) PROVE LiveCode(e, s)
  <2>1. code[e] \in SecretRow
    BY DEF TypeOK
  <2>2. code'[e].hash = s /\ ~code'[e].consumed /\ clock' < code'[e].expires
        /\ code'[e].attempts < MaxAttempts /\ s # NoSecret
    BY <1>3 DEF CodeAfter, UsableCode
  <2>3. code'[e] = code[e] \/ code'[e] = Charged(code[e])
    BY <1>1, <2>1, <2>2, SecretsOnlyAge DEF SecretRow
  <2>4. /\ code[e].hash = code'[e].hash /\ code[e].consumed = code'[e].consumed
        /\ code[e].expires = code'[e].expires /\ code[e].attempts <= code'[e].attempts
    BY <2>1, <2>3 DEF Charged, SecretRow
  <2>5. clock < code[e].expires /\ code[e].attempts < MaxAttempts
    <3>1. code[e].expires \in Nat /\ code[e].attempts \in Nat /\ code'[e].attempts \in Nat
      BY <2>1, <2>3, RowType DEF SecretRow
    <3> QED BY <1>1, <1>2, <2>2, <2>4, <3>1
  <2> QED BY <2>2, <2>4, <2>5 DEF LiveCode, UsableCode
<1>4. ASSUME LinkAfter(s) PROVE LiveLink(s)
  <2>1. PICK e \in Emails : reset'[e].hash = s /\ ~reset'[e].consumed
                            /\ clock' < reset'[e].expires
    BY <1>4 DEF LinkAfter, UsableReset
  <2>2. reset[e] \in SecretRow
    BY DEF TypeOK
  <2>3. reset'[e] = reset[e]
    BY <1>1, <2>1, <2>2, SecretsOnlyAge DEF Burnt, SecretRow
  <2>4. clock < reset[e].expires
    BY <1>2, <2>1, <2>2, <2>3 DEF SecretRow
  <2> QED BY <1>4, <2>1, <2>3, <2>4 DEF LinkAfter, LiveLink, UsableReset
<1> QED BY <1>3, <1>4

\* A secret that has died is never live again.
THEOREM DeadStayDead == Spec => DeadSecretsStayDead
<1>1. ASSUME TypeOK, [Next]_vars, NEW s \in 1 .. issued
      PROVE  /\ \A e \in Emails : LiveCode(e, s)' => LiveCode(e, s)
             /\ LiveLink(s)' => LiveLink(s)
  BY <1>1, DeadStep DEF CodeAfter, LinkAfter, LiveCode, LiveLink
<1>2. TypeOK /\ [Next]_vars =>
        \A s \in 1 .. issued :
          /\ \A e \in Emails : LiveCode(e, s)' => LiveCode(e, s)
          /\ LiveLink(s)' => LiveLink(s)
  BY <1>1
<1> QED
  BY <1>2, TypeCorrect, PTL DEF Spec, DeadSecretsStayDead

----------------------------------------------------------------------------
\* How many guesses a code can take

\* The wrong guesses that have passed the check and are yet to be charged.
Guesses(e) == {r \in Requests : req[r].step = "record" /\ req[r].email = e}

\* Charged or about to be, they stay below what one round of requests can add
\* to a code that was still short of the maximum.
GuessesInv ==
  \A e \in Emails :
    code[e].attempts + Cardinality(Guesses(e)) < MaxAttempts + Cardinality(Requests)

\* Only a request that has just found a code usable joins them.
LEMMA GuessJoins ==
  ASSUME TypeOK, [Next]_vars, NEW q \in Requests, req'[q].step = "record"
  PROVE  \/ req'[q] = req[q]
         \/ /\ UsableCode(code[req[q].email], clock) /\ code' = code
            /\ req'[q].email = req[q].email
<1>1. ASSUME NEW a \in Answers, Answer(q, a) PROVE FALSE
  BY <1>1, FinishedGate DEF Answer, TypeOK
<1>2. ASSUME NEW e \in Emails, NEW a \in Answers, AnswerAtOnce(q, e, a) PROVE FALSE
  BY <1>2 DEF AnswerAtOnce, NoRequest, TypeOK
<1>3. ASSUME NEW step \in Steps \ {"record"}, Goto(q, step) PROVE FALSE
  BY <1>3 DEF Goto, TypeOK, Request
<1>4. ASSUME Serves(q)
      PROVE  /\ UsableCode(code[req[q].email], clock) /\ code' = code
             /\ req'[q].email = req[q].email
  <2>1. CASE AnsweredUnread(q) \/ RegisterLookup(q) \/ ResendLookup(q) \/ ForgotLookup(q)
              \/ LoginLookup(q) \/ ArriveWithCode(q) \/ ArriveWithLink(q)
    BY <1>2, <2>1 DEF AnsweredUnread, RegisterLookup, ResendLookup, ForgotLookup,
         LoginLookup, ArriveWithCode, ArriveWithLink, Arrive, TypeOK, Answers
  <2>2. CASE Create(q) \/ ConsumeVerification(q) \/ VerifyLookup(q) \/ UpdatePassword(q)
              \/ ConsumeReset(q)
    BY <1>1, <1>3, <2>2 DEF Create, ConsumeVerification, VerifyLookup, UpdatePassword,
         ConsumeReset, Written, Steps, Answers
  <2>3. CASE LoginTouch(q) \/ RecordVerificationAttempt(q) \/ MarkAfterVerify(q)
              \/ SendReset(q) \/ MarkAfterReset(q)
    BY <1>1, <2>3 DEF LoginTouch, RecordVerificationAttempt, MarkAfterVerify, SendReset,
         MarkAfterReset, Answers
  <2>4. CASE PutVerification(q) \/ SendVerification(q) \/ PutReset(q)
    <3>1. \A f \in BOOLEAN : IssueEnds(q, f) \in Answers
      BY DEF IssueEnds, RegisterAnswer, Answers
    <3>2. \A step \in {"send", "sendReset"} :
            req' # [req EXCEPT ![q] = [@ EXCEPT !.step = step, !.secret = issued + 1]]
      BY <1>4 DEF TypeOK, Request
    <3> QED BY <1>1, <2>4, <3>1, <3>2
          DEF PutVerification, SendVerification, PutReset, Answers
  <2>5. CASE FindVerification(q)
    <3>1. AfterFind(q) # "reject"
      BY <1>1, <2>5 DEF FindVerification, Answers
    <3>2. UsableCode(code[req[q].email], clock)
      BY <3>1 DEF AfterFind, UsableCode
    <3>3. req'[q].email = req[q].email
      BY <2>5, <3>1 DEF FindVerification, TypeOK, Request
    <3> QED BY <2>5, <3>2, <3>3 DEF FindVerification, table
  <2>6. CASE FindReset(q)
    <3>1. ASSUME NEW owner \in Emails,
                 req' = [req EXCEPT ![q] = [@ EXCEPT !.step = "update", !.email = owner,
                                                     !.now = clock]]
          PROVE  FALSE
      BY <3>1 DEF TypeOK, Request
    <3> QED BY <1>1, <2>6, <3>1 DEF FindReset, Answers
  <2>7. CASE StatementFails(q)
    <3>1. FailureAnswer(q) \in Answers
      BY DEF FailureAnswer, IssueEnds, RegisterAnswer, Answers
    <3> QED BY <1>1, <2>7, <3>1 DEF StatementFails
  <2> QED
    BY <1>4, <2>1, <2>2, <2>3, <2>4, <2>5, <2>6, <2>7 DEF Serves
<1>5. CASE \E r \in Requests : r # q /\ Serves(r)
  BY <1>5, OthersUntouched
<1>6. CASE Crash
  BY <1>6, FinishedGate DEF Crash, Answers, TypeOK
<1> QED
  BY <1>4, <1>5, <1>6 DEF Next, Tick, vars

LEMMA GuessesFinite ==
  ASSUME NEW S \in SUBSET Requests
  PROVE  /\ IsFiniteSet(S) /\ Cardinality(S) \in Nat
         /\ Cardinality(S) <= Cardinality(Requests)
         /\ \A T \in SUBSET S : Cardinality(T) <= Cardinality(S) /\ Cardinality(T) \in Nat
BY AuthAssumption, FS_Subset, FS_CardinalityType

LEMMA GuessesStep ==
  ASSUME TypeOK, GuessesInv, [Next]_vars
  PROVE  GuessesInv'
<1> SUFFICES ASSUME NEW e \in Emails
             PROVE  code'[e].attempts + Cardinality(Guesses(e)') <
                      MaxAttempts + Cardinality(Requests)
  BY DEF GuessesInv
<1> DEFINE G == Guesses(e)
           H == Guesses(e)'
<1>1. /\ code[e] \in SecretRow /\ code[e].attempts \in Nat /\ MaxAttempts \in Nat
      /\ Cardinality(Requests) \in Nat
  BY AuthAssumption, GuessesFinite DEF TypeOK, SecretRow
<1>2. G \subseteq Requests /\ H \subseteq Requests
  BY DEF Guesses
<1>3. Cardinality(G) \in Nat /\ Cardinality(H) \in Nat
      /\ Cardinality(H) <= Cardinality(Requests)
  BY <1>2, GuessesFinite
<1>4. code[e].attempts + Cardinality(G) < MaxAttempts + Cardinality(Requests)
  BY DEF GuessesInv
<1> HIDE DEF G, H
\* A guess has just been admitted: the code is as it was found.
<1>5. CASE \E q \in H : q \notin G
  <2>1. PICK q \in Requests : q \in H /\ q \notin G
    BY <1>2, <1>5
  <2>2. req'[q].step = "record" /\ req'[q].email = e /\ req'[q] # req[q]
    BY <2>1 DEF G, H, Guesses
  <2>3. code'[e] = code[e] /\ code[e].attempts < MaxAttempts
    BY <2>2, GuessJoins DEF UsableCode
  <2> QED BY <1>1, <1>3, <2>3 DEF H
<1>6. CASE H \subseteq G
  <2>1. Cardinality(H) <= Cardinality(G)
    BY <1>2, <1>6, GuessesFinite
  <2>2. CASE code'[e].attempts \in Nat /\ code'[e].attempts <= code[e].attempts
    BY <1>1, <1>3, <1>4, <2>1, <2>2 DEF H
  \* A guess is charged by a request that then is done.
  <2>3. ASSUME NEW q \in Requests, RecordVerificationAttempt(q), req[q].email = e
        PROVE  code'[e].attempts = code[e].attempts + 1
               /\ Cardinality(H) <= Cardinality(G) - 1
    <3>1. code'[e] = Charged(code[e])
      BY <2>3 DEF RecordVerificationAttempt, TypeOK
    <3>2. q \in G /\ q \notin H
      <4>1. req'[q].step = "done"
        BY <2>3, FinishedGate DEF RecordVerificationAttempt, Answer, TypeOK, Answers
      <4> QED BY <2>3, <4>1 DEF G, H, Guesses, RecordVerificationAttempt
    <3>3. H \subseteq G \ {q} /\ Cardinality(G \ {q}) = Cardinality(G) - 1
      BY <1>2, <1>6, <3>2, GuessesFinite, FS_RemoveElement
    <3>4. Cardinality(H) <= Cardinality(G \ {q})
      BY <1>2, <3>3, GuessesFinite
    <3> QED BY <1>1, <3>1, <3>3, <3>4 DEF Charged, SecretRow
  <2>4. \/ code'[e].attempts \in Nat /\ code'[e].attempts <= code[e].attempts
        \/ \E q \in Requests : RecordVerificationAttempt(q) /\ req[q].email = e
    <3>1. ASSUME NEW r \in Requests, PutVerification(r)
          PROVE  code'[e] = code[e] \/ code'[e].attempts = 0
      BY <3>1 DEF PutVerification, FreshRow, TypeOK, SecretRow
    <3>2. ASSUME NEW r \in Requests, ConsumeVerification(r)
          PROVE  code'[e].attempts = code[e].attempts
      BY <1>1, <3>2 DEF ConsumeVerification, TypeOK, SecretRow
    <3>3. ASSUME NEW r \in Requests, RecordVerificationAttempt(r), req[r].email # e
          PROVE  code'[e] = code[e]
      BY <3>3 DEF RecordVerificationAttempt, TypeOK
    <3>4. ASSUME NEW r \in Requests, Serves(r), ~PutVerification(r), ~ConsumeVerification(r),
                 ~RecordVerificationAttempt(r)
          PROVE  code' = code
      BY <3>4 DEF table, Serves, AnsweredUnread, RegisterLookup, Create, LoginLookup,
           LoginTouch, ResendLookup, SendVerification, ArriveWithCode, VerifyLookup,
           FindVerification, MarkAfterVerify, ForgotLookup, PutReset, SendReset,
           ArriveWithLink, FindReset, UpdatePassword, ConsumeReset, MarkAfterReset,
           StatementFails
    <3> QED BY <1>1, <3>1, <3>2, <3>3, <3>4 DEF Next, Tick, Crash, vars, table
  <2> QED BY <1>1, <1>3, <1>4, <2>2, <2>3, <2>4 DEF H
<1> QED BY <1>5, <1>6 DEF H

\* However the guesses interleave, at most one round of them exceeds the policy.
THEOREM GuessesBounded == Spec => []AttemptsBounded
<1>1. Init => GuessesInv
  <2> SUFFICES ASSUME Init, NEW e \in Emails
               PROVE  code[e].attempts + Cardinality(Guesses(e)) <
                        MaxAttempts + Cardinality(Requests)
    BY DEF GuessesInv
  <2>1. Guesses(e) = {} /\ code[e].attempts = 0
    BY DEF Init, Guesses, NoRequest, NoRow
  <2> QED BY <2>1, AuthAssumption, GuessesFinite, FS_EmptySet
<1>2. TypeOK /\ GuessesInv /\ [Next]_vars => GuessesInv'
  BY GuessesStep
<1>3. TypeOK /\ GuessesInv => AttemptsBounded
  <2> SUFFICES ASSUME TypeOK, GuessesInv, NEW e \in Emails
               PROVE  code[e].attempts < MaxAttempts + Cardinality(Requests)
    BY DEF AttemptsBounded
  <2>1. code[e].attempts \in Nat /\ Guesses(e) \in SUBSET Requests
    BY DEF TypeOK, SecretRow, Guesses
  <2>2. Cardinality(Guesses(e)) \in Nat /\ Cardinality(Requests) \in Nat
    BY <2>1, GuessesFinite
  <2> QED BY <2>1, <2>2, AuthAssumption DEF GuessesInv
<1> QED
  BY <1>1, <1>2, <1>3, TypeCorrect, PTL DEF Spec

----------------------------------------------------------------------------
\* A link that was redeemed is spent

\* The links in the table were issued, and no two accounts hold the same one.
LinksIssued ==
  /\ \A e \in Emails : reset[e].hash <= issued
  /\ \A e, f \in Emails :
       e # f /\ reset[e].hash = reset[f].hash => reset[e].hash = NoSecret

\* A redemption under way holds the link of its own account and of no other;
\* past the statement that burns it, no row holds that link unspent.
LinkHeld(q) ==
  q.step \in {"update", "burn"} =>
    /\ q.secret <= issued
    /\ \A e \in Emails : e # q.email => reset[e].hash # q.secret

LinkSpent(q) ==
  (q.step = "markReset" \/ (q.op = "ResetPassword" /\ q.answer = "accepted")) =>
    /\ q.secret <= issued
    /\ \A e \in Emails : reset[e].hash = q.secret => reset[e].consumed

LinkInv ==
  LinksIssued /\ \A r \in Requests : LinkHeld(req[r]) /\ LinkSpent(req[r])

LEMMA LinksIssuedStep ==
  ASSUME TypeOK, LinksIssued, [Next]_vars
  PROVE  LinksIssued'
<1>1. issued \in Nat /\ \A e \in Emails : reset[e] \in SecretRow /\ reset[e].hash \in Nat
  BY AuthAssumption DEF TypeOK, SecretRow, Secrets
<1>2. CASE \A e \in Emails : reset'[e].hash = reset[e].hash
  BY <1>1, <1>2, SecretsOnlyAge DEF LinksIssued
<1>3. ASSUME NEW r \in Requests, PutReset(r) PROVE LinksIssued'
  <2>1. req[r].email \in Emails
    BY DEF TypeOK, Request
  <2>2. /\ issued' = issued + 1 /\ reset'[req[r].email].hash = issued + 1
        /\ \A e \in Emails : e # req[r].email => reset'[e] = reset[e]
    BY <1>1, <1>3, <2>1 DEF PutReset, FreshRow, TypeOK, SecretRow
  <2> QED BY <1>1, <2>1, <2>2 DEF LinksIssued
<1>4. ASSUME NEW r \in Requests, ConsumeReset(r)
      PROVE  \A e \in Emails : reset'[e].hash = reset[e].hash
  BY <1>1, <1>4 DEF ConsumeReset, Burnt, TypeOK, SecretRow
<1>5. ASSUME NEW r \in Requests, Serves(r), ~PutReset(r), ~ConsumeReset(r)
      PROVE  reset' = reset
  BY <1>5 DEF table, Serves, AnsweredUnread, RegisterLookup, Create, LoginLookup, LoginTouch,
       ResendLookup, PutVerification, SendVerification, ArriveWithCode, VerifyLookup,
       FindVerification, RecordVerificationAttempt, ConsumeVerification, MarkAfterVerify,
       ForgotLookup, SendReset, ArriveWithLink, FindReset, UpdatePassword, MarkAfterReset,
       StatementFails
<1> QED BY <1>2, <1>3, <1>4, <1>5 DEF Next, Tick, Crash, vars, table

LEMMA LinkStep ==
  ASSUME TypeOK, GateInv, LinkInv, [Next]_vars
  PROVE  LinkInv'
<1> DEFINE Held(q) == q.step \in {"update", "burn"} =>
                        /\ q.secret <= issued'
                        /\ \A e \in Emails : e # q.email => reset'[e].hash # q.secret
           Spent(q) == \/ q.step = "markReset"
                       \/ q.op = "ResetPassword" /\ q.answer = "accepted"
                       => /\ q.secret <= issued'
                          /\ \A e \in Emails : reset'[e].hash = q.secret => reset'[e].consumed
<1>0. LinksIssued'
  BY LinksIssuedStep DEF LinkInv
<1> SUFFICES ASSUME NEW q \in Requests PROVE Held(req'[q]) /\ Spent(req'[q])
  BY <1>0 DEF LinkInv, LinkHeld, LinkSpent
<1>1. issued \in Nat /\ issued' \in Nat /\ issued <= issued'
  BY SecretsOnlyAge, AuthAssumption DEF TypeOK, Secrets
<1>2. req[q] \in Request /\ req[q].secret \in Nat
      /\ \A e \in Emails : reset[e] \in SecretRow /\ reset[e].hash \in Nat
  BY AuthAssumption DEF TypeOK, Request, SecretRow, Secrets
\* Neither condition is lost by what happens to the table.
<1>3. Held(req[q]) /\ Spent(req[q])
  <2>1. ASSUME NEW e \in Emails
        PROVE  \/ reset'[e] = reset[e]
               \/ reset'[e].hash = issued + 1
               \/ reset'[e].hash = reset[e].hash /\ reset'[e].consumed
    <3>1. Burnt(reset[e]).hash = reset[e].hash /\ Burnt(reset[e]).consumed
      BY <1>2 DEF Burnt, SecretRow
    <3> QED BY <3>1, SecretsOnlyAge
  <2> QED BY <1>1, <1>2, <2>1 DEF LinkInv, LinkHeld, LinkSpent
<1>4. CASE req'[q] = req[q]
  BY <1>3, <1>4
<1>5. ASSUME NEW a \in Answers, Answer(q, a), req[q].step = "markReset" \/ a # "accepted"
                                            \/ req[q].op # "ResetPassword"
      PROVE  Held(req'[q]) /\ Spent(req'[q])
  <2>1. req'[q] = Finished(req[q], a)
    BY <1>5 DEF Answer, TypeOK
  <2>2. Finished(req[q], a).op = "ResetPassword" /\ a = "accepted" =>
          req[q].op = "ResetPassword" /\ Finished(req[q], a).secret = req[q].secret
    BY <1>2 DEF Finished, NoRequest, Request
  <2> QED BY <1>2, <1>3, <1>5, <2>1, <2>2, FinishedGate
<1>6. ASSUME NEW e \in Emails, NEW a \in Answers, AnswerAtOnce(q, e, a)
      PROVE  Held(req'[q]) /\ Spent(req'[q])
  BY <1>6 DEF AnswerAtOnce, NoRequest, TypeOK
<1>7. CASE Serves(q)
  <2>0. Control(req[q])
    BY DEF GateInv
  <2>1. CASE AnsweredUnread(q) \/ RegisterLookup(q) \/ ResendLookup(q) \/ ForgotLookup(q)
              \/ LoginLookup(q) \/ ArriveWithCode(q) \/ ArriveWithLink(q)
    BY <1>6, <2>1 DEF AnsweredUnread, RegisterLookup, ResendLookup, ForgotLookup,
         LoginLookup, ArriveWithCode, ArriveWithLink, Arrive, TypeOK, Answers
  <2>2. CASE Create(q) \/ ConsumeVerification(q) \/ VerifyLookup(q)
    BY <1>2, <1>5, <2>0, <2>2 DEF Create, ConsumeVerification, VerifyLookup, Written, Goto,
         Control, TypeOK, Request, Answers
  <2>3. CASE LoginTouch(q) \/ RecordVerificationAttempt(q) \/ MarkAfterVerify(q)
              \/ SendReset(q) \/ MarkAfterReset(q)
    BY <1>5, <2>0, <2>3 DEF LoginTouch, RecordVerificationAttempt, MarkAfterVerify, SendReset,
         MarkAfterReset, Control, Answers
  <2>4. CASE PutVerification(q) \/ SendVerification(q) \/ PutReset(q)
    <3>1. req[q].op # "ResetPassword" /\ req[q].answer = "none"
      BY <2>0, <2>4 DEF PutVerification, SendVerification, PutReset, Control
    <3>2. \A f \in BOOLEAN : IssueEnds(q, f) \in Answers
      BY DEF IssueEnds, RegisterAnswer, Answers
    <3>3. ASSUME NEW step \in {"send", "sendReset"},
                 req' = [req EXCEPT ![q] = [@ EXCEPT !.step = step, !.secret = issued + 1]]
          PROVE  Held(req'[q]) /\ Spent(req'[q])
      <4> DEFINE x == [req[q] EXCEPT !.step = step, !.secret = issued + 1]
      <4>1. req'[q] = x
        BY <3>3 DEF TypeOK
      <4>2. x.step \in {"send", "sendReset"} /\ x.op = req[q].op /\ x.answer = req[q].answer
        BY <1>2 DEF Request
      <4> HIDE DEF x
      <4> QED BY <3>1, <4>1, <4>2
    <3> QED BY <1>5, <2>4, <3>1, <3>2, <3>3
          DEF PutVerification, SendVerification, PutReset, Answers
  <2>5. CASE FindVerification(q)
    <3>1. CASE AfterFind(q) = "reject"
      BY <1>5, <2>5, <3>1 DEF FindVerification, Answers
    <3>2. CASE AfterFind(q) # "reject"
      <4> DEFINE x == [req[q] EXCEPT !.step = AfterFind(q), !.now = clock]
      <4>1. req'[q] = x
        BY <2>5, <3>2 DEF FindVerification, TypeOK
      <4>2. x.step \in {"record", "consume"} /\ x.op = "VerifyEmail" /\ x.answer = "none"
        BY <1>2, <2>0, <2>5, <3>2 DEF FindVerification, AfterFind, Control, Request
      <4> HIDE DEF x
      <4> QED BY <4>1, <4>2
    <3> QED BY <3>1, <3>2
  <2>6. CASE FindReset(q)
    <3>1. ASSUME NEW owner \in Emails, reset[owner].hash = req[q].secret,
                 req[q].secret # NoSecret,
                 req' = [req EXCEPT ![q] = [@ EXCEPT !.step = "update", !.email = owner,
                                                     !.now = clock]]
          PROVE  Held(req'[q]) /\ Spent(req'[q])
      <4> DEFINE x == [req[q] EXCEPT !.step = "update", !.email = owner, !.now = clock]
      <4>1. req'[q] = x
        BY <3>1 DEF TypeOK
      <4>2. x.step = "update" /\ x.email = owner /\ x.secret = req[q].secret
            /\ x.answer = "none"
        BY <1>2, <2>0, <2>6 DEF FindReset, Control, Request
      <4> HIDE DEF x
      <4>3. reset' = reset /\ issued' = issued
        BY <2>6 DEF FindReset, table
      <4> QED BY <1>1, <1>2, <3>1, <4>1, <4>2, <4>3 DEF LinkInv, LinksIssued
    <3> QED BY <1>5, <2>6, <3>1 DEF FindReset, Answers
  <2>7. CASE UpdatePassword(q)
    <3>1. CASE Goto(q, "burn")
      <4> DEFINE x == [req[q] EXCEPT !.step = "burn"]
      <4>1. req'[q] = x
        BY <3>1 DEF Goto, TypeOK
      <4>2. x.step = "burn" /\ x.email = req[q].email /\ x.secret = req[q].secret
            /\ x.answer = "none"
        BY <1>2, <2>0, <2>7 DEF UpdatePassword, Control, Request
      <4> HIDE DEF x
      <4> QED BY <1>3, <2>7, <4>1, <4>2 DEF UpdatePassword
    <3> QED BY <1>5, <2>7, <3>1 DEF UpdatePassword, Written, Answers
  <2>8. CASE ConsumeReset(q)
    <3>1. CASE Goto(q, "markReset")
      <4> DEFINE x == [req[q] EXCEPT !.step = "markReset"]
      <4>1. req'[q] = x
        BY <3>1 DEF Goto, TypeOK
      <4>2. x.step = "markReset" /\ x.secret = req[q].secret
        BY <1>2 DEF Request
      <4> HIDE DEF x
      <4>3. reset'[req[q].email].consumed
        BY <1>2, <2>8 DEF ConsumeReset, Burnt, TypeOK, Request, SecretRow
      <4> QED BY <1>3, <2>8, <4>1, <4>2, <4>3 DEF ConsumeReset
    <3> QED BY <1>5, <2>8, <3>1 DEF ConsumeReset, Written, Answers
  <2>9. CASE StatementFails(q)
    <3>1. FailureAnswer(q) \in Answers
      BY DEF FailureAnswer, IssueEnds, RegisterAnswer, Answers
    <3>2. FailureAnswer(q) = "accepted" =>
            req[q].step = "markReset" \/ req[q].op # "ResetPassword"
      BY <2>0 DEF FailureAnswer, Control
    <3> QED BY <1>5, <2>9, <3>1, <3>2 DEF StatementFails
  <2> QED
    BY <1>7, <2>1, <2>2, <2>3, <2>4, <2>5, <2>6, <2>7, <2>8, <2>9 DEF Serves
<1>8. CASE \E r \in Requests : r # q /\ Serves(r)
  BY <1>4, <1>8, OthersUntouched
<1>9. CASE Crash
  <2>1. CASE req'[q] = Finished(req[q], "error")
    BY <2>1, <1>2, FinishedGate DEF Answers
  <2> QED BY <1>4, <1>9, <2>1 DEF Crash
<1> QED
  BY <1>4, <1>7, <1>8, <1>9 DEF Next, Tick, vars

\* A reset that was answered with success has spent its link.
THEOREM ResetBurned == Spec => []AnsweredResetIsBurned
<1>1. Init => GateInv /\ LinkInv
  <2> SUFFICES ASSUME Init PROVE GateInv /\ LinkInv
    OBVIOUS
  <2>1. GateInv
    BY DEF Init, GateInv, Control, NoRequest
  <2>2. LinkInv
    BY DEF Init, LinkInv, LinksIssued, LinkHeld, LinkSpent, NoRequest, NoRow, NoSecret
  <2> QED BY <2>1, <2>2
<1>2. TypeOK /\ (GateInv /\ LinkInv) /\ [Next]_vars => (GateInv /\ LinkInv)'
  BY GateStep, LinkStep
<1>3. LinkInv => AnsweredResetIsBurned
  BY DEF LinkInv, LinkSpent, AnsweredResetIsBurned
<1> QED
  BY <1>1, <1>2, <1>3, TypeCorrect, PTL DEF Spec

----------------------------------------------------------------------------
\* Only what was live on arrival takes effect

\* Every secret in a mailbox or in a request is one that was issued.
SecretsKnown ==
  /\ \A e \in Emails : \A s \in mailbox[e] : s <= issued
  /\ \A r \in Requests : req[r].secret <= issued

\* A secret still to be looked up was live on arrival if it is live now, and
\* one that passed the check was live; likewise for the account, unverified.
LiveHeld(q) ==
  /\ q.step \in {"lookup", "find"} /\ LiveCode(q.email, q.secret) => q.live
  /\ q.step = "findReset" /\ LiveLink(q.secret) => q.live
  /\ q.step \in {"consume", "mark", "update"} => q.live
  /\ q.step = "lookup" /\ q.wasVerified => Verified(q.email)
  /\ q.step \in {"find", "record", "consume", "mark"} => ~q.wasVerified
  /\ q.op = "VerifyEmail" /\ q.answer = "session" => q.live /\ ~q.wasVerified

LiveInv == SecretsKnown /\ \A r \in Requests : LiveHeld(req[r])

LEMMA SecretsKnownStep ==
  ASSUME TypeOK, SecretsKnown, [Next]_vars
  PROVE  SecretsKnown'
<1>1. issued \in Nat /\ issued' \in Nat /\ issued <= issued'
  BY SecretsOnlyAge, AuthAssumption DEF TypeOK, Secrets
<1>2. /\ \A r \in Requests : req[r] \in Request /\ req[r].secret \in Nat /\ req[r].secret <= issued'
      /\ \A e \in Emails : \A s \in mailbox[e] : s \in Nat /\ s <= issued'
  BY <1>1, AuthAssumption DEF SecretsKnown, TypeOK, Request, Secrets
<1>3. ASSUME NEW e \in Emails, NEW s \in mailbox'[e] PROVE s <= issued'
  <2>1. ASSUME NEW r \in Requests, Deliver(r), s \notin mailbox[e] PROVE s = req[r].secret
    BY <1>3, <2>1 DEF Deliver, TypeOK, Request
  <2>2. ASSUME NEW r \in Requests, Serves(r) PROVE mailbox' = mailbox \/ Deliver(r)
    BY <2>2 DEF Serves, AnsweredUnread, RegisterLookup, Create, LoginLookup, LoginTouch,
         ResendLookup, PutVerification, SendVerification, ArriveWithCode, VerifyLookup,
         FindVerification, RecordVerificationAttempt, ConsumeVerification, MarkAfterVerify,
         ForgotLookup, PutReset, SendReset, ArriveWithLink, FindReset, UpdatePassword,
         ConsumeReset, MarkAfterReset, StatementFails
  <2> QED BY <1>2, <1>3, <2>1, <2>2 DEF Next, Tick, Crash, vars
<1>4. ASSUME NEW q \in Requests PROVE req'[q].secret <= issued'
  <2>1. CASE req'[q].secret \in {req[q].secret, NoSecret}
    BY <1>1, <1>2, <2>1 DEF NoSecret
  <2>2. ASSUME NEW a \in Answers PROVE Finished(req[q], a).secret \in {req[q].secret, NoSecret}
    BY <1>2 DEF Finished, NoRequest, Request
  <2>3. ASSUME NEW a \in Answers, Answer(q, a) PROVE req'[q].secret \in {req[q].secret, NoSecret}
    BY <2>2, <2>3 DEF Answer, TypeOK
  <2>4. ASSUME NEW e \in Emails, NEW a \in Answers, AnswerAtOnce(q, e, a)
        PROVE  req'[q].secret = NoSecret
    BY <2>4 DEF AnswerAtOnce, NoRequest, TypeOK
  <2>5. ASSUME NEW step \in Steps, Goto(q, step) PROVE req'[q].secret = req[q].secret
    BY <2>5 DEF Goto, TypeOK, Request
  <2>6. CASE Serves(q)
    <3>1. CASE AnsweredUnread(q) \/ RegisterLookup(q) \/ ResendLookup(q) \/ ForgotLookup(q)
                \/ LoginLookup(q)
      BY <2>1, <2>4, <3>1 DEF AnsweredUnread, RegisterLookup, ResendLookup, ForgotLookup,
           LoginLookup, Arrive, TypeOK, Answers
    <3>2. CASE ArriveWithCode(q) \/ ArriveWithLink(q)
      <4>1. \A e \in Emails : \A s \in mailbox[e] \cup {NoSecret} : s <= issued'
        BY <1>1, <1>2 DEF NoSecret
      <4> QED BY <3>2, <4>1 DEF ArriveWithCode, ArriveWithLink, Arrive, TypeOK
    <3>3. CASE Create(q) \/ ConsumeVerification(q) \/ VerifyLookup(q) \/ UpdatePassword(q)
                \/ ConsumeReset(q)
      BY <2>1, <2>3, <2>5, <3>3 DEF Create, ConsumeVerification, VerifyLookup, UpdatePassword,
           ConsumeReset, Written, Steps, Answers
    <3>4. CASE LoginTouch(q) \/ RecordVerificationAttempt(q) \/ MarkAfterVerify(q)
                \/ SendReset(q) \/ MarkAfterReset(q)
      BY <2>1, <2>3, <3>4 DEF LoginTouch, RecordVerificationAttempt, MarkAfterVerify, SendReset,
           MarkAfterReset, Answers
    <3>5. CASE PutVerification(q) \/ SendVerification(q) \/ PutReset(q)
      <4>1. \A f \in BOOLEAN : IssueEnds(q, f) \in Answers
        BY DEF IssueEnds, RegisterAnswer, Answers
      <4>2. ASSUME NEW step \in Steps, issued' = issued + 1,
                   req' = [req EXCEPT ![q] = [@ EXCEPT !.step = step, !.secret = issued + 1]]
            PROVE  req'[q].secret <= issued'
        BY <1>1, <1>2, <4>2 DEF TypeOK, Request
      <4> QED BY <2>1, <2>3, <3>5, <4>1, <4>2
            DEF PutVerification, SendVerification, PutReset, Answers, Steps
    <3>6. CASE FindVerification(q)
      <4>1. CASE AfterFind(q) # "reject"
        BY <1>2, <3>6, <4>1 DEF FindVerification, TypeOK, Request
      <4> QED BY <2>1, <2>3, <3>6, <4>1 DEF FindVerification, Answers
    <3>7. CASE FindReset(q)
      <4>1. ASSUME NEW owner \in Emails,
                   req' = [req EXCEPT ![q] = [@ EXCEPT !.step = "update", !.email = owner,
                                                       !.now = clock]]
            PROVE  req'[q].secret = req[q].secret
        BY <4>1 DEF TypeOK, Request
      <4> QED BY <2>1, <2>3, <3>7, <4>1 DEF FindReset, Answers
    <3>8. CASE StatementFails(q)
      <4>1. FailureAnswer(q) \in Answers
        BY DEF FailureAnswer, IssueEnds, RegisterAnswer, Answers
      <4> QED BY <2>1, <2>3, <3>8, <4>1 DEF StatementFails
    <3> QED
      BY <2>6, <3>1, <3>2, <3>3, <3>4, <3>5, <3>6, <3>7, <3>8 DEF Serves
  <2>7. CASE \E r \in Requests : r # q /\ Serves(r)
    BY <2>1, <2>7, OthersUntouched
  <2>8. CASE Crash
    <3>1. req'[q] = req[q] \/ req'[q] = Finished(req[q], "error")
      BY <2>8 DEF Crash
    <3> QED BY <2>1, <2>2, <3>1 DEF Answers
  <2> QED BY <2>1, <2>6, <2>7, <2>8 DEF Next, Tick, vars
<1> QED BY <1>3, <1>4 DEF SecretsKnown

LEMMA LiveStep ==
  ASSUME TypeOK, GateInv, LiveInv, [Next]_vars
  PROVE  LiveInv'
<1> DEFINE Ok(q) ==
      /\ q.step \in {"lookup", "find"} /\ CodeAfter(q.email, q.secret) => q.live
      /\ q.step = "findReset" /\ LinkAfter(q.secret) => q.live
      /\ q.step \in {"consume", "mark", "update"} => q.live
      /\ q.step = "lookup" /\ q.wasVerified => verifiedAt'[q.email] # Never
      /\ q.step \in {"find", "record", "consume", "mark"} => ~q.wasVerified
      /\ q.op = "VerifyEmail" /\ q.answer = "session" => q.live /\ ~q.wasVerified
<1>0. SecretsKnown'
  BY SecretsKnownStep DEF LiveInv
<1> SUFFICES ASSUME NEW q \in Requests PROVE Ok(req'[q])
  BY <1>0 DEF LiveInv, LiveHeld, LiveCode, LiveLink, CodeAfter, LinkAfter, Verified
<1>1. /\ req[q] \in Request /\ req[q].email \in Emails
      /\ req[q].secret \in Nat /\ req[q].secret <= issued /\ issued \in Nat
      /\ LiveHeld(req[q]) /\ Control(req[q])
  BY AuthAssumption DEF LiveInv, SecretsKnown, GateInv, TypeOK, Request, Secrets
\* What has died on its way stays dead, what was verified stays verified.
<1>2. Ok(req[q])
  <2>1. Verified(req[q].email) => verifiedAt'[req[q].email] # Never
    <3>1. \A e \in Emails : Verified(e) => verifiedAt'[e] # Never
      BY VerifiedStays DEF Verified
    <3> QED BY <1>1, <3>1
  <2>2. /\ CodeAfter(req[q].email, req[q].secret) => LiveCode(req[q].email, req[q].secret)
        /\ LinkAfter(req[q].secret) => LiveLink(req[q].secret)
    <3>1. CASE req[q].secret = NoSecret
      BY <3>1 DEF CodeAfter, LinkAfter
    <3>2. CASE req[q].secret # NoSecret
      <4>1. \A s \in 1 .. issued :
              /\ \A e \in Emails : CodeAfter(e, s) => LiveCode(e, s)
              /\ LinkAfter(s) => LiveLink(s)
        BY DeadStep
      <4>2. req[q].secret \in 1 .. issued
        BY <1>1, <3>2 DEF NoSecret
      <4> QED BY <1>1, <4>1, <4>2
    <3> QED BY <3>1, <3>2
  <2> QED BY <1>1, <2>1, <2>2 DEF LiveHeld
<1>3. CASE req'[q] = req[q]
  BY <1>2, <1>3
<1>4. ASSUME NEW a \in Answers, Answer(q, a),
             a = "session" /\ req[q].op = "VerifyEmail" => req[q].step = "mark"
      PROVE  Ok(req'[q])
  <2>1. req'[q] = Finished(req[q], a)
    BY <1>4 DEF Answer, TypeOK
  <2>2. Finished(req[q], a).op = "VerifyEmail" /\ a = "session" =>
          /\ req[q].op = "VerifyEmail"
          /\ Finished(req[q], a).live = req[q].live
          /\ Finished(req[q], a).wasVerified = req[q].wasVerified
    BY <1>1 DEF Finished, NoRequest, Request
  <2> QED BY <1>1, <1>2, <1>4, <2>1, <2>2, FinishedGate
<1>5. ASSUME NEW e \in Emails, NEW a \in Answers, AnswerAtOnce(q, e, a)
      PROVE  Ok(req'[q])
  BY <1>5 DEF AnswerAtOnce, NoRequest, TypeOK
<1>6. CASE Serves(q)
  <2>1. CASE AnsweredUnread(q) \/ RegisterLookup(q) \/ ResendLookup(q) \/ ForgotLookup(q)
              \/ LoginLookup(q)
    BY <1>5, <2>1 DEF AnsweredUnread, RegisterLookup, ResendLookup, ForgotLookup,
         LoginLookup, Arrive, TypeOK, Answers
  <2>2. CASE ArriveWithCode(q)
    <3>1. PICK e \in Emails, s \in Secrets : Arrive(q, "VerifyEmail", "lookup", e, NoPassword, s)
      BY <2>2, AuthAssumption DEF ArriveWithCode, TypeOK, Secrets, NoSecret
    <3>2. /\ req'[q].op = "VerifyEmail" /\ req'[q].step = "lookup" /\ req'[q].email = e
          /\ req'[q].secret = s /\ req'[q].live = LiveCode(e, s)
          /\ req'[q].wasVerified = Verified(e) /\ req'[q].answer = "none"
      BY <3>1 DEF Arrive, TypeOK, LiveCode, UsableCode, Verified
    <3>3. CodeAfter(e, s) => LiveCode(e, s)
      BY <2>2 DEF ArriveWithCode, table, CodeAfter, LiveCode
    <3>4. Verified(e) => verifiedAt'[e] # Never
      BY <2>2 DEF ArriveWithCode, table, Verified
    <3> QED BY <3>2, <3>3, <3>4
  <2>3. CASE ArriveWithLink(q)
    <3>1. PICK e \in Emails, p \in Passwords, s \in Secrets :
            Arrive(q, "ResetPassword", "findReset", e, p, s)
      BY <2>3, AuthAssumption DEF ArriveWithLink, TypeOK, Secrets, NoSecret
    <3>2. /\ req'[q].op = "ResetPassword" /\ req'[q].step = "findReset"
          /\ req'[q].secret = s /\ req'[q].live = LiveLink(s) /\ req'[q].answer = "none"
      BY <3>1 DEF Arrive, TypeOK, LiveLink
    <3>3. LinkAfter(s) => LiveLink(s)
      BY <2>3 DEF ArriveWithLink, table, LinkAfter, LiveLink
    <3> QED BY <3>2, <3>3
  <2>4. CASE Create(q) \/ UpdatePassword(q) \/ ConsumeReset(q)
    <3>1. ASSUME NEW step \in {"put", "burn", "markReset"}, Goto(q, step) PROVE Ok(req'[q])
      <4>1. req'[q].step = step /\ req'[q].op = req[q].op /\ req'[q].answer = req[q].answer
        BY <1>1, <3>1 DEF Goto, TypeOK, Request
      <4>2. req[q].answer = "none"
        BY <1>1, <2>4 DEF Control, Create, UpdatePassword, ConsumeReset
      <4> QED BY <4>1, <4>2
    <3> QED BY <1>4, <2>4, <3>1 DEF Create, UpdatePassword, ConsumeReset, Written, Answers
  <2>5. CASE ConsumeVerification(q)
    <3>1. CASE Goto(q, "mark")
      <4>1. /\ req'[q].step = "mark" /\ req'[q].live = req[q].live
            /\ req'[q].wasVerified = req[q].wasVerified /\ req'[q].answer = req[q].answer
        BY <1>1, <3>1 DEF Goto, TypeOK, Request
      <4> QED BY <1>1, <1>2, <2>5, <4>1 DEF ConsumeVerification, Control
    <3> QED BY <1>4, <2>5, <3>1 DEF ConsumeVerification, Written, Answers
  <2>6. CASE VerifyLookup(q)
    <3>1. CASE MayVerify(req[q].email) /\ Goto(q, "find")
      <4>1. /\ req'[q].step = "find" /\ req'[q].live = req[q].live
            /\ req'[q].wasVerified = req[q].wasVerified /\ req'[q].answer = req[q].answer
            /\ req'[q].email = req[q].email /\ req'[q].secret = req[q].secret
        BY <1>1, <3>1 DEF Goto, TypeOK, Request
      <4>2. ~req[q].wasVerified
        BY <1>1, <2>6, <3>1 DEF VerifyLookup, LiveHeld, MayVerify
      <4> QED BY <1>1, <1>2, <2>6, <4>1, <4>2 DEF VerifyLookup, Control
    <3> QED BY <1>4, <2>6, <3>1 DEF VerifyLookup, Answers
  <2>7. CASE FindVerification(q)
    <3>1. CASE AfterFind(q) # "reject"
      <4> DEFINE x == [req[q] EXCEPT !.step = AfterFind(q), !.now = clock]
      <4>1. req'[q] = x
        BY <2>7, <3>1 DEF FindVerification, TypeOK
      <4>2. /\ x.step = AfterFind(q) /\ x.live = req[q].live
            /\ x.wasVerified = req[q].wasVerified /\ x.answer = "none"
        BY <1>1, <2>7 DEF FindVerification, Control, Request
      <4> HIDE DEF x
      <4>3. AfterFind(q) = "consume" => LiveCode(req[q].email, req[q].secret)
        BY DEF AfterFind, LiveCode, UsableCode
      <4>4. AfterFind(q) \in {"record", "consume"}
        BY <3>1 DEF AfterFind
      <4> QED BY <1>1, <2>7, <4>1, <4>2, <4>3, <4>4 DEF FindVerification, LiveHeld
    <3> QED BY <1>4, <2>7, <3>1 DEF FindVerification, Answers
  <2>8. CASE RecordVerificationAttempt(q) \/ SendReset(q) \/ MarkAfterReset(q)
    BY <1>4, <2>8 DEF RecordVerificationAttempt, SendReset, MarkAfterReset, Answers
  <2>9. CASE LoginTouch(q) \/ MarkAfterVerify(q)
    BY <1>1, <1>4, <2>9 DEF LoginTouch, MarkAfterVerify, Control, Answers
  <2>10. CASE PutVerification(q) \/ SendVerification(q) \/ PutReset(q)
    <3>1. req[q].op # "VerifyEmail" /\ req[q].answer = "none"
      BY <1>1, <2>10 DEF PutVerification, SendVerification, PutReset, Control
    <3>2. \A f \in BOOLEAN : IssueEnds(q, f) \in Answers
      BY DEF IssueEnds, RegisterAnswer, Answers
    <3>3. ASSUME NEW step \in {"send", "sendReset"},
                 req' = [req EXCEPT ![q] = [@ EXCEPT !.step = step, !.secret = issued + 1]]
          PROVE  Ok(req'[q])
      <4>1. req'[q].step = step /\ req'[q].answer = req[q].answer
        BY <1>1, <3>3 DEF TypeOK, Request
      <4> QED BY <3>1, <4>1
    <3> QED BY <1>4, <2>10, <3>1, <3>2, <3>3
          DEF PutVerification, SendVerification, PutReset, Answers
  <2>11. CASE FindReset(q)
    <3>1. ASSUME NEW owner \in Emails, req[q].secret # NoSecret,
                 reset[owner].hash = req[q].secret, UsableReset(reset[owner], clock),
                 req' = [req EXCEPT ![q] = [@ EXCEPT !.step = "update", !.email = owner,
                                                     !.now = clock]]
          PROVE  Ok(req'[q])
      <4>1. req'[q].step = "update" /\ req'[q].answer = req[q].answer
            /\ req'[q].live = req[q].live
        BY <1>1, <3>1 DEF TypeOK, Request
      <4>2. req[q].live
        BY <1>1, <2>11, <3>1 DEF FindReset, LiveHeld, LiveLink
      <4> QED BY <1>1, <2>11, <4>1, <4>2 DEF FindReset, Control
    <3> QED BY <1>4, <2>11, <3>1 DEF FindReset, Answers
  <2>12. CASE StatementFails(q)
    <3>1. FailureAnswer(q) \in Answers
      BY DEF FailureAnswer, IssueEnds, RegisterAnswer, Answers
    <3>2. FailureAnswer(q) = "session" => req[q].op = "Register"
      BY DEF FailureAnswer, IssueEnds
    <3> QED BY <1>4, <2>12, <3>1, <3>2 DEF StatementFails
  <2> QED
    BY <1>6, <2>1, <2>2, <2>3, <2>4, <2>5, <2>6, <2>7, <2>8, <2>9, <2>10, <2>11, <2>12
       DEF Serves
<1>7. CASE \E r \in Requests : r # q /\ Serves(r)
  BY <1>3, <1>7, OthersUntouched
<1>8. CASE Crash
  <2>1. CASE req'[q] = Finished(req[q], "error")
    BY <2>1, <1>1, FinishedGate DEF Answers
  <2> QED BY <1>3, <1>8, <2>1 DEF Crash
<1> QED
  BY <1>3, <1>6, <1>7, <1>8 DEF Next, Tick, vars

LEMMA LiveAlways == Spec => [](TypeOK /\ LiveInv)
<1>1. Init => GateInv /\ LiveInv
  <2> SUFFICES ASSUME Init PROVE GateInv /\ LiveInv
    OBVIOUS
  <2>1. GateInv
    BY DEF Init, GateInv, Control, NoRequest
  <2>2. LiveInv
    BY DEF Init, LiveInv, SecretsKnown, LiveHeld, NoRequest, NoSecret
  <2> QED BY <2>1, <2>2
<1>2. TypeOK /\ (GateInv /\ LiveInv) /\ [Next]_vars => (GateInv /\ LiveInv)'
  BY GateStep, LiveStep
<1> QED
  BY <1>1, <1>2, TypeCorrect, PTL DEF Spec

\* A code opens a session only for a request that arrived while it was live
\* and the account unverified.
THEOREM LiveCodesOnly == Spec => []OnlyLiveCodesRedeemed
<1>1. LiveInv => OnlyLiveCodesRedeemed
  BY DEF LiveInv, LiveHeld, OnlyLiveCodesRedeemed
<1> QED
  BY <1>1, LiveAlways, PTL

\* A password of an existing account changes only by a link that was live when
\* its request arrived.
THEOREM LiveLinksOnly == Spec => OnlyLiveLinksChangePasswords
<1>1. ASSUME TypeOK, LiveInv, [Next]_vars, NEW e \in registered, password'[e] # password[e]
      PROVE  \E r \in Requests : req[r].step = "update" /\ req[r].email = e /\ req[r].live
  <2>1. ASSUME NEW r \in Requests, Serves(r)
        PROVE  password' = password \/ Create(r) \/ UpdatePassword(r)
    BY <2>1 DEF table, Serves, AnsweredUnread, RegisterLookup, LoginLookup, LoginTouch,
         ResendLookup, PutVerification, SendVerification, ArriveWithCode, VerifyLookup,
         FindVerification, RecordVerificationAttempt, ConsumeVerification, MarkAfterVerify,
         ForgotLookup, PutReset, SendReset, ArriveWithLink, FindReset, ConsumeReset,
         MarkAfterReset, StatementFails
  <2>2. ASSUME NEW r \in Requests, Create(r) PROVE FALSE
    BY <1>1, <2>2 DEF Create, InsertUser, TypeOK
  <2>3. ASSUME NEW r \in Requests, UpdatePassword(r)
        PROVE  req[r].step = "update" /\ req[r].email = e /\ req[r].live
    BY <1>1, <2>3 DEF UpdatePassword, LiveInv, LiveHeld, TypeOK
  <2> QED BY <1>1, <2>1, <2>2, <2>3 DEF Next, Tick, Crash, vars, table
<1>2. TypeOK /\ LiveInv /\ [Next]_vars =>
        \A e \in registered :
          password'[e] # password[e] =>
            \E r \in Requests : /\ req[r].step = "update" /\ req[r].email = e
                                /\ req[r].live
  BY <1>1
<1> QED
  BY <1>2, LiveAlways, PTL DEF Spec, OnlyLiveLinksChangePasswords
=============================================================================
