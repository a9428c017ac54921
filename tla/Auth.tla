------------------------------- MODULE Auth --------------------------------
(***************************************************************************)
(* Accounts and the two emailed secrets of internal/modules/auth: the      *)
(* verification code and the password reset link.                          *)
(*                                                                         *)
(* A request is one HTTP call being served by its own goroutine.  Every    *)
(* repository call is one autocommitted SQL statement, so one action; the  *)
(* requests interleave between statements.  A statement may be refused     *)
(* (StatementFails), or take effect and still be reported as an error: a   *)
(* dropped connection, a cancelled context, or the SELECT that follows an  *)
(* UPDATE failing.  The whole process may die between any two statements.  *)
(*                                                                         *)
(* Abstracted: an account is its email (users.email is unique and no code  *)
(* deletes a row), a stored hash is the secret it hashes, secrets are      *)
(* numbered in the order they are stored (no two are equal), and the       *)
(* activity columns of a users row are the subject of module Activity.     *)
(***************************************************************************)
EXTENDS Integers, FiniteSets

CONSTANTS
  Requests,              \* the requests that may be in flight at once
  Emails,                \* valid addresses, one possible account each
  Passwords,             \* passwords of an acceptable length
  NoPassword,            \* no account yet; the request carries none
  RequireVerifiedEmail,  \* Policy.RequireVerifiedEmail, the gate
  MaxAttempts,           \* Policy.MaxVerificationAttempts
  CodeTTL, ResetTTL,     \* Policy.VerificationCodeTTL and ResetTokenTTL
  MaxSecrets,            \* bound: secrets ever stored
  MaxClock               \* bound: the last second of the run

ASSUME AuthAssumption ==
  /\ IsFiniteSet(Requests)
  /\ NoPassword \notin Passwords
  /\ RequireVerifiedEmail \in BOOLEAN
  /\ MaxAttempts \in Nat \ {0}
  /\ CodeTTL \in Nat \ {0} /\ ResetTTL \in Nat \ {0}
  /\ MaxSecrets \in Nat /\ MaxClock \in Nat

VARIABLES
  clock,       \* the wall clock, in the seconds a TIMESTAMP column keeps
  registered,  \* the emails that have a users row
  password,    \* users.password_hash
  verifiedAt,  \* users.email_verified_at
  code,        \* email_verification_codes, one row per account
  reset,       \* password_reset_tokens, one row per account
  issued,      \* how many secrets were ever stored
  mailbox,     \* the secrets delivered to each address, in no order
  req          \* the requests being served

table == <<registered, password, verifiedAt, code, reset>>
vars == <<clock, table, issued, mailbox, req>>

----------------------------------------------------------------------------
\* State

Never == -1       \* email_verified_at IS NULL
NoSecret == 0     \* no row yet; presented by a client: a wrong guess
Secrets == 0 .. MaxSecrets

\* A row of either table of secrets; a reset link has no attempts to count.
SecretRow == [hash: Secrets, attempts: Nat, expires: Nat, consumed: BOOLEAN]
NoRow == [hash |-> NoSecret, attempts |-> 0, expires |-> 0, consumed |-> TRUE]

Ops == {"none", "Register", "Login", "VerifyEmail", "ResendVerification",
        "ForgotPassword", "ResetPassword"}

\* The repository call a request is about to make, or "done".
Steps == {"create", "touch", "put", "send", "lookup", "find", "record",
          "consume", "mark", "putReset", "sendReset", "findReset", "update",
          "burn", "markReset", "done"}

\* By HTTP class: session is a token, accepted a success without one, refused
\* a 400, 401, 403 or 409, notFound the 404, error a 500 or a lost connection.
Answers == {"none", "session", "accepted", "refused", "notFound", "error"}

\* now is the clock the request read; live and wasVerified record, for the
\* properties only, whether the presented secret and the account were live
\* and verified when the request arrived.
Request == [op: Ops, step: Steps, email: Emails,
            password: Passwords \cup {NoPassword}, secret: Secrets,
            now: Nat, live: BOOLEAN, wasVerified: BOOLEAN, answer: Answers]

Verified(e) == verifiedAt[e] # Never

\* Mutant: one guess more than the policy.
UsableCodeOnceMore(row, now) ==
  ~row.consumed /\ now < row.expires /\ row.attempts <= MaxAttempts

\* EmailVerification.Usable and PasswordReset.Usable.
UsableCode(row, now) ==
  ~row.consumed /\ now < row.expires /\ row.attempts < MaxAttempts
UsableReset(row, now) ==
  ~row.consumed /\ now < row.expires

LiveCode(e, s) == s # NoSecret /\ code[e].hash = s /\ UsableCode(code[e], clock)
LiveLink(s) ==
  s # NoSecret /\ \E e \in Emails : reset[e].hash = s /\ UsableReset(reset[e], clock)

----------------------------------------------------------------------------
\* What every handler is made of

Goto(r, step) == req' = [req EXCEPT ![r].step = step]

NoRequest(e) ==
  [op |-> "none", step |-> "done", email |-> e, password |-> NoPassword,
   secret |-> NoSecret, now |-> 0, live |-> FALSE, wasVerified |-> FALSE,
   answer |-> "none"]

\* What is remembered of a finished request: its answer, the account it was
\* about and, of a redemption that succeeded, what was redeemed.
Finished(q, a) ==
  IF q.op \in {"VerifyEmail", "ResetPassword"} /\ a \in {"session", "accepted"}
  THEN [q EXCEPT !.step = "done", !.answer = a, !.password = NoPassword, !.now = 0]
  ELSE [NoRequest(q.email) EXCEPT !.answer = a]

Answer(r, a) == req' = [req EXCEPT ![r] = Finished(@, a)]

\* The outcomes of a statement that took effect: reported, the request goes
\* on to step; not reported, it answers an error.
Written(r, step) == Goto(r, step) \/ Answer(r, "error")

\* Register hands out a session only when the gate is open.
RegisterAnswer == IF RequireVerifiedEmail THEN "accepted" ELSE "session"

----------------------------------------------------------------------------
\* A request arrives in a free slot and makes its first repository call.

Arrive(r, op, step, e, p, s) ==
  /\ req[r].step = "done"
  /\ req' = [req EXCEPT ![r] =
       [op |-> op, step |-> step, email |-> e, password |-> p, secret |-> s,
        now |-> 0,
        live |-> \/ op = "ResetPassword" /\ LiveLink(s)
                 \/ op = "VerifyEmail" /\ LiveCode(e, s),
        wasVerified |-> op = "VerifyEmail" /\ Verified(e),
        answer |-> "none"]]

AnswerAtOnce(r, e, a) ==
  /\ req[r].step = "done"
  /\ req' = [req EXCEPT ![r] = [NoRequest(e) EXCEPT !.answer = a]]

\* A malformed email or a password of the wrong length is refused before any
\* repository call, except where the endpoint stays silent; and the first
\* call itself may fail.
AnsweredUnread(r) ==
  /\ \E e \in Emails, a \in {"refused", "accepted", "error"} : AnswerAtOnce(r, e, a)
  /\ UNCHANGED <<clock, table, issued, mailbox>>

----------------------------------------------------------------------------
\* Register and Login

RegisterLookup(r) ==
  /\ \E e \in Emails, p \in Passwords :
       IF e \in registered THEN AnswerAtOnce(r, e, "refused")
                          ELSE Arrive(r, "Register", "create", e, p, NoSecret)
  /\ UNCHANGED <<clock, table, issued, mailbox>>

\* Mutant: without the unique index a second INSERT takes the account over.
InsertUserUpserting(e, p) ==
  /\ registered' = registered \cup {e}
  /\ password' = [password EXCEPT ![e] = p]

\* The INSERT; the unique index on users.email decides a race of two of them.
InsertUser(e, p) ==
  /\ e \notin registered
  /\ registered' = registered \cup {e}
  /\ password' = [password EXCEPT ![e] = p]

Create(r) ==
  /\ req[r].step = "create"
  /\ \/ InsertUser(req[r].email, req[r].password) /\ Written(r, "put")
     \/ /\ req[r].email \in registered
        /\ Answer(r, "refused")
        /\ UNCHANGED <<registered, password>>
  /\ UNCHANGED <<clock, verifiedAt, code, reset, issued, mailbox>>

\* Mutant: login forgets the gate.
MayLoginUngated(e, p) == e \in registered /\ password[e] = p

\* Credentials and gate, both judged on the row the lookup read.
MayLogin(e, p) ==
  /\ e \in registered
  /\ password[e] = p
  /\ RequireVerifiedEmail => Verified(e)

LoginLookup(r) ==
  /\ \E e \in Emails, p \in Passwords :
       IF MayLogin(e, p) THEN Arrive(r, "Login", "touch", e, NoPassword, NoSecret)
                         ELSE AnswerAtOnce(r, e, "refused")
  /\ UNCHANGED <<clock, table, issued, mailbox>>

\* TouchActivity, whose failure fails the login, then openSession.
LoginTouch(r) ==
  /\ req[r].step = "touch"
  /\ Answer(r, "session")
  /\ UNCHANGED <<clock, table, issued, mailbox>>

----------------------------------------------------------------------------
\* The verification code

ResendLookup(r) ==
  /\ \E e \in Emails :
       IF e \in registered /\ ~Verified(e)
       THEN Arrive(r, "ResendVerification", "put", e, NoPassword, NoSecret)
       ELSE AnswerAtOnce(r, e, "accepted")
  /\ UNCHANGED <<clock, table, issued, mailbox>>

\* The answer when issueVerificationCode ends, with an error or without:
\* Register ignores the error, ResendVerification returns it.
IssueEnds(r, failed) ==
  IF req[r].op = "Register" THEN RegisterAnswer
  ELSE IF failed THEN "error" ELSE "accepted"

\* Mutant: the update renews a row and leaves its hash.
FreshRowSameHash(row, ttl) ==
  [row EXCEPT !.hash = IF @ = NoSecret THEN issued + 1 ELSE @, !.attempts = 0,
              !.expires = clock + ttl, !.consumed = FALSE]

\* ON DUPLICATE KEY UPDATE of both tables: a new hash, no attempts, not consumed.
FreshRow(row, ttl) == [row EXCEPT !.hash = issued + 1, !.attempts = 0,
                                  !.expires = clock + ttl, !.consumed = FALSE]

PutVerification(r) ==
  /\ req[r].step = "put"
  /\ issued < MaxSecrets
  /\ code' = [code EXCEPT ![req[r].email] = FreshRow(@, CodeTTL)]
  /\ issued' = issued + 1
  /\ \/ req' = [req EXCEPT ![r] = [@ EXCEPT !.step = "send", !.secret = issued + 1]]
     \/ Answer(r, IssueEnds(r, TRUE))
  /\ UNCHANGED <<clock, registered, password, verifiedAt, reset, mailbox>>

\* The SMTP exchange: whether the mail arrives and whether an error is
\* reported are independent, and the error is only logged.
Deliver(r) ==
  \/ mailbox' = [mailbox EXCEPT ![req[r].email] = @ \cup {req[r].secret}]
  \/ UNCHANGED mailbox

SendVerification(r) ==
  /\ req[r].step = "send"
  /\ Deliver(r)
  /\ Answer(r, IssueEnds(r, FALSE))
  /\ UNCHANGED <<clock, table, issued>>

\* Any delivered secret may be presented for any account, or a wrong guess.
ArriveWithCode(r) ==
  /\ \E e, box \in Emails : \E s \in mailbox[box] \cup {NoSecret} :
       Arrive(r, "VerifyEmail", "lookup", e, NoPassword, s)
  /\ UNCHANGED <<clock, table, issued, mailbox>>

\* Mutant: an already verified account is not turned away.
MayVerifyAgain(e) == e \in registered

MayVerify(e) == e \in registered /\ ~Verified(e)

VerifyLookup(r) ==
  /\ req[r].step = "lookup"
  /\ IF MayVerify(req[r].email) THEN Goto(r, "find") ELSE Answer(r, "refused")
  /\ UNCHANGED <<clock, table, issued, mailbox>>

\* What VerifyEmail does with the row it has read.
AfterFind(r) ==
  LET row == code[req[r].email] IN
  IF row.hash = NoSecret \/ ~UsableCode(row, clock) THEN "reject"
  ELSE IF row.hash # req[r].secret THEN "record" ELSE "consume"

FindVerification(r) ==
  /\ req[r].step = "find"
  /\ IF AfterFind(r) = "reject"
     THEN Answer(r, "refused")
     ELSE req' = [req EXCEPT ![r] = [@ EXCEPT !.step = AfterFind(r), !.now = clock]]
  /\ UNCHANGED <<clock, table, issued, mailbox>>

\* Mutant: the column counts the tries left.
ChargedDown(row) == [row EXCEPT !.attempts = @ - 1]

Charged(row) == [row EXCEPT !.attempts = @ + 1]

\* A miss is charged to whatever row the account has by now; an error of
\* this statement is only logged.
RecordVerificationAttempt(r) ==
  /\ req[r].step = "record"
  /\ code' = [code EXCEPT ![req[r].email] = Charged(@)]
  /\ Answer(r, "refused")
  /\ UNCHANGED <<clock, registered, password, verifiedAt, reset, issued, mailbox>>

\* Also by account: it spends whatever code the account has by now.
ConsumeVerification(r) ==
  /\ req[r].step = "consume"
  /\ code' = [code EXCEPT ![req[r].email].consumed = TRUE]
  /\ Written(r, "mark")
  /\ UNCHANGED <<clock, registered, password, verifiedAt, reset, issued, mailbox>>

\* UPDATE ... SET email_verified_at = now.  The driver reports changed rows,
\* so a row that holds this second already counts as no row: not found.
Mark(r) == verifiedAt' = [verifiedAt EXCEPT ![req[r].email] = req[r].now]
Changed(r) == verifiedAt[req[r].email] # req[r].now

\* The touch that follows is best effort, and the subject of module Activity.
MarkAfterVerify(r) ==
  /\ req[r].step = "mark"
  /\ Mark(r)
  /\ \/ Changed(r) /\ Answer(r, "session")
     \/ Changed(r) /\ Answer(r, "error")
     \/ ~Changed(r) /\ Answer(r, "notFound")
  /\ UNCHANGED <<clock, registered, password, code, reset, issued, mailbox>>

----------------------------------------------------------------------------
\* The password reset link

ForgotLookup(r) ==
  /\ \E e \in Emails :
       IF e \in registered
       THEN Arrive(r, "ForgotPassword", "putReset", e, NoPassword, NoSecret)
       ELSE AnswerAtOnce(r, e, "accepted")
  /\ UNCHANGED <<clock, table, issued, mailbox>>

PutReset(r) ==
  /\ req[r].step = "putReset"
  /\ issued < MaxSecrets
  /\ reset' = [reset EXCEPT ![req[r].email] = FreshRow(@, ResetTTL)]
  /\ issued' = issued + 1
  /\ \/ req' = [req EXCEPT ![r] = [@ EXCEPT !.step = "sendReset", !.secret = issued + 1]]
     \/ Answer(r, "error")
  /\ UNCHANGED <<clock, registered, password, verifiedAt, code, mailbox>>

SendReset(r) ==
  /\ req[r].step = "sendReset"
  /\ Deliver(r)
  /\ Answer(r, "accepted")
  /\ UNCHANGED <<clock, table, issued>>

ArriveWithLink(r) ==
  /\ \E e \in Emails, p \in Passwords : \E s \in mailbox[e] \cup {NoSecret} :
       Arrive(r, "ResetPassword", "findReset", e, p, s)
  /\ UNCHANGED <<clock, table, issued, mailbox>>

\* The lookup is by hash; the account is the one the row names.
FindReset(r) ==
  /\ req[r].step = "findReset"
  /\ \/ \E owner \in Emails :
          /\ req[r].secret # NoSecret /\ reset[owner].hash = req[r].secret
          /\ UsableReset(reset[owner], clock)
          /\ req' = [req EXCEPT ![r] = [@ EXCEPT !.step = "update", !.email = owner,
                                              !.now = clock]]
     \/ ~LiveLink(req[r].secret) /\ Answer(r, "refused")
  /\ UNCHANGED <<clock, table, issued, mailbox>>

\* Mutant: a used link is left as it is.
BurntNever(row) == row

Burnt(row) == [row EXCEPT !.consumed = TRUE]

UpdatePassword(r) ==
  /\ req[r].step = "update"
  /\ password' = [password EXCEPT ![req[r].email] = req[r].password]
  /\ Written(r, "burn")
  /\ UNCHANGED <<clock, registered, verifiedAt, code, reset, issued, mailbox>>

ConsumeReset(r) ==
  /\ req[r].step = "burn"
  /\ reset' = [reset EXCEPT ![req[r].email] = Burnt(@)]
  /\ Written(r, "markReset")
  /\ UNCHANGED <<clock, registered, password, verifiedAt, code, issued, mailbox>>

\* Best effort: the reset succeeds whatever becomes of it.
MarkAfterReset(r) ==
  /\ req[r].step = "markReset"
  /\ Mark(r)
  /\ Answer(r, "accepted")
  /\ UNCHANGED <<clock, registered, password, code, reset, issued, mailbox>>

----------------------------------------------------------------------------
\* Failures and time

\* The answer to a statement that fails without effect: an error, except
\* where the code logs it and goes on.
FailureAnswer(r) ==
  CASE req[r].step = "put" -> IssueEnds(r, TRUE)
    [] req[r].step = "record" -> "refused"
    [] req[r].step = "markReset" -> "accepted"
    [] OTHER -> "error"

StatementFails(r) ==
  /\ req[r].step \notin {"done", "send", "sendReset"}
  /\ Answer(r, FailureAnswer(r))
  /\ UNCHANGED <<clock, table, issued, mailbox>>

\* The process dies: no request in flight is ever answered.
Crash ==
  /\ \E r \in Requests : req[r].step # "done"
  /\ req' = [r \in Requests |-> IF req[r].step = "done" THEN req[r]
                                ELSE Finished(req[r], "error")]
  /\ UNCHANGED <<clock, table, issued, mailbox>>

Tick ==
  /\ clock < MaxClock
  /\ clock' = clock + 1
  /\ UNCHANGED <<table, issued, mailbox, req>>

----------------------------------------------------------------------------

Init ==
  /\ clock = 0
  /\ registered = {}
  /\ password = [e \in Emails |-> NoPassword]
  /\ verifiedAt = [e \in Emails |-> Never]
  /\ code = [e \in Emails |-> NoRow]
  /\ reset = [e \in Emails |-> NoRow]
  /\ issued = 0
  /\ mailbox = [e \in Emails |-> {}]
  /\ req \in {[r \in Requests |-> NoRequest(e)] : e \in Emails}

Serves(r) ==
  \/ AnsweredUnread(r)
  \/ RegisterLookup(r) \/ Create(r) \/ LoginLookup(r) \/ LoginTouch(r)
  \/ ResendLookup(r) \/ PutVerification(r) \/ SendVerification(r)
  \/ ArriveWithCode(r) \/ VerifyLookup(r) \/ FindVerification(r)
  \/ RecordVerificationAttempt(r) \/ ConsumeVerification(r) \/ MarkAfterVerify(r)
  \/ ForgotLookup(r) \/ PutReset(r) \/ SendReset(r)
  \/ ArriveWithLink(r) \/ FindReset(r) \/ UpdatePassword(r)
  \/ ConsumeReset(r) \/ MarkAfterReset(r)
  \/ StatementFails(r)

Next == (\E r \in Requests : Serves(r)) \/ Crash \/ Tick

Spec == Init /\ [][Next]_vars

----------------------------------------------------------------------------
\* Properties

\* Type correctness of the tables and of the requests.
TypeOK ==
  /\ clock \in 0 .. MaxClock
  /\ registered \subseteq Emails
  /\ password \in [Emails -> Passwords \cup {NoPassword}]
  /\ verifiedAt \in [Emails -> Nat \cup {Never}]
  /\ code \in [Emails -> SecretRow]
  /\ reset \in [Emails -> SecretRow]
  /\ issued \in Secrets
  /\ mailbox \in [Emails -> SUBSET Secrets]
  /\ req \in [Requests -> Request]

\* With the gate on, a session is only ever handed to an account whose
\* address is confirmed, whichever of the three endpoints hands it out and
\* however long ago that endpoint read the row.  A session that VerifyEmail
\* opens is for a confirmed address whether the gate is on or not.
SessionsAreVerified ==
  \A r \in Requests :
    (req[r].answer = "session" /\ (RequireVerifiedEmail \/ req[r].op = "VerifyEmail"))
      => Verified(req[r].email)

\* A code is redeemed only by a request that arrived while the code was
\* live and the account unverified: an exhausted, expired, replaced or spent
\* code opens no session later, whatever else is going on.
OnlyLiveCodesRedeemed ==
  \A r \in Requests :
    (req[r].op = "VerifyEmail" /\ req[r].answer = "session")
      => req[r].live /\ ~req[r].wasVerified

\* The password of an existing account changes only at the hands of a reset
\* request that arrived with a link that was then live; a second registration
\* of the address never rewrites it.
OnlyLiveLinksChangePasswords ==
  [][\A e \in registered :
       password'[e] # password[e] =>
         \E r \in Requests : /\ req[r].step = "update" /\ req[r].email = e
                             /\ req[r].live]_vars

\* A secret that has stopped being usable is never usable again: nothing
\* un-spends it, lowers its attempts or prolongs it, for as long as it is stored.
DeadSecretsStayDead ==
  [][\A s \in 1 .. issued :
       /\ \A e \in Emails : LiveCode(e, s)' => LiveCode(e, s)
       /\ LiveLink(s)' => LiveLink(s)]_vars

\* Once a reset has been answered with success, its link is spent, although
\* the statement that spends it names the account and not the link.
AnsweredResetIsBurned ==
  \A r \in Requests :
    (req[r].op = "ResetPassword" /\ req[r].answer = "accepted") =>
      \A e \in Emails : reset[e].hash = req[r].secret => reset[e].consumed

\* The wrong guesses charged to a code exceed the policy by at most the
\* other requests that were already past the check.
AttemptsBounded ==
  \A e \in Emails : code[e].attempts < MaxAttempts + Cardinality(Requests)

\* What the documentation says and concurrent requests do not keep:

\* "Reset links are single use": no two resets succeed with one link.
ResetLinksAreSingleUse ==
  \A r, s \in Requests :
    /\ r # s /\ req[r].op = "ResetPassword" /\ req[s].op = "ResetPassword"
    /\ req[r].answer = "accepted" /\ req[s].answer = "accepted"
    => req[r].secret # req[s].secret

\* ErrUserNotFound "means no user matches the given identity": no request
\* about an existing account is answered with it.
NotFoundMeansNoAccount ==
  \A r \in Requests : req[r].answer = "notFound" => req[r].email \notin registered

\* A code "dies after AUTH_MAX_VERIFICATION_ATTEMPTS wrong guesses": no more
\* than that many are ever taken against one.
AttemptsCapped ==
  \A e \in Emails : code[e].attempts <= MaxAttempts
=============================================================================
