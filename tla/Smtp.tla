-------------------------------- MODULE Smtp --------------------------------
(***************************************************************************)
(* Sending the mails of the api: SMTPMailer.Send of platform/mail/smtp.go, *)
(* command by command, against a server that may refuse any command, fall  *)
(* silent at any point, or vanish, and against the clock.                  *)
(*                                                                         *)
(* net/smtp and crypto/tls are external code, modelled from their use: a   *)
(* call sends one command and waits for its reply until the deadline of    *)
(* the connection; plain authentication refuses to speak over a connection *)
(* in clear, unless the server is on localhost.                            *)
(***************************************************************************)
EXTENDS Integers, Sequences

CONSTANTS
  Timeout,   \* MAIL_TIMEOUT, in ticks
  MaxSends   \* bound on the messages sent

ASSUME SmtpAssumption == Timeout \in Nat \ {0} /\ MaxSends \in Nat

VARIABLES
  cfg,       \* the SMTPConfig of the process
  at,        \* where Send is
  step,      \* the command whose reply it waits for
  secure,    \* the connection is encrypted
  elapsed,   \* ticks since Send was called
  deadline,  \* of the dial, then of the connection
  sends,     \* messages sent so far
  accepted,  \* messages the server has taken
  reported,  \* messages reported as sent
  exposed    \* what has travelled in clear: "password", "message"

mailVars ==
  <<cfg, at, step, secure, elapsed, deadline, sends, accepted, reported, exposed>>

----------------------------------------------------------------------------
\* The conversation

\* SMTP_TLS is not validated: a value that is none of the three is compared
\* with two of them and treated like the third.
Modes == {"starttls", "tls", "none", "other"}

\* What Send says on the connection it has dialled, in order.
Commands ==
  <<"greeting">>
  \o (IF cfg.tls = "starttls" THEN <<"STARTTLS">> ELSE <<>>)
  \o (IF cfg.login THEN <<"AUTH">> ELSE <<>>)
  \o <<"MAIL", "RCPT", "DATA", "body", "QUIT">>

Command == Commands[step]

\* What a command gives away when it is sent in clear: the password, or the
\* message and the address it is for.
Gives(c) == CASE c = "AUTH" -> {"password"}
              [] c \in {"RCPT", "body"} -> {"message"}
              [] OTHER -> {}

\* PlainAuth sends nothing over a connection in clear to another host.
Speaks(c) == c # "AUTH" \/ secure \/ cfg.localhost

----------------------------------------------------------------------------
\* Send

\* A message with an empty or broken header is refused before any of this.
Send ==
  /\ at = "idle" /\ sends < MaxSends
  /\ sends' = sends + 1
  /\ at' = "dialling" /\ elapsed' = 0 /\ deadline' = Timeout
  /\ UNCHANGED <<cfg, step, secure, accepted, reported, exposed>>

\* However Send ends, the connection is closed behind it.
SendEnds(outcome) ==
  /\ at' = "idle" /\ step' = 0 /\ secure' = FALSE
  /\ reported' = IF outcome = "sent" THEN reported + 1 ELSE reported
  /\ UNCHANGED <<cfg, elapsed, deadline, sends>>

DialFails == at = "dialling" /\ SendEnds("error") /\ UNCHANGED <<accepted, exposed>>

\* SetDeadline, when the dial is over.
FreshDeadline == elapsed + Timeout

\* The dial, and for implicit TLS the handshake within it.
Dialled ==
  /\ at = "dialling"
  /\ at' = "talking" /\ step' = 1
  /\ secure' = (cfg.tls = "tls")
  /\ deadline' = FreshDeadline
  /\ UNCHANGED <<cfg, elapsed, sends, accepted, reported, exposed>>

\* Mutant: an error of STARTTLS is logged, and the conversation goes on.
RepliesOrNoTLS ==
  /\ at = "talking" /\ Command # "QUIT" /\ Speaks(Command)
  /\ step' = step + 1
  /\ secure' \in IF Command = "STARTTLS" THEN BOOLEAN ELSE {secure}
  /\ accepted' = IF Command = "body" THEN accepted + 1 ELSE accepted
  /\ exposed' = exposed \cup IF secure THEN {} ELSE Gives(Command)
  /\ UNCHANGED <<cfg, at, elapsed, deadline, sends, reported>>

\* The server answers the command as Send hopes.
Replies ==
  /\ at = "talking" /\ Command # "QUIT" /\ Speaks(Command)
  /\ step' = step + 1
  /\ secure' = (secure \/ Command = "STARTTLS")
  /\ accepted' = IF Command = "body" THEN accepted + 1 ELSE accepted
  /\ exposed' = exposed \cup IF secure THEN {} ELSE Gives(Command)
  /\ UNCHANGED <<cfg, at, elapsed, deadline, sends, reported>>

\* The reply to QUIT is the end of Send.
Quits ==
  /\ at = "talking" /\ Command = "QUIT"
  /\ SendEnds("sent")
  /\ UNCHANGED <<accepted, exposed>>

\* Mutant: an error once the message is written is not one.
FailureOnceWritten == IF Command = "body" THEN "sent" ELSE "error"

Failure == "error"

\* Mutant: no deadline is set, and only the server ends the wait.
CommandFailsByServer ==
  /\ at = "talking"
  /\ \/ elapsed < deadline /\ SendEnds(Failure) /\ UNCHANGED <<accepted, exposed>>
     \/ elapsed = deadline /\ UNCHANGED mailVars

\* A refusal, a lost connection, or the deadline: the command was sent, and
\* the server may have taken the message all the same.
CommandFails ==
  /\ at = "talking"
  /\ SendEnds(Failure)
  /\ \/ UNCHANGED accepted
     \/ Command = "body" /\ accepted' = accepted + 1
  /\ exposed' = exposed \cup IF secure \/ ~Speaks(Command) THEN {} ELSE Gives(Command)

\* Time passes while Send waits, up to the deadline of what it waits for.
MailTick ==
  /\ at # "idle" /\ elapsed < deadline
  /\ elapsed' = elapsed + 1
  /\ UNCHANGED <<cfg, at, step, secure, deadline, sends, accepted, reported, exposed>>

\* All the messages of the bound are sent.
AllSent == at = "idle" /\ sends = MaxSends /\ UNCHANGED mailVars

----------------------------------------------------------------------------

MailInit ==
  /\ cfg \in [tls : Modes, login : BOOLEAN, localhost : BOOLEAN]
  /\ at = "idle" /\ step = 0 /\ secure = FALSE
  /\ elapsed = 0 /\ deadline = 0
  /\ sends = 0 /\ accepted = 0 /\ reported = 0 /\ exposed = {}

MailNext ==
  \/ Send \/ DialFails \/ Dialled \/ Replies \/ Quits \/ CommandFails
  \/ MailTick \/ AllSent

MailSpec == MailInit /\ [][MailNext]_mailVars

\* A wait ends at its deadline.
Expires == elapsed >= deadline /\ (DialFails \/ CommandFails)

\* Time passes and deadlines are kept; nothing is assumed of the server.
MailFairSpec == MailSpec /\ WF_mailVars(MailTick) /\ WF_mailVars(Expires)

----------------------------------------------------------------------------
\* Properties

\* Types of the conversation and its counts.
MailTypeOK ==
  /\ cfg \in [tls : Modes, login : BOOLEAN, localhost : BOOLEAN]
  /\ at \in {"idle", "dialling", "talking"}
  /\ step \in 0 .. Len(Commands) /\ (at = "talking" => step > 0)
  /\ secure \in BOOLEAN
  /\ elapsed \in 0 .. deadline /\ deadline \in 0 .. 2 * Timeout
  /\ sends \in 0 .. MaxSends /\ accepted \in 0 .. MaxSends /\ reported \in 0 .. MaxSends
  /\ exposed \subseteq {"password", "message"}

\* What is reported as sent was taken by the server, and no message is taken
\* twice; the server may have taken more than is reported.  (Send)
ReportedWasAccepted == reported <= accepted /\ accepted <= sends

\* Neither the message nor the password travels in clear when TLS is asked for,
\* whatever the server answers to STARTTLS; and the password never does but to
\* a relay on localhost.  (Send)
NothingInClear ==
  /\ cfg.tls \in {"starttls", "tls"} => exposed = {}
  /\ "password" \in exposed => cfg.localhost

\* Of every state: the conversation keeps its types, reports what was taken,
\* and exposes nothing.
MailInv == MailTypeOK /\ ReportedWasAccepted /\ NothingInClear

\* However the server behaves, every Send returns.
EverySendReturns == at # "idle" ~> at = "idle"

\* What a comment says and the second of two timeouts does not keep: Timeout
\* bounds the whole exchange.
WholeExchangeBounded == elapsed <= Timeout
=============================================================================
