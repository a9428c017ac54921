# japo-backend in TLA+

japo-backend is the HTTP API behind a kana-learning app: accounts, emailed
verification codes and reset links, activity counters, and one progress
document per account, over MariaDB. This directory models the parts of it
whose correctness depends on what happens *between* statements, requests and
days, checks them with TLC on small instances, and proves the main results with
TLAPS for every value of the constants.

All paths below are relative to the repository; line numbers are of the commit
this directory sits beside. `PROJECT.json` maps every definition to its lines.

## 1. The system

### Components

| Part | Code | State | Operations | Here |
|---|---|---|---|---|
| accounts and emailed secrets | `internal/modules/auth` (`service.go`, `verification.go`, `password_reset.go`, the two repositories) | rows of `users`, `email_verification_codes`, `password_reset_tokens`; mails on their way | Register, Login, VerifyEmail, ResendVerification, ForgotPassword, ResetPassword; Me and Logout change nothing | `Auth` |
| activity counters | `auth/service.go` `touchActivity`, `repository_mysql.go` `touchActivityQuery`, `domain.go` `UTCDay`/`DayIn` | `last_active_date`, `distinct_login_days`, `streak_days`, `timezone` | a touch at every registration, login, verification and progress write; SaveProfile moves the zone | `Activity` |
| progress store | `internal/modules/progress` `service.go`, `repository_mysql.go`; `platform/database` | rows of `progress`; transactions, row and gap locks; the connection pool | Get, Save (PUT), Merge (PATCH), RecordAnswer, CompleteLesson | `ProgressStore`, `AtomicProgress` |
| progress document | `progress/document.go`, `mastery.go`, `service.go` | the JSON document: lessons, scores, mastery, attempt window, schema version | grade an answer, complete a lesson, merge, replace | `ProgressDocument` |
| profile | `auth/profile.go`, `dto.go`, `repository_mysql_secrets.go` | `name`, `gender`, `birth_date`, `timezone` of `users` | PUT /profile; every endpoint that returns a user shows it | `Profile`; `ChangeZone` of `Activity` |
| composition root | `cmd/api/main.go`, `adapters.go` | the two adapters between auth and progress | a write records activity; GET /me reads account and document | `Practice`; the order of start and stop in `ServerLifecycle` |
| server lifecycle | `cmd/api/main.go`, `platform/server`, `platform/database` | process state, listener, pool | connect with retries, migrate, listen, drain on a signal, close | `ServerLifecycle` |
| migrations runner | `platform/database/migrate.go`, `cmd/migrate`, `migrations/*.sql` | the schema, `goose_db_version` | up at every start, up and down by hand | `Migrations` |
| token guard | `platform/middleware/auth.go`, `platform/auth/jwt.go` | none: a token is its own proof until it expires | issue, verify, let in | `Session` |
| rate limiting | `platform/middleware/ratelimit.go`, `cmd/api/adapters.go` | counters per key inside Fiber's limiter (library) | let through or 429 | `RateLimit` |
| mail | `platform/mail` | none of its own | send, may fail | `Smtp`; `Deliver` of `Auth` |
| configuration | `platform/config`, `.env.example` | none: read once at the start | Load, validate | not modelled (section 6) |
| hashing and secrets | `platform/auth/password.go`, `secrets.go` | none | hash, compare, generate | abstracted in `Auth` |
| logging, request middleware, shared kernel | `platform/logger`, `platform/middleware`, `internal/shared` | none | pure functions and text | not modelled |

### How they interact

Every HTTP request is served by its own goroutine, and every repository call of
the auth module is **one autocommitted SQL statement**: no transaction spans a
use case. So a use case of `auth` is a sequence of statements with every other
request free to run between any two of them, deciding at one statement on what
it read at an earlier one. The progress module does use a transaction, for its
read-modify-write (`Mutate`), and reads its answer back outside it, on another
connection of the pool. One call crosses the modules: after a graded answer, a
completed lesson or a PUT, progress calls `auth.RecordActivity`, best effort;
GET /me goes the other way, from the account to the document.

Around the requests are the process, which connects, migrates, listens and
drains while signals arrive; the container runtime, which kills and restarts it;
the command `migrate`, which changes the same schema; the mail server; and the
operator, who edits the environment the next process reads. Tokens outlive the
process that issued them, limiters do not.

### What is hard here

* **Check-then-act over separate statements** in VerifyEmail, ResetPassword,
  Register: what was judged may have changed by the time it is acted on.
* **Statements that name the account and not the secret** (spend, charge an
  attempt): after a concurrent resend they hit a row the request never saw.
* **Partial failure**: a statement may fail, or take effect and be reported as
  failed; the process may die between any two.
* **The clock**: codes and links expire in columns of whole seconds; days are
  cut from a clock read before the UPDATE that stores them, in a zone that may
  have been replaced, and touches around midnight arrive out of order.
* **Locks that do not exist yet**: `FOR UPDATE` on an absent row locks a gap,
  gap locks do not exclude one another, and first writes can deadlock.
* **A bounded pool** with calls that need a second connection for their answer.
* **Late execution**: a PUT or a COMMIT abandoned at the read deadline, or by a
  process that died, may run afterwards.
* **Two modules, two reads**: a boot call reads counters and then the document
  that earned them, while writes move both in the other order.
* **Steps of DDL** commit one by one, and the version is recorded after them.
* **Signals and deadlines** that arrive before there is a listener, during the
  connect loop, a migration or the drain; a runtime with less patience than it.
* **State that outlives its configuration**: tokens issued under another gate,
  secret or issuer; profiles stored by a version that knew other zones.
* **A conversation with a server** that may fall silent at any command.
* **Counting in windows** that begin when a key's first request does.
* **Stored data nobody checked**: a PUT stores any JSON, so every later call must
  cope with members that are absent, null, of the wrong shape or out of range.

### What makes each part correct

* *Accounts and secrets*: no session for an unconfirmed address behind the
  gate; a code or link works only for a request that arrived while it was live;
  once dead, never live again; the password of an account changes only by a
  live link; guesses at a code are bounded even if requests overlap.
* *Activity*: a streak shown is a streak earned; no day counted twice; moving
  between zones is worth one day, or two to an account older than the counters;
  only a real gap cuts a streak.
* *Progress store*: no change is lost to another change, each takes effect at
  most once, an answer contains the caller's own change unless a PUT replaced
  it, every call is answered, only first writes may fail by deadlock.
* *Progress document*: a graded score is in range and the mastery beside it is
  the one the scores call for, whatever a PUT left behind; the attempt window
  drops nothing but its oldest entries; what the client keeps in the document is
  never lost to a call about something else; a document of an unknown layout is
  not touched.
* *Composition*: only practice moves the counters; the boot call never shows
  counters ahead of the document.
* *Profile*: an answer is current and whole; what is shown may be sent back;
  whoever filled in the form is not asked again.
* *Server lifecycle*: nobody is cut short before the drain deadline; a signal
  ends the process wherever it arrives; the server comes up once MariaDB does;
  the exit code tells.
* *Migrations*: a version on record has its statements behind it; the api never
  serves on half a schema; the backfill confirms nobody the new flow asks.
* *Tokens*: let in only by one's own token, under the running secret and issuer,
  up to the expiry that was told, and not refused before it.
* *Limiters*: a bound on what gets through in any stretch as long as a window;
  nobody refused for what others do, unless they share the address and, where
  mail is sent, the mailbox.
* *Mail*: nothing in clear that should not be, nothing reported that was not
  taken, every call returns.

`PROJECT.json` lists the hazards one by one, with the line where each bites and
the properties aimed at it.

## 2. The modules

| Module | Models | Size on TLC |
|---|---|---|
| `Auth` | the six use cases of accounts and secrets | `MCAuth` |
| `AuthProofs` | theorems about `Auth` | proved |
| `Activity` | touches of one account's counters | `MCActivity` |
| `ActivityProofs` | theorems about `Activity` | proved |
| `AtomicProgress` | what the progress store promises | abstract |
| `ProgressStore` | the progress use cases over transactions, locks and pool | `MCProgressStore` |
| `ProgressStoreProofs` | theorems about the locks of `ProgressStore`, and that it implements `AtomicProgress` | proved |
| `ProgressDocument` | what each progress call does to a document | `MCProgressDocument` |
| `ProgressDocumentProofs` | theorems about `ProgressDocument` | proved |
| `Practice` | `Activity` and `AtomicProgress` composed, with /me | `MCPractice` |
| `PracticeProofs` | theorems about `Practice` | proved |
| `Profile` | PUT /profile and what is shown of it | `MCProfile` |
| `ProfileProofs` | theorems about `Profile` | proved |
| `ServerLifecycle` | the life of the api process | `MCServerLifecycle` |
| `Migrations` | the schema under the api and `migrate` | `MCMigrations` |
| `Session` | access tokens over restarts | `MCSession` |
| `SessionProofs` | theorems about `Session` | proved |
| `RateLimit` | the four throttles | `MCRateLimit` |
| `Smtp` | one message to a mail server | `MCSmtp` |
| `PlatformProofs` | theorems about `ServerLifecycle`, `Migrations`, `RateLimit` and `Smtp` | proved |

No module declares a RECURSIVE operator. Definitions whose comment begins with
*Mutant* are deliberate mistakes, used only to show that each property can fail.

### Auth

`registered`, `password`, `verifiedAt` are the `users` table by email (unique,
and no code deletes a row); `code` and `reset` the two tables of secrets, one
row per account as their primary keys make it; `mailbox` what was delivered.
`req[r].step` names the repository call request `r` is about to make, and there
is one action per call: the action does what the statement does, then all the
code up to the next statement. Reading the clock belongs to the action of the
statement that follows it.

* `StatementFails` refuses the statement a request is about to make, with the
  answer the code gives (a touch or a notification that fails fails nobody).
  `Written` lets a statement take effect and be reported as failed. `Crash` ends
  every request in flight.
* `ConsumeVerification` may find the code spent (`RowsAffected` of its guarded
  UPDATE); `ConsumeReset` spends by account and does not ask whether it did.
* `MarkEmailVerified` counts *changed* rows: the DSN sets no `clientFoundRows`
  and the column keeps whole seconds. A mark in the second already stored
  changes no row.
* The client is anyone: it presents any secret delivered to any mailbox, or a
  wrong guess (`NoSecret`), for any account. `live` and `wasVerified` on a
  request are history, set on arrival and read by properties only.

Abstracted: a hash is what it hashes; secrets never collide; passwords are model
values; the text of mails; the delay constants of `FindByEmail` misses. Not
modelled: what `innodb_flush_log_at_trx_commit=2` (`my.cnf`) can lose when the
database host itself goes down.

### Activity

One account, since no statement touches two. A touch reads the zone with the
row (`ReadZone`), cuts the day from the clock (`CutDay`), and runs the UPDATE
(`Touch`); VerifyEmail reads its clock first and the zone only with the row
`MarkEmailVerified` returns (`ReadClock`, `CutEarlierDay`); Register inserts with
the UTC day (`RegisterDay`, `Create`). `StreakOn`, `DistinctOn` and `LastDayOn`
are the three assignments of `touchActivityQuery`, all reading the old row.
`ChangeZone` is SaveProfile's effect, and the drift of an offset with daylight
saving. Time is counted in hours and offsets are whole hours: half-hour zones
move the boundaries and nothing else. `touched`, `began` (the UTC day activity
began on) and `predates` (the account is older than the columns of migration
00003, and starts with their defaults) are history. `began` is in UTC whatever the
zones do, so that a day gained by a zone is seen as one.

### ProgressStore and AtomicProgress

`AtomicProgress` is the promise: a call takes effect in one step between its
arrival and its answer, at most once; PUT replaces, the others add to what is
stored at that moment; after an error the caller does not know, and the call may
even take effect later. A document is the set of the calls whose effect it
holds, which is all that these properties tell apart.

`ProgressStore` is the code: `Begin` takes a connection, `Lock` is the SELECT ...
FOR UPDATE, `Write` the upsert inside the transaction, `Commit` the commit;
`FindByUserID` reads the answer back with another connection, `RecordActivity`
needs one more. `Upsert` is PUT's single autocommitted statement. CompleteLesson
takes RecordAnswer's steps.

`Abandon` is the read timeout of the connection, and `Crash` the death of the
process: the caller gets an error, or nothing, while an upsert or a COMMIT that
was sent stays with the database (`Stray`). A stray holds no connection of the
pool but keeps its locks, takes part in deadlocks, and may take effect after
later calls: a stray PUT by replacing the document, a stray COMMIT by storing
what it computed from the row it has locked all along. A stray transaction that
was not yet at its COMMIT is rolled back when its statement is over
(`RollBack`).

The locks are external code, modelled from how the queries use them under
InnoDB's default REPEATABLE READ (`BeginTx` passes no options and `my.cnf` sets
no isolation level): a row lock if the row is there, the gap between the
neighbouring rows if not; an insert waits for the gap locks of others; a cycle
is broken by aborting one of its members. Not modelled, since they only add
waiting: the next-key gap below an existing row, and the shared lock the foreign
key takes on the `users` row. Abstracted: the rollback of a failed or abandoned
transaction takes no time of its own; one whose SELECT is still waiting for a lock
gives it up at once, and one abandoned at its upsert at the latest when that is
over.

### ProgressDocument

The contents that `ProgressStore` abstracts to a set of calls. Since that module
implements the atomic store, one call is one step here: `Save`, `RecordAnswer`,
`CompleteLesson`, `Merge`, `Get`, and `RefuseUnread` for a body that is invalid
before the document is read. `doc` is the stored JSON; `last` the last call and
its answer; `since` is history (what was graded, answered, completed and written
by the client since the last PUT), read by properties only.

* A document is a record of six members, each a value, absent, null, or
  malformed; or it is JSON that is no object; or there is no row. `ParseError`,
  `AnswerError`, `LessonError` and `PatchError` are what each call finds wrong, in
  the order the code looks. Decoded into a slice, null is empty; decoded into a
  map, it is a nil map, and writing to it panics (the answer `panic`).
* `Mutate` is the service's `mutate`: refused, stored and stamped with version 2, or
  refused as too large. Sizes are not computed, so the last is always possible.
* `Average` wraps its sum to an int and truncates it as Go does; `applyAnswer`
  wraps before it clamps. `MaxInt` is a constant.

Abstracted: the members the server does not know are one, `srsByKana`, with
opaque values; `completedLessonIds` is a set, which is what `sortedUnique` makes of
it; an attempt is its kana, skill and result, without its time and the option
chosen. Kana and lesson ids are valid ones, since the validators are pure
functions with unit tests. Members *inside* a score or an attempt that the
server does not know, and would drop on rewriting, are not modelled.

### Practice

What `main.go` wires together: `Account` is an instance of `Activity`, `Store`
one of `AtomicProgress` (which `ProgressStore` implements), over the same
requests. Every action is written as a step of one of the two with what the
composition decides: which step may follow it. That the composition refines
both is therefore so by construction, and no result. `use[r].step` says where a request is: in a
call on the document, in RecordActivity, in /me between its two reads. A write
goes on to the activity only from `Reply`, that is, once its document was read
back; a patch never does; a failed write, or one whose caller is told of an
error, does not. `Login` stands for every way to a session, checks passed.
`log` and `credited` are history: the writes and logins in the order they took
effect, and the latest whose activity is recorded. The account
predates the counters (it has the defaults of migration 00003); registering is
left to `Activity`.

### Profile

`Update` and `ReadBack` are the UPDATE of four columns and the `FindByID` that
answers; `Fail` leaves an UPDATE that may still run (`lingers`). `Accepts` is the
DTO's rules and `normaliseProfile` in classes: a value is one that may be stored,
one that is refused, or blank. `known` is the tzdata compiled into the running
version, which `Deploy` replaces; days only go forward. Trimming maps a padded
value to the one it pads, so it is not told apart.

### ServerLifecycle

Three parties: the main goroutine (`main`), the goroutine that listens
(`listener`), one goroutine per request (`req`). `Shutdown` and `Close` are
fasthttp's and `database/sql`'s, external: the first returns at once when no
listener is registered yet, the second refuses later statements and waits for
nobody. The database goes down and up; docker kills, and restarts what was not
stopped.

### Migrations

A script is a sequence of statements, each of which takes effect at once and
for good; the version is recorded after the last. `Processes` are the api, which
migrates at its start, and the command `migrate`, up or down; either may be
interrupted between any two statements, and nothing excludes the other. goose is
external. `undone` is history: what a rollback has taken away.

### Session

A token carries what `Issue` puts into it and two pieces of history (the gate
and the account at the time). A restart brings another of `Configs`. Dates are
whole seconds and the clock ticks in fractions, so the last second of a token
and the first are in reach.

### RateLimit

A call names its route, the client, the address its connection comes from, what
`X-Forwarded-For` says, and the mailbox in its body. `IP` is `c.IP()`: from a trusted
proxy the header as it arrives (Fiber is not asked to validate it), otherwise the
address of the connection. `Key` is the key generator: that, and for the two routes
that send mail the mailbox. So clients may share a key, behind one address or a
proxy that is not listed, and one client may have many. `Shares` says when one
call counts against another, `Budget` which calls of one client do.

`Rolled` and `Rate` are the library's sliding window: the count of the current
window and the share of the previous one that still slides over now, rounded
down. Time is relative to now, so states repeat although time goes on: the
histories `seen` (by budget) and `taken` (by key) hold, for each age, how many
requests were no older.

### Smtp

`Send` command by command; the reply may come, be a refusal, the connection may
vanish, or nothing comes until the deadline. A mode that is none of the three
known is treated as `none`.

## 3. The runs

| Run | Instance | Shows |
|---|---|---|
| `auth` | 2 requests, 1 email, 2 passwords, gate on, MaxAttempts 1, TTLs 1 s, 3 secrets, clock 0..1 | sessions only for confirmed addresses; secrets work while live and only then; the bound on guesses; passwords change only by a live link |
| `activity` | 2 requests, zones -12, 0, +14, ten hours over four days | streaks are earned, no day counted twice, one extra day at most or two to an account older than the columns, only gaps cut streaks |
| `progress` | 3 requests, 2 neighbouring users, pool of 2, 2 changes, fairness | nobody writes on a stale document, only first writes deadlock, the store implements `AtomicProgress`, every call is answered and what it left behind is over |
| `document` | any 4 calls on one document; 2 kana, 2 lessons, 8 PUT documents, 5 patches, window of 2, ints up to 511 | mastery and scores agree; the window is the newest answers; the client's members survive; unknown layouts are untouched |
| `practice` | 2 requests, zones 0 and +10, three days, 2 writes, 1 login | only practice counts; /me is never ahead of the document |
| `profile` | 2 devices, 2 names, 2 zones, 2 days, 3 UPDATEs | answers current and whole; echoes accepted |
| `server_lifecycle` | 2 requests, 2 connect attempts, drain of 2 ticks, fairness | only a deadline cuts; the exit code tells; signals end it; it comes up |
| `migrations` | api and command, 2 commands, 1 account, every release, fairness | versions tell the truth; the api serves on a whole schema, and does unless stuck |
| `session` | 2 accounts, 2 tokens of 1.5 s in half seconds, 4 configurations | let in by one's own token, until told |
| `rate_limit` | 2 clients of one address, one of them through the proxy too, for one mailbox and another; MaxRequests 1, window of 3 ticks, 2 requests of a key in a window | twice MaxRequests at most; refusals earned |
| `smtp` | 2 messages, every mode, timeout of 2 ticks, fairness | nothing in clear; reported means taken; every Send returns |
| `document_null` | as `document` | *violated*: grading a document with a null member panics |

None of the passing runs disables the deadlock check. In `server_lifecycle`,
`migrations`, `session`, `rate_limit` and `smtp` the module's type invariant and its
safety parts, each a definition of its own, are checked as one invariant
(`LifecycleInv`, `MigrationInv`, `Inv`, `LimitInv`, `MailInv`).
`TypeOK` of `ProgressStore`, `Practice` and `Profile` and `OnboardedForGood` are in no
run: they are theorems (section 5).

**Why these bounds are enough to mean something.** Two requests are enough for
every overlap the auth code has: each decision is about what *one* other
statement did in between, and either request starts anew when it is done, so a
request sees any number of completed others. Three secrets make a first code, a
resend that replaces it and a reset link. MaxAttempts 1 lets a code be exhausted
by a request in flight; TTL 1 and a clock of two readings put each read before,
at and after expiry, and make "in the same second" and "a second later" both
happen. A second email adds nothing to one account's rows (statements are keyed
by account), and the proofs cover it. The hours of `activity` stand on both sides
of the day boundaries of the two extreme zones and of UTC, for three days
running, with jumps over any of them. For the store, three requests on a pool of
two make some request wait for a connection while others hold locks, two
neighbouring users make gaps that span two owners, and two changes, over rows
that are there or not, make two first writes that deadlock, two grading calls of
which the second must see the first, and a PUT or a COMMIT left behind that takes
effect after an answered call (300,658 states). With three changes the safety
properties and the refinement pass too (`SPECIFICATION Spec`, the requests a symmetry
set: 604,326 states); with the liveness property beside them that takes too long. Four
calls on a document are a PUT and three more: enough to fill a window of two and
push an entry out, to cross a threshold in either direction from the scores the
uploads start near, to grade both kana, and to patch between two answers. The
uploads are one of each kind the code tells apart: version 1 with more attempts
than the window holds, scores near a threshold, scores out of range up to
`MaxInt` (where the sum wraps), a newer version, a null version, a null map, a
malformed window, no object. Users
carry an order because gaps do, so only requests are ever symmetric, and no run
with a liveness property uses a symmetry.

For the composition, three hours suffice: midnight of UTC and midnight of a zone
ten hours ahead fall between them, two writes and a login leave one of each to
overtake another, and the parts have larger runs of their own. A profile needs
two devices, and a third UPDATE that lingers. Two connect attempts are a first
and a last; a drain of two ticks can end early, in time and not at all. Two
commands roll back and forward again. Tokens of one and a half seconds begin and
end between seconds. In `rate_limit` two clients meet
in one mailbox, on both routes that send mail, through the proxy or not, and one
of them has another mailbox beside it: all that may or may not count against
somebody else. A window of three ticks has two shares that are neither all nor
nothing, and a request refused in one window weighs in the next. The bound of
`NearlyTwice` is reached; with MaxRequests 1 it is twice. What the weighing takes off
more is in the theorem, and in larger instances of a single key (ana's calls, MaxRequests 3, a
window of 4, six requests: 15,738 states, at most 5 let through).

**Mutants.** For every property of a passing run `PROJECT.json` names a plausible
mistake (a dropped FOR UPDATE, READ COMMITTED, `<=` for `<`, a connection kept
too long, a link never spent, a day overwritten, a patch that replaces the
document) under which TLC finds that
property violated in the same run.

### Fairness

* `EveryCallEnds` (`ProgressStore`): `WF_vars(Proceed(r))` for each request, where
  `Proceed` is what the request does of itself or the database for it. Goroutines
  are scheduled; `database/sql` hands out connections in the order they were asked
  for; InnoDB queues lock requests and resolves cycles by itself. With the bound
  on changes, weak fairness is enough because every wait is for something that
  ends.
* `SignalEndsProcess`, `ComesUpWithTheDatabase` (`ServerLifecycle`): weak fairness of
  the main goroutine, of the goroutine that listens, of the clock and of the
  container runtime's restart. Nothing is assumed of handlers: a handler that
  never ends is what the deadline is for. The second property is conditional on
  a database that stays, and on no signal and no failure for ever.
* `ServesUnlessStuck` (`Migrations`): weak fairness of the statements a process has
  begun and of the runtime starting the api again. Conditional on interruptions
  that end.
* `EverySendReturns` (`Smtp`): weak fairness of time and of the deadline. Nothing is
  assumed of the mail server.

No fairness is assumed of arrivals, failures, timeouts, crashes, operators or
clients.

## 4. What the runs say against the documentation

Sixteen sentences of the repository do not survive an interleaving, a restart or
an input its authors did not have in mind. Each is a definition at the end of its
module, named below in brackets; the bound that does hold is proved or checked
beside it. The sixth, where the code is at fault and not the sentence, is the run
`document_null`. The others are no runs of their own: with the definition in
place of the properties of the module's configuration (as an INVARIANT, or as a
PROPERTY where it is about steps or behaviours) TLC prints the trace; for the
sixteenth with `Calls <- ManyAddresses`.

1. **"Reset links are single use"** (`README.md:380`, `password_reset.go:58`).
   Check, replace and spend are three statements; two resets that both pass the
   check both succeed. What holds: every change of a password was by a link live
   on arrival (`OnlyLiveLinksChangePasswords`), and a reset answered with
   success leaves its link spent (`AnsweredResetIsBurned`).
   [`ResetLinksAreSingleUse` of `Auth`]
2. **"ErrUserNotFound means no user matches"** (`domain.go:27`). A mark in the
   second already stored affects no row and is reported as a missing account.
   [`NotFoundMeansNoAccount` of `Auth`]
3. **"dies after AUTH_MAX_VERIFICATION_ATTEMPTS wrong guesses"**
   (`README.md:375`). With n requests in flight, the maximum plus n - 1
   (`AttemptsBounded`, proved). [`AttemptsCapped` of `Auth`]
4. **"a gap resets it to 1"** (`domain.go:66`). A touch cut before midnight that
   runs after one cut past it is dropped, and the streak misses a day.
   [`NoActiveDayLeftOut` of `Activity`]
5. **"concurrent calls here serialise"** (`repository_mysql.go:98`). Not the
   first ones: both hold the gap, and one is aborted. Once the row exists they
   do. [`ConcurrentCallsSerialise` of `ProgressStore`]
6. **"ErrUnreadableDocument means the stored document cannot be parsed"**
   (`domain.go:33`). A member that is null decodes without an error into a nil
   map; the answer writes to it and panics, a 500 instead of the 409 a malformed
   member gets (`service.go:116`). Nothing is written. [`UngradableIsReported`
   of `ProgressDocument`]
7. **"Runs after the HTTP server has drained"** (`main.go:72`). Also after a
   drain that timed out, or that found no listener. `DrainProtectsRequests` says
   when. [`PoolClosedAfterDrain` of `ServerLifecycle`]
8. **"Fiber drains in-flight requests (`HTTP_SHUTDOWN_TIMEOUT`, 15 s)"**
   (`README.md:647`). Docker kills after 10 s: no `stop_grace_period` is set.
   [`DrainGetsItsTime` of `ServerLifecycle`]
9. **"all that is needed"** (`README.md:649`), of a restart after a schema
   change. Not when an earlier start was interrupted between an ALTER and its
   version. [`RestartIsEnough` of `Migrations`]
10. **"a valid token can only have been issued to a verified account"**
    (`README.md:369`). Not one issued before the gate was switched on;
    `GateHoldsForItsOwnTokens` is what holds. [`ValidTokensAreVerified` of
    `Session`]
11. **"Timeout bounds the whole exchange"** (`smtp.go:24`). It is used twice;
    twice is the bound. [`WholeExchangeBounded` of `Smtp`]
12. **"Max requests allowed inside Window"** (`ratelimit.go:17`). Up to nearly
    twice Max (`NearlyTwice`). [`AtMostMax` of `RateLimit`]
13. **"Activity is recorded … on every progress write"** (`README.md:325`). Not
    when the read-back after the write fails. [`EveryWriteIsPractice` of
    `Practice`]
14. **"falling back to UTC for accounts that never sent one"**
    (`README.md:331`). Also for those that sent one and later the three fields
    the documentation lists. [`NullMeansNeverSent` of `Profile`]
15. **"which is enough to manufacture a single extra day"** (`README.md:346`), of
    editing the zone. True of an account registered with the counters, whose first
    day is the UTC day. One from before migration 00003 has no stored day, so its
    first touch counts whatever day its zone makes of it: at 10:00 UTC, moving from
    UTC-12 over UTC to UTC+14 counts yesterday, today and tomorrow. Two extra days
    are the most (`ExtraDaysBounded`, proved). [`OneExtraDayAtMost` of `Activity`]
16. **"The send side is throttled by destination so nobody's inbox can be used as
    a weapon"** (`routes.go:31`; also `ratelimit.go:21`, `main.go:160`, `README.md:414`). The
    key is the address *and* the destination, so each address has its own budget
    for the same mailbox, and n addresses have n. The other half of the reason
    given, that a household behind one address shares no budget, does hold for
    mailboxes that differ (`RefusalIsEarned`, proved). [`InboxIsThrottled` of
    `RateLimit`]

## 5. The proofs

TLAPS checks every theorem for any number of requests, accounts, hours, zones
and any bounds, from the named assumptions on the constants only
(`AuthAssumption`, `ActivityAssumption`, `StoreAssumption`, `PracticeAssumption`,
`ProfileAssumption`, `SessionAssumption`, `LifecycleAssumption`, `MigrationsAssumption`,
`RateLimitAssumption`, `SmtpAssumption` and the four of `ProgressDocument`), which TLC
evaluates in each run. Every invariant and every action property of the runs is a
theorem; so is the refinement `progress` checks.

**AuthProofs.** `TypeCorrect` (`TypeOK` is inductive) is the base of the rest.

* `SessionsVerified` needs `GateInv`: an address once confirmed stays confirmed,
  so a request past the gate, or past the mark, may be answered at any later time.
  Alone the property is not inductive, as it says nothing of a request that has
  judged the account and not answered yet.
* `DeadStayDead` is an action property, from `TypeOK`: the lemma `DeadStep` says
  what any step makes of each row, that it either stays, only ages, or is
  replaced by a secret never stored before.
* `ResetBurned` needs `LinkInv`: a link once replaced is never stored again, so
  burning by account can only miss a link that is dead for good.
* `GuessesBounded`: the guesses already charged *plus those that passed the check
  and are yet to be charged* stay below MaxAttempts + |Requests|. A request joins
  the second set only when the first number is below MaxAttempts.
* `LiveCodesOnly`, `LiveLinksOnly` need `LiveInv`: a request past its check holds a
  secret that was live on its arrival, since it was live at the check
  (`LiveHeld`) and dead secrets stay dead between arrival and check; and nobody
  presents a secret that has not been stored yet (`SecretsKnown`).

**ActivityProofs.** One inductive invariant for all: `TypeOK`, no counters
without a row, the stored day is the latest touched that counted, no day held by
a request is further ahead than a zone allows or further back than one before
activity began (`NoDayTooFarBack`; only an account older than the columns can
have counted that one), the counted days fit between the first of these and the
stored day (`CountedDaysFit`), the streak's days were all touched, no more days
counted than touched. Each of `StreakEarned`, `NoDayFree`, `ExtraDaysFew` is a
conjunct or a consequence; `CutOnlyByAGap` is an action property from the same
invariant, where the lower end of a streak matters: the day it was cut at.

**ProgressDocumentProofs.** For any kana, lessons, uploads and patches, any window
and any width of an int that holds the sum of four scores (`IntAssumption`). The
lemma `Steps` says once what each call does to `doc` and `since`, and every theorem
is an induction over its five cases; all four properties of state, both of steps
and the type invariant of the run `document` are proved.

* `MasteryCorrect`, `MasteryNeedsSkills` need `GradedInv`: the two maps stay maps
  (a graded document is never again malformed there, a PATCH being refused) and
  the mastery of a graded kana equals `masteryFor` of its scores *in range or not*.
  `MasteryBySum` and `WrapFits` turn that into the thresholds on the sum: in range,
  nothing wraps.
* `AnswersMoveOnlyTheirKana`: an answer moves one score (`ApplyAnswerMoves`), the sum
  with it (`SumMonotone`), and mastery with the sum (`RankMonotone`).
* `WindowKeepsNewest` needs `WindowInv`, stated by positions (`EndsWith`) and not
  with SubSeq: the window ends all that was answered, and `AppendToEnd`, `WindowIsEnd`
  and `EndOfEnd` carry it over one more answer.
* `ClientMembersKept`, `NewerSchemaKept`: from `TypeOK` and what is stored where
  there is no row.

**PracticeProofs.** `NeverBehind` needs that what is credited is in the log, and that
what a boot call read of the account was in the log when it began, which only
grows.

`EveryDayIsPractice` needs more than the count. Every request on its way to
`RecordActivity` (a write applied and not yet read back, one read back, a login)
holds a *claim*: its place in the log, which is practice and nobody else's
(`ClaimsApart`). The counted days are at most as many as the places of practice
that nobody claims any more (`Settled`). A touch gives up its claim, so one more
place is settled for the one more day it may count (`TouchSettles`); any other
step keeps claims, gives them up without counting, or makes one at the new end
of the log (`ClaimsMove`). `Fits` ties the three automata of a request together,
its use, its call on the document and its touch: without it a touch could be one
whose claim was never made.

**ProfileProofs.** One inductive invariant: everything an accepted call carries
is *sound* (acceptable but for the zones of the running version) wherever it is
by now, since days only go forward (`SoundStays`), and the row is the last of
what was stored. `AnswersAreCurrent`, `EchoesChangeNothing` and the action property
`OnboardedStays` follow.

**ProgressStoreProofs.** `SnapshotIsCurrent` alone is not inductive: it says
nothing of a transaction that selected no row. `LockInv` does. From its SELECT to
its commit a transaction sees what is stored and is the only one to lock the row
(`Held`); what it found absent lies in the gap it holds, and a gap that anybody
holds stays empty (`GapsStayEmpty`), because the only steps that store anything,
`Upsert` and `Commit`, are taken by whoever nobody blocks (`NobodyElse`). Many
may hold the same gap: that is where deadlocks come from, and `CyclesAreOfFirstWrites`
shows it is the only place. On a row that is there, a request either waits and
holds nothing or holds the row and waits for nobody, so it is in no smallest
cycle. `TypeCorrect`, `SnapshotCurrent` and `FirstWritesOnly` hold for any number of
changes, where the run has two.

`Refines` goes step by step: `Begin`, `Lock`, `Write` and
`RecordActivity` are stutters, `Commit` and `Upsert` the effect, `FindByUserID` the
answer, and every failure one of `Fail`. A call that is left behind
lingers, and its late `Commit` or `Upsert` is the effect of a call that was answered
with an error; `RollBack` is its end without one. The effect of a commit is computed from
what was selected, and is that of the abstract store, computed from what is
stored, because of `LockInv`. `RefInv` adds which calls can be at which steps.

**SessionProofs.** `TokenInv`: of every token, that its dates lost less than a second
(`DateCut`, for a clock that counts in any fraction of one) and that, if the gate
was on, its account is confirmed (`Issued`); of every request, that the guard
passed it exactly when it should (`Judged`), by the header's own fields, which
need no memory of how it was issued. `Inv` and `GateHoldsForItsOwnTokens` follow.

**PlatformProofs.** Four inductive invariants, one per module; the modules share
no variable.

* *The server.* `LifecycleIsSafe` needs `MainInv` (where `run` is decides what is open,
  who has been served and what the exit code will be), `ListenerInv` (requests are
  only with an open listener, a listener only between the wiring and the end) and
  `ReturnInv` (a drain that is reported done left nobody). Most of the work is in the
  shutdown that found no listener: it is the one place where requests may begin
  after the drain.
* *The schema.* `SchemaIsComplete` follows `Ever`, the schema and whatever a rollback
  took from it, which only grows. What a process has behind it is in `Ever`
  (`Reached`: the scripts before its own and the statements before its next one),
  and so is all that the recorded versions stand for; hence a process may die
  anywhere, and two may run the same script. `BackfillSpares` needs `Spared`: as long
  as the column was never rolled back, whoever is about to confirm accounts has
  added it a statement earlier, so nobody can have registered with it and nobody
  else can be past it (no version 4 on record, no api that serves). `PastKnows` is the reason: whoever is past the column has it in `Ever`.
* *The limiters.* `WindowsHold` relates an entry of the library to the history of its
  key, by age: what was let through in the current window is at most `curr`, in
  the previous at most `prev`, and neither more than MaxRequests (`WindowInv`). The
  bound is then arithmetic: a request let through in a window that still weighs
  the one before leaves room for what slides out (`WindowShare`, `ShareGrows`,
  `ShareBeforeLastTick`). `RefusalsAreEarned` is the other inequality: `curr` and `prev`
  never exceed what was asked under the key within the two windows (`SeenInv`). The
  invariant says so of each client of a key and not of their sum: `Felt` is what a
  client asked itself until somebody else asks under the same key, and more than
  the limiter grants from then on, for as long as that is remembered (`FeltHit`,
  `FeltAged`). Whoever shares a key shares the address and, for mail, the mailbox
  (`OthersShare`).
* *The mail.* `MailIsSafe` needs `TalkInv` and `CountInv`: the commands are sent in order,
  so before the third of a STARTTLS conversation nothing has been given away
  (`PreludeFacts`, `NextCommand`) and after it the line is encrypted; and the message
  being sent is not counted until its body is taken.

**Only model-checked.** The five liveness properties (`EveryCallEnds`,
`SignalEndsProcess` and `ComesUpWithTheDatabase`, `ServesUnlessStuck`,
`EverySendReturns`): liveness under fairness is out of the prover's reach. Absence of
deadlock, in every passing run, for the same reason (ENABLED).

## 6. Not modelled

* *Logging, request middleware, shared kernel*: request ids, the access log,
  recover, CORS, value objects, the validator's custom rules, the error type and
  the JSON of answers keep no state and are called from one place at a time.
  The classes of answers they lead to are in `Auth` and `ProgressDocument`.
* *Hashing and secrets*: bcrypt, SHA-256 and crypto/rand are libraries.
* *Request ids for answers*: a client that repeats an answer is scored twice;
  nothing promises otherwise, and each single call takes effect at most once.
* *Sizes*: whether a document has room for one more answer is left open
  (`ProgressDocument` lets any result be refused as too large).
* *Clocks that step back*, and the rounding of floating point in the limiter with
  windows shorter than a second.
* *The table goose creates for itself* before its first version.
* *Configuration*: `Load` and `validate` are one pure function of the environment,
  evaluated once before anything else runs: no state, no order, nothing that
  happens meanwhile, and table tests reach all of it. What its values change is
  a constant or a variable of the modules that read them (the gate in `Auth` and
  `Session`, limits in `RateLimit`, timeouts in `Smtp` and `ServerLifecycle`).
* *Daylight saving as such*: it is one of the changes of an offset.

## 7. Plan

Done: `Auth`, `Activity`, `AtomicProgress` and `ProgressStore`, `ProgressDocument`,
`Practice`, `Profile`, `ServerLifecycle`, `Migrations`, `Session`, `RateLimit` and `Smtp`,
with proofs of every safety property the runs check.

Next:

1. `ServesUnlessStuck` has a safety half (a process that is not stuck finds its next
   statement applicable), which could be a theorem.
2. What `ActivityProofs` proves, of the counters of `Practice`, by importing its
   invariant.

## 8. Running it

    tlc -config MCAuth.cfg MCAuth            # and likewise the other .cfg files
    tlapm AuthProofs.tla
    tlapm ActivityProofs.tla
    tlapm ProgressStoreProofs.tla
    tlapm ProgressDocumentProofs.tla
    tlapm PracticeProofs.tla
    tlapm ProfileProofs.tla
    tlapm SessionProofs.tla
    tlapm PlatformProofs.tla
