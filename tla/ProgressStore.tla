--------------------------- MODULE ProgressStore ----------------------------
(***************************************************************************)
(* How internal/modules/progress keeps the documents: the use cases of     *)
(* service.go over repository_mysql.go, the connection pool of             *)
(* database/sql and the locks of InnoDB under REPEATABLE READ.             *)
(*                                                                         *)
(* Mutate is a transaction: it takes a connection, SELECTs the document    *)
(* FOR UPDATE, applies the use case to what it read, upserts the result    *)
(* and commits; the answer is read back afterwards on another connection.  *)
(* Save is a single upsert, and last write wins.  The locks are modelled   *)
(* from how the code uses them:                                            *)
(*   - FOR UPDATE on a row that exists locks the row, exclusively;         *)
(*   - on one that does not, it locks the gap the row would go in, and     *)
(*     gap locks exclude nobody but those who insert into the gap;         *)
(*   - an upsert waits for the lock of another on the row or, to insert    *)
(*     it, for those of all others on the gap;                             *)
(*   - of transactions that wait for one another in a cycle, one is        *)
(*     aborted with an error;                                              *)
(*   - all are released when the transaction ends.                         *)
(*                                                                         *)
(* A caller may be gone, with an error, while the database still works on  *)
(* what it sent last: such a stray Save or COMMIT may take effect later,   *)
(* and until it is over a stray transaction keeps its locks.               *)
(*                                                                         *)
(* Abstracted: a document is the set of the calls whose effect it holds    *)
(* (module ProgressDocument says what an effect is); a stray transaction   *)
(* that was not yet at its COMMIT is rolled back as soon as its statement  *)
(* is over.                                                                *)
(***************************************************************************)
EXTENDS Integers, FiniteSets

CONSTANTS
  Requests,      \* the requests that may be in flight at once
  Users,         \* the owners of the documents, in the order of their ids
  NoDoc,         \* no row; no reply
  MaxOpenConns,  \* the size of the pool
  MaxOps         \* bound: calls that change a document

ASSUME StoreAssumption ==
  /\ IsFiniteSet(Requests)
  /\ Users \subseteq Nat /\ Users # {}
  /\ \A ids \in SUBSET (1 .. MaxOps) : NoDoc # ids
  /\ MaxOpenConns \in Nat \ {0}
  /\ MaxOps \in Nat

VARIABLES
  doc,  \* the committed rows of the progress table
  ops,  \* how many calls that change a document were made
  req   \* the requests

vars == <<doc, ops, req>>

----------------------------------------------------------------------------
\* State

\* CompleteLesson goes through the steps of RecordAnswer.
Mutations == {"RecordAnswer", "Merge"}
Changes == Mutations \cup {"Save"}
Kinds == Changes \cup {"Get"}

Ids == 1 .. MaxOps
Docs == {NoDoc} \cup SUBSET Ids

\* What a request is about to do.  "begin": take a connection for Mutate or
\* Save.  "done": answered, and nothing of it is with the database.
Steps == {"begin", "lock", "write", "commit", "upsert", "read", "activity", "done"}

\* seen and gap: what FOR UPDATE returned, and the absent rows it locked the
\* gap of.  "deadlock" is the error of the victim, a 500 as any other.
Request == [step: Steps, user: Users, kind: Kinds, id: 0 .. MaxOps, seen: Docs,
            gap: SUBSET Users, reply: Docs, answer: {"none", "ok", "error", "deadlock"}]

\* Whose request it was does not matter once it is answered.
Anyone == CHOOSE u \in Users : TRUE

NoRequest(u) ==
  [step |-> "done", user |-> u, kind |-> "Get", id |-> 0, seen |-> NoDoc,
   gap |-> {}, reply |-> NoDoc, answer |-> "none"]

\* Its caller was told of an error, its last statement is still with the database.
Stray(r) == req[r].step # "done" /\ req[r].answer # "none"

Contents(d) == IF d = NoDoc THEN {} ELSE d

\* Mutant: the connection of the transaction is kept until the answer is read.
HoldsConnUntilRead(r) ==
  req[r].step \in {"lock", "write", "commit", "upsert", "read"} /\ ~Stray(r)

\* One connection per transaction, or statement that waits.  One that broke is
\* no longer of the pool.
HoldsConn(r) == req[r].step \in {"lock", "write", "commit", "upsert"} /\ ~Stray(r)

ConnFree == Cardinality({r \in Requests : HoldsConn(r)}) < MaxOpenConns

----------------------------------------------------------------------------
\* Locks

\* Mutant: without FOR UPDATE only the upsert locks the row.
LocksRowAtCommit(r, u) == req[r].user = u /\ req[r].step = "commit"

\* The row: from the SELECT if it was there, from the upsert if it was not.
LocksRow(r, u) ==
  /\ req[r].user = u
  /\ \/ req[r].step = "commit"
     \/ req[r].step = "write" /\ req[r].seen # NoDoc

\* A row is in the index from the moment it is inserted, committed or not.
InIndex(u) == doc[u] # NoDoc \/ \E r \in Requests : LocksRow(r, u)

\* The rows absent around u, between its neighbours in the index.
GapAround(u) ==
  {v \in Users : \A w \in Users : (w \in u .. v \/ w \in v .. u) => ~InIndex(w)}

\* Whom a request waits for.
Blockers(r) ==
  {s \in Requests \ {r} :
     \/ req[r].step \in {"lock", "write", "upsert"} /\ LocksRow(s, req[r].user)
     \/ req[r].step \in {"write", "upsert"} /\ req[r].user \in req[s].gap}

\* A smallest set of requests of which each waits for another.
Waiting(S) == S # {} /\ \A r \in S : Blockers(r) \cap S # {}
Cycle(S) == Waiting(S) /\ \A T \in SUBSET S : Waiting(T) => T = S

----------------------------------------------------------------------------
\* What the steps are made of

Goto(r, step) == req' = [req EXCEPT ![r].step = step]

Ended(q, a) == [NoRequest(Anyone) EXCEPT !.reply = q.reply, !.answer = a]
Answer(r, a) == req' = [req EXCEPT ![r] = Ended(@, a)]

----------------------------------------------------------------------------
\* Actions

Call(r) ==
  /\ req[r].step = "done"
  /\ \E u \in Users, k \in Kinds :
       /\ k \in Changes => ops < MaxOps
       /\ ops' = IF k \in Changes THEN ops + 1 ELSE ops
       /\ req' = [req EXCEPT ![r] =
            [NoRequest(u) EXCEPT !.step = IF k = "Get" THEN "read" ELSE "begin",
                                 !.kind = k, !.id = IF k = "Get" THEN 0 ELSE ops + 1]]
  /\ UNCHANGED doc

Begin(r) ==
  /\ req[r].step = "begin"
  /\ ConnFree
  /\ Goto(r, IF req[r].kind = "Save" THEN "upsert" ELSE "lock")
  /\ UNCHANGED <<doc, ops>>

\* What the SELECT returns and locks, and the use case applied to it, whose
\* failure is one of Fail.
Selected(r, gap) ==
  /\ req' = [req EXCEPT ![r] =
       [@ EXCEPT !.step = "write", !.seen = doc[req[r].user],
                 !.gap = IF doc[req[r].user] = NoDoc THEN gap ELSE {}]]
  /\ UNCHANGED <<doc, ops>>

\* Mutants: LOCK IN SHARE MODE; FOR UPDATE under READ COMMITTED, without gaps.
LockInShareMode(r) ==
  /\ req[r].step = "lock"
  /\ \A s \in Blockers(r) : req[s].step = "write"
  /\ Selected(r, GapAround(req[r].user))
LockReadCommitted(r) ==
  /\ req[r].step = "lock"
  /\ Blockers(r) = {}
  /\ Selected(r, {})

\* SELECT data ... FOR UPDATE.
Lock(r) ==
  /\ req[r].step = "lock"
  /\ Blockers(r) = {}
  /\ Selected(r, GapAround(req[r].user))

Write(r) ==
  /\ req[r].step = "write" /\ ~Stray(r)
  /\ Blockers(r) = {}
  /\ Goto(r, "commit")
  /\ UNCHANGED <<doc, ops>>

\* The caller is gone: its COMMIT will not come.
RollBack(r) ==
  /\ req[r].step = "write" /\ Stray(r)
  /\ Answer(r, "error")
  /\ UNCHANGED <<doc, ops>>

\* The commit takes effect, and is reported unless the connection is broken.
Commit(r) ==
  /\ req[r].step = "commit"
  /\ doc' = [doc EXCEPT ![req[r].user] = Contents(req[r].seen) \cup {req[r].id}]
  /\ \/ /\ ~Stray(r)
        /\ req' = [req EXCEPT ![r] = [@ EXCEPT !.step = "read", !.seen = NoDoc, !.gap = {}]]
     \/ Answer(r, "error")
  /\ UNCHANGED ops

\* INSERT ... ON DUPLICATE KEY UPDATE as a statement of its own.
Upsert(r) ==
  /\ req[r].step = "upsert"
  /\ Blockers(r) = {}
  /\ doc' = [doc EXCEPT ![req[r].user] = {req[r].id}]
  /\ \/ ~Stray(r) /\ Goto(r, "read")
     \/ Answer(r, "error")
  /\ UNCHANGED ops

\* The read deadline passes, or the connection breaks, while the upsert or the
\* COMMIT is with the database.
Outlives(q) == q.step \in {"write", "commit", "upsert"}
Abandon(r) ==
  /\ Outlives(req[r]) /\ ~Stray(r)
  /\ req' = [req EXCEPT ![r].answer = "error"]
  /\ UNCHANGED <<doc, ops>>

\* The answer is read back outside any transaction; a Merge is no activity.
FindByUserID(r) ==
  /\ req[r].step = "read"
  /\ ConnFree
  /\ LET found == [req[r] EXCEPT !.reply = doc[req[r].user]] IN
     req' = [req EXCEPT ![r] =
       IF req[r].kind \in {"Get", "Merge"} THEN Ended(found, "ok")
                                          ELSE [found EXCEPT !.step = "activity"]]
  /\ UNCHANGED <<doc, ops>>

\* Best effort, and the subject of module Activity.
RecordActivity(r) ==
  /\ req[r].step = "activity"
  /\ ConnFree
  /\ Answer(r, "ok")
  /\ UNCHANGED <<doc, ops>>

\* InnoDB aborts one of the transactions that wait for one another.
Victim(r) ==
  /\ \E S \in SUBSET Requests : r \in S /\ Cycle(S)
  /\ Answer(r, IF Stray(r) THEN "error" ELSE "deadlock")
  /\ UNCHANGED <<doc, ops>>

\* A statement, the use case or the connection fails, without effect: the
\* deferred Rollback releases everything.  What is stray may come to nothing.
Fail(r) ==
  /\ req[r].step \notin {"done", "activity"}
  /\ Answer(r, "error")
  /\ UNCHANGED <<doc, ops>>

\* The process dies: whatever is with the database is stray now.
Crash ==
  /\ \E r \in Requests : req[r].step # "done" /\ ~Stray(r)
  /\ req' = [r \in Requests |->
       CASE req[r].step = "done" -> req[r]
         [] Outlives(req[r]) -> [req[r] EXCEPT !.answer = "error"]
         [] OTHER -> Ended(req[r], "error")]
  /\ UNCHANGED <<doc, ops>>

----------------------------------------------------------------------------

Init ==
  /\ doc \in [Users -> {NoDoc, {}}]
  /\ ops = 0
  /\ req = [r \in Requests |-> NoRequest(Anyone)]

\* What a request does of itself, or the database for it.
Proceed(r) ==
  \/ Begin(r) \/ Lock(r) \/ Write(r) \/ RollBack(r) \/ Commit(r) \/ Upsert(r)
  \/ FindByUserID(r) \/ RecordActivity(r) \/ Victim(r)

Next ==
  \/ \E r \in Requests : Call(r) \/ Proceed(r) \/ Abandon(r) \/ Fail(r)
  \/ Crash

Spec == Init /\ [][Next]_vars

\* Goroutines are scheduled, database/sql hands out connections in the order
\* they were asked for, and InnoDB grants locks, breaks cycles and finishes what
\* it was sent by itself.
\* Nobody is forced to call, to fail or to crash.
FairSpec == Spec /\ \A r \in Requests : WF_vars(Proceed(r))

----------------------------------------------------------------------------
\* Properties

\* Types of the rows and the requests.
TypeOK ==
  /\ doc \in [Users -> Docs]
  /\ ops \in 0 .. MaxOps
  /\ req \in [Requests -> Request]

\* What a transaction read is still what is committed, up to its own commit,
\* whether the row was there to be locked or only the gap it would go in; and
\* nobody else has got as far as writing the same row.
SnapshotIsCurrent ==
  \A r \in Requests :
    /\ req[r].step = "commit" =>
         /\ req[r].seen = doc[req[r].user]
         /\ \A s \in Requests \ {r} : ~LocksRow(s, req[r].user)
    /\ req[r].step = "write" /\ req[r].seen # NoDoc => req[r].seen = doc[req[r].user]

\* Only the first write to a document is ever sacrificed to a deadlock: once a
\* user has a row, a transaction on it waits for others but never in a cycle.
OnlyFirstWritesDeadlock ==
  [][\A r \in Requests :
       req[r].step # "done" /\ req'[r].answer = "deadlock" => doc[req[r].user] = NoDoc]_vars

\* To the requests the store is one that changes each document atomically.
Phase(r) ==
  CASE Stray(r) -> "lingers"
    [] req[r].step \in {"done", "activity"} -> "idle"
    [] req[r].step = "read" /\ req[r].kind # "Get" -> "applied"
    [] OTHER -> "called"

CallOf(r) ==
  LET q == IF Phase(r) = "idle" THEN Ended(req[r], "none") ELSE req[r] IN
  [phase |-> Phase(r), user |-> q.user, kind |-> q.kind, id |-> q.id, reply |-> q.reply]

Atomic == INSTANCE AtomicProgress WITH call <- [r \in Requests |-> CallOf(r)]

Implements == Atomic!Spec

\* Every request is answered, and all it did is over: nothing waits forever for
\* a connection, with a pool of any size, nor for a lock, be it a stray's.
EveryCallEnds ==
  \A r \in Requests : []<>(req[r].step = "done")

\* What the documentation says and a first write does not keep: "concurrent
\* calls here serialise", so none of them fails because of another.
ConcurrentCallsSerialise ==
  \A r \in Requests : req[r].answer # "deadlock"
=============================================================================
