------------------------ MODULE ProgressStoreProofs ------------------------
(***************************************************************************)
(* What the locks of ProgressStore are worth, for any requests, users,     *)
(* pool and number of changes.                                             *)
(*                                                                         *)
(* A transaction that has selected a row is, from then to its commit, the  *)
(* only one that may change it: because it locked the row or, where there  *)
(* is none, because nobody can insert into a gap that another holds.  That *)
(* is the invariant; that nothing is lost, and that only first writes can  *)
(* be part of a deadlock, follow from it.                                  *)
(***************************************************************************)
EXTENDS ProgressStore, TLAPS

Holding(r) == req[r].step \in {"write", "commit"}

\* What a request holds fits the step it is at.
Carried ==
  \A r \in Requests :
    /\ req[r].step \in {"begin", "lock", "write", "commit", "upsert"} => req[r].id # 0
    /\ ~Holding(r) => req[r].gap = {}
    /\ Stray(r) => req[r].answer = "error" /\ Outlives(req[r])

\* Who has selected a row or the absence of one still sees what is stored, and
\* is the only one to write it.
Held ==
  \A r \in Requests : Holding(r) =>
    /\ req[r].seen = doc[req[r].user]
    /\ IF req[r].seen = NoDoc THEN req[r].user \in req[r].gap ELSE req[r].gap = {}
    /\ \A s \in Requests \ {r} : ~LocksRow(s, req[r].user)

\* A locked gap stays empty.
GapsStayEmpty ==
  \A r \in Requests : \A v \in req[r].gap :
    doc[v] = NoDoc /\ \A s \in Requests \ {r} : ~LocksRow(s, v)

LockInv == TypeOK /\ Carried /\ Held /\ GapsStayEmpty

----------------------------------------------------------------------------
\* The types

LEMMA AnyoneIsUser == Anyone \in Users
BY StoreAssumption DEF Anyone

LEMMA NoRequestTyped ==
  ASSUME NEW u \in Users
  PROVE NoRequest(u) \in Request
BY StoreAssumption DEF NoRequest, Request, Docs, Ids, Kinds, Changes, Mutations, Steps

LEMMA EndedTyped ==
  ASSUME NEW q \in Request, NEW a \in {"none", "ok", "error", "deadlock"}
  PROVE Ended(q, a) \in Request
<1>1. NoRequest(Anyone) \in Request
  BY AnyoneIsUser, NoRequestTyped
<1>2. q.reply \in Docs
  BY DEF Request
<1> QED
  BY <1>1, <1>2 DEF Ended, Request

\* A request that goes on, or is answered, keeps its type.
LEMMA GotoTyped ==
  ASSUME TypeOK, NEW r \in Requests, NEW step \in Steps, Goto(r, step)
  PROVE req' \in [Requests -> Request]
BY DEF TypeOK, Goto, Request

LEMMA AnswerTyped ==
  ASSUME TypeOK, NEW r \in Requests, NEW a \in {"none", "ok", "error", "deadlock"}, Answer(r, a)
  PROVE req' \in [Requests -> Request]
BY EndedTyped DEF TypeOK, Answer

LEMMA InitTyped == Init => TypeOK
BY AnyoneIsUser, NoRequestTyped, StoreAssumption DEF Init, TypeOK, Docs

LEMMA StepTyped ==
  ASSUME TypeOK, Carried, [Next]_vars
  PROVE TypeOK'
<1> USE DEF TypeOK
<1>1. ASSUME NEW r \in Requests, Call(r) PROVE TypeOK'
  <2>1. PICK u \in Users, k \in Kinds :
          /\ k \in Changes => ops < MaxOps
          /\ ops' = IF k \in Changes THEN ops + 1 ELSE ops
          /\ req' = [req EXCEPT ![r] =
               [NoRequest(u) EXCEPT !.step = IF k = "Get" THEN "read" ELSE "begin",
                                    !.kind = k, !.id = IF k = "Get" THEN 0 ELSE ops + 1]]
    BY <1>1 DEF Call
  <2>2. k = "Get" \/ k \in Changes
    BY DEF Kinds
  <2>3. (IF k = "Get" THEN 0 ELSE ops + 1) \in 0 .. MaxOps /\ ops' \in 0 .. MaxOps
    BY <2>1, <2>2, StoreAssumption
  <2>4. [NoRequest(u) EXCEPT !.step = IF k = "Get" THEN "read" ELSE "begin",
                             !.kind = k, !.id = IF k = "Get" THEN 0 ELSE ops + 1] \in Request
    <3>1. NoRequest(u) \in Request
      BY NoRequestTyped
    <3>2. (IF k = "Get" THEN "read" ELSE "begin") \in Steps
      BY DEF Steps
    <3> QED
      BY <2>3, <3>1, <3>2 DEF Request
  <2> QED
    BY <1>1, <2>1, <2>3, <2>4 DEF Call
<1>2. ASSUME NEW r \in Requests, Begin(r) PROVE TypeOK'
  BY <1>2, GotoTyped DEF Begin, Steps
<1>3. ASSUME NEW r \in Requests, Lock(r) PROVE TypeOK'
  <2>1. GapAround(req[r].user) \subseteq Users
    BY DEF GapAround
  <2>2. req[r].user \in Users /\ doc[req[r].user] \in Docs /\ "write" \in Steps
    BY DEF Request, Steps
  <2>3. (IF doc[req[r].user] = NoDoc THEN GapAround(req[r].user) ELSE {}) \in SUBSET Users
    BY <2>1
  <2>4. [req[r] EXCEPT !.step = "write", !.seen = doc[req[r].user],
           !.gap = IF doc[req[r].user] = NoDoc THEN GapAround(req[r].user) ELSE {}] \in Request
    BY <2>2, <2>3 DEF Request
  <2> QED
    BY <1>3, <2>4 DEF Lock, Selected
<1>4. ASSUME NEW r \in Requests, Write(r) PROVE TypeOK'
  BY <1>4, GotoTyped DEF Write, Steps
<1>5. ASSUME NEW r \in Requests, Commit(r) PROVE TypeOK'
  <2>1. doc' \in [Users -> Docs]
    BY <1>5 DEF Commit, Carried, Request, Contents, Docs, Ids
  <2>2. CASE Answer(r, "error")
    BY <1>5, <2>1, <2>2, AnswerTyped DEF Commit
  <2>3. CASE req' = [req EXCEPT ![r] = [@ EXCEPT !.step = "read", !.seen = NoDoc, !.gap = {}]]
    <3>1. NoDoc \in Docs /\ "read" \in Steps
      BY DEF Docs, Steps
    <3>2. [req[r] EXCEPT !.step = "read", !.seen = NoDoc, !.gap = {}] \in Request
      BY <3>1 DEF Request
    <3> QED
      BY <1>5, <2>1, <2>3, <3>2 DEF Commit
  <2> QED
    BY <1>5, <2>2, <2>3 DEF Commit
<1>6. ASSUME NEW r \in Requests, Upsert(r) PROVE TypeOK'
  <2>1. doc' \in [Users -> Docs]
    BY <1>6 DEF Upsert, Carried, Request, Docs, Ids
  <2>2. req' \in [Requests -> Request]
    BY <1>6, GotoTyped, AnswerTyped DEF Upsert, Steps
  <2> QED
    BY <1>6, <2>1, <2>2 DEF Upsert
<1>7. ASSUME NEW r \in Requests, FindByUserID(r) PROVE TypeOK'
  <2> DEFINE found == [req[r] EXCEPT !.reply = doc[req[r].user]]
  <2>1. found \in Request
    BY DEF Request
  <2>2. Ended(found, "ok") \in Request
    BY <2>1, EndedTyped
  <2>3. [found EXCEPT !.step = "activity"] \in Request
    BY <2>1 DEF Request, Steps
  <2>4. \/ req' = [req EXCEPT ![r] = Ended(found, "ok")]
        \/ req' = [req EXCEPT ![r] = [found EXCEPT !.step = "activity"]]
    BY <1>7 DEF FindByUserID
  <2> QED
    BY <1>7, <2>2, <2>3, <2>4 DEF FindByUserID
<1>8. ASSUME NEW r \in Requests, RecordActivity(r) PROVE TypeOK'
  BY <1>8, AnswerTyped DEF RecordActivity
<1>9. ASSUME NEW r \in Requests, Victim(r) PROVE TypeOK'
  BY <1>9, AnswerTyped DEF Victim
<1>10. ASSUME NEW r \in Requests, Abandon(r) PROVE TypeOK'
  <2>1. [req EXCEPT ![r].answer = "error"] \in [Requests -> Request]
    BY DEF Request
  <2> QED
    BY <1>10, <2>1 DEF Abandon
<1>11. ASSUME NEW r \in Requests, Fail(r) PROVE TypeOK'
  BY <1>11, AnswerTyped DEF Fail
<1>12. ASSUME Crash PROVE TypeOK'
  <2>1. ASSUME NEW r \in Requests PROVE req'[r] \in Request
    <3>1. Ended(req[r], "error") \in Request
      BY EndedTyped
    <3>2. [req[r] EXCEPT !.answer = "error"] \in Request
      BY DEF Request
    <3> QED
      BY <1>12, <3>1, <3>2 DEF Crash
  <2> QED
    BY <1>12, <2>1 DEF Crash
<1>13. ASSUME NEW r \in Requests, RollBack(r) PROVE TypeOK'
  BY <1>13, AnswerTyped DEF RollBack
<1>14. CASE UNCHANGED vars
  BY <1>14 DEF vars
<1> QED
  BY <1>1, <1>2, <1>3, <1>4, <1>5, <1>6, <1>7, <1>8, <1>9, <1>10, <1>11, <1>12, <1>13, <1>14
     DEF Next, Proceed

----------------------------------------------------------------------------
\* The locks

\* Initially nobody holds anything.
LEMMA InitLocks == Init => LockInv
<1> SUFFICES ASSUME Init PROVE LockInv
  OBVIOUS
<1>1. TypeOK
  BY InitTyped
<1>2. Carried /\ Held /\ GapsStayEmpty
  BY DEF Init, NoRequest, Carried, Held, GapsStayEmpty, Holding, Stray
<1> QED
  BY <1>1, <1>2 DEF LockInv

\* What of a request its locks depend on.
Locks(q) == <<q.step, q.user, q.seen, q.gap>>

\* A step that stores nothing, and after which whoever has not kept its locks
\* holds nothing, leaves those of the others as they are.
LEMMA QuietStep ==
  ASSUME Held, GapsStayEmpty, doc' = doc,
         \A r \in Requests : \/ Locks(req'[r]) = Locks(req[r])
                             \/ ~Holding(r)' /\ req'[r].gap = {}
  PROVE Held' /\ GapsStayEmpty'
<1>0. \A r \in Requests :
        \/ /\ req'[r].step = req[r].step /\ req'[r].user = req[r].user
           /\ req'[r].seen = req[r].seen /\ req'[r].gap = req[r].gap
        \/ ~Holding(r)' /\ req'[r].gap = {}
  BY DEF Locks
<1>1. \A r \in Requests : \A u : LocksRow(r, u)' => LocksRow(r, u)
  BY <1>0 DEF LocksRow, Holding
<1>2. Held'
  BY <1>0, <1>1 DEF Held, Holding
<1>3. GapsStayEmpty'
  BY <1>0, <1>1 DEF GapsStayEmpty
<1> QED
  BY <1>2, <1>3

\* Who is answered holds nothing any more.
LEMMA AnsweredHoldsNothing ==
  ASSUME TypeOK, NEW r \in Requests, NEW a, Answer(r, a)
  PROVE /\ req'[r].step = "done" /\ req'[r].gap = {} /\ req'[r].answer = a
        /\ \A s \in Requests \ {r} : req'[s] = req[s]
<1>1. Ended(req[r], a).step = "done" /\ Ended(req[r], a).gap = {} /\ Ended(req[r], a).answer = a
  BY DEF Ended, NoRequest
<1> QED
  BY <1>1 DEF Answer, TypeOK

\* Whoever is free to change a row finds nobody who has selected it.
LEMMA NobodyElse ==
  ASSUME LockInv, NEW r \in Requests, Blockers(r) = {},
         req[r].step \in {"write", "upsert"}
  PROVE \A s \in Requests \ {r} :
          /\ Holding(s) => req[s].user # req[r].user
          /\ req[r].user \notin req[s].gap
          /\ ~LocksRow(s, req[r].user)
<1> SUFFICES ASSUME NEW s \in Requests \ {r}
             PROVE /\ Holding(s) => req[s].user # req[r].user
                   /\ req[r].user \notin req[s].gap
                   /\ ~LocksRow(s, req[r].user)
  OBVIOUS
<1>1. ~LocksRow(s, req[r].user) /\ req[r].user \notin req[s].gap
  BY DEF Blockers
<1>2. ASSUME Holding(s), req[s].user = req[r].user PROVE FALSE
  <2>1. req[s].step = "write" /\ req[s].seen = NoDoc
    BY <1>1, <1>2 DEF LocksRow, Holding
  <2>2. req[s].user \in req[s].gap
    BY <1>2, <2>1 DEF LockInv, Held
  <2> QED
    BY <1>1, <1>2, <2>2
<1> QED
  BY <1>1, <1>2

\* SELECT ... FOR UPDATE: what is selected was free.
LEMMA LockLocks ==
  ASSUME LockInv, NEW r \in Requests, Lock(r)
  PROVE Held' /\ GapsStayEmpty'
<1> DEFINE u == req[r].user
           gap == IF doc[u] = NoDoc THEN GapAround(u) ELSE {}
<1>1. /\ req[r].step = "lock" /\ doc' = doc /\ u \in Users
      /\ req'[r] = [req[r] EXCEPT !.step = "write", !.seen = doc[u], !.gap = gap]
      /\ \A s \in Requests \ {r} : req'[s] = req[s] /\ ~LocksRow(s, u)
  BY DEF Lock, Selected, Blockers, LockInv, TypeOK, Request
<1>2. /\ req'[r].step = "write" /\ req'[r].seen = doc[u] /\ req'[r].gap = gap
      /\ req'[r].user = u
  BY <1>1 DEF LockInv, TypeOK, Request
<1>3. \A s \in Requests \ {r} : \A v : LocksRow(s, v)' <=> LocksRow(s, v)
  BY <1>1 DEF LocksRow
<1>4. \A v : LocksRow(r, v)' => v = u /\ doc[u] # NoDoc
  BY <1>2 DEF LocksRow
<1>5. ~LocksRow(r, u)
  BY <1>1 DEF LocksRow
<1>6. doc[u] = NoDoc => u \in gap
  <2>1. SUFFICES ASSUME doc[u] = NoDoc PROVE u \in GapAround(u)
    OBVIOUS
  <2>2. ~InIndex(u)
    BY <1>1, <1>5, <2>1 DEF InIndex
  <2>3. \A w \in Users : (w \in u .. u \/ w \in u .. u) => w = u
    BY <1>1, StoreAssumption
  <2> QED
    BY <1>1, <2>2, <2>3 DEF GapAround
<1>7. \A v \in gap : doc[v] = NoDoc /\ \A s \in Requests : ~LocksRow(s, v)
  <2>1. SUFFICES ASSUME doc[u] = NoDoc, NEW v \in GapAround(u) PROVE ~InIndex(v)
    BY DEF InIndex
  <2>2. v \in Users /\ \A w \in Users : (w \in u .. v \/ w \in v .. u) => ~InIndex(w)
    BY DEF GapAround
  <2>3. v \in u .. v \/ v \in v .. u
    BY <1>1, <2>2, StoreAssumption
  <2> QED
    BY <2>2, <2>3
<1>8. ASSUME NEW s \in Requests \ {r}, Holding(s)
      PROVE doc[u] # NoDoc => req[s].user # u
  BY <1>1, <1>8 DEF LockInv, Held, LocksRow, Holding
<1>9. Held'
  <2>1. ASSUME NEW s \in Requests, Holding(s)'
        PROVE /\ req'[s].seen = doc'[req'[s].user]
              /\ IF req'[s].seen = NoDoc THEN req'[s].user \in req'[s].gap ELSE req'[s].gap = {}
              /\ \A t \in Requests \ {s} : ~LocksRow(t, req[s].user)'
    <3>1. CASE s = r
      BY <1>1, <1>2, <1>3, <1>6, <3>1
    <3>2. CASE s # r
      <4>1. Holding(s) /\ req'[s] = req[s]
        BY <1>1, <2>1, <3>2 DEF Holding
      <4>2. \A t \in Requests \ {s} : ~LocksRow(t, req[s].user)
        BY <4>1 DEF LockInv, Held
      <4>3. ~LocksRow(r, req[s].user)'
        BY <1>4, <1>8, <3>2, <4>1
      <4> QED
        BY <1>1, <1>3, <4>1, <4>2, <4>3 DEF LockInv, Held
    <3> QED
      BY <3>1, <3>2
  <2> QED
    BY <2>1 DEF Held
<1>10. GapsStayEmpty'
  <2>1. ASSUME NEW s \in Requests, NEW v \in req'[s].gap
        PROVE doc'[v] = NoDoc /\ \A t \in Requests \ {s} : ~LocksRow(t, v)'
    <3>1. CASE s = r
      BY <1>1, <1>2, <1>3, <1>7, <3>1
    <3>2. CASE s # r
      <4>1. doc[v] = NoDoc /\ \A t \in Requests \ {s} : ~LocksRow(t, v)
        BY <1>1, <2>1, <3>2 DEF LockInv, GapsStayEmpty
      <4> QED
        BY <1>1, <1>3, <1>4, <4>1
    <3> QED
      BY <3>1, <3>2
  <2> QED
    BY <2>1 DEF GapsStayEmpty
<1> QED
  BY <1>9, <1>10

\* The upsert of a transaction locks a row nobody else has selected.
LEMMA WriteLocks ==
  ASSUME LockInv, NEW r \in Requests, Write(r)
  PROVE Held' /\ GapsStayEmpty'
<1> DEFINE u == req[r].user
<1>1. /\ req[r].step = "write" /\ Blockers(r) = {} /\ doc' = doc
      /\ req'[r] = [req[r] EXCEPT !.step = "commit"]
      /\ \A s \in Requests \ {r} : req'[s] = req[s]
  BY DEF Write, Goto, LockInv, TypeOK
<1>2. /\ req'[r].step = "commit" /\ req'[r].seen = req[r].seen /\ req'[r].gap = req[r].gap
      /\ req'[r].user = u /\ Holding(r)
  BY <1>1 DEF LockInv, TypeOK, Request, Holding
<1>3. \A s \in Requests \ {r} : Holding(s) => req[s].user # u
  BY <1>1, NobodyElse
<1>4. \A s \in Requests \ {r} : u \notin req[s].gap
  BY <1>1, NobodyElse
<1>5. \A s \in Requests \ {r} : \A v : LocksRow(s, v)' <=> LocksRow(s, v)
  BY <1>1 DEF LocksRow
<1>6. \A v : LocksRow(r, v)' => v = u
  BY <1>2 DEF LocksRow
<1>7. Held'
  <2>1. ASSUME NEW s \in Requests, Holding(s)'
        PROVE /\ req'[s].seen = doc'[req'[s].user]
              /\ IF req'[s].seen = NoDoc THEN req'[s].user \in req'[s].gap ELSE req'[s].gap = {}
              /\ \A t \in Requests \ {s} : ~LocksRow(t, req[s].user)'
    <3>1. CASE s = r
      BY <1>1, <1>2, <1>5, <3>1 DEF LockInv, Held
    <3>2. CASE s # r
      <4>1. Holding(s) /\ req'[s] = req[s]
        BY <1>1, <2>1, <3>2 DEF Holding
      <4> QED
        BY <1>1, <1>3, <1>5, <1>6, <3>2, <4>1 DEF LockInv, Held
    <3> QED
      BY <3>1, <3>2
  <2> QED
    BY <2>1 DEF Held
<1>8. GapsStayEmpty'
  <2>1. ASSUME NEW s \in Requests, NEW v \in req'[s].gap
        PROVE doc'[v] = NoDoc /\ \A t \in Requests \ {s} : ~LocksRow(t, v)'
    <3>1. v \in req[s].gap
      BY <1>1, <1>2, <2>1
    <3>2. doc[v] = NoDoc /\ \A t \in Requests \ {s} : ~LocksRow(t, v)
      BY <3>1 DEF LockInv, GapsStayEmpty
    <3>3. s # r => ~LocksRow(r, v)'
      BY <1>4, <1>6, <3>1
    <3> QED
      BY <1>1, <1>5, <3>2, <3>3
  <2> QED
    BY <2>1 DEF GapsStayEmpty
<1> QED
  BY <1>7, <1>8

\* What changes a row ends what its request holds, and nobody else had selected it.
LEMMA StoreLocks ==
  ASSUME LockInv, NEW r \in Requests, NEW d,
         doc' = [doc EXCEPT ![req[r].user] = d],
         ~Holding(r)', req'[r].gap = {},
         \A s \in Requests \ {r} :
           /\ req'[s] = req[s]
           /\ Holding(s) => req[s].user # req[r].user
           /\ req[r].user \notin req[s].gap
  PROVE Held' /\ GapsStayEmpty'
<1>1. \A s \in Requests : \A u : LocksRow(s, u)' => LocksRow(s, u)
  BY DEF LocksRow, Holding
<1>2. \A v \in Users : v # req[r].user => doc'[v] = doc[v]
  BY DEF LockInv, TypeOK
<1>3. \A s \in Requests : req[s].user \in Users /\ req[s].gap \subseteq Users
  BY DEF LockInv, TypeOK, Request
<1>4. Held'
  BY <1>1, <1>2, <1>3 DEF LockInv, Held, Holding
<1>5. GapsStayEmpty'
  BY <1>1, <1>2, <1>3 DEF LockInv, GapsStayEmpty
<1> QED
  BY <1>4, <1>5

\* An upsert that is a statement of its own, and the commit of a transaction.
LEMMA UpsertLocks ==
  ASSUME LockInv, NEW r \in Requests, Upsert(r)
  PROVE Held' /\ GapsStayEmpty'
<1>1. /\ Blockers(r) = {} /\ req[r].step = "upsert"
      /\ doc' = [doc EXCEPT ![req[r].user] = {req[r].id}]
  BY DEF Upsert
<1>2. /\ ~Holding(r)' /\ req'[r].gap = {}
      /\ \A s \in Requests \ {r} : req'[s] = req[s]
  <2>1. CASE Answer(r, "error")
    BY <2>1, AnsweredHoldsNothing DEF LockInv, Holding
  <2>2. CASE Goto(r, "read")
    BY <1>1, <2>2 DEF Goto, LockInv, TypeOK, Carried, Holding, Request
  <2> QED
    BY <2>1, <2>2 DEF Upsert
<1> QED
  BY <1>1, <1>2, NobodyElse, StoreLocks

LEMMA CommitLocks ==
  ASSUME LockInv, NEW r \in Requests, Commit(r)
  PROVE Held' /\ GapsStayEmpty'
<1>1. /\ req[r].step = "commit"
      /\ doc' = [doc EXCEPT ![req[r].user] = Contents(req[r].seen) \cup {req[r].id}]
  BY DEF Commit
<1>2. /\ ~Holding(r)' /\ req'[r].gap = {}
      /\ \A s \in Requests \ {r} : req'[s] = req[s]
  <2>1. CASE Answer(r, "error")
    BY <2>1, AnsweredHoldsNothing DEF LockInv, Holding
  <2>2. CASE req' = [req EXCEPT ![r] = [@ EXCEPT !.step = "read", !.seen = NoDoc, !.gap = {}]]
    BY <2>2 DEF LockInv, TypeOK, Holding, Request
  <2> QED
    BY <2>1, <2>2 DEF Commit
<1>3. LocksRow(r, req[r].user)
  BY <1>1 DEF LocksRow
<1>4. \A s \in Requests \ {r} :
        (Holding(s) => req[s].user # req[r].user) /\ req[r].user \notin req[s].gap
  BY <1>3 DEF LockInv, Held, GapsStayEmpty
<1> QED
  BY <1>1, <1>2, <1>4, StoreLocks

----------------------------------------------------------------------------
\* Every step

LEMMA StepCarried ==
  ASSUME LockInv, [Next]_vars
  PROVE Carried'
<1> USE DEF LockInv, TypeOK, Carried, Holding, Request, Stray, Outlives
<1>0. ASSUME NEW r \in Requests, NEW a \in {"ok", "error", "deadlock"}, Answer(r, a) PROVE Carried'
  BY <1>0, AnsweredHoldsNothing
<1>1. ASSUME NEW r \in Requests, Call(r) PROVE Carried'
  <2>1. PICK u \in Users, k \in Kinds :
          req' = [req EXCEPT ![r] =
               [NoRequest(u) EXCEPT !.step = IF k = "Get" THEN "read" ELSE "begin",
                                    !.kind = k, !.id = IF k = "Get" THEN 0 ELSE ops + 1]]
    BY <1>1 DEF Call
  <2> QED
    BY <2>1 DEF NoRequest
<1>2. ASSUME NEW r \in Requests, Begin(r) PROVE Carried'
  BY <1>2 DEF Begin, Goto
<1>3. ASSUME NEW r \in Requests, Lock(r) PROVE Carried'
  BY <1>3 DEF Lock, Selected
<1>4. ASSUME NEW r \in Requests, Write(r) PROVE Carried'
  BY <1>4 DEF Write, Goto
<1>5. ASSUME NEW r \in Requests, Commit(r) PROVE Carried'
  <2>1. CASE /\ ~Stray(r)
             /\ req' = [req EXCEPT ![r] = [@ EXCEPT !.step = "read", !.seen = NoDoc, !.gap = {}]]
    BY <1>5, <2>1 DEF Commit
  <2> QED
    BY <1>0, <1>5, <2>1 DEF Commit
<1>6. ASSUME NEW r \in Requests, Upsert(r) PROVE Carried'
  <2>1. CASE ~Stray(r) /\ Goto(r, "read")
    BY <1>6, <2>1 DEF Upsert, Goto
  <2> QED
    BY <1>0, <1>6, <2>1 DEF Upsert
<1>7. ASSUME NEW r \in Requests, FindByUserID(r) PROVE Carried'
  BY <1>7 DEF FindByUserID, Ended, NoRequest
<1>8. ASSUME NEW r \in Requests, RecordActivity(r) \/ Victim(r) \/ RollBack(r) \/ Fail(r)
      PROVE Carried'
  BY <1>0, <1>8 DEF RecordActivity, Victim, RollBack, Fail
<1>9. ASSUME NEW r \in Requests, Abandon(r) PROVE Carried'
  BY <1>9 DEF Abandon
<1>10. ASSUME Crash PROVE Carried'
  BY <1>10 DEF Crash, Ended, NoRequest
<1>11. CASE UNCHANGED vars
  BY <1>11 DEF vars
<1> QED
  BY <1>1, <1>2, <1>3, <1>4, <1>5, <1>6, <1>7, <1>8, <1>9, <1>10, <1>11 DEF Next, Proceed

LEMMA StepLocks ==
  ASSUME LockInv, [Next]_vars
  PROVE Held' /\ GapsStayEmpty'
<1>1. Held /\ GapsStayEmpty
  BY DEF LockInv
<1>2. ASSUME NEW r \in Requests, Call(r) PROVE Held' /\ GapsStayEmpty'
  BY <1>1, <1>2, QuietStep DEF Call, NoRequest, Holding, LockInv, TypeOK
<1>3. ASSUME NEW r \in Requests, Begin(r) \/ Abandon(r) PROVE Held' /\ GapsStayEmpty'
  <2>1. CASE Begin(r)
    <3>1. req[r].gap = {}
      BY <2>1 DEF Begin, LockInv, Carried, Holding
    <3> QED
      BY <1>1, <2>1, <3>1, QuietStep DEF Begin, Goto, Holding, LockInv, TypeOK, Request
  <2>2. CASE Abandon(r)
    <3>1. \A s \in Requests : Locks(req'[s]) = Locks(req[s])
      BY <2>2 DEF Abandon, Locks, LockInv, TypeOK, Request
    <3> QED
      BY <1>1, <2>2, <3>1, QuietStep DEF Abandon
  <2> QED
    BY <1>3, <2>1, <2>2
<1>4. ASSUME NEW r \in Requests, FindByUserID(r) PROVE Held' /\ GapsStayEmpty'
  <2>1. req[r].gap = {}
    BY <1>4 DEF FindByUserID, LockInv, Carried, Holding
  <2> QED
    BY <1>1, <1>4, <2>1, QuietStep
       DEF FindByUserID, Ended, NoRequest, Holding, LockInv, TypeOK, Request
<1>5. ASSUME NEW r \in Requests, RecordActivity(r) \/ Victim(r) \/ RollBack(r) \/ Fail(r)
      PROVE Held' /\ GapsStayEmpty'
  BY <1>1, <1>5, QuietStep
     DEF RecordActivity, Victim, RollBack, Fail, Answer, Ended, NoRequest, Holding, LockInv, TypeOK
<1>6. ASSUME Crash PROVE Held' /\ GapsStayEmpty'
  <2>1. \A r \in Requests : \/ Locks(req'[r]) = Locks(req[r])
                            \/ ~Holding(r)' /\ req'[r].gap = {}
    BY <1>6 DEF Crash, Ended, NoRequest, Holding, LockInv, TypeOK, Locks, Request
  <2> QED
    BY <1>1, <1>6, <2>1, QuietStep DEF Crash
<1>7. CASE UNCHANGED vars
  BY <1>1, <1>7, QuietStep DEF vars
<1> QED
  BY <1>2, <1>3, <1>4, <1>5, <1>6, <1>7, LockLocks, WriteLocks, CommitLocks, UpsertLocks
     DEF Next, Proceed

THEOREM LocksHold == Spec => []LockInv
<1>1. LockInv /\ [Next]_vars => LockInv'
  BY StepTyped, StepCarried, StepLocks DEF LockInv
<1> QED
  BY <1>1, InitLocks, PTL DEF Spec

\* The tables and the requests keep their types.
THEOREM TypeCorrect == Spec => []TypeOK
BY LocksHold, PTL DEF LockInv

\* No transaction commits on a document that is not the stored one.  (Mutate)
THEOREM SnapshotCurrent == Spec => []SnapshotIsCurrent
<1>1. LockInv => SnapshotIsCurrent
  BY DEF LockInv, Held, Holding, SnapshotIsCurrent
<1> QED
  BY <1>1, LocksHold, PTL

----------------------------------------------------------------------------
\* Deadlocks

\* Once there is a row a request on it either waits for nobody or holds nothing
\* anybody waits for, so no cycle is smallest with it.
LEMMA CyclesAreOfFirstWrites ==
  ASSUME LockInv, NEW S \in SUBSET Requests, Cycle(S), NEW r \in S
  PROVE doc[req[r].user] = NoDoc
<1> SUFFICES ASSUME doc[req[r].user] # NoDoc PROVE FALSE
  OBVIOUS
<1>1. PICK s \in S : s \in Blockers(r)
  BY DEF Cycle, Waiting
<1>2. s # r /\ req[r].step \in {"lock", "write", "upsert"}
  BY <1>1 DEF Blockers
<1>3. \A t \in Requests : req[r].user \notin req[t].gap
  BY DEF LockInv, GapsStayEmpty
<1>4. req[r].step # "write"
  <2>1. SUFFICES ASSUME req[r].step = "write" PROVE FALSE
    OBVIOUS
  <2>2. \A t \in Requests \ {r} : ~LocksRow(t, req[r].user)
    BY <2>1 DEF LockInv, Held, Holding
  <2> QED
    BY <1>1, <1>2, <1>3, <2>2 DEF Blockers
<1>5. ~Holding(r) /\ req[r].gap = {}
  BY <1>2, <1>4 DEF Holding, LockInv, Carried
<1>6. \A t \in S : r \notin Blockers(t)
  BY <1>5 DEF Blockers, LocksRow, Holding
<1>7. Waiting(S \ {r})
  BY <1>1, <1>2, <1>6 DEF Cycle, Waiting
<1>8. S \ {r} = S
  BY <1>7 DEF Cycle
<1> QED
  BY <1>8

LEMMA OnlyVictimsHearOfDeadlock ==
  ASSUME LockInv, [Next]_vars, NEW r \in Requests,
         req[r].step # "done", req'[r].answer = "deadlock"
  PROVE Victim(r)
<1> USE DEF LockInv, TypeOK, Carried
<1>1. req[r].answer # "deadlock"
  BY DEF Stray
<1>2. \A q : Ended(q, "ok").answer = "ok" /\ Ended(q, "error").answer = "error"
  BY DEF Ended, NoRequest
<1>3. ASSUME NEW s \in Requests, NEW step, Goto(s, step) PROVE FALSE
  BY <1>1, <1>3 DEF Goto, Request
<1>4. ASSUME NEW s \in Requests, Call(s) \/ Begin(s) \/ Lock(s) \/ Write(s) \/ Abandon(s)
      PROVE FALSE
  <2>1. CASE Call(s)
    BY <1>1, <2>1 DEF Call
  <2>2. CASE Begin(s) \/ Write(s)
    BY <1>3, <2>2 DEF Begin, Write
  <2>3. CASE Lock(s)
    BY <1>1, <2>3 DEF Lock, Selected, Request
  <2>4. CASE Abandon(s)
    BY <1>1, <2>4 DEF Abandon, Request
  <2> QED
    BY <1>4, <2>1, <2>2, <2>3, <2>4
<1>5. ASSUME NEW s \in Requests, Commit(s) \/ Upsert(s) PROVE FALSE
  <2>1. ~Answer(s, "error")
    BY <1>1, <1>2 DEF Answer
  <2>2. CASE Upsert(s)
    BY <1>3, <2>1, <2>2 DEF Upsert
  <2>3. CASE Commit(s)
    BY <1>1, <2>1, <2>3 DEF Commit, Request
  <2> QED
    BY <1>5, <2>2, <2>3
<1>6. ASSUME NEW s \in Requests, FindByUserID(s) \/ RecordActivity(s) \/ RollBack(s) \/ Fail(s)
      PROVE FALSE
  BY <1>1, <1>2, <1>6 DEF FindByUserID, RecordActivity, RollBack, Fail, Answer, Request
<1>7. ASSUME NEW s \in Requests, Victim(s) PROVE s = r
  BY <1>1, <1>7 DEF Victim, Answer
<1>8. ASSUME Crash PROVE FALSE
  BY <1>1, <1>2, <1>8 DEF Crash, Request
<1>9. CASE UNCHANGED vars
  BY <1>1, <1>9 DEF vars
<1> QED
  BY <1>4, <1>5, <1>6, <1>7, <1>8, <1>9 DEF Next, Proceed

\* Once a user has a row no call on it is ever given up for another.  (Mutate)
THEOREM FirstWritesOnly == Spec => OnlyFirstWritesDeadlock
<1>1. LockInv /\ [Next]_vars =>
        [\A r \in Requests :
           req[r].step # "done" /\ req'[r].answer = "deadlock" => doc[req[r].user] = NoDoc]_vars
  <2>1. ASSUME LockInv, [Next]_vars, NEW r \in Requests,
               req[r].step # "done", req'[r].answer = "deadlock"
        PROVE doc[req[r].user] = NoDoc
    BY <2>1, OnlyVictimsHearOfDeadlock, CyclesAreOfFirstWrites DEF Victim
  <2> QED
    BY <2>1
<1> QED
  BY <1>1, LocksHold, PTL DEF Spec, OnlyFirstWritesDeadlock

-----------------------------------------------------------------------------
\* ProgressStore implements AtomicProgress: each call changes its document in one
\* step, the commit of Mutate or the upsert of Save, and at most once.  The commit
\* is where it could fail: it stores what was read at the SELECT with the use case
\* applied, which is an atomic change only because what was read is still what is
\* stored (LockInv).


\* Which calls are at which steps.
KindsFit ==
  \A r \in Requests :
    /\ req[r].step = "begin" => req[r].kind \in Changes
    /\ req[r].step \in {"lock", "write", "commit"} => req[r].kind \in Mutations
    /\ req[r].step = "upsert" => req[r].kind = "Save"

RefInv == LockInv /\ KindsFit

----------------------------------------------------------------------------
\* The invariant

LEMMA InitKinds == Init => KindsFit
BY DEF Init, KindsFit, NoRequest

LEMMA StepKinds ==
  ASSUME RefInv, [Next]_vars
  PROVE KindsFit'
<1> USE DEF RefInv, LockInv, TypeOK, KindsFit, Request
<1>0. ASSUME NEW r \in Requests, NEW a, Answer(r, a) PROVE KindsFit'
  BY <1>0, AnsweredHoldsNothing
<1>1. ASSUME NEW r \in Requests, Call(r) PROVE KindsFit'
  <2>1. PICK u \in Users, k \in Kinds :
          req' = [req EXCEPT ![r] =
               [NoRequest(u) EXCEPT !.step = IF k = "Get" THEN "read" ELSE "begin",
                                    !.kind = k, !.id = IF k = "Get" THEN 0 ELSE ops + 1]]
    BY <1>1 DEF Call
  <2> QED
    BY <2>1 DEF NoRequest, Kinds
<1>2. ASSUME NEW r \in Requests, Begin(r) PROVE KindsFit'
  BY <1>2 DEF Begin, Goto, Changes
<1>3. ASSUME NEW r \in Requests, Lock(r) PROVE KindsFit'
  BY <1>3 DEF Lock, Selected
<1>4. ASSUME NEW r \in Requests, Write(r) PROVE KindsFit'
  BY <1>4 DEF Write, Goto
<1>5. ASSUME NEW r \in Requests, Commit(r) PROVE KindsFit'
  <2>1. CASE req' = [req EXCEPT ![r] = [@ EXCEPT !.step = "read", !.seen = NoDoc, !.gap = {}]]
    BY <2>1
  <2> QED
    BY <1>0, <1>5, <2>1 DEF Commit
<1>6. ASSUME NEW r \in Requests, Upsert(r) PROVE KindsFit'
  <2>1. CASE Goto(r, "read")
    BY <2>1 DEF Goto
  <2> QED
    BY <1>0, <1>6, <2>1 DEF Upsert
<1>7. ASSUME NEW r \in Requests, FindByUserID(r) PROVE KindsFit'
  BY <1>7 DEF FindByUserID, Ended, NoRequest
<1>8. ASSUME NEW r \in Requests, RecordActivity(r) \/ Victim(r) \/ RollBack(r) \/ Fail(r)
      PROVE KindsFit'
  BY <1>0, <1>8 DEF RecordActivity, Victim, RollBack, Fail
<1>9. ASSUME NEW r \in Requests, Abandon(r) PROVE KindsFit'
  BY <1>9 DEF Abandon
<1>10. ASSUME Crash PROVE KindsFit'
  BY <1>10 DEF Crash, Ended, NoRequest
<1>11. CASE UNCHANGED vars
  BY <1>11 DEF vars
<1> QED
  BY <1>1, <1>2, <1>3, <1>4, <1>5, <1>6, <1>7, <1>8, <1>9, <1>10, <1>11 DEF Next, Proceed

LEMMA StepRefInv == RefInv /\ [Next]_vars => RefInv'
BY StepTyped, StepCarried, StepLocks, StepKinds DEF RefInv, LockInv

----------------------------------------------------------------------------
\* What the callers of the abstract store see

\* The calls as a whole: those of AtomicProgress.
call == [r \in Requests |-> CallOf(r)]

LEMMA CallFields ==
  ASSUME NEW r \in Requests
  PROVE /\ call[r] = CallOf(r) /\ CallOf(r).phase = Phase(r)
        /\ Phase(r) # "idle" =>
             /\ CallOf(r).user = req[r].user /\ CallOf(r).kind = req[r].kind
             /\ CallOf(r).id = req[r].id
        /\ TypeOK => CallOf(r).reply = req[r].reply
BY DEF call, CallOf, Ended, NoRequest, TypeOK, Request

\* The phase of a call that is under way at one of the steps that may linger.
LEMMA PhaseOfOutlives ==
  ASSUME NEW r \in Requests, Outlives(req[r])
  PROVE Phase(r) = IF Stray(r) THEN "lingers" ELSE "called"
BY DEF Phase, Outlives

\* A request that stays where it is stays the same call.
LEMMA SameRequest ==
  ASSUME NEW s \in Requests, req'[s] = req[s]
  PROVE CallOf(s)' = CallOf(s)
BY DEF CallOf, Phase, Stray

\* Only r moves: so does its call alone.
LEMMA OneCall ==
  ASSUME NEW r \in Requests, NEW c,
         \A s \in Requests \ {r} : req'[s] = req[s], CallOf(r)' = c
  PROVE call' = [call EXCEPT ![r] = c]
BY SameRequest DEF call

\* And none if the call of r is as before.
LEMMA NoCallMoves ==
  ASSUME \A s \in Requests : CallOf(s)' = CallOf(s)
  PROVE call' = call
BY DEF call

\* An answered request is an idle call, with the reply it carried.
LEMMA EndedIsIdle ==
  ASSUME TypeOK, NEW r \in Requests, NEW q \in Request, NEW a, req'[r] = Ended(q, a)
  PROVE CallOf(r)' = [phase |-> "idle", user |-> Anyone, kind |-> "Get", id |-> 0,
                      reply |-> q.reply]
BY DEF CallOf, Phase, Stray, Ended, NoRequest, Request

LEMMA IdleCall ==
  ASSUME NEW c
  PROVE Atomic!Idle(c) = [phase |-> "idle", user |-> Anyone, kind |-> "Get", id |-> 0,
                          reply |-> c.reply]
<1>1. Atomic!Anyone = Anyone
  BY Zenon DEF Atomic!Anyone, Anyone
<1> QED
  BY <1>1 DEF Atomic!Idle, Atomic!NoCall

LEMMA AnsweredIsIdle ==
  ASSUME TypeOK, NEW r \in Requests, NEW a, Answer(r, a)
  PROVE call' = [call EXCEPT ![r] = Atomic!Idle(@)]
<1>1. req'[r] = Ended(req[r], a) /\ \A s \in Requests \ {r} : req'[s] = req[s]
  BY DEF Answer, TypeOK
<1>2. CallOf(r)' = Atomic!Idle(call[r])
  <2>1. req[r] \in Request /\ call[r].reply = req[r].reply
    BY CallFields DEF TypeOK
  <2>2. CallOf(r)' = [phase |-> "idle", user |-> Anyone, kind |-> "Get", id |-> 0,
                      reply |-> call[r].reply]
    BY <1>1, <2>1, EndedIsIdle
  <2> QED
    BY <2>2, IdleCall
<1>3. call' = [call EXCEPT ![r] = Atomic!Idle(call[r])]
  BY <1>1, <1>2, OneCall
<1> QED
  BY <1>3
----------------------------------------------------------------------------
\* Initial states and steps

LEMMA InitRefines == Init => Atomic!Init
<1>1. ASSUME Init, NEW r \in Requests PROVE CallOf(r) = Atomic!NoCall(Atomic!Anyone)
  <2>1. Atomic!Anyone = Anyone
    BY Zenon DEF Atomic!Anyone, Anyone
  <2>2. CallOf(r) = [phase |-> "idle", user |-> Anyone, kind |-> "Get", id |-> 0, reply |-> NoDoc]
    BY <1>1 DEF Init, CallOf, Phase, Stray, Ended, NoRequest
  <2> QED
    BY <2>1, <2>2 DEF Atomic!NoCall
<1> QED
  BY <1>1 DEF Init, Atomic!Init, call

\* One call fails.
LEMMA OneFails ==
  ASSUME NEW r \in Requests, NEW c \in Atomic!AfterFailure(call[r]),
         call' = [call EXCEPT ![r] = c], UNCHANGED <<doc, ops>>
  PROVE Atomic!Fail
<1>1. \A s \in Requests : call'[s] \in Atomic!AfterFailure(call[s])
  BY DEF call, Atomic!AfterFailure
<1>2. call' \in [Requests -> UNION {Atomic!AfterFailure(call[s]) : s \in Requests}]
  BY <1>1 DEF call
<1> QED
  BY <1>1, <1>2 DEF Atomic!Fail, call

LEMMA NewCall ==
  ASSUME NEW u, NEW k, NEW i
  PROVE [Atomic!NoCall(u) EXCEPT !.phase = "called", !.kind = k, !.id = i]
          = [phase |-> "called", user |-> u, kind |-> k, id |-> i, reply |-> NoDoc]
<1>1. [Atomic!NoCall(u) EXCEPT !.phase = "called"]
        = [phase |-> "called", user |-> u, kind |-> "Get", id |-> 0, reply |-> NoDoc]
  BY DEF Atomic!NoCall
<1>2. [[phase |-> "called", user |-> u, kind |-> "Get", id |-> 0, reply |-> NoDoc]
         EXCEPT !.kind = k]
        = [phase |-> "called", user |-> u, kind |-> k, id |-> 0, reply |-> NoDoc]
  OBVIOUS
<1>3. [[phase |-> "called", user |-> u, kind |-> k, id |-> 0, reply |-> NoDoc] EXCEPT !.id = i]
        = [phase |-> "called", user |-> u, kind |-> k, id |-> i, reply |-> NoDoc]
  OBVIOUS
<1> QED
  BY <1>1, <1>2, <1>3

LEMMA CallRefines ==
  ASSUME RefInv, NEW r \in Requests, Call(r)
  PROVE Atomic!Call(r)
<1>1. PICK u \in Users, k \in Kinds :
        /\ k \in Changes => ops < MaxOps
        /\ ops' = IF k \in Changes THEN ops + 1 ELSE ops
        /\ req' = [req EXCEPT ![r] =
             [NoRequest(u) EXCEPT !.step = IF k = "Get" THEN "read" ELSE "begin",
                                  !.kind = k, !.id = IF k = "Get" THEN 0 ELSE ops + 1]]
  BY DEF Call
<1>2. k \in Changes \/ (k = "Get" /\ k \notin Changes)
  BY DEF Kinds, Changes, Mutations
<1>3. /\ req'[r] = [NoRequest(u) EXCEPT !.step = IF k = "Get" THEN "read" ELSE "begin",
                      !.kind = k, !.id = IF k = "Get" THEN 0 ELSE ops + 1]
      /\ \A s \in Requests \ {r} : req'[s] = req[s]
  BY <1>1 DEF RefInv, LockInv, TypeOK
<1>4. CallOf(r)' = [phase |-> "called", user |-> u, kind |-> k,
                    id |-> IF k \in Changes THEN ops + 1 ELSE 0, reply |-> NoDoc]
  BY <1>2, <1>3 DEF CallOf, Phase, Stray, NoRequest, Changes, Mutations
<1>5. CallOf(r)' = [Atomic!NoCall(u) EXCEPT !.phase = "called", !.kind = k,
                      !.id = IF k \in Changes THEN ops + 1 ELSE 0]
  BY <1>4, NewCall
<1>6. call' = [call EXCEPT ![r] =
        [Atomic!NoCall(u) EXCEPT !.phase = "called", !.kind = k,
                                 !.id = IF k \in Changes THEN ops + 1 ELSE 0]]
  BY <1>3, <1>5, OneCall
<1>7. call[r].phase = "idle" /\ doc' = doc
  BY CallFields DEF Call, Phase, Stray
<1>8. k \in Atomic!Kinds /\ Atomic!Changes = Changes
  BY DEF Atomic!Kinds, Atomic!Changes, Kinds, Changes, Mutations
<1> QED
  BY <1>1, <1>6, <1>7, <1>8 DEF Atomic!Call, call

\* The steps between the call and its effect, and after its answer.
LEMMA QuietRefines ==
  ASSUME RefInv, NEW r \in Requests, Begin(r) \/ Lock(r) \/ Write(r) \/ RecordActivity(r)
  PROVE UNCHANGED Atomic!vars
<1> USE DEF RefInv, LockInv, TypeOK
<1>1. ASSUME NEW s \in Requests \ {r} PROVE CallOf(s)' = CallOf(s)
  <2>1. req'[s] = req[s]
    BY DEF Begin, Lock, Write, RecordActivity, Goto, Selected, Answer
  <2> QED
    BY <2>1, SameRequest
<1>2. CallOf(r)' = CallOf(r)
  <2>1. CASE Begin(r)
    BY <2>1 DEF Begin, Goto, CallOf, Phase, Stray, Carried, Outlives, Request
  <2>2. CASE Lock(r)
    BY <2>2 DEF Lock, Selected, CallOf, Phase, Stray, Carried, Outlives, Request
  <2>3. CASE Write(r)
    BY <2>3 DEF Write, Goto, CallOf, Phase, Stray, Request
  <2>4. CASE RecordActivity(r)
    <3>1. req'[r] = Ended(req[r], "ok") /\ req[r] \in Request
      BY <2>4 DEF RecordActivity, Answer
    <3>2. CallOf(r)' = [phase |-> "idle", user |-> Anyone, kind |-> "Get", id |-> 0,
                        reply |-> req[r].reply]
      BY <3>1, EndedIsIdle
    <3> QED
      BY <2>4, <3>1, <3>2
         DEF RecordActivity, CallOf, Phase, Stray, Carried, Outlives, Ended, NoRequest
  <2> QED
    BY <2>1, <2>2, <2>3, <2>4
<1>3. call' = call
  BY <1>1, <1>2, NoCallMoves
<1>4. doc' = doc /\ ops' = ops
  BY DEF Begin, Lock, Selected, Write, RecordActivity
<1>5. UNCHANGED <<doc, ops, call>>
  BY <1>3, <1>4
<1> QED
  BY <1>5 DEF Atomic!vars, call

\* The commit stores what was selected with the effect of the call: what was
\* selected is what is stored.
LEMMA CommitRefines ==
  ASSUME RefInv, NEW r \in Requests, Commit(r)
  PROVE Atomic!Apply(r)
<1> USE DEF RefInv, LockInv, TypeOK
<1>1. /\ req[r].step = "commit" /\ req[r].kind \in Mutations
      /\ doc' = [doc EXCEPT ![req[r].user] = Contents(req[r].seen) \cup {req[r].id}]
      /\ ops' = ops /\ req[r].seen = doc[req[r].user]
  BY DEF Commit, KindsFit, Held, Holding
<1>2. /\ call[r].phase = IF Stray(r) THEN "lingers" ELSE "called"
      /\ call[r].user = req[r].user /\ call[r].kind = req[r].kind /\ call[r].id = req[r].id
  BY <1>1, CallFields, PhaseOfOutlives DEF Outlives
<1>3. Atomic!Effect(call[r].kind, call[r].id, doc[call[r].user])
        = Contents(req[r].seen) \cup {req[r].id}
  BY <1>1, <1>2 DEF Atomic!Effect, Atomic!Contents, Contents, Mutations
<1>4. doc' = [doc EXCEPT ![call[r].user] = Atomic!Effect(call[r].kind, call[r].id, @)]
  BY <1>1, <1>2, <1>3
<1>5. \/ call[r].phase = "called" /\ call' = [call EXCEPT ![r].phase = "applied"]
      \/ call' = [call EXCEPT ![r] = Atomic!Idle(@)]
  <2>1. CASE Answer(r, "error")
    BY <2>1, AnsweredIsIdle
  <2>2. CASE /\ ~Stray(r)
             /\ req' = [req EXCEPT ![r] = [@ EXCEPT !.step = "read", !.seen = NoDoc, !.gap = {}]]
    <3>1. CallOf(r)' = [CallOf(r) EXCEPT !.phase = "applied"]
      BY <1>1, <2>2 DEF CallOf, Phase, Stray, Request, Mutations
    <3>2. \A s \in Requests \ {r} : req'[s] = req[s]
      BY <2>2
    <3>3. call' = [call EXCEPT ![r] = [CallOf(r) EXCEPT !.phase = "applied"]]
      BY <3>1, <3>2, OneCall
    <3> QED
      BY <1>2, <2>2, <3>3 DEF call
  <2> QED
    BY <2>1, <2>2 DEF Commit
<1>6. call[r].kind \in Atomic!Changes
  BY <1>1, <1>2 DEF Atomic!Changes, Mutations
<1> QED
  BY <1>1, <1>2, <1>4, <1>5, <1>6 DEF Atomic!Apply, call

LEMMA UpsertRefines ==
  ASSUME RefInv, NEW r \in Requests, Upsert(r)
  PROVE Atomic!Apply(r)
<1> USE DEF RefInv, LockInv, TypeOK
<1>1. /\ req[r].step = "upsert" /\ req[r].kind = "Save"
      /\ doc' = [doc EXCEPT ![req[r].user] = {req[r].id}] /\ ops' = ops
  BY DEF Upsert, KindsFit
<1>2. /\ call[r].phase = IF Stray(r) THEN "lingers" ELSE "called"
      /\ call[r].user = req[r].user /\ call[r].kind = "Save" /\ call[r].id = req[r].id
  BY <1>1, CallFields, PhaseOfOutlives DEF Outlives
<1>3. doc' = [doc EXCEPT ![call[r].user] = Atomic!Effect(call[r].kind, call[r].id, @)]
  BY <1>1, <1>2 DEF Atomic!Effect
<1>4. \/ call[r].phase = "called" /\ call' = [call EXCEPT ![r].phase = "applied"]
      \/ call' = [call EXCEPT ![r] = Atomic!Idle(@)]
  <2>1. CASE Answer(r, "error")
    BY <2>1, AnsweredIsIdle
  <2>2. CASE ~Stray(r) /\ Goto(r, "read")
    <3>1. CallOf(r)' = [CallOf(r) EXCEPT !.phase = "applied"]
      BY <1>1, <2>2 DEF Goto, CallOf, Phase, Stray, Request
    <3>2. \A s \in Requests \ {r} : req'[s] = req[s]
      BY <2>2 DEF Goto
    <3>3. call' = [call EXCEPT ![r] = [CallOf(r) EXCEPT !.phase = "applied"]]
      BY <3>1, <3>2, OneCall
    <3> QED
      BY <1>2, <2>2, <3>3 DEF call
  <2> QED
    BY <2>1, <2>2 DEF Upsert
<1>5. call[r].kind \in Atomic!Changes
  BY <1>2 DEF Atomic!Changes
<1> QED
  BY <1>1, <1>2, <1>3, <1>4, <1>5 DEF Atomic!Apply, call

LEMMA ReadRefines ==
  ASSUME RefInv, NEW r \in Requests, FindByUserID(r)
  PROVE Atomic!Reply(r)
<1> USE DEF RefInv, LockInv, TypeOK
<1> DEFINE found == [req[r] EXCEPT !.reply = doc[req[r].user]]
<1>1. /\ req[r].step = "read" /\ doc' = doc /\ ops' = ops
      /\ req'[r] = IF req[r].kind \in {"Get", "Merge"} THEN Ended(found, "ok")
                                           ELSE [found EXCEPT !.step = "activity"]
      /\ \A s \in Requests \ {r} : req'[s] = req[s]
  BY DEF FindByUserID
<1>2. /\ call[r].phase = IF req[r].kind = "Get" THEN "called" ELSE "applied"
      /\ call[r].user = req[r].user /\ call[r].kind = req[r].kind
  BY <1>1, CallFields DEF Phase, Carried, Outlives
<1>3. found \in Request /\ found.reply = doc[req[r].user]
  BY DEF Request
<1>4. CallOf(r)' = [phase |-> "idle", user |-> Anyone, kind |-> "Get", id |-> 0,
                    reply |-> doc[req[r].user]]
  <2>1. CASE req[r].kind \in {"Get", "Merge"}
    BY <1>1, <1>3, <2>1, EndedIsIdle
  <2>2. CASE req[r].kind \notin {"Get", "Merge"}
    <3>1. /\ req'[r].step = "activity" /\ req'[r].reply = doc[req[r].user]
          /\ req'[r].answer = "none"
      BY <1>1, <2>2 DEF Request, Carried, Stray, Outlives
    <3> QED
      BY <3>1 DEF CallOf, Phase, Stray, Ended, NoRequest
  <2> QED
    BY <2>1, <2>2
<1>5. CallOf(r)' = [Atomic!Idle(call[r]) EXCEPT !.reply = doc[call[r].user]]
  BY <1>2, <1>4, IdleCall
<1>6. call' = [call EXCEPT ![r] = [Atomic!Idle(call[r]) EXCEPT !.reply = doc[call[r].user]]]
  BY <1>1, <1>5, OneCall
<1> QED
  BY <1>1, <1>2, <1>6 DEF Atomic!Reply, call

\* A call that is with the database may be one that changes the document ...
LEMMA SentCall ==
  ASSUME RefInv, NEW r \in Requests, Outlives(req[r]), ~Stray(r)
  PROVE call[r].phase = "called" /\ call[r].kind \in Atomic!Changes
<1>1. req[r].kind \in Atomic!Changes
  BY DEF RefInv, KindsFit, Outlives, Mutations, Atomic!Changes
<1> QED
  BY <1>1, CallFields, PhaseOfOutlives

\* ... and lingers when its caller is gone.
LEMMA LeftBehind ==
  ASSUME RefInv, NEW r \in Requests, Outlives(req[r]),
         req'[r] = [req[r] EXCEPT !.answer = "error"]
  PROVE CallOf(r)' = [call[r] EXCEPT !.phase = "lingers"]
<1>1. /\ req'[r].step = req[r].step /\ req'[r].user = req[r].user
      /\ req'[r].kind = req[r].kind /\ req'[r].id = req[r].id
      /\ req'[r].reply = req[r].reply /\ req'[r].answer = "error"
  BY DEF RefInv, LockInv, TypeOK, Request
<1>2. Phase(r)' = "lingers" /\ Phase(r) # "idle"
  BY <1>1, PhaseOfOutlives DEF Phase, Stray, Outlives
<1> QED
  BY <1>1, <1>2 DEF call, CallOf

LEMMA FailureRefines ==
  ASSUME RefInv, NEW r \in Requests, Victim(r) \/ RollBack(r) \/ Fail(r) \/ Abandon(r)
  PROVE Atomic!Fail
<1> USE DEF RefInv, LockInv, TypeOK
<1>1. ASSUME NEW a, Answer(r, a) PROVE call' = [call EXCEPT ![r] = Atomic!Idle(call[r])]
  BY <1>1, AnsweredIsIdle
<1>2. CASE Victim(r) \/ RollBack(r) \/ Fail(r)
  <2>1. call' = [call EXCEPT ![r] = Atomic!Idle(call[r])]
    BY <1>1, <1>2 DEF Victim, RollBack, Fail
  <2>2. Atomic!Idle(call[r]) \in Atomic!AfterFailure(call[r])
    BY DEF Atomic!AfterFailure
  <2> QED
    BY <1>2, <2>1, <2>2, OneFails DEF Victim, RollBack, Fail
<1>3. CASE Abandon(r)
  <2>1. Outlives(req[r]) /\ ~Stray(r) /\ req'[r] = [req[r] EXCEPT !.answer = "error"]
    BY <1>3 DEF Abandon
  <2>2. call[r].phase = "called" /\ call[r].kind \in Atomic!Changes
    BY <2>1, SentCall
  <2>3. CallOf(r)' = [call[r] EXCEPT !.phase = "lingers"]
    BY <2>1, LeftBehind
  <2>4. \A s \in Requests \ {r} : req'[s] = req[s]
    BY <1>3 DEF Abandon
  <2>5. call' = [call EXCEPT ![r] = [call[r] EXCEPT !.phase = "lingers"]]
    BY <2>3, <2>4, OneCall
  <2>6. [call[r] EXCEPT !.phase = "lingers"] \in Atomic!AfterFailure(call[r])
    BY <2>2 DEF Atomic!AfterFailure
  <2> QED
    BY <1>3, <2>5, <2>6, OneFails DEF Abandon
<1> QED
  BY <1>2, <1>3

\* A crash fails every call that is not idle; what is with the database lingers.
LEMMA CrashRefines ==
  ASSUME RefInv, Crash
  PROVE Atomic!Fail
<1> USE DEF RefInv, LockInv, TypeOK
<1>1. ASSUME NEW r \in Requests
      PROVE CallOf(r)' \in Atomic!AfterFailure(call[r])
  <2>1. CASE req[r].step = "done"
    <3>1. CallOf(r)' = call[r]
      BY <2>1, SameRequest DEF Crash, Outlives, call
    <3> QED
      BY <3>1 DEF Atomic!AfterFailure
  <2>2. CASE Outlives(req[r])
    <3>1. req'[r] = [req[r] EXCEPT !.answer = "error"]
      BY <2>2 DEF Crash, Outlives
    <3>2. CallOf(r)' = [call[r] EXCEPT !.phase = "lingers"]
      BY <2>2, <3>1, LeftBehind
    <3>3. CASE Stray(r)
      <4>1. call[r].phase = "lingers"
        BY <2>2, <3>3, CallFields, PhaseOfOutlives
      <4>2. CallOf(r)' = call[r]
        BY <3>2, <4>1 DEF call, CallOf
      <4> QED
        BY <4>2 DEF Atomic!AfterFailure
    <3>4. CASE ~Stray(r)
      BY <2>2, <3>2, <3>4, SentCall DEF Atomic!AfterFailure
    <3> QED
      BY <3>3, <3>4
  <2>3. CASE req[r].step # "done" /\ ~Outlives(req[r])
    <3>1. req'[r] = Ended(req[r], "error") /\ req[r] \in Request
      BY <2>3 DEF Crash
    <3>2. CallOf(r)' = Atomic!Idle(call[r])
      BY <3>1, EndedIsIdle, IdleCall, CallFields
    <3> QED
      BY <3>2 DEF Atomic!AfterFailure
  <2> QED
    BY <2>1, <2>2, <2>3
<1>2. \A r \in Requests : call'[r] \in Atomic!AfterFailure(call[r])
  BY <1>1 DEF call
<1>3. call' \in [Requests -> UNION {Atomic!AfterFailure(call[r]) : r \in Requests}]
  BY <1>2 DEF call
<1> QED
  BY <1>2, <1>3 DEF Atomic!Fail, Crash, call

LEMMA StepRefines ==
  ASSUME RefInv, [Next]_vars
  PROVE [Atomic!Next]_(Atomic!vars)
<1>1. CASE UNCHANGED vars
  <2>1. call' = call
    BY <1>1, SameRequest, NoCallMoves DEF vars
  <2> QED
    BY <1>1, <2>1 DEF vars, Atomic!vars, call
<1>2. CASE Next
  BY <1>2, CallRefines, QuietRefines, CommitRefines, UpsertRefines, ReadRefines,
     FailureRefines, CrashRefines DEF Next, Proceed, Atomic!Next
<1> QED
  BY <1>1, <1>2

\* To its callers the store changes each document atomically, at most once a
\* call, whatever fails.  (Mutate, Save, FindByUserID)
THEOREM Refines == Spec => Implements
<1>1. Init => RefInv
  BY InitLocks, InitKinds DEF RefInv
<1> QED
  BY <1>1, InitRefines, StepRefInv, StepRefines, PTL DEF Spec, Implements, Atomic!Spec
=============================================================================
