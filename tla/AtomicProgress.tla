--------------------------- MODULE AtomicProgress ---------------------------
(***************************************************************************)
(* What internal/modules/progress promises of the documents it keeps, one  *)
(* per user, to the requests that use them at the same time.               *)
(*                                                                         *)
(* Every call takes effect in one step, between its arrival and its        *)
(* answer: a Save replaces the document, a RecordAnswer, CompleteLesson or *)
(* Merge adds to what is stored at that very moment, and none of these can *)
(* undo another.  A call takes effect at most once, and before any answer  *)
(* but an error; the answer carries the document as it is when the answer  *)
(* is composed, which may be later.  After an error the caller does not    *)
(* know: the call may have taken effect, or may even do so later.          *)
(*                                                                         *)
(* A document is the set of the calls whose effect it holds.               *)
(***************************************************************************)
EXTENDS Naturals

CONSTANTS
  Requests,      \* the requests that may be in flight at once
  Users,         \* the owners of the documents
  NoDoc,         \* no document stored; no reply
  MaxOps         \* bound: calls that change a document

VARIABLES
  doc,  \* the stored documents
  ops,  \* how many calls that change one were made
  call  \* the call each request makes

vars == <<doc, ops, call>>

\* CompleteLesson is to the document what RecordAnswer is.
Changes == {"Save", "RecordAnswer", "Merge"}
Kinds == Changes \cup {"Get"}

\* "idle": answered.  "called": has had no effect yet.  "applied": has had it.
\* "lingers": answered with an error, and may still take effect.
Phases == {"idle", "called", "applied", "lingers"}

\* Whose call it was does not matter once it is answered.
Anyone == CHOOSE u \in Users : TRUE

NoCall(u) == [phase |-> "idle", user |-> u, kind |-> "Get", id |-> 0, reply |-> NoDoc]

Idle(c) == [NoCall(Anyone) EXCEPT !.reply = c.reply]

Contents(d) == IF d = NoDoc THEN {} ELSE d
Effect(kind, id, d) == IF kind = "Save" THEN {id} ELSE Contents(d) \cup {id}

----------------------------------------------------------------------------

Call(r) ==
  /\ call[r].phase = "idle"
  /\ \E u \in Users, k \in Kinds :
       /\ k \in Changes => ops < MaxOps
       /\ ops' = IF k \in Changes THEN ops + 1 ELSE ops
       /\ call' = [call EXCEPT ![r] =
            [NoCall(u) EXCEPT !.phase = "called", !.kind = k,
                              !.id = IF k \in Changes THEN ops + 1 ELSE 0]]
  /\ UNCHANGED doc

\* The effect, in one step; whether the caller is told of it is another matter.
Apply(r) ==
  /\ call[r].kind \in Changes
  /\ call[r].phase \in {"called", "lingers"}
  /\ doc' = [doc EXCEPT ![call[r].user] = Effect(call[r].kind, call[r].id, @)]
  /\ \/ call[r].phase = "called" /\ call' = [call EXCEPT ![r].phase = "applied"]
     \/ call' = [call EXCEPT ![r] = Idle(@)]
  /\ UNCHANGED ops

Reply(r) ==
  /\ call[r].phase = IF call[r].kind = "Get" THEN "called" ELSE "applied"
  /\ call' = [call EXCEPT ![r] = [Idle(@) EXCEPT !.reply = doc[call[r].user]]]
  /\ UNCHANGED <<doc, ops>>

\* Any number of calls end with an error at once, as when the process dies;
\* what a change has asked of the database may outlive its caller.
AfterFailure(c) ==
  {c, Idle(c)} \cup IF c.kind \in Changes /\ c.phase = "called"
                    THEN {[c EXCEPT !.phase = "lingers"]} ELSE {}

Fail ==
  /\ call' \in {f \in [Requests -> UNION {AfterFailure(call[r]) : r \in Requests}] :
                 \A r \in Requests : f[r] \in AfterFailure(call[r])}
  /\ UNCHANGED <<doc, ops>>

----------------------------------------------------------------------------

Init ==
  /\ doc \in [Users -> {NoDoc, {}}]
  /\ ops = 0
  /\ call = [r \in Requests |-> NoCall(Anyone)]

Next ==
  \/ \E r \in Requests : Call(r) \/ Apply(r) \/ Reply(r)
  \/ Fail

Spec == Init /\ [][Next]_vars
=============================================================================
