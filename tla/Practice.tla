------------------------------ MODULE Practice ------------------------------
(***************************************************************************)
(* One account as its owner sees it: the document of internal/modules/     *)
(* progress and the activity counters of internal/modules/auth, which      *)
(* cmd/api/main.go wires into each other.  A progress write records the    *)
(* activity once it has answered for the document, GET /me reads the       *)
(* account and then the document.                                          *)
(*                                                                         *)
(* The document behaves as AtomicProgress, which ProgressStore implements, *)
(* and the counters as Activity: a step here is a step of one of them, and *)
(* what this module adds is which step may follow which.                   *)
(***************************************************************************)
EXTENDS Integers, Sequences, FiniteSets

CONSTANTS
  Requests, Zones, Hours, NoDay,  \* of Activity
  NoDoc, MaxOps,                  \* of AtomicProgress
  MaxLogins                       \* bound on the logins

ASSUME PracticeAssumption ==
  /\ Zones \subseteq -12 .. 14 /\ 0 \in Zones
  /\ Hours \subseteq Nat
  /\ NoDay \notin Int
  /\ MaxOps \in Nat /\ MaxLogins \in Nat

VARIABLES
  hour, exists, zone, lastDay, distinct, streak,  \* of Activity: the account,
  req, touched, began, predates,                  \* what touches it, its history
  doc, ops, call,  \* of AtomicProgress: the document and the calls on it
  use,             \* what each request does with the two
  log,             \* history: the documents stored and the logins, in order
  credited         \* history: the latest of these whose activity is recorded

counters == <<hour, exists, zone, lastDay, distinct, streak,
              req, touched, began, predates>>
store == <<doc, ops, call>>
vars == <<counters, store, use, log, credited>>

Owner == 1

Account == INSTANCE Activity
Store == INSTANCE AtomicProgress WITH Users <- {Owner}

----------------------------------------------------------------------------

\* Where a request is.  "progress": with a call on the document.  "activity":
\* with RecordActivity.  "me": /me has read the account and reads the document.
\* at: its place in the log, or, of /me, where the log was when it began; and
\* what its account and its document were up to date with.
In(step, at) == [step |-> step, at |-> at, account |-> 0, document |-> 0]
Boot(step, at, account, document) ==
  [step |-> step, at |-> at, account |-> account, document |-> document]
NoUse == In("none", 0)
Uses == [step : {"none", "progress", "activity", "me"}, at : Nat, account : Nat, document : Nat]

\* The calls after which activity is recorded: Merge deliberately is not one.
Counts(kind) == kind \in {"Save", "RecordAnswer"}
Practised == {i \in 1 .. Len(log) : log[i] = "Login" \/ Counts(log[i])}

Later(i, j) == IF i < j THEN j ELSE i

----------------------------------------------------------------------------
\* The document

Call(r) ==
  /\ use[r].step = "none"
  /\ exists
  /\ Store!Call(r)
  /\ use' = [use EXCEPT ![r] = In("progress", 0)]
  /\ UNCHANGED <<counters, log, credited>>

\* The document is stored; if its caller is told of an error the call is over.
Apply(r) ==
  /\ Store!Apply(r)
  /\ log' = Append(log, call[r].kind)
  /\ use' = [use EXCEPT ![r] =
       IF call[r].phase = "lingers" THEN @
       ELSE IF call'[r].phase = "applied" THEN In("progress", Len(log) + 1)
       ELSE NoUse]
  /\ UNCHANGED <<counters, credited>>

\* Mutant: a patch is activity too.
ReplyAny(r) ==
  /\ use[r].step = "progress"
  /\ Store!Reply(r)
  /\ use' = [use EXCEPT ![r] = IF call[r].kind # "Get" THEN In("activity", use[r].at) ELSE NoUse]
  /\ UNCHANGED <<counters, log, credited>>

\* The document is read back for the answer, and then the activity is recorded.
Reply(r) ==
  /\ use[r].step = "progress"
  /\ Store!Reply(r)
  /\ use' = [use EXCEPT ![r] =
       IF Counts(call[r].kind) THEN In("activity", use[r].at) ELSE NoUse]
  /\ UNCHANGED <<counters, log, credited>>

\* Calls on the document end with an error, wherever they are.
Fail ==
  /\ Store!Fail
  /\ use' = [r \in Requests |->
       IF call'[r].phase = "idle" /\ use[r].step \in {"progress", "me"} THEN NoUse
       ELSE IF call'[r].phase = "lingers" THEN NoUse ELSE use[r]]
  /\ UNCHANGED <<counters, log, credited>>

----------------------------------------------------------------------------
\* The activity

\* The password is right, and the gate open.
Login(r) ==
  /\ use[r].step = "none" /\ call[r].phase = "idle"
  /\ exists
  /\ Cardinality({i \in 1 .. Len(log) : log[i] = "Login"}) < MaxLogins
  /\ log' = Append(log, "Login")
  /\ use' = [use EXCEPT ![r] = In("activity", Len(log) + 1)]
  /\ UNCHANGED <<counters, store, credited>>

ReadZone(r) ==
  /\ use[r].step = "activity"
  /\ Account!ReadZone(r)
  /\ UNCHANGED <<store, use, log, credited>>

CutDay(r) ==
  /\ Account!CutDay(r)
  /\ UNCHANGED <<store, use, log, credited>>

Touch(r) ==
  /\ Account!Touch(r)
  /\ credited' = Later(credited, use[r].at)
  /\ use' = [use EXCEPT ![r] = NoUse]
  /\ UNCHANGED <<store, log>>

\* For a write this is a line in the log, and the answer is what it was.
ActivityFails(r) ==
  /\ use[r].step = "activity"
  /\ IF req[r] = Account!Idle THEN UNCHANGED counters ELSE Account!Fail(r)
  /\ use' = [use EXCEPT ![r] = NoUse]
  /\ UNCHANGED <<store, log, credited>>

\* A change of the zone, and the clock.
SaveProfile == Account!ChangeZone /\ UNCHANGED <<store, use, log, credited>>
Tick == Account!Tick /\ UNCHANGED <<store, use, log, credited>>

----------------------------------------------------------------------------
\* GET /me

\* The account, by FindByID.
Me(r) ==
  /\ use[r].step = "none"
  /\ exists
  /\ Store!Call(r) /\ call'[r].kind = "Get"
  /\ use' = [use EXCEPT ![r] = Boot("me", Len(log), credited, 0)]
  /\ UNCHANGED <<counters, log, credited>>

\* Mutant: the document was read first, the account after it.
SnapshotFirst(r) ==
  /\ use[r].step = "me"
  /\ Store!Reply(r)
  /\ use' = [use EXCEPT ![r] = Boot("none", use[r].at, credited, use[r].at)]
  /\ UNCHANGED <<counters, log, credited>>

\* The document, by the snapshot of the progress module.
Snapshot(r) ==
  /\ use[r].step = "me"
  /\ Store!Reply(r)
  /\ use' = [use EXCEPT ![r] = Boot("none", use[r].at, use[r].account, Len(log))]
  /\ UNCHANGED <<counters, log, credited>>

----------------------------------------------------------------------------

Init ==
  /\ Account!Init /\ exists
  /\ Store!Init
  /\ use = [r \in Requests |-> NoUse]
  /\ log = <<>> /\ credited = 0

Next ==
  \/ \E r \in Requests :
       \/ Call(r) \/ Apply(r) \/ Reply(r)
       \/ Login(r) \/ ReadZone(r) \/ CutDay(r) \/ Touch(r) \/ ActivityFails(r)
       \/ Me(r) \/ Snapshot(r)
  \/ Fail \/ SaveProfile \/ Tick

Spec == Init /\ [][Next]_vars

----------------------------------------------------------------------------
\* Properties

\* Types of what the two parts do not say themselves.
TypeOK ==
  /\ use \in [Requests -> Uses]
  /\ log \in Seq({"Login", "Save", "RecordAnswer", "Merge"})
  /\ credited \in 0 .. Len(log)

\* A counted day stands for a call that stored something or logged in, and no
\* two for the same: patches, failed writes and reads move nothing.  (the
\* callers of recordActivity, and Merge, which is none)
CountedForPractice == distinct <= Cardinality(Practised)

\* The boot call never shows a streak without the practice that earned it: the
\* document /me returns is at least as new as any write its counters include.
\* (service.Me reads the account first, the writes count after they are stored)
MeIsNeverBehind ==
  \A r \in Requests :
    use[r].step = "none" /\ use[r].document # 0 => use[r].account <= use[r].document

\* What the documentation says and a failed read-back does not keep: "Activity
\* is recorded on every progress write", so a write never ends between the two.
EveryWriteIsPractice ==
  [][ \A r \in Requests :
        call[r].phase = "applied" /\ Counts(call[r].kind) /\ call'[r].phase = "idle"
          => use'[r].step = "activity" ]_vars
=============================================================================
