------------------------------ MODULE Profile ------------------------------
(***************************************************************************)
(* The onboarding identity of one account: the four columns PUT /profile   *)
(* replaces, and what the endpoints that return a user show of them.       *)
(*                                                                         *)
(* A call is two statements, an UPDATE and the read of its answer, and the *)
(* calls of several devices interleave.  The time zones are those of the   *)
(* binary, so another version may know others; the days go by.             *)
(***************************************************************************)
EXTENDS Integers, Sequences

CONSTANTS
  Requests,        \* the requests that may be in flight at once
  Names, Genders,  \* display names and genders that may be stored
  Zones,           \* the names some version of tzdata resolves
  Refused,         \* a name, gender or zone that is none of these
  None,            \* a value not given, or NULL; nothing shown
  Days,            \* the days on which anything happens
  Birthdays,       \* the days a client may claim
  MinBirthDay,     \* the first day of MinBirthYear
  MaxWrites        \* bound on the UPDATEs

ASSUME ProfileAssumption ==
  /\ Days \subseteq Int /\ Birthdays \subseteq Int /\ MinBirthDay \in Int
  /\ None \notin Names \cup Genders \cup Zones \cup Birthdays
  /\ Refused \notin Names \cup Genders \cup Zones \cup {None}
  /\ MaxWrites \in Nat

VARIABLES
  today,  \* the UTC day of the clock
  known,  \* the zones this version knows
  row,    \* name, gender, birth_date and timezone of the account
  req,    \* the request each caller makes
  stored  \* history: what each UPDATE stored

vars == <<today, known, row, req, stored>>

Fields(names, genders, births, zones) ==
  [name : names, gender : genders, birth : births, zone : zones]

Empty == [name |-> None, gender |-> None, birth |-> None, zone |-> None]
Profiles == {Empty} \cup Fields(Names, Genders, Birthdays \cup {None}, Zones \cup {None})

\* ProfileRequest: anything may be missing, or blank, which is the same.
Payloads == Fields(Names \cup {Refused, None}, Genders \cup {Refused, None},
                   Birthdays \cup {None}, Zones \cup {Refused, None})

\* "update": accepted, to be stored.  "lingers": the same, after its caller was
\* answered with an error.  "read": stored, as the place-th, to be read back.
\* "done": answered with the profile.
Calls == [step : {"idle", "update", "lingers", "read", "done"}, profile : Profiles, place : Nat]
Idle == [step |-> "idle", profile |-> Empty, place |-> 0]
Pending == {"update", "lingers"}

----------------------------------------------------------------------------
\* normaliseProfile and normaliseTimezone, after the rules of the DTO

Accepts(p) ==
  /\ p.name \in Names
  /\ p.gender \in Genders
  /\ p.zone \in known \cup {None}
  /\ p.birth = None \/ p.birth \in MinBirthDay .. today

\* Profile.Complete: the name marks an account whose owner filled in the form.
Complete(p) == p.name # None

\* Mutant: the zone is not part of what is shown.
ShownNoZone(p) == IF Complete(p) THEN [p EXCEPT !.zone = None] ELSE Empty

\* NewUserResponse: what every endpoint that returns a user shows of it.
Shown(p) == IF Complete(p) THEN p ELSE Empty

----------------------------------------------------------------------------

SaveProfile(r) ==
  /\ req[r].step \in {"idle", "done"}
  /\ Len(stored) < MaxWrites
  /\ \E p \in Payloads :
       req' = [req EXCEPT ![r] =
         IF Accepts(p) THEN [Idle EXCEPT !.step = "update", !.profile = p] ELSE Idle]
  /\ UNCHANGED <<today, known, row, stored>>

\* saveProfileQuery: all four columns at once.  The caller may not be told.
Update(r) ==
  /\ req[r].step \in Pending
  /\ row' = req[r].profile
  /\ stored' = Append(stored, row')
  /\ \/ /\ req[r].step = "update"
        /\ req' = [req EXCEPT ![r].step = "read", ![r].place = Len(stored')]
     \/ req' = [req EXCEPT ![r] = Idle]
  /\ UNCHANGED <<today, known>>

\* Mutant: the answer is the user as loaded before the UPDATE.
ReadBackOlder(r) ==
  /\ req[r].step = "read"
  /\ req' = [req EXCEPT ![r].step = "done", ![r].profile =
       Shown(IF req[r].place = 1 THEN Empty ELSE stored[req[r].place - 1])]
  /\ UNCHANGED <<today, known, row, stored>>

\* FindByID: the answer.
ReadBack(r) ==
  /\ req[r].step = "read"
  /\ req' = [req EXCEPT ![r].step = "done", ![r].profile = Shown(row)]
  /\ UNCHANGED <<today, known, row, stored>>

\* The call is answered with an error; the database may yet run what it was sent.
Fail(r) ==
  /\ req[r].step \in {"update", "read"}
  /\ \/ req' = [req EXCEPT ![r] = Idle]
     \/ req[r].step = "update" /\ req' = [req EXCEPT ![r].step = "lingers"]
  /\ UNCHANGED <<today, known, row, stored>>

\* Another version is deployed; the calls in flight end with the process.
Deploy ==
  /\ known' \in SUBSET Zones
  /\ \E late \in SUBSET {r \in Requests : req[r].step \in Pending} :
       req' = [r \in Requests |-> IF r \in late THEN [req[r] EXCEPT !.step = "lingers"] ELSE Idle]
  /\ UNCHANGED <<today, row, stored>>

Tick ==
  /\ today' \in {d \in Days : d > today}
  /\ UNCHANGED <<known, row, req, stored>>

----------------------------------------------------------------------------

\* An account registers without a profile.
Init ==
  /\ today \in Days
  /\ known \in SUBSET Zones
  /\ row = Empty
  /\ req = [r \in Requests |-> Idle]
  /\ stored = <<>>

Next ==
  \/ \E r \in Requests : SaveProfile(r) \/ Update(r) \/ ReadBack(r) \/ Fail(r)
  \/ Deploy \/ Tick

Spec == Init /\ [][Next]_vars

----------------------------------------------------------------------------
\* Properties

\* Types of the row, the requests and the history.
TypeOK ==
  /\ today \in Days
  /\ known \subseteq Zones
  /\ row \in Profiles
  /\ req \in [Requests -> Calls]
  /\ stored \in Seq(Profiles)

\* A call is answered with the profile it stored or one stored after it, whole:
\* never with an earlier one, nor with parts of two.  (MySQLRepository.SaveProfile)
AnswerIsCurrent ==
  \A r \in Requests :
    req[r].step = "done" =>
      \E i \in req[r].place .. Len(stored) : req[r].profile = stored[i]

\* A form filled in with what the server shows and sent back is accepted and
\* changes nothing, on any later day, as long as the version still knows the
\* zone.  (NewUserResponse, ProfileRequest.profile, normaliseProfile)
EchoChangesNothing ==
  Complete(row) /\ row.zone \in known \cup {None} => Accepts(Shown(row)) /\ Shown(row) = row

\* The form is shown until it was filled in, and never again: no write, late
\* or refused, takes the profile away.  (Profile.Complete)
OnboardedForGood == [][Complete(Shown(row)) => Complete(Shown(row'))]_vars

\* What the documentation says and a PUT of the three fields does not keep: the
\* zone is NULL, and the day cut in UTC, for accounts that never sent one.
NullMeansNeverSent ==
  row.zone = None => \A i \in 1 .. Len(stored) : stored[i].zone = None
=============================================================================
