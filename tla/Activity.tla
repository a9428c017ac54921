----------------------------- MODULE Activity ------------------------------
(***************************************************************************)
(* The activity counters of one account: users.last_active_date,           *)
(* distinct_login_days and streak_days, advanced by TouchActivity at every *)
(* login, verification and progress write, with the calendar day cut in    *)
(* the zone stored on the account.                                         *)
(*                                                                         *)
(* A touch is three separate moments: the row is read for its zone, the    *)
(* day is cut from the clock, and the UPDATE runs.  Touches of concurrent  *)
(* requests interleave, may be delayed past midnight, and may be overtaken *)
(* by a change of zone; VerifyEmail reads its clock before the zone.       *)
(*                                                                         *)
(* Time is counted in hours UTC and a zone is its offset.  The offset of   *)
(* the stored zone changes when SaveProfile stores another one, and with   *)
(* daylight saving; a zone that tzdata no longer knows counts as UTC.      *)
(***************************************************************************)
EXTENDS Integers, FiniteSets

CONSTANTS
  Requests,  \* the requests that may be in flight at once
  Zones,     \* offsets from UTC, in hours
  Hours,     \* the hours at which anything happens
  NoDay      \* last_active_date IS NULL

ASSUME ActivityAssumption ==
  /\ Zones \subseteq -12 .. 14 /\ 0 \in Zones
  /\ Hours \subseteq Nat
  /\ NoDay \notin Int

VARIABLES
  hour,                       \* the clock
  exists,                     \* the account has a row
  zone,                       \* the offset of the zone stored on it
  lastDay, distinct, streak,  \* the three columns
  req,                        \* what each request holds
  touched,                    \* history: the days TouchActivity was given
  began,                      \* history: the day, in UTC, activity began on
  predates                    \* history: the account is older than the columns

row == <<exists, zone, lastDay, distinct, streak>>
hist == <<touched, began, predates>>
vars == <<hour, row, req, hist>>

----------------------------------------------------------------------------

UTC == 0

\* UTCDay and DayIn: the calendar day of an instant, in a zone.
DayIn(h, z) == (h + z) \div 24
UTCDay(h) == DayIn(h, UTC)

\* "zone": holds the zone, has yet to read the clock.  "clock": holds an hour,
\* has yet to read the zone.  "create", "touch": holds the day.
Request == [step: {"idle"}, holds: {0}]
           \cup [step: {"zone"}, holds: Zones]
           \cup [step: {"clock"}, holds: Hours]
           \cup [step: {"create", "touch"}, holds: Int]

Idle == [step |-> "idle", holds |-> 0]
Hold(r, step, x) == req' = [req EXCEPT ![r] = [step |-> step, holds |-> x]]
Done(r) == req' = [req EXCEPT ![r] = Idle]

\* Activity begins when a clock is first read for it.
Begin == began' = IF began = NoDay THEN UTCDay(hour) ELSE began

\* Profile.Location: the stored zone, or UTC if tzdata does not know it.
Location(z) == {z, UTC}

----------------------------------------------------------------------------
\* touchActivityQuery.  The day counts if it is later than the stored one.

Counts(day) == lastDay = NoDay \/ (lastDay # NoDay /\ lastDay < day)

\* Mutant: a day that does not count, but is not the next one, ends the streak.
StreakOnReset(day) ==
  IF lastDay # NoDay /\ lastDay = day - 1 THEN streak + 1 ELSE 1

\* Mutant: any day after the stored one extends the streak.
StreakOnAnyLater(day) == IF Counts(day) THEN streak + 1 ELSE streak

StreakOn(day) ==
  IF ~Counts(day) THEN streak
  ELSE IF lastDay # NoDay /\ lastDay = day - 1 THEN streak + 1
  ELSE 1

\* Mutants: a day already counted is counted once more; the wrong sign.
DistinctOnAny(day) == distinct + 1
DistinctOnMinus(day) == IF Counts(day) THEN distinct - 1 ELSE distinct

DistinctOn(day) == IF Counts(day) THEN distinct + 1 ELSE distinct

\* Mutant: the stored day is overwritten, not kept at the greater of the two.
LastDayOnAny(day) == day

LastDayOn(day) == IF Counts(day) THEN day ELSE lastDay

TouchActivity(day) ==
  /\ streak' = StreakOn(day)
  /\ distinct' = DistinctOn(day)
  /\ lastDay' = LastDayOn(day)
  /\ touched' = touched \cup {day}

----------------------------------------------------------------------------
\* Register: the UTC day is taken before the INSERT.

RegisterDay(r) ==
  /\ req[r] = Idle
  /\ ~exists
  /\ Hold(r, "create", UTCDay(hour))
  /\ UNCHANGED <<hour, row, hist>>

Create(r) ==
  /\ req[r].step = "create"
  /\ IF exists
     THEN UNCHANGED <<row, hist>>
     ELSE /\ exists' = TRUE
          /\ lastDay' = req[r].holds /\ distinct' = 1 /\ streak' = 1
          /\ touched' = {req[r].holds} /\ began' = req[r].holds
          /\ UNCHANGED <<zone, predates>>
  /\ Done(r)
  /\ UNCHANGED hour

\* Login and RecordActivity: the row is read first, then the clock.
ReadZone(r) ==
  /\ req[r] = Idle
  /\ exists
  /\ Hold(r, "zone", zone)
  /\ UNCHANGED <<hour, row, hist>>

CutDay(r) ==
  /\ req[r].step = "zone"
  /\ \E z \in Location(req[r].holds) : Hold(r, "touch", DayIn(hour, z))
  /\ Begin
  /\ UNCHANGED <<hour, row, touched, predates>>

\* VerifyEmail: the clock is read before the code is checked and spent, the
\* zone with the row that MarkEmailVerified returns.
ReadClock(r) ==
  /\ req[r] = Idle
  /\ exists
  /\ Hold(r, "clock", hour)
  /\ Begin
  /\ UNCHANGED <<hour, row, touched, predates>>

CutEarlierDay(r) ==
  /\ req[r].step = "clock"
  /\ \E z \in Location(zone) : Hold(r, "touch", DayIn(req[r].holds, z))
  /\ UNCHANGED <<hour, row, hist>>

Touch(r) ==
  /\ req[r].step = "touch"
  /\ TouchActivity(req[r].holds)
  /\ Done(r)
  /\ UNCHANGED <<hour, exists, zone, began, predates>>

\* Any statement may fail, and with the process every request in flight ends.
Fail(r) ==
  /\ req[r] # Idle
  /\ Done(r)
  /\ UNCHANGED <<hour, row, hist>>

\* SaveProfile replaces the zone; it touches no counter.
ChangeZone ==
  /\ exists
  /\ zone' \in Zones
  /\ UNCHANGED <<hour, exists, lastDay, distinct, streak, req, hist>>

Tick ==
  /\ hour' \in {h \in Hours : h > hour}
  /\ UNCHANGED <<row, req, hist>>

----------------------------------------------------------------------------

\* No account, or one that migration 00003 gave the columns' defaults.
Init ==
  /\ hour \in Hours
  /\ exists \in BOOLEAN
  /\ zone = UTC
  /\ lastDay = NoDay /\ distinct = 0 /\ streak = 0
  /\ req = [r \in Requests |-> Idle]
  /\ touched = {} /\ began = NoDay /\ predates = exists

Serve(r) == \/ RegisterDay(r) \/ Create(r) \/ ReadZone(r) \/ CutDay(r)
            \/ ReadClock(r) \/ CutEarlierDay(r) \/ Touch(r) \/ Fail(r)

Next == (\E r \in Requests : Serve(r)) \/ ChangeZone \/ Tick

Spec == Init /\ [][Next]_vars

----------------------------------------------------------------------------
\* Properties

\* Types of the columns, the requests and the history.
TypeOK ==
  /\ hour \in Hours
  /\ exists \in BOOLEAN
  /\ zone \in Zones
  /\ lastDay \in Int \cup {NoDay} /\ began \in Int \cup {NoDay}
  /\ distinct \in Nat /\ streak \in Nat
  /\ req \in [Requests -> Request]
  /\ touched \in SUBSET Int /\ IsFiniteSet(touched)
  /\ predates \in BOOLEAN

\* The streak the account shows is earned: on each of its days, back from the
\* stored one, the account really was active.  (touchActivityQuery)
StreakIsEarned ==
  lastDay # NoDay =>
    /\ streak \in 1 .. distinct
    /\ (lastDay - streak + 1) .. lastDay \subseteq touched

\* No day is counted twice, in whatever order the touches arrive: there are at
\* least as many days of activity as distinct_login_days says.
NoFreeDays == distinct <= Cardinality(touched)

\* However zones and overlapping touches are combined, distinct_login_days
\* exceeds the calendar days in UTC since activity began by one at most (the
\* day is already tomorrow further east), and for an account that is older
\* than the columns by two: its first day is cut in a zone, so it may also
\* still be yesterday's.  (touchActivityQuery, Register)
ExtraDaysBounded ==
  lastDay # NoDay =>
    distinct <= (UTCDay(hour) - began + 1) + (IF predates THEN 2 ELSE 1)

\* The stored day never walks backwards, and the streak is only ever cut by a
\* later day with one before it, since the stored one, without any activity:
\* never by a late or repeated touch or by a zone further behind.
StreakCutOnlyByAGap ==
  [][/\ lastDay # NoDay => lastDay' >= lastDay
     /\ streak' < streak => \E d \in lastDay + 1 .. lastDay' - 1 : d \notin touched']_vars

\* What the documentation says and the accounts that predate the columns do
\* not keep: someone who moves between zones "can manufacture a single extra
\* day".
OneExtraDayAtMost ==
  lastDay # NoDay => distinct <= (UTCDay(hour) - began + 1) + 1

\* What the documentation says and overlapping requests do not keep: "StreakDays
\* counts consecutive active days; a gap resets it to 1", so the day before
\* those it counts is one without activity.
NoActiveDayLeftOut ==
  lastDay # NoDay => (lastDay - streak) \notin touched
=============================================================================
