--------------------------- MODULE ActivityProofs --------------------------
(***************************************************************************)
(* Proofs about Activity, for every set of requests, hours and zones.      *)
(*                                                                         *)
(* The properties of the counters follow from what the stored day means:   *)
(* it is the latest day ever touched (StoredDayIsLatest), no more days     *)
(* were counted than lie between the earliest that could and it            *)
(* (CountedDaysFit), and it is no further ahead of UTC than the zones are  *)
(* (NoDayTooFarAhead).  Both ends need the same of every day and hour a    *)
(* request still holds (NoDayTooFarBack for the earlier one).              *)
(***************************************************************************)
EXTENDS Activity, FiniteSetTheorems, TLAPS

\* A request that touches the row has read it, so the row exists.
RowExists ==
  /\ \A r \in Requests : req[r].step \in {"zone", "clock", "touch"} => exists
  /\ ~exists => lastDay = NoDay
  /\ predates => exists

\* last_active_date is the greatest of the days given to TouchActivity.
StoredDayIsLatest ==
  IF lastDay = NoDay
  THEN distinct = 0 /\ streak = 0
  ELSE lastDay \in touched /\ \A d \in touched : d <= lastDay

\* The earliest day that can count: the UTC day activity began on, or the one
\* before when the first day is cut in a zone and not by Register.
Earliest == IF predates THEN began - 1 ELSE began

\* The days counted lie between the earliest one and the stored one.
CountedDaysFit ==
  lastDay # NoDay => began \in Int /\ distinct <= lastDay - Earliest + 1

\* No day, stored or held, is later than tomorrow in UTC.
NoDayTooFarAhead ==
  /\ lastDay # NoDay => lastDay <= UTCDay(hour) + 1
  /\ \A r \in Requests :
       /\ req[r].step = "create" => req[r].holds <= UTCDay(hour)
       /\ req[r].step = "touch" => req[r].holds <= UTCDay(hour) + 1
       /\ req[r].step = "clock" => req[r].holds <= hour

\* No day or hour that is held is from before activity began, but for the zone.
NoDayTooFarBack ==
  /\ began # NoDay => began <= UTCDay(hour)
  /\ exists /\ ~predates => lastDay # NoDay
  /\ \A r \in Requests :
       /\ req[r].step = "touch" => began \in Int /\ req[r].holds >= began - 1
       /\ req[r].step = "clock" => began \in Int /\ UTCDay(req[r].holds) >= began

Inv == /\ TypeOK /\ RowExists /\ StoredDayIsLatest /\ CountedDaysFit
       /\ NoDayTooFarAhead /\ NoDayTooFarBack /\ StreakIsEarned /\ NoFreeDays

----------------------------------------------------------------------------
\* Days

LEMMA DayType == ASSUME NEW h \in Nat, NEW z \in Int PROVE DayIn(h, z) \in Int
BY DEF DayIn

\* The day in any zone is at most one ahead of the day in UTC, or one behind.
LEMMA WithinOne ==
  ASSUME NEW h \in Nat, NEW z \in Zones \cup {UTC}
  PROVE  /\ DayIn(h, z) \in Int /\ UTCDay(h) \in Int
         /\ UTCDay(h) - 1 <= DayIn(h, z) /\ DayIn(h, z) <= UTCDay(h) + 1
BY ActivityAssumption DEF ActivityAssumption, DayIn, UTCDay, UTC

LEMMA DaysGoOn ==
  ASSUME NEW h \in Nat, NEW k \in Nat, h <= k
  PROVE  UTCDay(h) \in Int /\ UTCDay(k) \in Int /\ UTCDay(h) <= UTCDay(k)
BY DEF DayIn, UTCDay, UTC

----------------------------------------------------------------------------
\* What TouchActivity does to the counters

Counters == <<lastDay, distinct, streak, touched, began, predates>>

\* The facts about the counters that no request and no clock enters.
CountersSound ==
  /\ lastDay \in Int \cup {NoDay}
  /\ began \in Int \cup {NoDay} /\ predates \in BOOLEAN
  /\ distinct \in Nat /\ streak \in Nat
  /\ touched \in SUBSET Int /\ IsFiniteSet(touched)
  /\ StoredDayIsLatest /\ CountedDaysFit /\ StreakIsEarned /\ NoFreeDays

\* A day that counts is a new one: later than every day touched so far.
LEMMA CountedDayIsNew ==
  ASSUME CountersSound, NEW day \in Int, Counts(day)
  PROVE  (lastDay # NoDay => day \notin touched)
BY ActivityAssumption
   DEF ActivityAssumption, CountersSound, StoredDayIsLatest, Counts

\* One touch, of a day that counts or of one that does not, keeps them, if the
\* first day to count is not too early.
LEMMA TouchSound ==
  ASSUME CountersSound, NEW day \in Int, TouchActivity(day),
         UNCHANGED <<began, predates>>,
         lastDay = NoDay => predates /\ began \in Int /\ day >= began - 1
  PROVE  CountersSound'
<1> USE ActivityAssumption DEF ActivityAssumption
<1>1. touched' = touched \cup {day} /\ touched' \in SUBSET Int /\ IsFiniteSet(touched')
  BY FS_AddElement DEF CountersSound, TouchActivity
<1>2. Cardinality(touched) \in Nat
  BY FS_CardinalityType DEF CountersSound
<1>3. Cardinality(touched') >= Cardinality(touched)
  BY <1>1, <1>2, FS_AddElement DEF CountersSound
<1>4. CASE ~Counts(day)
  <2>1. /\ lastDay' = lastDay /\ distinct' = distinct /\ streak' = streak
        /\ lastDay # NoDay /\ day <= lastDay
    BY <1>4 DEF CountersSound, TouchActivity, Counts, LastDayOn, DistinctOn, StreakOn
  <2>2. StoredDayIsLatest' /\ CountedDaysFit'
    BY <1>1, <2>1 DEF CountersSound, StoredDayIsLatest, CountedDaysFit, Earliest
  <2>3. StreakIsEarned'
    BY <1>1, <2>1 DEF CountersSound, StreakIsEarned
  <2>4. NoFreeDays'
    BY <1>1, <1>2, <1>3, <2>1, FS_CardinalityType DEF CountersSound, NoFreeDays
  <2> QED BY <1>1, <2>1, <2>2, <2>3, <2>4 DEF CountersSound
<1>5. CASE Counts(day)
  <2>1. lastDay' = day /\ distinct' = distinct + 1
    BY <1>5 DEF TouchActivity, LastDayOn, DistinctOn
  <2>2. StoredDayIsLatest'
    BY <1>1, <1>5, <2>1 DEF CountersSound, StoredDayIsLatest, Counts
  <2>3. CountedDaysFit'
    <3>1. CASE lastDay = NoDay
      <4>1. distinct' = 1 /\ day >= Earliest /\ Earliest \in Int
        BY <2>1, <3>1 DEF CountersSound, StoredDayIsLatest, Earliest
      <4>2. Earliest' = Earliest /\ began' \in Int
        BY <3>1 DEF Earliest
      <4> QED BY <2>1, <4>1, <4>2 DEF CountedDaysFit
    <3>2. CASE lastDay # NoDay
      BY <1>5, <2>1, <3>2 DEF CountersSound, CountedDaysFit, Counts, Earliest
    <3> QED BY <3>1, <3>2
  <2>4. StreakIsEarned' /\ streak' \in Nat
    <3>1. CASE lastDay # NoDay /\ lastDay = day - 1
      <4>1. streak' = streak + 1
        BY <1>5, <3>1 DEF TouchActivity, StreakOn
      <4>2. streak' \in Nat /\ streak' \in 1 .. distinct'
        BY <2>1, <3>1, <4>1 DEF CountersSound, StreakIsEarned
      <4>3. (day - streak' + 1) .. day \subseteq touched'
        BY <1>1, <3>1, <4>1 DEF CountersSound, StreakIsEarned
      <4> QED BY <2>1, <4>2, <4>3 DEF StreakIsEarned
    <3>2. CASE ~(lastDay # NoDay /\ lastDay = day - 1)
      <4>1. streak' = 1
        BY <1>5, <3>2 DEF TouchActivity, StreakOn
      <4> QED BY <1>1, <2>1, <4>1 DEF CountersSound, StreakIsEarned
    <3> QED BY <3>1, <3>2
  <2>5. NoFreeDays'
    <3>1. CASE lastDay = NoDay
      <4>1. distinct' = 1 /\ Cardinality(touched') \in Nat /\ touched' # {}
        BY <1>1, <2>1, <3>1, FS_CardinalityType DEF CountersSound, StoredDayIsLatest
      <4>2. Cardinality(touched') # 0
        BY <1>1, <4>1, FS_EmptySet
      <4> QED BY <4>1, <4>2 DEF NoFreeDays
    <3>2. CASE lastDay # NoDay
      <4>1. day \notin touched
        BY <1>5, <3>2, CountedDayIsNew
      <4>2. Cardinality(touched') = Cardinality(touched) + 1
        BY <1>1, <4>1, FS_AddElement DEF CountersSound
      <4> QED BY <1>2, <2>1, <4>2 DEF CountersSound, NoFreeDays
    <3> QED BY <3>1, <3>2
  <2> QED BY <1>1, <2>1, <2>2, <2>3, <2>4, <2>5 DEF CountersSound
<1> QED BY <1>4, <1>5

\* The INSERT of Register starts them at one day.
LEMMA CreateSound ==
  ASSUME NEW r \in Requests, TypeOK, CountersSound, Create(r), predates => exists
  PROVE  CountersSound'
<1> DEFINE day == req[r].holds
<1>0. req[r] \in Request /\ day \in Int
  BY DEF TypeOK, Request, Create
<1>1. CASE exists
  <2>1. UNCHANGED Counters
    BY <1>1 DEF Create, row, hist, Counters
  <2> QED BY <2>1 DEF Counters, CountersSound, StoredDayIsLatest, CountedDaysFit,
                      Earliest, StreakIsEarned, NoFreeDays
<1>2. CASE ~exists
  <2>1. /\ lastDay' = day /\ distinct' = 1 /\ streak' = 1
        /\ touched' = {day} /\ began' = day /\ predates' = FALSE
    BY <1>2 DEF Create, CountersSound
  <2>2. IsFiniteSet(touched') /\ Cardinality(touched') = 1
    BY <2>1, FS_Singleton
  <2> HIDE DEF day
  <2>3. (day - 1 + 1) .. day = {day} /\ day # NoDay
    BY <1>0, ActivityAssumption DEF ActivityAssumption
  <2>4. StoredDayIsLatest' /\ StreakIsEarned' /\ NoFreeDays'
    BY <1>0, <2>1, <2>2, <2>3 DEF StoredDayIsLatest, StreakIsEarned, NoFreeDays
  <2>5. Earliest' = day
    BY <2>1 DEF Earliest
  <2>6. CountedDaysFit'
    BY <1>0, <2>1, <2>5 DEF CountedDaysFit
  <2> QED BY <1>0, <2>1, <2>2, <2>4, <2>6 DEF CountersSound
<1> QED BY <1>1, <1>2

----------------------------------------------------------------------------
\* The inductive invariant

LEMMA Holds ==
  ASSUME NEW r \in Requests, NEW s \in Requests, TypeOK, NEW step, NEW x,
         Hold(r, step, x)
  PROVE  req'[s] = IF s = r THEN [step |-> step, holds |-> x] ELSE req[s]
BY DEF TypeOK, Hold

\* Every request that holds something well typed, and neither too far ahead
\* nor too far back.
HoldsSound(q, now, row_exists, from) ==
  /\ q \in Request
  /\ q.step \in {"zone", "clock", "touch"} => row_exists
  /\ q.step = "create" => q.holds <= UTCDay(now)
  /\ q.step = "touch" => q.holds <= UTCDay(now) + 1
  /\ q.step = "clock" => q.holds <= now
  /\ q.step = "touch" => from \in Int /\ q.holds >= from - 1
  /\ q.step = "clock" => from \in Int /\ UTCDay(q.holds) >= from

Soundness ==
  /\ hour \in Hours /\ exists \in BOOLEAN /\ zone \in Zones
  /\ ~exists => lastDay = NoDay
  /\ predates => exists
  /\ exists /\ ~predates => lastDay # NoDay
  /\ lastDay # NoDay => lastDay <= UTCDay(hour) + 1
  /\ began # NoDay => began <= UTCDay(hour)
  /\ req \in [Requests -> Request]
  /\ \A r \in Requests : HoldsSound(req[r], hour, exists, began)

LEMMA InvSplits == Inv <=> (CountersSound /\ Soundness)
BY DEF Inv, CountersSound, Soundness, HoldsSound, TypeOK, RowExists, NoDayTooFarAhead,
       NoDayTooFarBack

\* A step that replaces what one request holds by something sound.
LEMMA OneHolds ==
  ASSUME Soundness, NEW r \in Requests, NEW q, HoldsSound(q, hour, exists, began),
         req' = [req EXCEPT ![r] = q],
         UNCHANGED <<hour, exists, zone, lastDay, began, predates>>
  PROVE  Soundness'
<1>1. req' \in [Requests -> Request]
  BY DEF Soundness, HoldsSound
<1>2. \A s \in Requests : req'[s] = IF s = r THEN q ELSE req[s]
  BY DEF Soundness
<1>3. \A s \in Requests : HoldsSound(req'[s], hour, exists, began)
  BY <1>2 DEF Soundness
<1>4. \A s \in Requests : HoldsSound(req'[s], hour', exists', began')
  BY <1>3
<1> QED BY <1>1, <1>4 DEF Soundness

\* Activity begins today at the latest.  If it does so now, nothing that is
\* counted or held depends on when.
LEMMA BeginSound ==
  ASSUME CountersSound, Soundness, Begin, UNCHANGED <<lastDay, distinct, streak, touched, predates>>
  PROVE  /\ CountersSound'
         /\ began' \in Int /\ began' <= UTCDay(hour)
         /\ \A r \in Requests : HoldsSound(req[r], hour, exists, began')
<1> USE ActivityAssumption DEF ActivityAssumption
<1>1. hour \in Nat /\ UTCDay(hour) \in Int
  BY DaysGoOn DEF Soundness
<1>2. began' \in Int /\ began' <= UTCDay(hour)
  BY <1>1 DEF Begin, CountersSound, Soundness
<1>3. began # NoDay => began' = began
  BY DEF Begin
<1>4. \A r \in Requests : HoldsSound(req[r], hour, exists, began')
  BY <1>3 DEF Soundness, HoldsSound
<1>5. CountersSound'
  BY <1>2, <1>3 DEF CountersSound, StoredDayIsLatest, CountedDaysFit, Earliest,
                    StreakIsEarned, NoFreeDays
<1> QED BY <1>2, <1>4, <1>5

\* A step that reads the clock: activity has begun, and one request holds
\* something that is sound since then.
LEMMA OneHoldsSince ==
  ASSUME CountersSound, Soundness, NEW r \in Requests, NEW q, Begin,
         HoldsSound(q, hour, exists, began'), req' = [req EXCEPT ![r] = q],
         UNCHANGED <<hour, row, touched, predates>>
  PROVE  CountersSound' /\ Soundness'
<1>1. /\ CountersSound' /\ began' \in Int /\ began' <= UTCDay(hour)
      /\ \A s \in Requests : HoldsSound(req[s], hour, exists, began')
  BY BeginSound DEF row
<1>2. req' \in [Requests -> Request]
  BY DEF Soundness, HoldsSound
<1>3. \A s \in Requests : req'[s] = IF s = r THEN q ELSE req[s]
  BY DEF Soundness
<1>4. \A s \in Requests : HoldsSound(req'[s], hour', exists', began')
  BY <1>1, <1>3 DEF row
<1> QED BY <1>1, <1>2, <1>4 DEF Soundness, row

LEMMA IdleSound == ASSUME NEW now, NEW e, NEW b PROVE HoldsSound(Idle, now, e, b)
BY DEF HoldsSound, Idle, Request

LEMMA CountersUntouched ==
  ASSUME CountersSound, UNCHANGED Counters PROVE CountersSound'
BY DEF Counters, CountersSound, StoredDayIsLatest, CountedDaysFit, Earliest,
       StreakIsEarned, NoFreeDays

LEMMA StepSound ==
  ASSUME TypeOK, CountersSound, Soundness, [Next]_vars
  PROVE  CountersSound' /\ Soundness'
<1> USE ActivityAssumption DEF ActivityAssumption
<1>h. hour \in Nat
  BY DEF Soundness
<1>r. ASSUME NEW r \in Requests PROVE req[r] \in Request /\ HoldsSound(req[r], hour, exists, began)
  BY DEF Soundness
<1>1. ASSUME NEW r \in Requests, RegisterDay(r)
      PROVE  CountersSound' /\ Soundness'
  <2> DEFINE q == [step |-> "create", holds |-> UTCDay(hour)]
  <2>1. HoldsSound(q, hour, exists, began)
    BY <1>h, WithinOne DEF HoldsSound, Request, UTCDay, UTC
  <2>2. req' = [req EXCEPT ![r] = q]
    BY <1>1 DEF RegisterDay, Hold
  <2> HIDE DEF q
  <2> QED BY <1>1, <2>1, <2>2, OneHolds, CountersUntouched DEF RegisterDay, row, hist, Counters
<1>2. ASSUME NEW r \in Requests, Create(r)
      PROVE  CountersSound' /\ Soundness'
  <2>1. CountersSound'
    BY <1>2, CreateSound DEF Soundness
  <2>2. req' = [req EXCEPT ![r] = Idle] /\ UNCHANGED hour
    BY <1>2 DEF Create, Done
  <2>3. CASE exists
    BY <1>2, <2>1, <2>2, <2>3, IdleSound, OneHolds DEF Create, row, hist
  <2>4. CASE ~exists
    <3> DEFINE day == req[r].holds
    <3>1. /\ exists' = TRUE /\ lastDay' = day /\ zone' = zone
          /\ began' = day /\ predates' = predates
      BY <1>2, <2>4 DEF Create
    <3>2. day \in Int /\ day <= UTCDay(hour) /\ UTCDay(hour) \in Int
      BY <1>2, <1>h, <1>r, DaysGoOn DEF Create, HoldsSound, Request
    <3> HIDE DEF day
    <3>3. req' \in [Requests -> Request]
      BY <2>2, IdleSound DEF Soundness, HoldsSound
    <3>4. \A s \in Requests : HoldsSound(req[s], hour, TRUE, day)
      BY <1>r, <2>4 DEF HoldsSound
    <3>5. \A s \in Requests : HoldsSound(req'[s], hour, TRUE, day)
      BY <2>2, <3>4, IdleSound DEF Soundness
    <3>6. \A s \in Requests : HoldsSound(req'[s], hour', exists', began')
      BY <2>2, <3>1, <3>5
    <3>7. day # NoDay /\ day <= UTCDay(hour) + 1
      BY <3>2
    <3>8. /\ hour' \in Hours /\ exists' \in BOOLEAN /\ zone' \in Zones
          /\ exists' /\ lastDay' # NoDay
      BY <2>2, <3>1, <3>7 DEF Soundness
    <3>9. lastDay' <= UTCDay(hour') + 1 /\ began' <= UTCDay(hour')
      BY <2>2, <3>1, <3>2, <3>7
    <3> QED BY <2>1, <3>3, <3>6, <3>8, <3>9 DEF Soundness
  <2> QED BY <2>1, <2>3, <2>4
<1>3. ASSUME NEW r \in Requests, ReadZone(r)
      PROVE  CountersSound' /\ Soundness'
  <2> DEFINE q == [step |-> "zone", holds |-> zone]
  <2>1. HoldsSound(q, hour, exists, began)
    BY <1>3 DEF HoldsSound, Request, ReadZone, Soundness
  <2>2. req' = [req EXCEPT ![r] = q]
    BY <1>3 DEF ReadZone, Hold
  <2> HIDE DEF q
  <2> QED BY <1>3, <2>1, <2>2, OneHolds, CountersUntouched DEF ReadZone, row, hist, Counters
<1>4. ASSUME NEW r \in Requests, CutDay(r)
      PROVE  CountersSound' /\ Soundness'
  <2>1. req[r].holds \in Zones /\ exists
    BY <1>4, <1>r DEF CutDay, HoldsSound, Request
  <2>2. PICK z \in Location(req[r].holds) : Hold(r, "touch", DayIn(hour, z))
    BY <1>4 DEF CutDay
  <2>3. z \in Zones \cup {UTC}
    BY <2>1 DEF Location
  <2> DEFINE q == [step |-> "touch", holds |-> DayIn(hour, z)]
  <2>4. Begin /\ began' \in Int /\ began' <= UTCDay(hour)
    BY <1>4, BeginSound DEF CutDay, row
  <2>5. HoldsSound(q, hour, exists, began')
    BY <1>h, <2>1, <2>3, <2>4, WithinOne DEF HoldsSound, Request
  <2>6. req' = [req EXCEPT ![r] = q]
    BY <2>2 DEF Hold
  <2> HIDE DEF q
  <2> QED BY <1>4, <2>4, <2>5, <2>6, OneHoldsSince DEF CutDay
<1>5. ASSUME NEW r \in Requests, ReadClock(r)
      PROVE  CountersSound' /\ Soundness'
  <2> DEFINE q == [step |-> "clock", holds |-> hour]
  <2>1. Begin /\ began' \in Int /\ began' <= UTCDay(hour)
    BY <1>5, BeginSound DEF ReadClock, row
  <2>2. HoldsSound(q, hour, exists, began')
    BY <1>h, <1>5, <2>1 DEF HoldsSound, Request, ReadClock, Soundness
  <2>3. req' = [req EXCEPT ![r] = q]
    BY <1>5 DEF ReadClock, Hold
  <2> HIDE DEF q
  <2> QED BY <1>5, <2>1, <2>2, <2>3, OneHoldsSince DEF ReadClock
<1>6. ASSUME NEW r \in Requests, CutEarlierDay(r)
      PROVE  CountersSound' /\ Soundness'
  <2> DEFINE h == req[r].holds
  <2>1. h \in Hours /\ h <= hour /\ exists /\ began \in Int /\ UTCDay(h) >= began
    BY <1>6, <1>r DEF CutEarlierDay, HoldsSound, Request
  <2>2. PICK z \in Location(zone) : Hold(r, "touch", DayIn(h, z))
    BY <1>6 DEF CutEarlierDay
  <2>3. z \in Zones \cup {UTC}
    BY DEF Location, Soundness
  <2> DEFINE q == [step |-> "touch", holds |-> DayIn(h, z)]
  <2>5. req' = [req EXCEPT ![r] = q]
    BY <2>2 DEF Hold
  <2> HIDE DEF h
  <2>6. DayIn(h, z) \in Int /\ DayIn(h, z) <= UTCDay(hour) + 1 /\ DayIn(h, z) >= began - 1
    BY <1>h, <2>1, <2>3, WithinOne, DaysGoOn
  <2>4. HoldsSound(q, hour, exists, began)
    BY <2>1, <2>6 DEF HoldsSound, Request
  <2> HIDE DEF q
  <2> QED BY <1>6, <2>4, <2>5, OneHolds, CountersUntouched DEF CutEarlierDay, row, hist, Counters
<1>7. ASSUME NEW r \in Requests, Touch(r)
      PROVE  CountersSound' /\ Soundness'
  <2> DEFINE day == req[r].holds
  <2>1. day \in Int /\ day <= UTCDay(hour) + 1 /\ exists /\ TouchActivity(day)
    BY <1>7, <1>r DEF Touch, HoldsSound, Request
  <2>2. /\ req' = [req EXCEPT ![r] = Idle]
        /\ UNCHANGED <<hour, exists, zone, began, predates>>
    BY <1>7 DEF Touch, Done
  <2>8. lastDay = NoDay => predates /\ began \in Int /\ day >= began - 1
    BY <1>7, <1>r, <2>1 DEF Touch, HoldsSound, Soundness
  <2> HIDE DEF day
  <2>3. CountersSound'
    BY <2>1, <2>2, <2>8, TouchSound
  <2>4. lastDay' = day \/ lastDay' = lastDay
    BY <2>1 DEF TouchActivity, LastDayOn
  <2>5. lastDay' # NoDay => lastDay' <= UTCDay(hour) + 1
    BY <2>1, <2>4 DEF Soundness
  <2>6. req' \in [Requests -> Request]
    BY <2>2, IdleSound DEF Soundness, HoldsSound
  <2>7. \A s \in Requests : HoldsSound(req'[s], hour, exists, began)
    BY <2>2, IdleSound DEF Soundness
  <2>9. lastDay' # NoDay
    BY <2>1, ActivityAssumption DEF TouchActivity, LastDayOn, Counts, ActivityAssumption
  <2> QED BY <2>1, <2>2, <2>3, <2>5, <2>6, <2>7, <2>9 DEF Soundness
<1>8. ASSUME NEW r \in Requests, Fail(r)
      PROVE  CountersSound' /\ Soundness'
  BY <1>8, IdleSound, OneHolds, CountersUntouched DEF Fail, Done, row, hist, Counters
<1>9. ASSUME ChangeZone
      PROVE  CountersSound' /\ Soundness'
  BY <1>9, CountersUntouched DEF ChangeZone, hist, Counters, Soundness
<1>10. ASSUME Tick
       PROVE  CountersSound' /\ Soundness'
  <2>1. /\ hour' \in Hours /\ hour < hour'
        /\ UNCHANGED <<exists, zone, lastDay, req, began, predates>>
    BY <1>10 DEF Tick, row, hist
  <2>2. UTCDay(hour) \in Int /\ UTCDay(hour') \in Int /\ UTCDay(hour) <= UTCDay(hour')
    BY <1>h, <2>1, DaysGoOn
  <2>3. \A r \in Requests : HoldsSound(req[r], hour', exists, began)
    <3> SUFFICES ASSUME NEW r \in Requests PROVE HoldsSound(req[r], hour', exists, began)
      OBVIOUS
    <3>1. /\ req[r].step = "create" => req[r].holds <= UTCDay(hour')
          /\ req[r].step = "touch" => req[r].holds <= UTCDay(hour') + 1
      BY <1>r, <2>2 DEF HoldsSound, Request
    <3>2. req[r].step = "clock" => req[r].holds <= hour'
      <4>1. hour' \in Nat /\ hour < hour'
        BY <2>1
      <4>2. req[r].step = "clock" => req[r].holds \in Nat
        BY <1>r DEF Request
      <4>3. req[r].step = "clock" => req[r].holds <= hour
        BY <1>r DEF HoldsSound
      <4> QED BY <1>h, <4>1, <4>2, <4>3
    <3> QED BY <1>r, <3>1, <3>2 DEF HoldsSound
  <2>4. /\ lastDay' # NoDay => lastDay' <= UTCDay(hour') + 1
        /\ began' # NoDay => began' <= UTCDay(hour')
    BY <2>1, <2>2 DEF Soundness, CountersSound
  <2>5. CountersSound'
    BY <1>10, CountersUntouched DEF Tick, row, hist, Counters
  <2> QED BY <2>1, <2>3, <2>4, <2>5 DEF Soundness
<1>11. ASSUME UNCHANGED vars
       PROVE  CountersSound' /\ Soundness'
  <2>1. UNCHANGED <<hour, exists, zone, lastDay, req, began, predates>> /\ UNCHANGED Counters
    BY <1>11 DEF vars, row, hist, Counters
  <2> QED BY <2>1, CountersUntouched DEF Soundness, HoldsSound
<1> QED BY <1>1, <1>2, <1>3, <1>4, <1>5, <1>6, <1>7, <1>8, <1>9, <1>10, <1>11
        DEF Next, Serve

----------------------------------------------------------------------------
\* Theorems

LEMMA InitSound == ASSUME Init PROVE CountersSound /\ Soundness
<1> USE ActivityAssumption DEF ActivityAssumption
<1>1. CountersSound
  BY FS_EmptySet DEF Init, CountersSound, StoredDayIsLatest, CountedDaysFit,
                     Earliest, StreakIsEarned, NoFreeDays
<1>2. Soundness
  BY IdleSound DEF Init, Soundness, HoldsSound, Idle, Request, UTC
<1> QED BY <1>1, <1>2

LEMMA Inductive == Spec => []Inv
<1>1. Init => Inv
  BY InitSound, InvSplits
<1>2. Inv /\ [Next]_vars => Inv'
  <2> SUFFICES ASSUME Inv, [Next]_vars PROVE Inv'
    OBVIOUS
  <2>1. CountersSound' /\ Soundness'
    BY InvSplits, StepSound DEF Inv
  <2> QED BY <2>1 DEF Inv, CountersSound, Soundness, HoldsSound, TypeOK, RowExists,
                      NoDayTooFarAhead, NoDayTooFarBack
<1> QED BY <1>1, <1>2, PTL DEF Spec

\* The columns, the requests and the history are always of their types.
THEOREM TypeCorrect == Spec => []TypeOK
<1>1. Inv => TypeOK
  BY DEF Inv
<1> QED BY <1>1, Inductive, PTL

\* touchActivityQuery: whatever the order of the touches, the streak shown is
\* a run of days, ending on the stored one, on which the account was active.
THEOREM StreakEarned == Spec => []StreakIsEarned
<1>1. Inv => StreakIsEarned
  BY DEF Inv
<1> QED BY <1>1, Inductive, PTL

\* No day of activity is counted twice.
THEOREM NoDayFree == Spec => []NoFreeDays
<1>1. Inv => NoFreeDays
  BY DEF Inv
<1> QED BY <1>1, Inductive, PTL

\* As many days are counted as have gone by in UTC since activity began, or
\* one more, or two for an account older than the columns.
THEOREM ExtraDaysFew == Spec => []ExtraDaysBounded
<1>1. Inv => ExtraDaysBounded
  <2> SUFFICES ASSUME Inv, lastDay # NoDay PROVE ExtraDaysBounded
    BY DEF ExtraDaysBounded
  <2>1. hour \in Nat /\ distinct \in Nat /\ lastDay \in Int /\ began \in Int
    BY ActivityAssumption DEF ActivityAssumption, Inv, TypeOK, CountedDaysFit
  <2>2. UTCDay(hour) \in Int
    BY <2>1, DaysGoOn
  <2> QED BY <2>1, <2>2 DEF Inv, CountedDaysFit, Earliest, NoDayTooFarAhead, ExtraDaysBounded
<1> QED BY <1>1, Inductive, PTL

\* The stored day never walks backwards, and only a day without any activity
\* cuts the streak.
THEOREM CutOnlyByAGap == Spec => StreakCutOnlyByAGap
<1> USE ActivityAssumption DEF ActivityAssumption
<1> DEFINE Cut == /\ lastDay # NoDay => lastDay' >= lastDay
                  /\ streak' < streak =>
                       \E d \in lastDay + 1 .. lastDay' - 1 : d \notin touched'
<1>1. ASSUME Inv, NEW day \in Int, TouchActivity(day) PROVE Cut
  <2>1. CASE ~Counts(day)
    BY <1>1, <2>1 DEF Inv, TypeOK, TouchActivity, LastDayOn, StreakOn, Counts
  <2>2. CASE Counts(day)
    <3>1. lastDay' = day /\ (lastDay # NoDay => lastDay < day)
      BY <2>2, <1>1 DEF TouchActivity, LastDayOn, Counts
    <3>2. ASSUME streak' < streak
          PROVE  \E d \in lastDay + 1 .. lastDay' - 1 : d \notin touched'
      <4>1. streak > 0 /\ lastDay # NoDay /\ lastDay # day - 1
        BY <1>1, <2>2, <3>2 DEF Inv, TypeOK, StoredDayIsLatest, TouchActivity, StreakOn
      <4>2. \A d \in touched : d <= lastDay
        BY <1>1, <4>1 DEF Inv, StoredDayIsLatest
      <4>3. lastDay + 1 \in lastDay + 1 .. lastDay' - 1
        BY <1>1, <3>1, <4>1 DEF Inv, TypeOK
      <4>4. lastDay + 1 \notin touched'
        BY <1>1, <3>1, <4>1, <4>2 DEF Inv, TypeOK, TouchActivity
      <4> QED BY <4>3, <4>4
    <3> QED BY <1>1, <3>1, <3>2 DEF Inv, TypeOK
  <2> QED BY <2>1, <2>2
<1>2. ASSUME Inv, lastDay' = lastDay, streak' = streak PROVE Cut
  BY <1>2 DEF Inv, TypeOK
<1>3. ASSUME Inv, Next PROVE Cut
  <2>1. ASSUME NEW r \in Requests, Touch(r) PROVE Cut
    <3>1. req[r].holds \in Int /\ TouchActivity(req[r].holds)
      BY <1>3, <2>1 DEF Inv, TypeOK, Request, Touch
    <3> HIDE DEF Cut
    <3> QED BY <1>1, <1>3, <3>1
  <2>2. ASSUME NEW r \in Requests, Create(r) PROVE Cut
    <3>1. CASE exists
      BY <1>2, <1>3, <2>2, <3>1 DEF Create, row
    <3>2. CASE ~exists
      <4>1. lastDay = NoDay /\ streak = 0 /\ streak' = 1
        BY <1>3, <2>2, <3>2 DEF Inv, RowExists, StoredDayIsLatest, Create
      <4> QED BY <4>1
    <3> QED BY <3>1, <3>2
  <2>3. ASSUME NEW r \in Requests,
               \/ RegisterDay(r) \/ ReadZone(r) \/ CutDay(r) \/ ReadClock(r)
               \/ CutEarlierDay(r) \/ Fail(r)
        PROVE  Cut
    <3>1. lastDay' = lastDay /\ streak' = streak
      BY <2>3 DEF RegisterDay, ReadZone, CutDay, ReadClock, CutEarlierDay, Fail, row
    <3> HIDE DEF Cut
    <3> QED BY <1>2, <1>3, <3>1
  <2>4. ASSUME ChangeZone \/ Tick PROVE Cut
    <3>1. lastDay' = lastDay /\ streak' = streak
      BY <2>4 DEF ChangeZone, Tick, row
    <3> HIDE DEF Cut
    <3> QED BY <1>2, <1>3, <3>1
  <2> HIDE DEF Cut
  <2> QED BY <1>3, <2>1, <2>2, <2>3, <2>4 DEF Next, Serve
<1>4. Inv /\ [Next]_vars => [Cut]_vars
  BY <1>3
<1> QED BY <1>4, Inductive, PTL DEF Spec, StreakCutOnlyByAGap
=============================================================================
