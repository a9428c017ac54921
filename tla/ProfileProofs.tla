--------------------------- MODULE ProfileProofs ---------------------------
(***************************************************************************)
(* What Profile promises, for any requests, names, zones, versions and     *)
(* days, and any number of UPDATEs.                                        *)
(*                                                                         *)
(* Everything an accepted call carries, wherever it is by now, was         *)
(* acceptable on some earlier day to some version, and days only go        *)
(* forward: that is the invariant the rest follows from.                   *)
(***************************************************************************)
EXTENDS Profile, TLAPS

\* Acceptable but for what this version knows of zones.
Sound(p) ==
  /\ p \in Fields(Names, Genders, Birthdays \cup {None}, Zones \cup {None})
  /\ p.birth = None \/ p.birth \in MinBirthDay .. today

\* The row is the last of what was stored, and all of that is sound.
History ==
  /\ row = IF stored = <<>> THEN Empty ELSE stored[Len(stored)]
  /\ \A i \in 1 .. Len(stored) : Sound(stored[i])

Requested ==
  \A r \in Requests :
    /\ req[r].step \in Pending => Sound(req[r].profile)
    /\ req[r].step \in {"read", "done"} => req[r].place \in 1 .. Len(stored)

Inv == TypeOK /\ History /\ Requested /\ AnswerIsCurrent

----------------------------------------------------------------------------

LEMMA AcceptedIsSound ==
  ASSUME TypeOK, NEW p \in Payloads, Accepts(p)
  PROVE Sound(p)
BY DEF TypeOK, Payloads, Fields, Accepts, Sound

LEMMA SoundIsComplete ==
  ASSUME NEW p, Sound(p)
  PROVE Complete(p) /\ Shown(p) = p /\ p \in Profiles
BY ProfileAssumption DEF Sound, Complete, Shown, Profiles, Fields

LEMMA RowIsSound ==
  ASSUME Inv
  PROVE row = Empty \/ (Sound(row) /\ stored # <<>> /\ row = stored[Len(stored)])
<1>1. stored \in Seq(Profiles)
  BY DEF Inv, TypeOK
<1>2. CASE stored = <<>>
  BY <1>2 DEF Inv, History
<1>3. CASE stored # <<>>
  <2>1. Len(stored) \in 1 .. Len(stored)
    BY <1>1, <1>3
  <2> QED
    BY <1>3, <2>1 DEF Inv, History
<1> QED
  BY <1>2, <1>3

\* Days go forward, so what was sound stays so.
LEMMA SoundStays ==
  ASSUME TypeOK, TypeOK', today' >= today, NEW p, Sound(p)
  PROVE Sound(p)'
BY ProfileAssumption DEF TypeOK, Sound, Fields

----------------------------------------------------------------------------

LEMMA IdleIsCall == Idle \in Calls
BY DEF Idle, Calls, Profiles

\* Initially nothing is stored and nothing asked.
LEMMA InitInv == Init => Inv
<1> SUFFICES ASSUME Init PROVE Inv
  OBVIOUS
<1>1. TypeOK
  BY IdleIsCall DEF Init, TypeOK, Profiles
<1>2. History /\ Requested /\ AnswerIsCurrent
  BY DEF Init, History, Requested, AnswerIsCurrent, Idle, Pending
<1> QED
  BY <1>1, <1>2 DEF Inv

\* An UPDATE makes what it stores the row, and the last of what was stored.
LEMMA UpdateInv ==
  ASSUME Inv, NEW r \in Requests, Update(r)
  PROVE Inv'
<1>1. Sound(req[r].profile) /\ req[r].profile \in Profiles
  BY SoundIsComplete DEF Inv, Requested, Update
<1>2. /\ Len(stored') = Len(stored) + 1 /\ Len(stored) \in Nat
      /\ stored' \in Seq(Profiles) /\ stored' # <<>>
      /\ stored'[Len(stored')] = row'
      /\ \A i \in 1 .. Len(stored) : stored'[i] = stored[i]
  BY <1>1 DEF Inv, TypeOK, Update
<1>3. TypeOK'
  <2>1. ASSUME req' = [req EXCEPT ![r] = Idle]
        PROVE req' \in [Requests -> Calls]
    BY <2>1, IdleIsCall DEF Inv, TypeOK
  <2>2. ASSUME req' = [req EXCEPT ![r].step = "read", ![r].place = Len(stored')]
        PROVE req' \in [Requests -> Calls]
    <3>1. [req[r] EXCEPT !.step = "read", !.place = Len(stored')] \in Calls
      <4>1. req[r] \in Calls /\ Len(stored') \in Nat
        BY <1>2 DEF Inv, TypeOK
      <4> QED
        BY <4>1 DEF Calls
    <3>2. req' = [req EXCEPT ![r] = [req[r] EXCEPT !.step = "read", !.place = Len(stored')]]
      BY <2>2
    <3> QED
      BY <3>1, <3>2 DEF Inv, TypeOK
  <2>3. req' \in [Requests -> Calls]
    BY <2>1, <2>2 DEF Update, Inv, TypeOK
  <2> QED
    BY <1>1, <1>2, <2>3 DEF Inv, TypeOK, Update
<1>4. \A p : Sound(p) => Sound(p)'
  BY DEF Update, Sound
<1>5. History'
  <2>1. ASSUME NEW i \in 1 .. Len(stored') PROVE Sound(stored'[i])
    <3>1. CASE i = Len(stored')
      BY <1>1, <1>2, <3>1 DEF Update
    <3>2. CASE i \in 1 .. Len(stored)
      BY <1>2, <3>2 DEF Inv, History
    <3> QED
      BY <1>2, <3>1, <3>2
  <2>2. today' = today
    BY DEF Update
  <2> QED
    BY <1>2, <2>1, <2>2 DEF History, Sound
<1>6. \A q \in Requests \ {r} : req'[q] = req[q]
  BY DEF Update, Inv, TypeOK
<1>7. \/ req'[r] = Idle
      \/ req'[r].step = "read" /\ req'[r].place = Len(stored')
  BY DEF Update, Inv, TypeOK, Calls
<1>8. Requested'
  BY <1>2, <1>4, <1>6, <1>7 DEF Inv, Requested, Idle, Pending
<1>9. AnswerIsCurrent'
  <2> SUFFICES ASSUME NEW q \in Requests, req'[q].step = "done"
               PROVE \E i \in req'[q].place .. Len(stored') : req'[q].profile = stored'[i]
    BY DEF AnswerIsCurrent
  <2>1. q # r /\ req'[q] = req[q]
    BY <1>6, <1>7 DEF Idle
  <2>2. PICK i \in req[q].place .. Len(stored) : req[q].profile = stored[i]
    BY <2>1 DEF Inv, AnswerIsCurrent
  <2>3. req[q].place \in 1 .. Len(stored)
    BY <2>1 DEF Inv, Requested
  <2> QED
    BY <1>2, <2>1, <2>2, <2>3
<1> QED
  BY <1>3, <1>5, <1>8, <1>9 DEF Inv

\* The answer is the row, which is the last of what was stored.
LEMMA ReadBackInv ==
  ASSUME Inv, NEW r \in Requests, ReadBack(r)
  PROVE Inv'
<1>1. req[r].place \in 1 .. Len(stored)
  BY DEF Inv, Requested, ReadBack
<1>2. Sound(row) /\ row = stored[Len(stored)] /\ Len(stored) \in Nat
  BY <1>1 DEF Inv, History, TypeOK
<1>3. Shown(row) = row /\ row \in Profiles
  BY <1>2, SoundIsComplete
<1>4. req'[r].step = "done" /\ req'[r].profile = row /\ req'[r].place = req[r].place
  BY <1>3 DEF ReadBack, Inv, TypeOK
<1>5. \A q \in Requests \ {r} : req'[q] = req[q]
  BY DEF ReadBack, Inv, TypeOK
<1>6. TypeOK'
  <2>1. [req[r] EXCEPT !.step = "done", !.profile = row] \in Calls
    BY <1>3 DEF Inv, TypeOK, Calls
  <2>2. req' = [req EXCEPT ![r] = [req[r] EXCEPT !.step = "done", !.profile = row]]
    BY <1>3 DEF ReadBack
  <2> QED
    BY <2>1, <2>2 DEF Inv, TypeOK, ReadBack
<1>7. History' /\ Requested'
  BY <1>1, <1>4, <1>5 DEF Inv, History, Requested, Pending, Sound, ReadBack
<1>8. AnswerIsCurrent'
  <2> SUFFICES ASSUME NEW q \in Requests, req'[q].step = "done"
               PROVE \E i \in req'[q].place .. Len(stored) : req'[q].profile = stored[i]
    BY DEF AnswerIsCurrent, ReadBack
  <2>1. CASE q = r
    <3>1. Len(stored) \in req'[r].place .. Len(stored)
      BY <1>1, <1>2, <1>4
    <3> QED
      BY <1>2, <1>4, <2>1, <3>1
  <2>2. CASE q # r
    BY <1>5, <2>2 DEF Inv, AnswerIsCurrent
  <2> QED
    BY <2>1, <2>2
<1> QED
  BY <1>6, <1>7, <1>8 DEF Inv

\* What moves neither the row nor the history: each request keeps what it has,
\* is answered, or was accepted with something sound.
LEMMA OthersInv ==
  ASSUME Inv, TypeOK', today' >= today, UNCHANGED <<row, stored>>,
         \A q \in Requests :
           \/ req'[q] = req[q]
           \/ req'[q].step = "idle"
           \/ req'[q].step \in Pending /\ Sound(req'[q].profile)
  PROVE Inv'
<1>1. \A p : Sound(p) => Sound(p)'
  BY SoundStays DEF Inv
<1>2. History'
  BY <1>1 DEF Inv, History
<1>3. Requested'
  BY <1>1 DEF Inv, Requested, Pending
<1>4. AnswerIsCurrent'
  BY DEF Inv, AnswerIsCurrent, Pending
<1> QED
  BY <1>2, <1>3, <1>4 DEF Inv

LEMMA NextInv ==
  ASSUME Inv, [Next]_vars
  PROVE Inv'
<1> USE DEF Inv
<1>0. today \in Int /\ today >= today
  BY ProfileAssumption DEF TypeOK
<1>1. ASSUME NEW r \in Requests, SaveProfile(r) PROVE Inv'
  <2>1. PICK p \in Payloads :
          req' = [req EXCEPT ![r] =
            IF Accepts(p) THEN [Idle EXCEPT !.step = "update", !.profile = p] ELSE Idle]
    BY <1>1 DEF SaveProfile
  <2>2. Accepts(p) => Sound(p) /\ p \in Profiles
    BY AcceptedIsSound, SoundIsComplete
  <2>3. TypeOK'
    <3>1. Accepts(p) => [Idle EXCEPT !.step = "update", !.profile = p] \in Calls
      BY <2>2, IdleIsCall DEF Calls
    <3> QED
      BY <1>1, <2>1, <3>1, IdleIsCall DEF TypeOK, SaveProfile
  <2>4. \A q \in Requests :
          \/ req'[q] = req[q]
          \/ req'[q].step = "idle"
          \/ req'[q].step \in Pending /\ Sound(req'[q].profile)
    BY <2>1, <2>2 DEF TypeOK, Idle, Pending
  <2> QED
    BY <1>0, <1>1, <2>3, <2>4, OthersInv DEF SaveProfile
<1>2. ASSUME NEW r \in Requests, Fail(r) PROVE Inv'
  <2>1. TypeOK'
    <3>1. [req[r] EXCEPT !.step = "lingers"] \in Calls
      BY DEF TypeOK, Calls
    <3>2. \/ req' = [req EXCEPT ![r] = Idle]
          \/ req' = [req EXCEPT ![r] = [req[r] EXCEPT !.step = "lingers"]]
      BY <1>2 DEF Fail
    <3> QED
      BY <1>2, <3>1, <3>2, IdleIsCall DEF TypeOK, Fail
  <2>2. \A q \in Requests :
          \/ req'[q] = req[q]
          \/ req'[q].step = "idle"
          \/ req'[q].step \in Pending /\ Sound(req'[q].profile)
    BY <1>2 DEF TypeOK, Calls, Fail, Idle, Pending, Requested
  <2> QED
    BY <1>0, <1>2, <2>1, <2>2, OthersInv DEF Fail
<1>3. CASE Deploy
  <2>1. PICK late \in SUBSET {r \in Requests : req[r].step \in Pending} :
          req' = [r \in Requests |->
                    IF r \in late THEN [req[r] EXCEPT !.step = "lingers"] ELSE Idle]
    BY <1>3 DEF Deploy
  <2>2. TypeOK'
    <3>1. \A r \in Requests : [req[r] EXCEPT !.step = "lingers"] \in Calls
      BY DEF TypeOK, Calls
    <3> QED
      BY <1>3, <2>1, <3>1, IdleIsCall DEF TypeOK, Deploy
  <2>3. \A q \in Requests :
          \/ req'[q] = req[q]
          \/ req'[q].step = "idle"
          \/ req'[q].step \in Pending /\ Sound(req'[q].profile)
    BY <2>1 DEF TypeOK, Idle, Pending, Requested
  <2> QED
    BY <1>0, <1>3, <2>2, <2>3, OthersInv DEF Deploy
<1>4. CASE Tick
  <2>1. TypeOK' /\ today' >= today /\ req' = req
    BY <1>4, ProfileAssumption DEF TypeOK, Tick
  <2> QED
    BY <1>4, <2>1, OthersInv DEF Tick
<1>5. CASE UNCHANGED vars
  <2>1. TypeOK' /\ today' >= today
    BY <1>0, <1>5 DEF TypeOK, vars
  <2> QED
    BY <1>5, <2>1, OthersInv DEF vars
<1> QED
  BY <1>1, <1>2, <1>3, <1>4, <1>5, UpdateInv, ReadBackInv DEF Next

----------------------------------------------------------------------------

THEOREM Invariance == Spec => []Inv
BY InitInv, NextInv, PTL DEF Spec

\* The row, the requests and the history keep their types.
THEOREM TypeCorrect == Spec => []TypeOK
BY Invariance, PTL DEF Inv

\* No call is answered with a profile older than its own, or a mixture.
THEOREM AnswersAreCurrent == Spec => []AnswerIsCurrent
BY Invariance, PTL DEF Inv

\* What the server shows may be sent back, on any later day, and changes nothing.
THEOREM EchoesChangeNothing == Spec => []EchoChangesNothing
<1>1. Inv => EchoChangesNothing
  <2> SUFFICES ASSUME Inv, Complete(row), row.zone \in known \cup {None}
               PROVE Accepts(Shown(row)) /\ Shown(row) = row
    BY DEF EchoChangesNothing
  <2>1. Sound(row)
    BY RowIsSound DEF Complete, Empty
  <2> QED
    BY <2>1, SoundIsComplete DEF Sound, Accepts, Fields
<1> QED
  BY <1>1, Invariance, PTL

\* No write takes a profile away: whoever filled in the form is not shown it again.
THEOREM OnboardedStays == Spec => OnboardedForGood
<1>1. ASSUME Inv, Inv', [Next]_vars, Complete(Shown(row)) PROVE Complete(Shown(row'))
  <2>1. CASE \E r \in Requests : Update(r)
    <3>1. PICK r \in Requests : Update(r)
      BY <2>1
    <3>2. Sound(row')
      BY <1>1, <3>1 DEF Inv, Requested, Update
    <3> QED
      BY <3>2, SoundIsComplete
  <2>2. CASE UNCHANGED row
    BY <1>1, <2>2
  <2> QED
    BY <1>1, <2>1, <2>2 DEF Next, SaveProfile, ReadBack, Fail, Deploy, Tick, vars
<1>2. Inv /\ Inv' /\ [Next]_vars => [Complete(Shown(row)) => Complete(Shown(row'))]_vars
  BY <1>1
<1> QED
  BY <1>2, Invariance, PTL DEF Spec, OnboardedForGood
=============================================================================
