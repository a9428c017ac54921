--------------------------- MODULE PracticeProofs ---------------------------
(***************************************************************************)
(* What the composition promises its user: the document is never behind    *)
(* the counters GET /me shows with it, and no day is counted that no       *)
(* practice stands for.  Both rest on which step of a request may follow   *)
(* which, and the second on what Activity makes of a touch.                *)
(***************************************************************************)
EXTENDS Practice, FiniteSetTheorems, TLAPS

\* To the document a step is one of AtomicProgress or none.
LEMMA StoreStep ==
  ASSUME [Next]_vars
  PROVE  [Store!Next]_Store!vars
<1> USE DEF Store!vars, store
<1>1. ASSUME NEW r \in Requests, Call(r) \/ Apply(r) \/ Reply(r) \/ Me(r) \/ Snapshot(r)
      PROVE  Store!Next
  BY <1>1 DEF Call, Apply, Reply, Me, Snapshot, Store!Next
<1>2. ASSUME Fail PROVE Store!Next
  BY <1>2 DEF Fail, Store!Next
<1>3. ASSUME NEW r \in Requests,
             ReadZone(r) \/ CutDay(r) \/ Touch(r) \/ ActivityFails(r) \/ Login(r)
      PROVE  UNCHANGED store
  BY <1>3 DEF ReadZone, CutDay, Touch, ActivityFails, Login
<1>4. ASSUME SaveProfile \/ Tick PROVE UNCHANGED store
  BY <1>4 DEF SaveProfile, Tick
<1> QED
  BY <1>1, <1>2, <1>3, <1>4 DEF Next, vars

-----------------------------------------------------------------------------
\* GET /me.  It is never behind because nothing is credited that is not in the
\* log, and the account is never read later than the document.

\* There is one user, so whose call an answered one was is settled.
LEMMA OneOwner == Store!Anyone = Owner
BY DEF Store!Anyone, Owner

Documents == {NoDoc} \cup SUBSET Nat

\* AtomicProgress, typed: what a call is decides what is logged.
Calls == [phase : Store!Phases, user : {Owner}, kind : Store!Kinds, id : Nat,
          reply : Documents]

StoreType ==
  /\ doc \in [{Owner} -> Documents]
  /\ ops \in Nat
  /\ call \in [Requests -> Calls]

\* A use that points into a log of length n of which c is the latest credited.
Within(u, n, c) ==
  /\ u.at <= n
  /\ u.account <= c
  /\ u.step = "none" /\ u.document # 0 => u.account <= u.document

AllWithin == \A r \in Requests : Within(use[r], Len(log), credited)

IInv == StoreType /\ TypeOK /\ AllWithin

LEMMA InitTyped == Init => StoreType
BY PracticeAssumption, OneOwner DEF Init, Store!Init, Store!NoCall, Store!Kinds, Store!Changes,
   Store!Phases, StoreType, Calls, Documents, Owner

LEMMA StoreTyped ==
  ASSUME StoreType, [Store!Next]_Store!vars
  PROVE  StoreType'
<1> USE DEF StoreType, Calls, Documents, Owner
<1>1. ASSUME NEW r \in Requests, Store!Call(r) PROVE StoreType'
  <2>1. PICK k \in Store!Kinds :
          /\ ops' = IF k \in Store!Changes THEN ops + 1 ELSE ops
          /\ call' = [call EXCEPT ![r] =
               [Store!NoCall(Owner) EXCEPT !.phase = "called", !.kind = k,
                                 !.id = IF k \in Store!Changes THEN ops + 1 ELSE 0]]
    BY <1>1 DEF Store!Call
  <2>2. [Store!NoCall(Owner) EXCEPT !.phase = "called", !.kind = k,
                           !.id = IF k \in Store!Changes THEN ops + 1 ELSE 0] \in Calls
    <3>1. Store!NoCall(Owner) \in Calls
      BY DEF Store!NoCall, Store!Kinds, Store!Changes, Store!Phases
    <3>2. "called" \in Store!Phases /\ (IF k \in Store!Changes THEN ops + 1 ELSE 0) \in Nat
      BY DEF Store!Phases
    <3> QED BY <3>1, <3>2
  <2>3. doc' = doc
    BY <1>1 DEF Store!Call
  <2> QED BY <2>1, <2>2, <2>3
<1>2. ASSUME NEW r \in Requests, Store!Apply(r) PROVE StoreType'
  <2>1. Store!Effect(call[r].kind, call[r].id, doc[call[r].user]) \in Documents
    BY DEF Store!Effect, Store!Contents
  <2>2. Store!Idle(call[r]) \in Calls
    BY OneOwner DEF Store!Idle, Store!NoCall, Store!Kinds, Store!Changes, Store!Phases
  <2>3. [call[r] EXCEPT !.phase = "applied"] \in Calls
    BY DEF Store!Phases
  <2> QED BY <1>2, <2>1, <2>2, <2>3 DEF Store!Apply
<1>3. ASSUME NEW r \in Requests, Store!Reply(r) PROVE StoreType'
  BY <1>3, OneOwner DEF Store!Reply, Store!Idle, Store!NoCall, Store!Kinds, Store!Changes, Store!Phases
<1>4. ASSUME Store!Fail PROVE StoreType'
  <2>1. ASSUME NEW r \in Requests PROVE Store!AfterFailure(call[r]) \subseteq Calls
    BY <2>1, OneOwner DEF Store!AfterFailure, Store!Idle, Store!NoCall, Store!Kinds, Store!Changes,
       Store!Phases
  <2>2. /\ DOMAIN call' = Requests /\ \A r \in Requests : call'[r] \in Store!AfterFailure(call[r])
        /\ call' = [r \in Requests |-> call'[r]]
    BY <1>4 DEF Store!Fail
  <2> QED BY <1>4, <2>1, <2>2 DEF Store!Fail
<1>5. ASSUME UNCHANGED Store!vars PROVE StoreType'
  BY <1>5 DEF Store!vars
<1> HIDE DEF StoreType, Calls, Documents, Owner
<1> QED BY <1>1, <1>2, <1>3, <1>4, <1>5 DEF Store!Next

\* A step that gives one request another use, and may lengthen the log.
LogGrows ==
  /\ log' \in Seq({"Login", "Save", "RecordAnswer", "Merge"})
  /\ credited' \in Nat /\ credited <= credited' /\ credited' <= Len(log')
  /\ Len(log') \in Nat /\ Len(log) <= Len(log')

LEMMA OneUse ==
  ASSUME IInv, StoreType', NEW r \in Requests, NEW u \in Uses,
         use' = [use EXCEPT ![r] = u], LogGrows, Within(u, Len(log'), credited')
  PROVE  IInv'
<1> USE DEF LogGrows
<1>1. TypeOK'
  BY DEF IInv, AllWithin, TypeOK
<1>2. ASSUME NEW s \in Requests PROVE Within(use'[s], Len(log'), credited')
  <2>1. CASE s = r
    BY <2>1 DEF IInv, AllWithin, TypeOK, Within
  <2>2. CASE s # r
    BY <2>2 DEF IInv, AllWithin, TypeOK, Within, Uses
  <2> QED BY <2>1, <2>2
<1> QED BY <1>1, <1>2 DEF IInv, AllWithin

LEMMA NoUseIsSound ==
  ASSUME credited' \in Nat, Len(log') \in Nat
  PROVE  NoUse \in Uses /\ Within(NoUse, Len(log'), credited')
BY DEF NoUse, In, Uses, Within

LEMMA StepSound == ASSUME IInv, [Next]_vars PROVE IInv'
<1>0. StoreType'
  BY StoreStep, StoreTyped DEF IInv, AllWithin
<1>1. Len(log) \in Nat /\ credited \in Nat /\ credited <= Len(log)
  BY DEF IInv, AllWithin, TypeOK
<1>a. ASSUME UNCHANGED <<log, credited>> PROVE LogGrows
  BY <1>a, <1>1 DEF LogGrows, IInv, TypeOK
<1>b. ASSUME LogGrows PROVE NoUse \in Uses /\ Within(NoUse, Len(log'), credited')
  BY <1>b, NoUseIsSound DEF LogGrows
<1>2. ASSUME NEW r \in Requests, Call(r) PROVE IInv'
  <2>1. use' = [use EXCEPT ![r] = In("progress", 0)] /\ log' = log /\ credited' = credited
    BY <1>2 DEF Call
  <2>2. In("progress", 0) \in Uses /\ Within(In("progress", 0), Len(log'), credited')
    BY <1>1, <2>1 DEF Within, Uses, In
  <2>3. LogGrows
    BY <1>a, <2>1
  <2> QED BY <1>0, <2>1, <2>2, <2>3, OneUse
<1>3. ASSUME NEW r \in Requests, Apply(r) PROVE IInv'
  <2>1. call[r].kind \in {"Save", "RecordAnswer", "Merge"}
    BY <1>3 DEF Apply, Store!Apply, Store!Changes
  <2>2. /\ log' \in Seq({"Login", "Save", "RecordAnswer", "Merge"})
        /\ Len(log') = Len(log) + 1
    BY <1>3, <2>1 DEF Apply, IInv, AllWithin, TypeOK
  <2>3. use[r] \in Uses /\ Within(use[r], Len(log), credited)
    BY DEF IInv, AllWithin, TypeOK
  <2>4. credited' = credited
    BY <1>3 DEF Apply
  <2>5. LogGrows
    BY <1>1, <2>2, <2>4 DEF LogGrows
  <2>6. CASE call[r].phase = "lingers"
    <3>1. use' = [use EXCEPT ![r] = use[r]]
      BY <1>3, <2>6 DEF Apply
    <3>2. Within(use[r], Len(log'), credited')
      BY <1>1, <2>2, <2>3, <2>4 DEF Within, Uses
    <3> QED BY <1>0, <2>3, <2>5, <3>1, <3>2, OneUse
  <2>7. CASE call[r].phase # "lingers" /\ call'[r].phase = "applied"
    <3> DEFINE u == In("progress", Len(log) + 1)
    <3>1. use' = [use EXCEPT ![r] = u]
      BY <1>3, <2>7 DEF Apply
    <3>2. u \in Uses /\ Within(u, Len(log'), credited')
      BY <1>1, <2>2, <2>4 DEF Within, Uses, In
    <3> HIDE DEF u
    <3> QED BY <1>0, <2>5, <3>1, <3>2, OneUse
  <2>8. CASE call[r].phase # "lingers" /\ call'[r].phase # "applied"
    <3>1. use' = [use EXCEPT ![r] = NoUse]
      BY <1>3, <2>8 DEF Apply
    <3> QED BY <1>0, <1>b, <2>5, <3>1, OneUse
  <2> QED BY <2>6, <2>7, <2>8
<1>4. ASSUME NEW r \in Requests, Reply(r) PROVE IInv'
  <2>1. use[r] \in Uses /\ Within(use[r], Len(log), credited)
    BY DEF IInv, AllWithin, TypeOK
  <2>2. log' = log /\ credited' = credited
    BY <1>4 DEF Reply
  <2>3. LogGrows
    BY <1>a, <2>2
  <2>4. CASE use' = [use EXCEPT ![r] = NoUse]
    BY <1>0, <1>b, <2>3, <2>4, OneUse
  <2>5. CASE use' = [use EXCEPT ![r] = In("activity", use[r].at)]
    <3> DEFINE u == In("activity", use[r].at)
    <3>1. u \in Uses /\ Within(u, Len(log'), credited')
      BY <1>1, <2>1, <2>2 DEF Uses, Within, In
    <3>2. use' = [use EXCEPT ![r] = u]
      BY <2>5
    <3> HIDE DEF u
    <3> QED BY <1>0, <2>3, <3>1, <3>2, OneUse
  <2> QED BY <1>4, <2>4, <2>5 DEF Reply
<1>5. ASSUME NEW r \in Requests, Login(r) PROVE IInv'
  <2>1. /\ log' \in Seq({"Login", "Save", "RecordAnswer", "Merge"})
        /\ Len(log') = Len(log) + 1
    BY <1>5 DEF Login, IInv, AllWithin, TypeOK
  <2> DEFINE u == In("activity", Len(log) + 1)
  <2>2. use' = [use EXCEPT ![r] = u] /\ credited' = credited
    BY <1>5 DEF Login
  <2>3. u \in Uses /\ Within(u, Len(log'), credited')
    BY <1>1, <2>1, <2>2 DEF Within, Uses, In
  <2>4. LogGrows
    BY <1>1, <2>1, <2>2 DEF LogGrows
  <2> HIDE DEF u
  <2> QED BY <1>0, <2>2, <2>3, <2>4, OneUse
<1>6. ASSUME NEW r \in Requests, ReadZone(r) \/ CutDay(r) PROVE IInv'
  BY <1>0, <1>6 DEF ReadZone, CutDay, IInv, AllWithin, TypeOK, Within
<1>7. ASSUME NEW r \in Requests, Touch(r) PROVE IInv'
  <2>1. use[r].at \in Nat /\ use[r].at <= Len(log)
    BY DEF IInv, AllWithin, TypeOK, Within, Uses
  <2>2. credited' \in Nat /\ credited <= credited' /\ credited' <= Len(log)
    BY <1>1, <1>7, <2>1 DEF Touch, Later
  <2>3. log' = log /\ log \in Seq({"Login", "Save", "RecordAnswer", "Merge"})
        /\ use' = [use EXCEPT ![r] = NoUse]
    BY <1>7 DEF Touch, IInv, TypeOK
  <2>4. LogGrows
    BY <1>1, <2>2, <2>3 DEF LogGrows
  <2> QED BY <1>0, <1>b, <2>3, <2>4, OneUse
<1>8. ASSUME NEW r \in Requests, ActivityFails(r) PROVE IInv'
  <2>1. UNCHANGED <<log, credited>> /\ use' = [use EXCEPT ![r] = NoUse]
    BY <1>8 DEF ActivityFails
  <2> QED BY <1>0, <1>a, <1>b, <2>1, OneUse
<1>9. ASSUME NEW r \in Requests, Me(r) PROVE IInv'
  <2> DEFINE u == Boot("me", Len(log), credited, 0)
  <2>1. use' = [use EXCEPT ![r] = u] /\ log' = log /\ credited' = credited
    BY <1>9 DEF Me
  <2>2. u \in Uses /\ Within(u, Len(log'), credited')
    BY <1>1, <2>1 DEF Within, Uses, Boot
  <2> HIDE DEF u
  <2>3. LogGrows
    BY <1>a, <2>1
  <2> QED BY <1>0, <2>1, <2>2, <2>3, OneUse
<1>10. ASSUME NEW r \in Requests, Snapshot(r) PROVE IInv'
  <2>1. use[r] \in Uses /\ Within(use[r], Len(log), credited)
    BY DEF IInv, AllWithin, TypeOK
  <2>2. log' = log /\ credited' = credited
    BY <1>10 DEF Snapshot
  <2> DEFINE u == Boot("none", use[r].at, use[r].account, Len(log))
  <2>3. u \in Uses /\ Within(u, Len(log'), credited')
    BY <1>1, <2>1, <2>2 DEF Uses, Within, Boot
  <2>4. use' = [use EXCEPT ![r] = u]
    BY <1>10 DEF Snapshot
  <2> HIDE DEF u
  <2>5. LogGrows
    BY <1>a, <2>2
  <2> QED BY <1>0, <2>3, <2>4, <2>5, OneUse
<1>11. ASSUME Fail PROVE IInv'
  <2>1. log' = log /\ credited' = credited
    BY <1>11 DEF Fail
  <2>2. ASSUME NEW s \in Requests PROVE use'[s] \in {NoUse, use[s]}
    BY <1>11, <2>2 DEF Fail
  <2>3. use' \in [Requests -> Uses]
    <3>1. \A s \in Requests : use'[s] \in Uses
      BY <2>2, <1>1, <2>1, NoUseIsSound DEF IInv, AllWithin, TypeOK
    <3>2. DOMAIN use' = Requests /\ use' = [s \in Requests |-> use'[s]]
      BY <1>11 DEF Fail
    <3> QED BY <3>1, <3>2
  <2>4. ASSUME NEW s \in Requests PROVE Within(use'[s], Len(log'), credited')
    <3>1. CASE use'[s] = NoUse
      BY <3>1, <1>1, <2>1, NoUseIsSound
    <3>2. CASE use'[s] = use[s]
      BY <3>2, <2>1 DEF Within, IInv, AllWithin
    <3> QED BY <2>2, <3>1, <3>2
  <2> QED BY <1>0, <2>1, <2>3, <2>4 DEF IInv, AllWithin, TypeOK
<1>12. ASSUME SaveProfile \/ Tick \/ UNCHANGED vars PROVE IInv'
  BY <1>0, <1>12 DEF SaveProfile, Tick, vars, IInv, AllWithin, TypeOK, Within
<1> QED
  BY <1>2, <1>3, <1>4, <1>5, <1>6, <1>7, <1>8, <1>9, <1>10, <1>11, <1>12 DEF Next

LEMMA InitSound == Init => IInv
<1>1. Init => TypeOK /\ AllWithin
  BY DEF Init, TypeOK, NoUse, In, Uses, Within, AllWithin
<1> QED BY <1>1, InitTyped DEF IInv, AllWithin

LEMMA Inductive == Spec => []IInv
<1>1. IInv /\ [Next]_vars => IInv'
  BY StepSound
<1> QED BY <1>1, InitSound, PTL DEF Spec

\* Types of what Practice keeps of its own: where a request is, the log and what
\* is credited of it.
THEOREM TypeCorrect == Spec => []TypeOK
<1>1. IInv => TypeOK
  BY DEF IInv, AllWithin
<1> QED BY <1>1, Inductive, PTL

\* The document GET /me answers with is at least as new as any write that the
\* counters it answers with include, whoever writes meanwhile.  (service.Me)
THEOREM NeverBehind == Spec => []MeIsNeverBehind
<1>1. IInv => MeIsNeverBehind
  BY DEF IInv, AllWithin, Within, MeIsNeverBehind
<1> QED BY <1>1, Inductive, PTL

-----------------------------------------------------------------------------
\* What is counted.  Whoever is on the way to RecordActivity has a place in the
\* log that nobody else has and that no counted day stands for yet; what is left
\* of the practice covers the days.

\* On the way: stored but not yet read back, or read back, or logged in.
Claim(r) ==
  \/ use[r].step = "activity"
  \/ use[r].step = "progress" /\ call[r].phase = "applied" /\ Counts(call[r].kind)

Claimed == {use[r].at : r \in {s \in Requests : Claim(s)}}

Settled == Practised \ Claimed

\* Where a request is, its call on the document and its touch agree.
Fits(r) ==
  /\ use[r].step = "none" => call[r].phase \in {"idle", "lingers"}
  /\ use[r].step = "activity" => call[r].phase = "idle"
  /\ use[r].step \in {"progress", "me"} => call[r].phase \in {"called", "applied"}
  /\ use[r].step = "me" => call[r].kind = "Get"
  /\ req[r] # Account!Idle => use[r].step = "activity"

ClaimsApart ==
  /\ \A r \in Requests : Claim(r) => use[r].at \in Practised
  /\ \A r, s \in Requests : Claim(r) /\ Claim(s) /\ r # s => use[r].at # use[s].at

CountInv ==
  /\ DOMAIN req = Requests /\ \A r \in Requests : Fits(r)
  /\ ClaimsApart
  /\ distinct \in Nat /\ distinct <= Cardinality(Settled)

LEMMA PlacesFinite ==
  ASSUME NEW n \in Nat, NEW places \in SUBSET (1 .. n)
  PROVE  IsFiniteSet(places) /\ Cardinality(places) \in Nat
<1>1. IsFiniteSet(1 .. n)
  BY FS_Interval
<1>2. IsFiniteSet(places)
  BY <1>1, FS_Subset
<1> QED BY <1>2, FS_CardinalityType

LEMMA PractisedFinite ==
  ASSUME TypeOK
  PROVE  /\ Practised \subseteq 1 .. Len(log) /\ Len(log) \in Nat
         /\ \A s \in SUBSET Practised : IsFiniteSet(s) /\ Cardinality(s) \in Nat
<1>1. Len(log) \in Nat /\ Practised \subseteq 1 .. Len(log)
  BY DEF TypeOK, Practised
<1> QED BY <1>1, PlacesFinite

\* What is practised stays practised, and a login or a counted write adds to it.
LEMMA PractisedGrows ==
  ASSUME TypeOK, NEW k \in {"Login", "Save", "RecordAnswer", "Merge"}, log' = Append(log, k)
  PROVE  /\ Practised \subseteq Practised'
         /\ k = "Login" \/ Counts(k) => Len(log) + 1 \in Practised'
<1>1. log \in Seq({"Login", "Save", "RecordAnswer", "Merge"}) /\ Len(log) \in Nat
  BY DEF TypeOK
<1>2. /\ Len(log') = Len(log) + 1 /\ log'[Len(log) + 1] = k
      /\ \A i \in 1 .. Len(log) : log'[i] = log[i]
  BY <1>1
<1> QED BY <1>1, <1>2 DEF Practised, Counts

\* A step by which at most one request makes a claim, to the end of the log, and
\* the others keep or give up theirs.
LEMMA ClaimsMove ==
  ASSUME TypeOK, TypeOK', CountInv, Practised \subseteq Practised', distinct' = distinct, NEW r,
         \A s \in Requests : Claim(s)' =>
           \/ Claim(s) /\ use'[s].at = use[s].at
           \/ s = r /\ use'[s].at = Len(log) + 1 /\ Len(log) + 1 \in Practised'
  PROVE  ClaimsApart' /\ distinct' \in Nat /\ distinct' <= Cardinality(Settled)'
<1>1. \A i \in Practised : i \in Nat /\ i <= Len(log)
  BY PractisedFinite
<1>2. Len(log) \in Nat
  BY DEF TypeOK
<1>3. ClaimsApart'
  BY <1>1, <1>2 DEF CountInv, ClaimsApart
<1>4. Settled \subseteq Settled'
  <2> SUFFICES ASSUME NEW i \in Practised, i \in Claimed' PROVE i \in Claimed
    BY DEF Settled
  <2>1. PICK s \in Requests : Claim(s)' /\ use'[s].at = i
    BY DEF Claimed
  <2>2. Claim(s) /\ use[s].at = i
    BY <1>1, <1>2, <2>1
  <2> QED BY <2>2 DEF Claimed
<1>5. IsFiniteSet(Settled') /\ Cardinality(Settled) \in Nat /\ Cardinality(Settled') \in Nat
  <2>1. IsFiniteSet(Settled)' /\ Cardinality(Settled)' \in Nat
    <3>1. Len(log)' \in Nat /\ Settled' \subseteq (1 .. Len(log))'
      BY DEF Settled, Practised, TypeOK
    <3> QED BY <3>1, PlacesFinite
  <2> QED BY <2>1, PractisedFinite DEF Settled
<1>6. Cardinality(Settled) <= Cardinality(Settled')
  BY <1>4, <1>5, FS_Subset
<1> QED BY <1>3, <1>5, <1>6 DEF CountInv

\* The fields of what the actions assign.
LEMMA UseFields ==
  /\ NoUse.step = "none"
  /\ \A step, at : In(step, at).step = step /\ In(step, at).at = at
  /\ \A step, at, x, y : Boot(step, at, x, y).step = step /\ Boot(step, at, x, y).at = at
BY DEF NoUse, In, Boot

LEMMA CallFields ==
  /\ \A c : Store!Idle(c).phase = "idle" /\ Store!Idle(c).kind = "Get"
  /\ \A u : Store!NoCall(u).phase = "idle" /\ Store!NoCall(u).kind = "Get"
BY DEF Store!Idle, Store!NoCall

\* What it is to be idle, touching, or holding a zone.
LEMMA RequestFields ==
  /\ Account!Idle.step = "idle"
  /\ Account!Idle = [step |-> "idle", holds |-> 0]
BY DEF Account!Idle

\* A step that concerns one request leaves the others as they fit.
LEMMA OneFits ==
  ASSUME IInv, CountInv, NEW r \in Requests, Fits(r)', DOMAIN req' = Requests,
         \A s \in Requests \ {r} :
           use'[s] = use[s] /\ call'[s] = call[s] /\ req'[s] = req[s]
  PROVE  \A s \in Requests : Fits(s)'
<1>1. ASSUME NEW s \in Requests \ {r} PROVE Fits(s)'
  BY <1>1 DEF Fits, CountInv
<1> QED BY <1>1

LEMMA StepFits ==
  ASSUME IInv, CountInv, [Next]_vars
  PROVE  DOMAIN req' = Requests /\ \A s \in Requests : Fits(s)'
<1>0. /\ DOMAIN req = Requests /\ \A s \in Requests : Fits(s)
      /\ DOMAIN use = Requests /\ DOMAIN call = Requests
  BY DEF CountInv, IInv, StoreType, TypeOK
<1>t. \A s \in Requests : use[s] \in Uses /\ call[s] \in Calls
  BY DEF IInv, StoreType, TypeOK
<1>1. ASSUME NEW r \in Requests, Call(r) \/ Me(r) PROVE Fits(r)' /\ DOMAIN req' = Requests
  <2>0. Store!Call(r)
    BY <1>1 DEF Call, Me
  <2>1. PICK u \in {Owner}, k \in Store!Kinds :
          call' = [call EXCEPT ![r] =
            [Store!NoCall(u) EXCEPT !.phase = "called", !.kind = k,
                                    !.id = IF k \in Store!Changes THEN ops + 1 ELSE 0]]
    BY <2>0 DEF Store!Call
  <2>2. call'[r].phase = "called"
    BY <1>0, <2>1 DEF Store!NoCall
  <2>3. /\ use[r].step = "none" /\ req' = req
        /\ use'[r].step \in {"progress", "me"} /\ (use'[r].step = "me" => call'[r].kind = "Get")
    BY <1>0, <1>1, UseFields DEF Call, Me, counters
  <2> QED BY <1>0, <2>2, <2>3 DEF Fits
<1>2. ASSUME NEW r \in Requests, Apply(r) PROVE Fits(r)' /\ DOMAIN req' = Requests
  <2>1. req' = req /\ call[r].kind # "Get" /\ call[r].phase \in {"called", "lingers"}
    BY <1>2 DEF Apply, Store!Apply, counters, Store!Changes
  <2>2. CASE call[r].phase = "called" /\ call' = [call EXCEPT ![r].phase = "applied"]
    <3>1. call'[r].phase = "applied" /\ use'[r].step = "progress"
      BY <1>0, <1>t, <1>2, <2>2, UseFields DEF Apply, Calls
    <3>2. use[r].step = "progress"
      BY <1>0, <1>t, <2>1, <2>2 DEF Fits, Uses
    <3> QED BY <1>0, <2>1, <3>1, <3>2 DEF Fits
  <2>3. CASE call' = [call EXCEPT ![r] = Store!Idle(@)]
    <3>1. call'[r].phase = "idle"
      BY <1>0, <2>3, CallFields
    <3>2. CASE call[r].phase = "lingers"
      <4>1. use'[r] = use[r] /\ use[r].step = "none"
        BY <1>0, <1>t, <1>2, <3>2 DEF Apply, Fits, Uses
      <4> QED BY <1>0, <2>1, <3>1, <4>1 DEF Fits
    <3>3. CASE call[r].phase # "lingers"
      <4>1. use'[r].step = "none"
        BY <1>0, <1>2, <3>1, <3>3, UseFields DEF Apply
      <4>2. use[r].step # "activity"
        BY <1>0, <2>1, <3>3 DEF Fits
      <4> QED BY <1>0, <2>1, <3>1, <4>1, <4>2 DEF Fits
    <3> QED BY <3>2, <3>3
  <2> QED BY <1>2, <2>2, <2>3 DEF Apply, Store!Apply
<1>3. ASSUME NEW r \in Requests, Reply(r) \/ Snapshot(r) PROVE Fits(r)' /\ DOMAIN req' = Requests
  <2>1. req' = req /\ use[r].step \in {"progress", "me"} /\ use'[r].step \in {"none", "activity"}
    BY <1>0, <1>3, UseFields DEF Reply, Snapshot, counters
  <2>2. PICK d : call' = [call EXCEPT ![r] = [Store!Idle(call[r]) EXCEPT !.reply = d]]
    BY <1>3 DEF Reply, Snapshot, Store!Reply
  <2>3. call'[r].phase = "idle"
    BY <1>0, <2>2, CallFields DEF Store!Idle, Store!NoCall
  <2> QED BY <1>0, <2>1, <2>3 DEF Fits
<1>4. ASSUME NEW r \in Requests, Login(r) PROVE Fits(r)' /\ DOMAIN req' = Requests
  <2>1. req' = req /\ call'[r].phase = "idle" /\ use'[r].step = "activity"
    BY <1>0, <1>4, UseFields DEF Login, counters, store
  <2> QED BY <1>0, <2>1 DEF Fits
<1>5. ASSUME NEW r \in Requests, ReadZone(r) \/ CutDay(r) PROVE Fits(r)' /\ DOMAIN req' = Requests
  <2>1. use' = use /\ call' = call /\ DOMAIN req' = Requests
    BY <1>0, <1>5 DEF ReadZone, CutDay, store, Account!ReadZone, Account!CutDay, Account!Hold
  <2>2. use[r].step = "activity"
    BY <1>0, <1>5, RequestFields DEF ReadZone, CutDay, Account!CutDay, Fits
  <2> QED BY <1>0, <2>1, <2>2 DEF Fits
<1>6. ASSUME NEW r \in Requests, Touch(r) \/ ActivityFails(r)
      PROVE  Fits(r)' /\ DOMAIN req' = Requests
  <2>1. use[r].step = "activity"
    BY <1>0, <1>6, RequestFields DEF Touch, ActivityFails, Account!Touch, Fits
  <2>2. call' = call /\ use'[r].step = "none"
    BY <1>0, <1>6, UseFields DEF Touch, ActivityFails, store
  <2>3. DOMAIN req' = Requests /\ req'[r] = Account!Idle
    BY <1>0, <1>6 DEF Touch, ActivityFails, Account!Touch, Account!Fail, Account!Done, counters
  <2> QED BY <1>0, <2>1, <2>2, <2>3 DEF Fits
<1>7. ASSUME Fail PROVE DOMAIN req' = Requests /\ \A s \in Requests : Fits(s)'
  <2>1. req' = req
    BY <1>7 DEF Fail, counters
  <2>2. ASSUME NEW s \in Requests PROVE Fits(s)'
    <3>1. use'[s] = IF call'[s].phase = "idle" /\ use[s].step \in {"progress", "me"} THEN NoUse
                    ELSE IF call'[s].phase = "lingers" THEN NoUse ELSE use[s]
      BY <1>7 DEF Fail
    <3>2. call'[s] \in Store!AfterFailure(call[s])
      BY <1>7 DEF Fail, Store!Fail
    <3>3. CASE call'[s] = call[s]
      BY <1>0, <1>t, <2>1, <3>1, <3>3, UseFields DEF Fits, Uses
    <3>4. CASE call'[s] = Store!Idle(call[s])
      BY <1>0, <1>t, <2>1, <3>1, <3>4, UseFields, CallFields DEF Fits, Uses
    <3>5. CASE call[s].phase = "called" /\ call'[s] = [call[s] EXCEPT !.phase = "lingers"]
      <4>1. call'[s].phase = "lingers"
        BY <1>t, <3>5 DEF Calls
      <4> QED BY <1>0, <2>1, <3>1, <3>5, <4>1, UseFields DEF Fits
    <3> QED BY <3>2, <3>3, <3>4, <3>5 DEF Store!AfterFailure
  <2> QED BY <1>0, <2>1, <2>2
<1>8. ASSUME SaveProfile \/ Tick \/ UNCHANGED vars
      PROVE  DOMAIN req' = Requests /\ \A s \in Requests : Fits(s)'
  <2>1. use' = use /\ call' = call /\ req' = req
    BY <1>8 DEF SaveProfile, Tick, vars, store, counters, Account!ChangeZone, Account!Tick
  <2> QED BY <1>0, <2>1 DEF Fits
<1>9. ASSUME NEW r \in Requests, NEW s \in Requests \ {r},
             Call(r) \/ Apply(r) \/ Reply(r) \/ Me(r) \/ Snapshot(r)
      PROVE  use'[s] = use[s] /\ call'[s] = call[s] /\ req'[s] = req[s]
  <2>1. use'[s] = use[s] /\ req' = req
    BY <1>0, <1>9 DEF Call, Apply, Reply, Me, Snapshot, counters
  <2>2. Store!Call(r) \/ Store!Apply(r) \/ Store!Reply(r)
    BY <1>9 DEF Call, Apply, Reply, Me, Snapshot
  <2>3. call'[s] = call[s]
    BY <1>0, <1>9, <2>2 DEF Store!Call, Store!Apply, Store!Reply
  <2> QED BY <2>1, <2>3
<1>10. ASSUME NEW r \in Requests, NEW s \in Requests \ {r},
              Login(r) \/ ReadZone(r) \/ CutDay(r) \/ Touch(r) \/ ActivityFails(r)
      PROVE  use'[s] = use[s] /\ call'[s] = call[s] /\ req'[s] = req[s]
  <2>1. use'[s] = use[s] /\ call' = call
    BY <1>0, <1>10 DEF Login, ReadZone, CutDay, Touch, ActivityFails, store
  <2>2. \/ req' = req
        \/ Account!ReadZone(r) \/ Account!CutDay(r) \/ Account!Touch(r) \/ Account!Fail(r)
    BY <1>10 DEF Login, ReadZone, CutDay, Touch, ActivityFails, counters
  <2>3. req'[s] = req[s]
    BY <1>0, <1>10, <2>2 DEF Account!ReadZone, Account!CutDay, Account!Touch, Account!Fail,
       Account!Hold, Account!Done
  <2> QED BY <2>1, <2>3
<1> QED BY <1>1, <1>2, <1>3, <1>4, <1>5, <1>6, <1>7, <1>8, <1>9, <1>10, OneFits DEF Next

\* A day counted takes one of the claims, which is then settled.
LEMMA TouchSettles ==
  ASSUME IInv, IInv', CountInv, NEW r \in Requests, Touch(r)
  PROVE  ClaimsApart' /\ distinct' \in Nat /\ distinct' <= Cardinality(Settled)'
<1>0. /\ TypeOK /\ TypeOK' /\ DOMAIN use = Requests
      /\ Practised' = Practised
  BY DEF IInv, TypeOK, Touch, Practised
<1>1. /\ use' = [use EXCEPT ![r] = NoUse] /\ call' = call
      /\ use[r].step = "activity" /\ use'[r].step = "none" /\ Fits(r)
  BY <1>0, RequestFields, UseFields DEF Touch, store, Account!Touch, CountInv, Fits
<1>2. \A s \in Requests : Claim(s)' <=> s # r /\ Claim(s)
  <2>1. ~Claim(r)'
    BY <1>1 DEF Claim
  <2>2. ASSUME NEW s \in Requests \ {r} PROVE Claim(s)' <=> Claim(s)
    BY <1>0, <1>1 DEF Claim
  <2> QED BY <2>1, <2>2
<1>3. \A s \in Requests \ {r} : use'[s] = use[s]
  BY <1>0, <1>1
<1>4. ClaimsApart'
  BY <1>0, <1>2, <1>3 DEF CountInv, ClaimsApart
<1>5. use[r].at \in Practised /\ use[r].at \notin Settled
  BY <1>1 DEF Claim, Claimed, Settled, CountInv, ClaimsApart
<1>6. Settled \cup {use[r].at} \subseteq Settled'
  <2>1. ASSUME NEW i \in Claimed' PROVE i \in Claimed /\ i # use[r].at
    <3>1. PICK s \in Requests : Claim(s)' /\ use'[s].at = i
      BY <2>1 DEF Claimed
    <3>2. s # r /\ Claim(s) /\ use[s].at = i
      BY <1>2, <1>3, <3>1
    <3>3. use[s].at # use[r].at
      BY <1>1, <3>2 DEF Claim, CountInv, ClaimsApart
    <3> QED BY <3>2, <3>3 DEF Claimed
  <2> QED BY <1>0, <1>5, <2>1 DEF Settled
<1>7. /\ IsFiniteSet(Settled) /\ Cardinality(Settled) \in Nat
      /\ Cardinality(Settled \cup {use[r].at}) = Cardinality(Settled) + 1
  <2>1. IsFiniteSet(Settled) /\ Cardinality(Settled) \in Nat
    BY <1>0, PractisedFinite DEF Settled
  <2> QED BY <1>5, <2>1, FS_AddElement
<1>8. IsFiniteSet(Settled') /\ Cardinality(Settled') \in Nat
  BY <1>0, PractisedFinite DEF Settled
<1>9. Cardinality(Settled) + 1 <= Cardinality(Settled')
  BY <1>6, <1>7, <1>8, FS_Subset
<1>10. distinct' \in Nat /\ distinct' <= distinct + 1
  BY DEF Touch, Account!Touch, Account!TouchActivity, Account!DistinctOn, CountInv
<1> QED BY <1>4, <1>7, <1>8, <1>9, <1>10 DEF CountInv

\* The other steps count nothing.
LEMMA StepCounts ==
  ASSUME IInv, IInv', CountInv, [Next]_vars
  PROVE  ClaimsApart' /\ distinct' \in Nat /\ distinct' <= Cardinality(Settled)'
<1>0. /\ TypeOK /\ TypeOK' /\ Len(log) \in Nat
      /\ DOMAIN use = Requests /\ DOMAIN call = Requests
      /\ \A s \in Requests : use[s] \in Uses /\ call[s] \in Calls /\ Fits(s)
  BY DEF CountInv, IInv, StoreType, TypeOK
<1>1. ASSUME NEW r \in Requests, Call(r) \/ Me(r)
      PROVE  ClaimsApart' /\ distinct' \in Nat /\ distinct' <= Cardinality(Settled)'
  <2>1. /\ Practised' = Practised /\ distinct' = distinct
        /\ Store!Call(r) /\ use'[r].step \in {"progress", "me"}
        /\ \A s \in Requests \ {r} : use'[s] = use[s]
    BY <1>0, <1>1, UseFields DEF Call, Me, counters, Practised
  <2>2. \A s \in Requests \ {r} : call'[s] = call[s]
    BY <1>0, <2>1 DEF Store!Call
  <2>3. PICK u \in {Owner}, k \in Store!Kinds :
          call' = [call EXCEPT ![r] =
            [Store!NoCall(u) EXCEPT !.phase = "called", !.kind = k,
                                    !.id = IF k \in Store!Changes THEN ops + 1 ELSE 0]]
    BY <2>1 DEF Store!Call
  <2>4. call'[r].phase = "called"
    BY <1>0, <2>3 DEF Store!NoCall
  <2>5. \A s \in Requests : Claim(s)' => s # r /\ Claim(s) /\ use'[s].at = use[s].at
    BY <2>1, <2>2, <2>4 DEF Claim
  <2> QED BY <1>0, <2>1, <2>5, ClaimsMove
<1>2. ASSUME NEW r \in Requests, Apply(r)
      PROVE  ClaimsApart' /\ distinct' \in Nat /\ distinct' <= Cardinality(Settled)'
  <2>1. /\ distinct' = distinct /\ log' = Append(log, call[r].kind) /\ Store!Apply(r)
        /\ \A s \in Requests \ {r} : use'[s] = use[s]
    BY <1>0, <1>2 DEF Apply, counters
  <2>2. \A s \in Requests \ {r} : call'[s] = call[s]
    BY <1>0, <2>1 DEF Store!Apply
  <2>3. call[r].kind \in {"Save", "RecordAnswer", "Merge"}
    BY <2>1 DEF Store!Apply, Store!Changes
  <2>4. /\ Practised \subseteq Practised'
        /\ Counts(call[r].kind) => Len(log) + 1 \in Practised'
    BY <1>0, <2>1, <2>3, PractisedGrows
  <2>5. ASSUME Claim(r)' PROVE use'[r].at = Len(log) + 1 /\ Len(log) + 1 \in Practised'
    <3>1. CASE call[r].phase = "called" /\ call' = [call EXCEPT ![r].phase = "applied"]
      <4>1. call'[r].phase = "applied" /\ call'[r].kind = call[r].kind
        BY <1>0, <3>1 DEF Calls
      <4>2. use'[r].step = "progress" /\ use'[r].at = Len(log) + 1
        BY <1>0, <1>2, <3>1, <4>1, UseFields DEF Apply
      <4> QED BY <2>4, <2>5, <4>1, <4>2 DEF Claim
    <3>2. CASE call' = [call EXCEPT ![r] = Store!Idle(@)]
      <4>1. call'[r].phase = "idle"
        BY <1>0, <3>2, CallFields
      <4>2. use'[r].step = "none"
        BY <1>0, <1>2, <4>1, UseFields DEF Apply, Fits, Uses
      <4> QED BY <2>5, <4>1, <4>2 DEF Claim
    <3> QED BY <2>1, <3>1, <3>2 DEF Store!Apply
  <2>6. \A s \in Requests : Claim(s)' =>
          \/ Claim(s) /\ use'[s].at = use[s].at
          \/ s = r /\ use'[s].at = Len(log) + 1 /\ Len(log) + 1 \in Practised'
    BY <2>1, <2>2, <2>5 DEF Claim
  <2> QED BY <1>0, <2>1, <2>4, <2>6, ClaimsMove
<1>3. ASSUME NEW r \in Requests, Reply(r) \/ Snapshot(r)
      PROVE  ClaimsApart' /\ distinct' \in Nat /\ distinct' <= Cardinality(Settled)'
  <2>1. /\ Practised' = Practised /\ distinct' = distinct /\ Store!Reply(r)
        /\ \A s \in Requests \ {r} : use'[s] = use[s]
    BY <1>0, <1>3 DEF Reply, Snapshot, counters, Practised
  <2>2. \A s \in Requests \ {r} : call'[s] = call[s]
    BY <1>0, <2>1 DEF Store!Reply
  <2>3. ASSUME Claim(r)' PROVE Claim(r) /\ use'[r].at = use[r].at
    <3>1. PICK d : call' = [call EXCEPT ![r] = [Store!Idle(call[r]) EXCEPT !.reply = d]]
      BY <2>1 DEF Store!Reply
    <3>2. call'[r].phase = "idle"
      BY <1>0, <3>1, CallFields DEF Store!Idle, Store!NoCall
    <3>3. use'[r].step = "activity"
      BY <2>3, <3>2 DEF Claim
    <3>4. /\ use[r].step = "progress" /\ Counts(call[r].kind)
          /\ use'[r] = In("activity", use[r].at)
      BY <1>0, <1>3, <3>3, UseFields DEF Reply, Snapshot
    <3>5. call[r].phase = "applied"
      BY <2>1, <3>4 DEF Store!Reply, Counts
    <3> QED BY <3>4, <3>5, UseFields DEF Claim
  <2>4. \A s \in Requests : Claim(s)' => Claim(s) /\ use'[s].at = use[s].at
    BY <2>1, <2>2, <2>3 DEF Claim
  <2> QED BY <1>0, <2>1, <2>4, ClaimsMove
<1>4. ASSUME NEW r \in Requests, Login(r)
      PROVE  ClaimsApart' /\ distinct' \in Nat /\ distinct' <= Cardinality(Settled)'
  <2>1. /\ distinct' = distinct /\ log' = Append(log, "Login") /\ call' = call
        /\ use'[r].at = Len(log) + 1
        /\ \A s \in Requests \ {r} : use'[s] = use[s]
    BY <1>0, <1>4, UseFields DEF Login, counters, store
  <2>2. Practised \subseteq Practised' /\ Len(log) + 1 \in Practised'
    BY <1>0, <2>1, PractisedGrows
  <2>3. \A s \in Requests : Claim(s)' =>
          \/ Claim(s) /\ use'[s].at = use[s].at
          \/ s = r /\ use'[s].at = Len(log) + 1 /\ Len(log) + 1 \in Practised'
    BY <2>1, <2>2 DEF Claim
  <2> QED BY <1>0, <2>1, <2>2, <2>3, ClaimsMove
<1>5. ASSUME NEW r \in Requests, ReadZone(r) \/ CutDay(r) \/ ActivityFails(r)
      PROVE  ClaimsApart' /\ distinct' \in Nat /\ distinct' <= Cardinality(Settled)'
  <2>1. distinct' = distinct /\ Practised' = Practised /\ call' = call
    BY <1>5 DEF ReadZone, CutDay, ActivityFails, store, counters, Practised,
       Account!ReadZone, Account!CutDay, Account!Fail, Account!row
  <2>2. use' = use \/ use' = [use EXCEPT ![r] = NoUse]
    BY <1>5 DEF ReadZone, CutDay, ActivityFails
  <2>3. \A s \in Requests : Claim(s)' => Claim(s) /\ use'[s].at = use[s].at
    BY <1>0, <2>1, <2>2, UseFields DEF Claim
  <2> QED BY <1>0, <2>1, <2>3, ClaimsMove, <1>5
<1>6. ASSUME Fail
      PROVE  ClaimsApart' /\ distinct' \in Nat /\ distinct' <= Cardinality(Settled)'
  <2>1. distinct' = distinct /\ Practised' = Practised
    BY <1>6 DEF Fail, counters, Practised
  <2>2. ASSUME NEW s \in Requests, Claim(s)' PROVE Claim(s) /\ use'[s].at = use[s].at
    <3>1. use'[s] \in {NoUse, use[s]}
      BY <1>6 DEF Fail
    <3>2. use'[s] = use[s]
      BY <2>2, <3>1, UseFields DEF Claim
    <3>3. call'[s] \in Store!AfterFailure(call[s])
      BY <1>6 DEF Fail, Store!Fail
    <3>4. CASE call'[s] = call[s]
      BY <2>2, <3>2, <3>4 DEF Claim
    <3>5. CASE call'[s] = Store!Idle(call[s])
      BY <2>2, <3>2, <3>5, CallFields DEF Claim
    <3>6. CASE call'[s] = [call[s] EXCEPT !.phase = "lingers"]
      <4>1. call'[s].phase = "lingers"
        BY <1>0, <3>6 DEF Calls
      <4> QED BY <2>2, <3>2, <4>1 DEF Claim
    <3> QED BY <3>3, <3>4, <3>5, <3>6 DEF Store!AfterFailure
  <2> QED BY <1>0, <2>1, <2>2, ClaimsMove
<1>7. ASSUME SaveProfile \/ Tick \/ UNCHANGED vars
      PROVE  ClaimsApart' /\ distinct' \in Nat /\ distinct' <= Cardinality(Settled)'
  <2>1. use' = use /\ call' = call /\ log' = log /\ distinct' = distinct
    BY <1>7 DEF SaveProfile, Tick, vars, store, counters, Account!ChangeZone, Account!Tick,
       Account!row
  <2>2. Practised' = Practised
    BY <2>1 DEF Practised
  <2>3. \A s \in Requests : Claim(s)' => Claim(s) /\ use'[s].at = use[s].at
    BY <2>1 DEF Claim
  <2> QED BY <1>0, <2>1, <2>2, <2>3, ClaimsMove
<1> QED
  BY <1>1, <1>2, <1>3, <1>4, <1>5, <1>6, <1>7, TouchSettles DEF Next

LEMMA InitCounts == Init => CountInv
<1> SUFFICES ASSUME Init PROVE CountInv
  OBVIOUS
<1>1. /\ use = [r \in Requests |-> NoUse] /\ req = [r \in Requests |-> Account!Idle]
      /\ call = [r \in Requests |-> Store!NoCall(Store!Anyone)] /\ distinct = 0
  BY DEF Init, Account!Init, Store!Init
<1>2. \A r \in Requests : Fits(r) /\ ~Claim(r)
  BY <1>1, UseFields, CallFields DEF Fits, Claim
<1>3. TypeOK
  BY InitSound DEF IInv
<1>4. Cardinality(Settled) \in Nat
  BY <1>3, PractisedFinite DEF Settled
<1> QED BY <1>1, <1>2, <1>4 DEF CountInv, ClaimsApart

\* A counted day stands for a login or for a write that counts, and no two days
\* for the same, whatever fails in between and whoever writes meanwhile.  (the
\* callers of recordActivity in internal/modules/progress, Login)
THEOREM EveryDayIsPractice == Spec => []CountedForPractice
<1>1. Init => IInv /\ CountInv
  BY InitSound, InitCounts
<1>2. (IInv /\ CountInv) /\ [Next]_vars => (IInv /\ CountInv)'
  BY StepSound, StepFits, StepCounts DEF CountInv
<1>3. IInv /\ CountInv => CountedForPractice
  <2> SUFFICES ASSUME IInv, CountInv PROVE CountedForPractice
    OBVIOUS
  <2>1. /\ IsFiniteSet(Practised) /\ Cardinality(Practised) \in Nat
        /\ Cardinality(Settled) \in Nat /\ Settled \subseteq Practised
    BY PractisedFinite DEF IInv, Settled
  <2>2. Cardinality(Settled) <= Cardinality(Practised)
    BY <2>1, FS_Subset
  <2> QED BY <2>1, <2>2 DEF CountInv, CountedForPractice
<1> QED BY <1>1, <1>2, <1>3, PTL DEF Spec
=============================================================================
