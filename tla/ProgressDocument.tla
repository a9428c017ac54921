-------------------------- MODULE ProgressDocument --------------------------
(***************************************************************************)
(* What a call of internal/modules/progress does to one stored document:   *)
(* document.go, mastery.go and the use cases of service.go.  Each call is  *)
(* one step, which is what ProgressStore shows of concurrent calls.        *)
(*                                                                         *)
(* A PUT stores anything, so the server finds members that are absent,     *)
(* null, of the wrong shape, or out of the range it would keep them in;    *)
(* the other calls read what they need of it, or are refused.              *)
(*                                                                         *)
(* Abstracted: kana and lesson ids are those that pass validation; the     *)
(* members the server knows nothing of are one, srsByKana, with opaque     *)
(* values; the list of lessons is the set of its ids, which is what        *)
(* sortedUnique makes of it; an attempt is what was answered, without its  *)
(* time and the option chosen; whether the result exceeds MaxDataSize is   *)
(* not computed.                                                           *)
(***************************************************************************)
EXTENDS Integers, Sequences, FiniteSets

CONSTANTS
  Kana,                     \* characters that pass validKana
  Lessons,                  \* lesson ids that pass validateLessonID
  Schedules,                \* what the client keeps in srsByKana
  Uploads,                  \* the documents a PUT may bring
  Patches,                  \* the members a PATCH may bring
  MaxRecentAttempts,        \* the size of the attempt window
  MaxInt,                   \* the largest int
  NoDoc, NotAnObject,       \* no row; any JSON that is not an object
  Absent, Null, Malformed,  \* no such member; null; a value of another shape
  MaxCalls                  \* bound: calls

VARIABLES
  doc,     \* the stored document
  last,    \* the last call and its answer
  calls,   \* how many calls there were
  since    \* history: what happened since the last PUT

vars == <<doc, last, calls, since>>

----------------------------------------------------------------------------
\* The document

Skill == {"recognition", "writing", "listening", "reading"}
Mastery == {"discovered", "learning", "familiar", "mastered"}
States == Mastery \cup {"locked"}

Ints == -MaxInt - 1 .. MaxInt
Skills == [Skill -> Ints]

\* An entry of the window.  Under version 1 only correct was recorded.
NoKana == "none"  \* also for the skill of such an entry
Attempt == [kana: Kana \cup {NoKana}, skill: Skill \cup {"none"}, correct: BOOLEAN]

\* A JSON object with some of the kana for keys.
MapOf(V) == [Kana -> V \cup {Absent}]
EmptyMap == [k \in Kana |-> Absent]

Member(V) == {Absent, Null, Malformed} \cup V

Document == [schemaVersion: Member(Ints),
             masteryByKana: Member(MapOf(States)),
             skillsByKana: Member(MapOf(Skills)),
             completedLessonIds: Member(SUBSET Lessons),
             recentAttempts: Member(Seq(Attempt)),
             srsByKana: Member(Schedules)]

Fields == {"schemaVersion", "masteryByKana", "skillsByKana",
           "completedLessonIds", "recentAttempts", "srsByKana"}

Fresh == [schemaVersion |-> Absent, masteryByKana |-> Absent, skillsByKana |-> Absent,
          completedLessonIds |-> Absent, recentAttempts |-> Absent, srsByKana |-> Absent]

\* The sum of four scores in range fits an int.
ASSUME IntAssumption == MaxInt \in Nat /\ MaxInt >= 400

ASSUME BoundAssumption == MaxRecentAttempts \in Nat \ {0} /\ MaxCalls \in Nat

\* What is not a value cannot be taken for one.
ASSUME MarkAssumption ==
  /\ NoKana \notin Kana
  /\ NoDoc # NotAnObject /\ NoDoc \notin Document /\ NotAnObject \notin Document
  /\ Absent # Null /\ Absent # Malformed /\ Null # Malformed
  /\ \A x \in {Absent, Null, Malformed} :
       /\ x \notin Ints /\ x \notin States /\ x \notin Skills
       /\ x \notin MapOf(States) /\ x \notin MapOf(Skills)
       /\ (\A ids \in SUBSET Lessons : x # ids) /\ x \notin Seq(Attempt)

ASSUME InputAssumption ==
  /\ Uploads \subseteq Document \cup {NotAnObject}
  /\ \A p \in Patches : /\ DOMAIN p \subseteq Fields
                        /\ \A f \in DOMAIN p : [Fresh EXCEPT ![f] = p[f]] \in Document

\* Decoded into a slice, an absent member and null are empty; into a map, an
\* absent one is an empty map and null a nil map, which cannot be written to.
Slice(member, empty) == IF member \in {Absent, Null} THEN empty ELSE member
Map(member) == IF member = Absent THEN EmptyMap ELSE member

----------------------------------------------------------------------------
\* mastery.go

\* What a sum that does not fit an int becomes; / truncates towards zero.
Wrap(n) == ((n + MaxInt + 1) % (2 * (MaxInt + 1))) - (MaxInt + 1)
Quotient(n, d) == IF n < 0 THEN -((-n) \div d) ELSE n \div d

clamp(score) == IF score < 0 THEN 0 ELSE IF score > 100 THEN 100 ELSE score

applyAnswer(current, correct) == clamp(Wrap(current + (IF correct THEN 20 ELSE -30)))

\* Mutant: the mean of the skills that have a score at all.
AveragePractised(s) ==
  LET n == Cardinality({x \in Skill : s[x] > 0}) IN
  IF n = 0 THEN 0
  ELSE Quotient(s["recognition"] + s["writing"] + s["listening"] + s["reading"], n)

Average(s) ==
  Quotient(Wrap(s["recognition"] + s["writing"] + s["listening"] + s["reading"]), 4)

\* Mutants: no default; a threshold for mastered that three skills reach.
masteryForNoDefault(s) ==
  CASE Average(s) >= 80 -> "mastered"
    [] Average(s) \in 50 .. 79 -> "familiar"
    [] Average(s) \in 25 .. 49 -> "learning"
    [] OTHER -> ""
masteryForThreeSkills(s) ==
  CASE Average(s) >= 75 -> "mastered"
    [] Average(s) \in 50 .. 74 -> "familiar"
    [] Average(s) \in 25 .. 49 -> "learning"
    [] OTHER -> "discovered"

masteryFor(s) ==
  CASE Average(s) >= 80 -> "mastered"
    [] Average(s) \in 50 .. 79 -> "familiar"
    [] Average(s) \in 25 .. 49 -> "learning"
    [] OTHER -> "discovered"

Unpractised == [s \in Skill |-> 0]
SkillsOf(d, k) ==
  LET scores == Map(d.skillsByKana)[k] IN IF scores = Absent THEN Unpractised ELSE scores

----------------------------------------------------------------------------
\* document.go

\* The null that PUT may store as schemaVersion decodes to 0.
Version(d) ==
  CASE d.schemaVersion = Absent -> 1
    [] d.schemaVersion = Null -> 0
    [] OTHER -> d.schemaVersion

\* Mutant: a newer layout is read as if it were the server's own.
SupportedOrNewer(d) == Version(d) >= 1

Supported(d) == Version(d) \in 1 .. 2

\* parseDocument: what it says of the stored document, if anything.
ParseError(d) ==
  IF d = NotAnObject \/ d.schemaVersion = Malformed THEN "unreadable"
  ELSE IF ~Supported(d) THEN "unsupported"
  ELSE "none"

\* No row is a document without members.
Stored == IF doc = NoDoc THEN Fresh ELSE doc

\* Mutant: the window keeps the oldest entries.
AppendAttemptAtFront(attempts, a) ==
  LET all == Append(attempts, a) IN
  IF Len(all) > MaxRecentAttempts THEN SubSeq(all, 1, MaxRecentAttempts) ELSE all

AppendAttempt(attempts, a) ==
  LET all == Append(attempts, a) IN
  IF Len(all) > MaxRecentAttempts
  THEN SubSeq(all, Len(all) - MaxRecentAttempts + 1, Len(all))
  ELSE all

\* Mutant: mastery is left out of the members a PATCH may not bring.
ProtectedButMastery == {"schemaVersion", "skillsByKana", "recentAttempts"}

Protected == {"schemaVersion", "masteryByKana", "skillsByKana", "recentAttempts"}

\* Mutant: the patch replaces the document.
MergedOver(d, patch) ==
  [f \in Fields |-> IF f \in DOMAIN patch THEN patch[f]
                    ELSE IF f \in Protected THEN d[f] ELSE Absent]

Merged(d, patch) ==
  [f \in Fields |-> IF f \in DOMAIN patch THEN patch[f] ELSE d[f]]

----------------------------------------------------------------------------
\* service.go

\* Of the members an answer needs; a nil map panics before anything is written.
AnswerError(d) ==
  IF ParseError(d) # "none" THEN ParseError(d)
  ELSE IF Malformed \in {d.skillsByKana, d.masteryByKana} THEN "unreadable"
  ELSE IF Null \in {d.skillsByKana, d.masteryByKana} THEN "panic"
  ELSE IF d.recentAttempts = Malformed THEN "unreadable"
  ELSE "none"

LessonError(d) ==
  IF ParseError(d) # "none" THEN ParseError(d)
  ELSE IF d.completedLessonIds = Malformed THEN "unreadable"
  ELSE "none"

PatchError(d, patch) ==
  IF DOMAIN patch = {} THEN "empty"
  ELSE IF ParseError(d) # "none" THEN ParseError(d)
  ELSE IF DOMAIN patch \cap Protected # {} THEN "protected"
  ELSE "none"

Graded(d, a) ==
  LET scores == [SkillsOf(d, a.kana) EXCEPT ![a.skill] = applyAnswer(@, a.correct)] IN
  [d EXCEPT !.skillsByKana = [Map(@) EXCEPT ![a.kana] = scores],
            !.masteryByKana = [Map(@) EXCEPT ![a.kana] = masteryFor(scores)],
            !.recentAttempts = AppendAttempt(Slice(@, <<>>), a)]

Completed(d, l) ==
  [d EXCEPT !.completedLessonIds = Slice(@, {}) \cup {l}]

----------------------------------------------------------------------------
\* Actions

Called(call, result) ==
  /\ calls < MaxCalls
  /\ calls' = calls + 1
  /\ last' = [call |-> call, answer |-> result]

Refuse(call, error) ==
  /\ error # "none"
  /\ Called(call, error)
  /\ UNCHANGED <<doc, since>>

\* service.mutate: the result is stamped with the version the server writes,
\* and stored unless it has grown too large.
Mutate(call, error, result, history) ==
  \/ Refuse(call, error)
  \/ /\ error = "none"
     /\ Called(call, "ok")
     /\ doc' = [result EXCEPT !.schemaVersion = 2]
     /\ since' = history
  \/ error = "none" /\ Refuse(call, "tooLarge")

RecordAnswer(a) ==
  Mutate("RecordAnswer", AnswerError(Stored), Graded(Stored, a),
         [since EXCEPT !.graded = @ \cup {<<a.kana, a.skill>>},
                       !.attempts = Append(@, a)])

CompleteLesson(l) ==
  Mutate("CompleteLesson", LessonError(Stored), Completed(Stored, l),
         [since EXCEPT !.lessons = @ \cup {l}])

\* The members of the patch are the client's to write.
Given(member, empty) == IF member = Malformed THEN empty ELSE Slice(member, empty)

Merge(patch) ==
  Mutate("Merge", PatchError(Stored, patch), Merged(Stored, patch),
         [since EXCEPT
            !.lessons = IF "completedLessonIds" \in DOMAIN patch
                        THEN Given(patch["completedLessonIds"], {}) ELSE @,
            !.srs = IF "srsByKana" \in DOMAIN patch THEN patch["srsByKana"] ELSE @])

\* A PUT starts the history anew.
Since(d) ==
  [graded |-> {}, attempts |-> Given(d.recentAttempts, <<>>),
   lessons |-> Given(d.completedLessonIds, {}), srs |-> d.srsByKana]

Save(d) ==
  /\ Called("Save", "ok")
  /\ doc' = d
  /\ since' = Since(IF d = NotAnObject THEN Fresh ELSE d)

\* Refused before the document is looked at: a body that is empty, too large
\* or not JSON, a kana, skill or lesson id that is none.
RefuseUnread ==
  \E call \in {"Save", "RecordAnswer", "CompleteLesson", "Merge"} : Refuse(call, "invalid")

Get ==
  /\ last' = [call |-> "Get", answer |-> IF doc = NoDoc THEN "notFound" ELSE "ok"]
  /\ UNCHANGED <<doc, calls, since>>

----------------------------------------------------------------------------

Init ==
  /\ doc = NoDoc
  /\ last = [call |-> "Get", answer |-> "notFound"]
  /\ calls = 0
  /\ since = Since(Fresh)

Answers == [kana: Kana, skill: Skill, correct: BOOLEAN]

Next ==
  \/ \E d \in Uploads : Save(d)
  \/ \E a \in Answers : RecordAnswer(a)
  \/ \E l \in Lessons : CompleteLesson(l)
  \/ \E p \in Patches : Merge(p)
  \/ RefuseUnread
  \/ Get

Spec == Init /\ [][Next]_vars

----------------------------------------------------------------------------
\* Properties

\* Types of the document and of the history.
TypeOK ==
  /\ doc \in Document \cup {NoDoc, NotAnObject}
  /\ last.call \in {"Get", "Save", "RecordAnswer", "CompleteLesson", "Merge"}
  /\ calls \in 0 .. MaxCalls
  /\ since \in [graded: SUBSET (Kana \X Skill), attempts: Seq(Attempt),
                lessons: SUBSET Lessons, srs: Member(Schedules)]

GradedKana == {g[1] : g \in since.graded}

Scores(k) == doc.skillsByKana[k]
InRange(k) == \A s \in Skill : Scores(k)[s] \in 0 .. 100

\* The scores of the four skills, summed.
Sum(k) == Scores(k)["recognition"] + Scores(k)["writing"]
          + Scores(k)["listening"] + Scores(k)["reading"]

\* Whatever a PUT left behind, a score the server has graded is between 0 and
\* 100 from then on, and the mastery of its kana is the one its scores call
\* for: neither a PATCH nor an answer about another kana can part the two.
MasteryFollowsScores ==
  /\ \A g \in since.graded : Scores(g[1])[g[2]] \in 0 .. 100
  /\ \A k \in GradedKana :
       InRange(k) =>
         doc.masteryByKana[k] =
           CASE Sum(k) >= 320 -> "mastered"
             [] Sum(k) \in 200 .. 319 -> "familiar"
             [] Sum(k) \in 100 .. 199 -> "learning"
             [] OTHER -> "discovered"

\* "One skill alone cannot get a kana past learning", and to be mastered it
\* must have been answered right in all four.
OneSkillIsNotEnough ==
  \A k \in GradedKana :
    InRange(k) =>
      /\ doc.masteryByKana[k] = "mastered" => \A s \in Skill : Scores(k)[s] >= 20
      /\ doc.masteryByKana[k] \in {"familiar", "mastered"} =>
           \E s, t \in Skill : s # t /\ Scores(k)[s] > 0 /\ Scores(k)[t] > 0

Rank(m) == CASE m = "discovered" -> 1 [] m = "learning" -> 2
             [] m = "familiar" -> 3 [] m = "mastered" -> 4

\* A right answer never lowers the mastery of a kana, a wrong one never raises
\* it, and neither moves that of another.
AnswersMoveTheirKana ==
  [][\A a \in Answers, k \in GradedKana :
       /\ last'.call = "RecordAnswer" /\ since'.attempts = Append(since.attempts, a)
       /\ InRange(k)
       => LET before == doc.masteryByKana[k]
              after == doc'.masteryByKana[k]
          IN CASE k # a.kana -> after = before
               [] k = a.kana /\ a.correct -> Rank(after) >= Rank(before)
               [] k = a.kana /\ ~a.correct -> Rank(after) <= Rank(before)]_vars

\* The window is what was stored last of all that was ever answered: nothing
\* is dropped but the oldest entries, and none of those before there are
\* MaxRecentAttempts newer ones.
WindowIsNewest ==
  doc \in Document /\ doc.recentAttempts # Malformed =>
    LET window == Slice(doc.recentAttempts, <<>>)
        all == since.attempts
    IN /\ Len(window) <= Len(all)
       /\ window = SubSeq(all, Len(all) - Len(window) + 1, Len(all))
       /\ Len(window) >= MaxRecentAttempts \/ window = all

\* What the client keeps in the document stays as it last wrote it, and a
\* completed lesson stays completed, until the client itself replaces them.
ClientMembersSurvive ==
  doc \in Document =>
    /\ doc.srsByKana = since.srs
    /\ since.lessons = Given(doc.completedLessonIds, {})

\* A document of a layout the server does not know is only ever replaced by
\* the client, whole.
NewerSchemaUntouched ==
  [][(doc \in Document /\ doc.schemaVersion \in Ints \ {1, 2})
       => doc' = doc \/ last'.call = "Save"]_vars

\* What the documentation says and a member that is null does not keep: a
\* stored document that cannot be graded is reported as such.
UngradableIsReported ==
  last.answer # "panic"
=============================================================================
