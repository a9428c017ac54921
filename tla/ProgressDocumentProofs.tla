----------------------- MODULE ProgressDocumentProofs -----------------------
(***************************************************************************)
(* Theorems about ProgressDocument, for any kana, lessons, uploads and     *)
(* patches, any size of the attempt window and any width of an int.        *)
(***************************************************************************)
EXTENDS ProgressDocument, SequenceTheorems, TLAPS

USE IntAssumption

----------------------------------------------------------------------------
\* Scores and mastery

\* A graded score is in range, whatever it was before.
LEMMA ApplyAnswerInRange ==
  ASSUME NEW n \in Ints, NEW correct \in BOOLEAN
  PROVE  applyAnswer(n, correct) \in 0 .. 100 /\ applyAnswer(n, correct) \in Ints
<1>1. Wrap(n + (IF correct THEN 20 ELSE -30)) \in Int
  BY DEF Wrap, Ints
<1> QED
  BY <1>1 DEF applyAnswer, clamp, Ints

\* What fits an int is left as it is.
LEMMA WrapFits ==
  ASSUME NEW n \in Ints
  PROVE  Wrap(n) = n
<1> DEFINE m == n + MaxInt + 1
           w == 2 * (MaxInt + 1)
<1>1. m \in Nat /\ w \in Nat /\ m < w
  BY DEF Ints
<1>2. m % w = m
  <2> HIDE DEF m, w
  <2> QED BY <1>1
<1> QED
  BY <1>1, <1>2 DEF Wrap, Ints

\* A score in range moves up with a right answer and down with a wrong one.
LEMMA ApplyAnswerMoves ==
  ASSUME NEW n \in 0 .. 100
  PROVE  applyAnswer(n, TRUE) >= n /\ applyAnswer(n, FALSE) <= n
<1>1. n + 20 \in Ints /\ n - 30 \in Ints
  BY DEF Ints
<1>2. Wrap(n + 20) = n + 20 /\ Wrap(n - 30) = n - 30
  BY <1>1, WrapFits
<1> QED
  BY <1>2 DEF applyAnswer, clamp

SumOf(s) == s["recognition"] + s["writing"] + s["listening"] + s["reading"]
AllInRange(s) == \A x \in Skill : s[x] \in 0 .. 100

LEMMA AverageInRange ==
  ASSUME NEW s \in Skills, AllInRange(s)
  PROVE  SumOf(s) \in 0 .. 400 /\ Average(s) = SumOf(s) \div 4
<1>1. /\ s["recognition"] \in 0 .. 100 /\ s["writing"] \in 0 .. 100
      /\ s["listening"] \in 0 .. 100 /\ s["reading"] \in 0 .. 100
  BY DEF AllInRange, Skill
<1>2. SumOf(s) \in 0 .. 400
  <2> DEFINE r == s["recognition"]
             w == s["writing"]
             l == s["listening"]
             e == s["reading"]
  <2>1. r \in 0 .. 100 /\ w \in 0 .. 100 /\ l \in 0 .. 100 /\ e \in 0 .. 100
    BY <1>1
  <2>2. SumOf(s) = r + w + l + e
    BY DEF SumOf
  <2> HIDE DEF r, w, l, e
  <2> QED BY <2>1, <2>2
<1>3. Wrap(SumOf(s)) = SumOf(s)
  BY <1>2, WrapFits DEF Ints
<1>4. Average(s) = Quotient(Wrap(SumOf(s)), 4)
  BY DEF Average, SumOf
<1> QED
  BY <1>2, <1>3, <1>4 DEF Quotient

\* The mastery of scores in range, by their sum.
LEMMA MasteryBySum ==
  ASSUME NEW s \in Skills, AllInRange(s)
  PROVE  masteryFor(s) = CASE SumOf(s) >= 320 -> "mastered"
                           [] SumOf(s) \in 200 .. 319 -> "familiar"
                           [] SumOf(s) \in 100 .. 199 -> "learning"
                           [] OTHER -> "discovered"
<1>1. SumOf(s) \in 0 .. 400 /\ Average(s) = SumOf(s) \div 4
  BY AverageInRange
<1>2. CASE SumOf(s) >= 320
  BY <1>1, <1>2 DEF masteryFor
<1>3. CASE SumOf(s) \in 200 .. 319
  BY <1>1, <1>3 DEF masteryFor
<1>4. CASE SumOf(s) \in 100 .. 199
  BY <1>1, <1>4 DEF masteryFor
<1>5. CASE SumOf(s) \in 0 .. 99
  BY <1>1, <1>5 DEF masteryFor
<1> QED
  BY <1>1, <1>2, <1>3, <1>4, <1>5

LEMMA MasteryType ==
  ASSUME NEW s \in Skills
  PROVE  masteryFor(s) \in Mastery
BY DEF masteryFor, Mastery

----------------------------------------------------------------------------
\* Type correctness

LEMMA MemberType ==
  ASSUME NEW d \in Document
  PROVE  /\ Given(d.recentAttempts, <<>>) \in Seq(Attempt)
         /\ Given(d.completedLessonIds, {}) \in SUBSET Lessons
         /\ d.srsByKana \in Member(Schedules)
<1>1. /\ d.recentAttempts \in Member(Seq(Attempt))
      /\ d.completedLessonIds \in Member(SUBSET Lessons)
      /\ d.srsByKana \in Member(Schedules)
  BY DEF Document
<1>2. <<>> \in Seq(Attempt)
  OBVIOUS
<1> QED
  BY <1>1, <1>2 DEF Given, Slice, Member

LEMMA FreshType == Fresh \in Document
BY DEF Fresh, Document, Member

\* What an answer finds where it is not refused.
LEMMA Gradable ==
  ASSUME NEW d \in Document, AnswerError(d) = "none"
  PROVE  /\ Map(d.skillsByKana) \in MapOf(Skills)
         /\ Map(d.masteryByKana) \in MapOf(States)
         /\ Slice(d.recentAttempts, <<>>) \in Seq(Attempt)
         /\ d.recentAttempts # Malformed
<1>1. /\ d.skillsByKana \in Member(MapOf(Skills))
      /\ d.masteryByKana \in Member(MapOf(States))
      /\ d.recentAttempts \in Member(Seq(Attempt))
  BY DEF Document
<1>2. /\ d.skillsByKana \notin {Malformed, Null} /\ d.masteryByKana \notin {Malformed, Null}
      /\ d.recentAttempts # Malformed
  BY DEF AnswerError
<1>3. EmptyMap \in MapOf(Skills) /\ EmptyMap \in MapOf(States) /\ <<>> \in Seq(Attempt)
  BY DEF EmptyMap, MapOf
<1> QED
  BY <1>1, <1>2, <1>3 DEF Map, Slice, Member

LEMMA SkillsType ==
  ASSUME NEW d \in Document, AnswerError(d) = "none", NEW k \in Kana
  PROVE  SkillsOf(d, k) \in Skills
<1>1. Map(d.skillsByKana)[k] \in Skills \cup {Absent}
  BY Gradable DEF MapOf
<1>2. Unpractised \in Skills
  BY DEF Unpractised, Skills, Ints
<1> QED
  BY <1>1, <1>2 DEF SkillsOf

LEMMA WindowType ==
  ASSUME NEW s \in Seq(Attempt), NEW a \in Attempt
  PROVE  AppendAttempt(s, a) \in Seq(Attempt)
<1>1. Append(s, a) \in Seq(Attempt) /\ Len(Append(s, a)) \in Nat
  OBVIOUS
<1>2. CASE Len(Append(s, a)) > MaxRecentAttempts
  <2> DEFINE all == Append(s, a)
             n == Len(all)
  <2>1. n - MaxRecentAttempts + 1 \in 1 .. n + 1
    BY <1>1, <1>2, BoundAssumption
  <2>2. SubSeq(all, n - MaxRecentAttempts + 1, n) \in Seq(Attempt)
    BY <1>1, <2>1, SubSeqProperties
  <2> QED BY <1>2, <2>2 DEF AppendAttempt
<1> QED
  BY <1>1, <1>2 DEF AppendAttempt

\* The scores and the mastery an answer leaves.
NewScores(d, a) == [SkillsOf(d, a.kana) EXCEPT ![a.skill] = applyAnswer(@, a.correct)]

LEMMA GradedType ==
  ASSUME NEW d \in Document, AnswerError(d) = "none", NEW a \in Answers
  PROVE  /\ NewScores(d, a) \in Skills
         /\ Graded(d, a) \in Document
         /\ Graded(d, a).skillsByKana =
              [Map(d.skillsByKana) EXCEPT ![a.kana] = NewScores(d, a)]
         /\ Graded(d, a).masteryByKana =
              [Map(d.masteryByKana) EXCEPT ![a.kana] = masteryFor(NewScores(d, a))]
         /\ Graded(d, a).recentAttempts = AppendAttempt(Slice(d.recentAttempts, <<>>), a)
         /\ Graded(d, a).srsByKana = d.srsByKana
         /\ Graded(d, a).completedLessonIds = d.completedLessonIds
<1> DEFINE s == SkillsOf(d, a.kana)
<1>1. a.kana \in Kana /\ a.skill \in Skill /\ a.correct \in BOOLEAN /\ a \in Attempt
  BY DEF Answers, Attempt
<1>2. s \in Skills
  BY <1>1, SkillsType
<1>3. NewScores(d, a) \in Skills
  <2> HIDE DEF s
  <2>1. s[a.skill] \in Ints
    BY <1>1, <1>2 DEF Skills
  <2>2. [s EXCEPT ![a.skill] = applyAnswer(s[a.skill], a.correct)] \in Skills
    BY <1>1, <1>2, <2>1, ApplyAnswerInRange DEF Skills
  <2> QED BY <2>2 DEF NewScores, s
<1>4. masteryFor(NewScores(d, a)) \in States
  BY <1>3, MasteryType DEF States
<1>5. [Map(d.skillsByKana) EXCEPT ![a.kana] = NewScores(d, a)] \in Member(MapOf(Skills))
  BY <1>1, <1>3, Gradable DEF MapOf, Member
<1>6. [Map(d.masteryByKana) EXCEPT ![a.kana] = masteryFor(NewScores(d, a))]
        \in Member(MapOf(States))
  BY <1>1, <1>4, Gradable DEF MapOf, Member
<1>7. AppendAttempt(Slice(d.recentAttempts, <<>>), a) \in Member(Seq(Attempt))
  BY <1>1, Gradable, WindowType DEF Member
<1>8. Graded(d, a) =
        [d EXCEPT !.skillsByKana = [Map(d.skillsByKana) EXCEPT ![a.kana] = NewScores(d, a)],
                  !.masteryByKana = [Map(d.masteryByKana) EXCEPT
                                       ![a.kana] = masteryFor(NewScores(d, a))],
                  !.recentAttempts = AppendAttempt(Slice(d.recentAttempts, <<>>), a)]
  BY DEF Graded, NewScores, Document
<1>9. Graded(d, a) \in Document
  BY <1>5, <1>6, <1>7, <1>8 DEF Document
<1>10. /\ Graded(d, a).skillsByKana =
            [Map(d.skillsByKana) EXCEPT ![a.kana] = NewScores(d, a)]
       /\ Graded(d, a).masteryByKana =
            [Map(d.masteryByKana) EXCEPT ![a.kana] = masteryFor(NewScores(d, a))]
       /\ Graded(d, a).recentAttempts = AppendAttempt(Slice(d.recentAttempts, <<>>), a)
       /\ Graded(d, a).srsByKana = d.srsByKana
       /\ Graded(d, a).completedLessonIds = d.completedLessonIds
  BY <1>8 DEF Document
<1> QED
  BY <1>3, <1>9, <1>10

LEMMA MergedType ==
  ASSUME NEW d \in Document, NEW p \in Patches
  PROVE  /\ Merged(d, p) \in Document
         /\ \A f \in Fields : Merged(d, p)[f] = IF f \in DOMAIN p THEN p[f] ELSE d[f]
<1> DEFINE m == Merged(d, p)
<1>1. \A f \in Fields : m[f] = IF f \in DOMAIN p THEN p[f] ELSE d[f]
  BY DEF Merged
<1>2. \A f \in DOMAIN p : f \in Fields /\ [Fresh EXCEPT ![f] = p[f]] \in Document
  BY InputAssumption
<1>3. m.schemaVersion \in Member(Ints)
  BY <1>1, <1>2 DEF Document, Fields, Fresh
<1>4. m.masteryByKana \in Member(MapOf(States))
  BY <1>1, <1>2 DEF Document, Fields, Fresh
<1>5. m.skillsByKana \in Member(MapOf(Skills))
  BY <1>1, <1>2 DEF Document, Fields, Fresh
<1>6. m.completedLessonIds \in Member(SUBSET Lessons)
  BY <1>1, <1>2 DEF Document, Fields, Fresh
<1>7. m.recentAttempts \in Member(Seq(Attempt))
  BY <1>1, <1>2 DEF Document, Fields, Fresh
<1>8. m.srsByKana \in Member(Schedules)
  BY <1>1, <1>2 DEF Document, Fields, Fresh
<1>9. m = [schemaVersion |-> m.schemaVersion, masteryByKana |-> m.masteryByKana,
           skillsByKana |-> m.skillsByKana, completedLessonIds |-> m.completedLessonIds,
           recentAttempts |-> m.recentAttempts, srsByKana |-> m.srsByKana]
  BY DEF Merged, Fields
<1>10. m \in Document
  <2> HIDE DEF m
  <2> QED BY <1>3, <1>4, <1>5, <1>6, <1>7, <1>8, <1>9 DEF Document
<1> QED
  BY <1>1, <1>10

LEMMA CompletedType ==
  ASSUME NEW d \in Document, LessonError(d) = "none", NEW l \in Lessons
  PROVE  Completed(d, l) \in Document
<1>1. d.completedLessonIds \in Member(SUBSET Lessons) /\ d.completedLessonIds # Malformed
  BY DEF Document, LessonError
<1>2. Slice(d.completedLessonIds, {}) \cup {l} \in SUBSET Lessons
  BY <1>1 DEF Slice, Member
<1>3. Slice(d.completedLessonIds, {}) \cup {l} \in Member(SUBSET Lessons)
  BY <1>2 DEF Member
<1> QED
  BY <1>3 DEF Completed, Document

\* What a step does to the document and the history.
Kept == UNCHANGED <<doc, since>>
Saved(d) == doc' = d /\ since' = Since(IF d = NotAnObject THEN Fresh ELSE d)
Changed(error, result, history) ==
  /\ Stored \in Document
  /\ error = "none"
  /\ doc' = [result EXCEPT !.schemaVersion = 2]
  /\ since' = history
Answered(a) ==
  Changed(AnswerError(Stored), Graded(Stored, a),
          [since EXCEPT !.graded = since.graded \cup {<<a.kana, a.skill>>},
                        !.attempts = Append(since.attempts, a)])
CompletedLesson(l) ==
  Changed(LessonError(Stored), Completed(Stored, l),
          [since EXCEPT !.lessons = since.lessons \cup {l}])
Patched(p) ==
  Changed(PatchError(Stored, p), Merged(Stored, p),
          [since EXCEPT
             !.lessons = IF "completedLessonIds" \in DOMAIN p
                         THEN Given(p["completedLessonIds"], {}) ELSE since.lessons,
             !.srs = IF "srsByKana" \in DOMAIN p THEN p["srsByKana"] ELSE since.srs])

CallNames == {"Get", "Save", "RecordAnswer", "CompleteLesson", "Merge"}

LEMMA StoredType ==
  ASSUME TypeOK, ParseError(Stored) = "none"
  PROVE  Stored \in Document
BY FreshType, MarkAssumption DEF TypeOK, Stored, ParseError

LEMMA Steps ==
  ASSUME TypeOK, Next
  PROVE  /\ calls' \in 0 .. MaxCalls
         /\ last'.call \in CallNames
         /\ \/ Kept
            \/ \E d \in Uploads : Saved(d) /\ last'.call = "Save"
            \/ \E a \in Answers : Answered(a) /\ last'.call = "RecordAnswer"
            \/ \E l \in Lessons : CompletedLesson(l) /\ last'.call = "CompleteLesson"
            \/ \E p \in Patches : Patched(p) /\ last'.call = "Merge"
<1> USE DEF CallNames
<1>0. calls \in 0 .. MaxCalls
  BY DEF TypeOK
<1>1. ASSUME NEW call \in CallNames, NEW answer, Called(call, answer)
      PROVE  calls' \in 0 .. MaxCalls /\ last'.call = call
  BY <1>0, <1>1, BoundAssumption DEF Called
<1>2. ASSUME NEW call \in CallNames, NEW error, Refuse(call, error)
      PROVE  calls' \in 0 .. MaxCalls /\ last'.call = call /\ Kept
  BY <1>1, <1>2 DEF Refuse, Kept
<1>3. ASSUME NEW d \in Uploads, Save(d)
      PROVE  calls' \in 0 .. MaxCalls /\ last'.call = "Save" /\ Saved(d)
  BY <1>1, <1>3 DEF Save, Saved
<1>4. ASSUME NEW a \in Answers, RecordAnswer(a)
      PROVE  /\ calls' \in 0 .. MaxCalls /\ last'.call = "RecordAnswer"
             /\ Kept \/ Answered(a)
  <2>1. AnswerError(Stored) = "none" => Stored \in Document
    BY StoredType DEF AnswerError
  <2> QED BY <1>1, <1>2, <1>4, <2>1 DEF RecordAnswer, Mutate, Answered, Changed
<1>5. ASSUME NEW l \in Lessons, CompleteLesson(l)
      PROVE  /\ calls' \in 0 .. MaxCalls /\ last'.call = "CompleteLesson"
             /\ Kept \/ CompletedLesson(l)
  <2>1. LessonError(Stored) = "none" => Stored \in Document
    BY StoredType DEF LessonError
  <2> QED BY <1>1, <1>2, <1>5, <2>1 DEF CompleteLesson, Mutate, CompletedLesson, Changed
<1>6. ASSUME NEW p \in Patches, Merge(p)
      PROVE  /\ calls' \in 0 .. MaxCalls /\ last'.call = "Merge"
             /\ Kept \/ Patched(p)
  <2>1. PatchError(Stored, p) = "none" => Stored \in Document
    BY StoredType DEF PatchError
  <2> QED BY <1>1, <1>2, <1>6, <2>1 DEF Merge, Mutate, Patched, Changed
<1>7. ASSUME RefuseUnread
      PROVE  calls' \in 0 .. MaxCalls /\ last'.call \in CallNames /\ Kept
  BY <1>2, <1>7 DEF RefuseUnread
<1>8. ASSUME Get
      PROVE  calls' \in 0 .. MaxCalls /\ last'.call \in CallNames /\ Kept
  BY <1>0, <1>8 DEF Get, Kept
<1> QED
  BY <1>3, <1>4, <1>5, <1>6, <1>7, <1>8 DEF Next

SinceType == [graded: SUBSET (Kana \X Skill), attempts: Seq(Attempt),
              lessons: SUBSET Lessons, srs: Member(Schedules)]

LEMMA PatchType ==
  ASSUME NEW p \in Patches
  PROVE  /\ "completedLessonIds" \in DOMAIN p =>
              Given(p["completedLessonIds"], {}) \in SUBSET Lessons
         /\ "srsByKana" \in DOMAIN p => p["srsByKana"] \in Member(Schedules)
<1>1. \A f \in DOMAIN p : [Fresh EXCEPT ![f] = p[f]] \in Document
  BY InputAssumption
<1>2. "completedLessonIds" \in DOMAIN p =>
        p["completedLessonIds"] \in Member(SUBSET Lessons)
  BY <1>1 DEF Document, Fresh
<1>3. "srsByKana" \in DOMAIN p => p["srsByKana"] \in Member(Schedules)
  BY <1>1 DEF Document, Fresh
<1>4. "completedLessonIds" \in DOMAIN p =>
        Given(p["completedLessonIds"], {}) \in SUBSET Lessons
  BY <1>2 DEF Given, Slice, Member
<1> QED
  BY <1>3, <1>4

LEMMA SinceOf ==
  ASSUME NEW d \in Document
  PROVE  Since(d) \in SinceType
<1>1. {} \in SUBSET (Kana \X Skill)
  OBVIOUS
<1> QED
  BY <1>1, MemberType DEF Since, SinceType

LEMMA Stamped ==
  ASSUME NEW d \in Document
  PROVE  LET stamped == [d EXCEPT !.schemaVersion = 2] IN
         /\ stamped \in Document
         /\ stamped.skillsByKana = d.skillsByKana
         /\ stamped.masteryByKana = d.masteryByKana
         /\ stamped.recentAttempts = d.recentAttempts
         /\ stamped.completedLessonIds = d.completedLessonIds
         /\ stamped.srsByKana = d.srsByKana
<1>1. 2 \in Member(Ints)
  BY DEF Member, Ints
<1> QED
  BY <1>1 DEF Document

\* The document and the history have their types in every reachable state.
THEOREM TypeCorrect == Spec => []TypeOK
<1>1. Init => TypeOK
  <2> SUFFICES ASSUME Init PROVE TypeOK
    OBVIOUS
  <2>1. since \in SinceType
    BY FreshType, SinceOf DEF Init
  <2>2. calls \in 0 .. MaxCalls
    BY BoundAssumption DEF Init
  <2> QED BY <2>1, <2>2 DEF Init, TypeOK, SinceType
<1>2. TypeOK /\ [Next]_vars => TypeOK'
  <2> SUFFICES ASSUME TypeOK, [Next]_vars PROVE TypeOK'
    OBVIOUS
  <2>1. CASE UNCHANGED vars
    BY <2>1 DEF TypeOK, vars
  <2> SUFFICES ASSUME Next PROVE TypeOK'
    BY <2>1
  <2>2. calls' \in 0 .. MaxCalls /\ last'.call \in CallNames
    BY Steps
  <2>3. since \in SinceType
    BY DEF TypeOK, SinceType
  <2> SUFFICES doc' \in Document \cup {NoDoc, NotAnObject} /\ since' \in SinceType
    BY <2>2 DEF TypeOK, SinceType, CallNames
  <2>4. CASE Kept
    BY <2>3, <2>4 DEF Kept, TypeOK
  <2>5. ASSUME NEW d \in Uploads, Saved(d)
        PROVE  doc' \in Document \cup {NoDoc, NotAnObject} /\ since' \in SinceType
    <3>1. d \in Document \cup {NotAnObject}
      BY InputAssumption
    <3>2. (IF d = NotAnObject THEN Fresh ELSE d) \in Document
      BY <3>1, FreshType
    <3> QED BY <2>5, <3>1, <3>2, SinceOf DEF Saved
  <2>6. ASSUME NEW a \in Answers, Answered(a)
        PROVE  doc' \in Document \cup {NoDoc, NotAnObject} /\ since' \in SinceType
    <3>1. doc' \in Document
      BY <2>6, GradedType, Stamped DEF Answered, Changed
    <3>2. <<a.kana, a.skill>> \in Kana \X Skill /\ a \in Attempt
      BY DEF Answers, Attempt
    <3>3. since.graded \cup {<<a.kana, a.skill>>} \in SUBSET (Kana \X Skill)
      BY <2>3, <3>2 DEF SinceType
    <3>4. Append(since.attempts, a) \in Seq(Attempt)
      BY <2>3, <3>2 DEF SinceType
    <3> QED BY <2>3, <2>6, <3>1, <3>3, <3>4 DEF Answered, Changed, SinceType
  <2>7. ASSUME NEW l \in Lessons, CompletedLesson(l)
        PROVE  doc' \in Document \cup {NoDoc, NotAnObject} /\ since' \in SinceType
    <3>1. doc' \in Document
      BY <2>7, CompletedType, Stamped DEF CompletedLesson, Changed
    <3>2. since.lessons \cup {l} \in SUBSET Lessons
      BY <2>3 DEF SinceType
    <3> QED BY <2>3, <2>7, <3>1, <3>2 DEF CompletedLesson, Changed, SinceType
  <2>8. ASSUME NEW p \in Patches, Patched(p)
        PROVE  doc' \in Document \cup {NoDoc, NotAnObject} /\ since' \in SinceType
    <3>1. doc' \in Document
      BY <2>8, MergedType, Stamped DEF Patched, Changed
    <3>2. (IF "completedLessonIds" \in DOMAIN p
           THEN Given(p["completedLessonIds"], {}) ELSE since.lessons) \in SUBSET Lessons
      BY <2>3, PatchType DEF SinceType
    <3>3. (IF "srsByKana" \in DOMAIN p THEN p["srsByKana"] ELSE since.srs)
            \in Member(Schedules)
      BY <2>3, PatchType DEF SinceType
    <3> QED BY <2>3, <2>8, <3>1, <3>2, <3>3 DEF Patched, Changed, SinceType
  <2> QED
    BY <2>4, <2>5, <2>6, <2>7, <2>8, Steps
<1> QED
  BY <1>1, <1>2, PTL DEF Spec

----------------------------------------------------------------------------
\* Mastery

\* The mastery stored beside graded scores is computed from them.
GradedInv ==
  \A g \in since.graded :
    /\ doc \in Document
    /\ doc.skillsByKana \in MapOf(Skills)
    /\ doc.masteryByKana \in MapOf(States)
    /\ Scores(g[1]) \in Skills
    /\ Scores(g[1])[g[2]] \in 0 .. 100
    /\ doc.masteryByKana[g[1]] = masteryFor(Scores(g[1]))

\* What an answer leaves of the two maps.
LEMMA AnsweredMaps ==
  ASSUME NEW a \in Answers, Answered(a)
  PROVE  /\ doc'.skillsByKana = [Map(Stored.skillsByKana) EXCEPT ![a.kana] = NewScores(Stored, a)]
         /\ doc'.masteryByKana = [Map(Stored.masteryByKana) EXCEPT
                                    ![a.kana] = masteryFor(NewScores(Stored, a))]
         /\ Map(Stored.skillsByKana) \in MapOf(Skills)
         /\ Map(Stored.masteryByKana) \in MapOf(States)
         /\ NewScores(Stored, a) \in Skills
         /\ NewScores(Stored, a)[a.skill] \in 0 .. 100
         /\ \A x \in Skill \ {a.skill} : NewScores(Stored, a)[x] = SkillsOf(Stored, a.kana)[x]
         /\ NewScores(Stored, a)[a.skill] =
              applyAnswer(SkillsOf(Stored, a.kana)[a.skill], a.correct)
<1>1. Stored \in Document /\ AnswerError(Stored) = "none"
  BY DEF Answered, Changed
<1>2. a.kana \in Kana /\ a.skill \in Skill /\ a.correct \in BOOLEAN
  BY DEF Answers
<1>3. SkillsOf(Stored, a.kana) \in Skills
  BY <1>1, <1>2, SkillsType
<1>4. /\ NewScores(Stored, a)[a.skill] =
           applyAnswer(SkillsOf(Stored, a.kana)[a.skill], a.correct)
      /\ \A x \in Skill \ {a.skill} : NewScores(Stored, a)[x] = SkillsOf(Stored, a.kana)[x]
  BY <1>2, <1>3 DEF NewScores, Skills
<1>5. NewScores(Stored, a)[a.skill] \in 0 .. 100
  BY <1>2, <1>3, <1>4, ApplyAnswerInRange DEF Skills
<1>6. /\ doc'.skillsByKana = [Map(Stored.skillsByKana) EXCEPT ![a.kana] = NewScores(Stored, a)]
      /\ doc'.masteryByKana = [Map(Stored.masteryByKana) EXCEPT
                                 ![a.kana] = masteryFor(NewScores(Stored, a))]
  BY <1>1, GradedType, Stamped DEF Answered, Changed
<1> QED
  BY <1>1, <1>4, <1>5, <1>6, Gradable, GradedType

LEMMA GradedInductive ==
  ASSUME TypeOK, GradedInv, [Next]_vars
  PROVE  GradedInv'
<1>1. CASE UNCHANGED vars
  BY <1>1 DEF GradedInv, Scores, vars
<1> SUFFICES ASSUME Next PROVE GradedInv'
  BY <1>1
<1>2. CASE Kept
  BY <1>2 DEF GradedInv, Scores, Kept
<1>3. ASSUME NEW d \in Uploads, Saved(d)
      PROVE  GradedInv'
  BY <1>3 DEF Saved, Since, GradedInv
<1>4. ASSUME NEW a \in Answers, Answered(a)
      PROVE  GradedInv'
  <2> DEFINE scores == NewScores(Stored, a)
             skillsMap == Map(Stored.skillsByKana)
             masteryMap == Map(Stored.masteryByKana)
  <2>0. /\ doc'.skillsByKana = [skillsMap EXCEPT ![a.kana] = scores]
        /\ doc'.masteryByKana = [masteryMap EXCEPT ![a.kana] = masteryFor(scores)]
        /\ skillsMap \in MapOf(Skills) /\ masteryMap \in MapOf(States)
        /\ scores \in Skills /\ masteryFor(scores) \in States
    BY <1>4, AnsweredMaps, MasteryType DEF States
  <2>1. a.kana \in Kana /\ a.skill \in Skill
    BY DEF Answers
  <2>2. doc' \in Document
    BY <1>4, GradedType, Stamped DEF Answered, Changed
  <2>3. doc'.skillsByKana \in MapOf(Skills) /\ doc'.masteryByKana \in MapOf(States)
    <3> HIDE DEF scores, skillsMap, masteryMap
    <3> QED BY <2>0, <2>1 DEF MapOf
  <2>4. since'.graded = since.graded \cup {<<a.kana, a.skill>>}
    BY <1>4 DEF Answered, Changed, TypeOK
  <2>5. SUFFICES ASSUME NEW g \in since'.graded
                 PROVE  /\ doc'.skillsByKana[g[1]] \in Skills
                        /\ doc'.skillsByKana[g[1]][g[2]] \in 0 .. 100
                        /\ doc'.masteryByKana[g[1]] = masteryFor(doc'.skillsByKana[g[1]])
    BY <2>2, <2>3 DEF GradedInv, Scores
  <2>6. g \in Kana \X Skill
    BY <2>1, <2>4 DEF TypeOK
  <2>7. CASE g[1] # a.kana
    <3>1. g \in since.graded
      BY <2>4, <2>7
    <3>2. /\ doc \in Document /\ doc.skillsByKana \in MapOf(Skills)
          /\ doc.masteryByKana \in MapOf(States)
      BY <3>1 DEF GradedInv
    <3>3. /\ Map(Stored.skillsByKana) = doc.skillsByKana
          /\ Map(Stored.masteryByKana) = doc.masteryByKana
      BY <3>2, MarkAssumption DEF Stored, Map
    <3>4. /\ doc'.skillsByKana[g[1]] = doc.skillsByKana[g[1]]
          /\ doc'.masteryByKana[g[1]] = doc.masteryByKana[g[1]]
      <4>1. skillsMap = doc.skillsByKana /\ masteryMap = doc.masteryByKana /\ g[1] \in Kana
        BY <2>6, <3>3
      <4> HIDE DEF scores, skillsMap, masteryMap
      <4> QED BY <2>0, <2>7, <4>1 DEF MapOf
    <3> QED BY <3>1, <3>4 DEF GradedInv, Scores
  <2>8. CASE g[1] = a.kana
    <3>1. /\ doc'.skillsByKana[g[1]] = NewScores(Stored, a)
          /\ doc'.masteryByKana[g[1]] = masteryFor(NewScores(Stored, a))
      BY <1>4, <2>1, <2>8, AnsweredMaps DEF MapOf
    <3>2. CASE g[2] = a.skill
      BY <1>4, <3>1, <3>2, AnsweredMaps
    <3>3. CASE g[2] # a.skill
      <4>1. g \in since.graded
        BY <2>4, <3>3
      <4>2. /\ doc \in Document /\ doc.skillsByKana \in MapOf(Skills)
            /\ Scores(g[1]) \in Skills /\ Scores(g[1])[g[2]] \in 0 .. 100
        BY <4>1 DEF GradedInv
      <4>3. Map(Stored.skillsByKana) = doc.skillsByKana
        BY <4>2, MarkAssumption DEF Stored, Map
      <4>4. SkillsOf(Stored, a.kana) = Scores(g[1])
        BY <2>8, <4>2, <4>3, MarkAssumption DEF SkillsOf, Scores
      <4> QED BY <1>4, <2>6, <3>1, <3>3, <4>2, <4>4, AnsweredMaps
    <3> QED BY <3>2, <3>3
  <2> QED BY <2>7, <2>8
<1>5. ASSUME since'.graded = since.graded, doc \in Document => doc' \in Document,
             doc \in Document => doc'.skillsByKana = doc.skillsByKana,
             doc \in Document => doc'.masteryByKana = doc.masteryByKana
      PROVE  GradedInv'
  <2>1. SUFFICES ASSUME NEW g \in since.graded
                 PROVE  /\ doc' \in Document
                        /\ doc'.skillsByKana \in MapOf(Skills)
                        /\ doc'.masteryByKana \in MapOf(States)
                        /\ doc'.skillsByKana[g[1]] \in Skills
                        /\ doc'.skillsByKana[g[1]][g[2]] \in 0 .. 100
                        /\ doc'.masteryByKana[g[1]] = masteryFor(doc'.skillsByKana[g[1]])
    BY <1>5 DEF GradedInv, Scores
  <2> QED BY <1>5, <2>1 DEF GradedInv, Scores
<1>6. doc \in Document => Stored = doc
  BY MarkAssumption DEF Stored
<1>7. ASSUME NEW l \in Lessons, CompletedLesson(l)
      PROVE  GradedInv'
  <2>1. doc' \in Document
    BY <1>7, CompletedType, Stamped DEF CompletedLesson, Changed
  <2>2. since'.graded = since.graded
    BY <1>7 DEF CompletedLesson, Changed, TypeOK
  <2>3. doc \in Document => /\ doc'.skillsByKana = doc.skillsByKana
                            /\ doc'.masteryByKana = doc.masteryByKana
    BY <1>6, <1>7 DEF CompletedLesson, Changed, Completed, Document
  <2> QED BY <1>5, <2>1, <2>2, <2>3
<1>8. ASSUME NEW p \in Patches, Patched(p)
      PROVE  GradedInv'
  <2>1. doc' \in Document
    BY <1>8, MergedType, Stamped DEF Patched, Changed
  <2>2. since'.graded = since.graded
    BY <1>8 DEF Patched, Changed, TypeOK
  <2>3. "skillsByKana" \notin DOMAIN p /\ "masteryByKana" \notin DOMAIN p
    BY <1>8 DEF Patched, Changed, PatchError, Protected
  <2>4. /\ Merged(Stored, p)["skillsByKana"] = Stored["skillsByKana"]
        /\ Merged(Stored, p)["masteryByKana"] = Stored["masteryByKana"]
    BY <2>3 DEF Merged, Fields
  <2>5. doc \in Document => /\ doc'.skillsByKana = doc.skillsByKana
                            /\ doc'.masteryByKana = doc.masteryByKana
    BY <1>6, <1>8, <2>4, MergedType DEF Patched, Changed, Document
  <2> QED BY <1>5, <2>1, <2>2, <2>5
<1> QED
  BY <1>2, <1>3, <1>4, <1>7, <1>8, Steps

LEMMA GradedInvariant == Spec => []GradedInv
<1>1. Init => GradedInv
  BY DEF Init, Since, GradedInv
<1>2. TypeOK /\ GradedInv /\ [Next]_vars => GradedInv'
  BY GradedInductive
<1> QED
  BY <1>1, <1>2, TypeCorrect, PTL DEF Spec

LEMMA GradedSum ==
  ASSUME TypeOK, GradedInv, NEW k \in GradedKana, InRange(k)
  PROVE  /\ Scores(k) \in Skills /\ AllInRange(Scores(k)) /\ k \in Kana
         /\ Sum(k) = SumOf(Scores(k))
         /\ doc.masteryByKana[k] = masteryFor(Scores(k))
         /\ doc.masteryByKana[k] =
              CASE Sum(k) >= 320 -> "mastered"
                [] Sum(k) \in 200 .. 319 -> "familiar"
                [] Sum(k) \in 100 .. 199 -> "learning"
                [] OTHER -> "discovered"
<1>1. PICK g \in since.graded : k = g[1]
  BY DEF GradedKana
<1>2. Scores(k) \in Skills /\ doc.masteryByKana[k] = masteryFor(Scores(k)) /\ k \in Kana
  BY <1>1 DEF GradedInv, TypeOK
<1>3. AllInRange(Scores(k))
  BY DEF InRange, AllInRange
<1>4. Sum(k) = SumOf(Scores(k))
  BY DEF Sum, SumOf
<1> QED
  BY <1>2, <1>3, <1>4, MasteryBySum

\* However the client, answers, lessons and patches follow one another, a score
\* the server graded is in range, and the mastery of its kana is the one its
\* scores call for.
THEOREM MasteryCorrect == Spec => []MasteryFollowsScores
<1>1. TypeOK /\ GradedInv => MasteryFollowsScores
  <2> SUFFICES ASSUME TypeOK, GradedInv PROVE MasteryFollowsScores
    OBVIOUS
  <2>1. \A g \in since.graded : Scores(g[1])[g[2]] \in 0 .. 100
    BY DEF GradedInv
  <2> QED BY <2>1, GradedSum DEF MasteryFollowsScores
<1> QED
  BY <1>1, TypeCorrect, GradedInvariant, PTL

\* No kana is past learning on one skill alone, none mastered on three.
THEOREM MasteryNeedsSkills == Spec => []OneSkillIsNotEnough
<1>1. TypeOK /\ GradedInv => OneSkillIsNotEnough
  <2> SUFFICES ASSUME TypeOK, GradedInv, NEW k \in GradedKana, InRange(k)
               PROVE  /\ doc.masteryByKana[k] = "mastered" => \A s \in Skill : Scores(k)[s] >= 20
                      /\ doc.masteryByKana[k] \in {"familiar", "mastered"} =>
                           \E s, t \in Skill : s # t /\ Scores(k)[s] > 0 /\ Scores(k)[t] > 0
    BY DEF OneSkillIsNotEnough
  <2> DEFINE r == Scores(k)["recognition"]
             w == Scores(k)["writing"]
             l == Scores(k)["listening"]
             e == Scores(k)["reading"]
  <2>1. r \in 0 .. 100 /\ w \in 0 .. 100 /\ l \in 0 .. 100 /\ e \in 0 .. 100
    BY DEF InRange, Skill
  <2>2. /\ doc.masteryByKana[k] = "mastered" => r + w + l + e >= 320
        /\ doc.masteryByKana[k] = "familiar" => r + w + l + e >= 200
    BY <2>1, GradedSum DEF Sum
  <2>3. r + w + l + e >= 320 => r >= 20 /\ w >= 20 /\ l >= 20 /\ e >= 20
    <3> HIDE DEF r, w, l, e
    <3> QED BY <2>1
  <2>4. r + w + l + e >= 200 =>
          \/ r > 0 /\ (w > 0 \/ l > 0 \/ e > 0)
          \/ w > 0 /\ (l > 0 \/ e > 0)
          \/ l > 0 /\ e > 0
    <3> HIDE DEF r, w, l, e
    <3> QED BY <2>1
  <2>5. r + w + l + e >= 200 =>
          \E s, t \in Skill : s # t /\ Scores(k)[s] > 0 /\ Scores(k)[t] > 0
    BY <2>4 DEF Skill
  <2>6. r + w + l + e >= 320 => r + w + l + e >= 200
    <3> HIDE DEF r, w, l, e
    <3> QED BY <2>1
  <2>7. doc.masteryByKana[k] = "mastered" => \A s \in Skill : Scores(k)[s] >= 20
    BY <2>2, <2>3 DEF Skill
  <2> QED BY <2>2, <2>5, <2>6, <2>7
<1> QED
  BY <1>1, TypeCorrect, GradedInvariant, PTL

\* The higher the scores, the higher the mastery.
LEMMA RankMonotone ==
  ASSUME NEW s \in Skills, NEW t \in Skills, AllInRange(s), AllInRange(t),
         SumOf(s) <= SumOf(t)
  PROVE  Rank(masteryFor(s)) <= Rank(masteryFor(t))
<1>1. SumOf(s) \in 0 .. 400 /\ SumOf(t) \in 0 .. 400
  BY AverageInRange
<1> DEFINE RankOf(n) == IF n >= 320 THEN 4 ELSE IF n >= 200 THEN 3
                        ELSE IF n >= 100 THEN 2 ELSE 1
<1>2. ASSUME NEW u \in Skills, AllInRange(u)
      PROVE  Rank(masteryFor(u)) = RankOf(SumOf(u))
  <2>1. SumOf(u) \in 0 .. 400
    BY <1>2, AverageInRange
  <2>2. CASE SumOf(u) >= 320
    BY <1>2, <2>1, <2>2, MasteryBySum DEF Rank
  <2>3. CASE SumOf(u) \in 200 .. 319
    BY <1>2, <2>1, <2>3, MasteryBySum DEF Rank
  <2>4. CASE SumOf(u) \in 100 .. 199
    BY <1>2, <2>1, <2>4, MasteryBySum DEF Rank
  <2>5. CASE SumOf(u) \in 0 .. 99
    BY <1>2, <2>1, <2>5, MasteryBySum DEF Rank
  <2> QED BY <2>1, <2>2, <2>3, <2>4, <2>5
<1>3. Rank(masteryFor(s)) = RankOf(SumOf(s)) /\ Rank(masteryFor(t)) = RankOf(SumOf(t))
  BY <1>2
<1>4. \A m, n \in 0 .. 400 : m <= n => RankOf(m) <= RankOf(n)
  OBVIOUS
<1> HIDE DEF RankOf
<1> QED
  BY <1>1, <1>3, <1>4

\* Scores none of which is lower have no lower sum.
LEMMA SumMonotone ==
  ASSUME NEW s \in Skills, NEW t \in Skills, AllInRange(s), AllInRange(t),
         \A x \in Skill : s[x] <= t[x]
  PROVE  SumOf(s) <= SumOf(t)
<1> DEFINE r1 == s["recognition"]
           w1 == s["writing"]
           l1 == s["listening"]
           e1 == s["reading"]
           r2 == t["recognition"]
           w2 == t["writing"]
           l2 == t["listening"]
           e2 == t["reading"]
<1>1. /\ r1 \in 0 .. 100 /\ w1 \in 0 .. 100 /\ l1 \in 0 .. 100 /\ e1 \in 0 .. 100
      /\ r2 \in 0 .. 100 /\ w2 \in 0 .. 100 /\ l2 \in 0 .. 100 /\ e2 \in 0 .. 100
  BY DEF AllInRange, Skill
<1>2. r1 <= r2 /\ w1 <= w2 /\ l1 <= l2 /\ e1 <= e2
  BY DEF Skill
<1>3. SumOf(s) = r1 + w1 + l1 + e1 /\ SumOf(t) = r2 + w2 + l2 + e2
  BY DEF SumOf
<1> HIDE DEF r1, w1, l1, e1, r2, w2, l2, e2
<1> QED
  BY <1>1, <1>2, <1>3

LEMMA AnswerMoves ==
  ASSUME TypeOK, GradedInv, NEW a \in Answers, Answered(a),
         NEW k \in GradedKana, InRange(k)
  PROVE  /\ k # a.kana => doc'.masteryByKana[k] = doc.masteryByKana[k]
         /\ k = a.kana /\ a.correct =>
              Rank(doc'.masteryByKana[k]) >= Rank(doc.masteryByKana[k])
         /\ k = a.kana /\ ~a.correct =>
              Rank(doc'.masteryByKana[k]) <= Rank(doc.masteryByKana[k])
<1> DEFINE before == Scores(k)
           after == NewScores(Stored, a)
<1>1. a.kana \in Kana /\ a.skill \in Skill /\ a.correct \in BOOLEAN
  BY DEF Answers
<1>2. /\ doc \in Document /\ doc.skillsByKana \in MapOf(Skills)
      /\ doc.masteryByKana \in MapOf(States)
  BY DEF GradedKana, GradedInv
<1>3. Map(doc.skillsByKana) = doc.skillsByKana /\ Map(doc.masteryByKana) = doc.masteryByKana
  BY <1>2, MarkAssumption DEF Map
<1>4. Stored = doc
  BY <1>2, MarkAssumption DEF Stored
<1>5. /\ before \in Skills /\ AllInRange(before) /\ k \in Kana
      /\ doc.masteryByKana[k] = masteryFor(before)
  BY GradedSum
<1>6. doc'.masteryByKana = [doc.masteryByKana EXCEPT ![a.kana] = masteryFor(after)]
  BY <1>3, <1>4, AnsweredMaps
<1>7. CASE k # a.kana
  <2> HIDE DEF before, after
  <2> QED BY <1>1, <1>2, <1>5, <1>6, <1>7 DEF MapOf
<1>8. CASE k = a.kana
  <2>1. doc'.masteryByKana[k] = masteryFor(after)
    <3> HIDE DEF before, after
    <3> QED BY <1>1, <1>2, <1>6, <1>8 DEF MapOf
  <2>2. SkillsOf(Stored, a.kana) = before
    BY <1>3, <1>4, <1>5, <1>8, MarkAssumption DEF SkillsOf, Scores
  <2>3. /\ after \in Skills /\ after[a.skill] \in 0 .. 100
        /\ \A x \in Skill \ {a.skill} : after[x] = before[x]
        /\ after[a.skill] = applyAnswer(before[a.skill], a.correct)
    BY <2>2, AnsweredMaps
  <2>4. AllInRange(after)
    <3> HIDE DEF before, after
    <3> QED BY <1>1, <1>5, <2>3 DEF AllInRange
  <2>5. before[a.skill] \in 0 .. 100
    BY <1>1, <1>5 DEF AllInRange
  <2>6. /\ a.correct => before[a.skill] <= after[a.skill]
        /\ ~a.correct => after[a.skill] <= before[a.skill]
    <3> HIDE DEF before, after
    <3>1. CASE a.correct = TRUE
      BY <2>3, <2>5, <3>1, ApplyAnswerMoves
    <3>2. CASE a.correct = FALSE
      BY <2>3, <2>5, <3>2, ApplyAnswerMoves
    <3> QED BY <1>1, <3>1, <3>2
  <2> HIDE DEF before, after
  <2>7. /\ a.correct => SumOf(before) <= SumOf(after)
        /\ ~a.correct => SumOf(after) <= SumOf(before)
    <3>1. \A x \in Skill : before[x] \in 0 .. 100 /\ after[x] \in 0 .. 100
      BY <1>5, <2>4 DEF AllInRange
    <3>2. /\ a.correct => \A x \in Skill : before[x] <= after[x]
          /\ ~a.correct => \A x \in Skill : after[x] <= before[x]
      BY <2>3, <2>6, <3>1
    <3> QED BY <1>5, <2>3, <2>4, <3>2, SumMonotone
  <2>8. /\ a.correct => Rank(masteryFor(before)) <= Rank(masteryFor(after))
        /\ ~a.correct => Rank(masteryFor(after)) <= Rank(masteryFor(before))
    BY <1>5, <2>3, <2>4, <2>7, RankMonotone
  <2>9. Rank(masteryFor(before)) \in Int /\ Rank(masteryFor(after)) \in Int
    BY <1>5, <2>3, MasteryType DEF Mastery, Rank
  <2> QED BY <1>5, <1>8, <2>1, <2>8, <2>9
<1> QED
  BY <1>7, <1>8

\* A right answer never lowers the mastery of its kana, a wrong one never raises
\* it, and neither moves another's.
THEOREM AnswersMoveOnlyTheirKana == Spec => AnswersMoveTheirKana
<1> DEFINE Moves ==
      \A a \in Answers, k \in GradedKana :
        /\ last'.call = "RecordAnswer" /\ since'.attempts = Append(since.attempts, a)
        /\ InRange(k)
        => LET before == doc.masteryByKana[k]
               after == doc'.masteryByKana[k]
           IN CASE k # a.kana -> after = before
                [] k = a.kana /\ a.correct -> Rank(after) >= Rank(before)
                [] k = a.kana /\ ~a.correct -> Rank(after) <= Rank(before)
<1>1. ASSUME TypeOK, GradedInv, Next PROVE Moves
  <2> SUFFICES ASSUME NEW a \in Answers, NEW k \in GradedKana,
                      last'.call = "RecordAnswer", InRange(k),
                      since'.attempts = Append(since.attempts, a)
               PROVE  /\ k # a.kana => doc'.masteryByKana[k] = doc.masteryByKana[k]
                      /\ k = a.kana /\ a.correct =>
                           Rank(doc'.masteryByKana[k]) >= Rank(doc.masteryByKana[k])
                      /\ k = a.kana /\ ~a.correct =>
                           Rank(doc'.masteryByKana[k]) <= Rank(doc.masteryByKana[k])
    BY DEF Answers
  <2>1. since.attempts \in Seq(Attempt)
    BY <1>1 DEF TypeOK
  <2>2. Append(since.attempts, a) # since.attempts
    BY <2>1
  <2>3. ~Kept
    BY <2>2 DEF Kept
  <2>4. PICK b \in Answers : Answered(b)
    BY <1>1, <2>3, Steps
  <2>5. Append(since.attempts, b) = Append(since.attempts, a)
    BY <1>1, <2>4 DEF Answered, Changed, TypeOK
  <2>6. b = a
    <3>1. Append(since.attempts, b)[Len(since.attempts) + 1] = b
      BY <2>1
    <3>2. Append(since.attempts, a)[Len(since.attempts) + 1] = a
      BY <2>1
    <3> QED BY <2>5, <3>1, <3>2
  <2> QED BY <1>1, <2>4, <2>6, AnswerMoves
<1>2. TypeOK /\ GradedInv /\ [Next]_vars => [Moves]_vars
  BY <1>1
<1> QED
  BY <1>2, TypeCorrect, GradedInvariant, PTL DEF Spec, AnswersMoveTheirKana

----------------------------------------------------------------------------
\* The client's members, and documents of another layout

\* Before anything is stored nothing is recorded of it.
ClientInv ==
  /\ ClientMembersSurvive
  /\ doc = NoDoc => since.srs = Absent /\ since.lessons = {}

LEMMA StoredClient ==
  ASSUME TypeOK, ClientInv, Stored \in Document
  PROVE  Stored.srsByKana = since.srs /\ since.lessons = Given(Stored.completedLessonIds, {})
<1>1. CASE doc = NoDoc
  BY <1>1 DEF ClientInv, Stored, Fresh, Given, Slice
<1>2. CASE doc # NoDoc
  BY <1>2 DEF ClientInv, ClientMembersSurvive, Stored
<1> QED
  BY <1>1, <1>2

LEMMA ClientInductive ==
  ASSUME TypeOK, ClientInv, [Next]_vars
  PROVE  ClientInv'
<1>1. CASE UNCHANGED vars
  BY <1>1 DEF ClientInv, ClientMembersSurvive, vars, Given, Slice
<1> SUFFICES ASSUME Next PROVE ClientInv'
  BY <1>1
<1>2. CASE Kept
  BY <1>2 DEF ClientInv, ClientMembersSurvive, Kept, Given, Slice
<1>3. ASSUME doc' # NoDoc,
             doc' \in Document => /\ doc'.srsByKana = since'.srs
                                 /\ since'.lessons = Given(doc'.completedLessonIds, {})
      PROVE  ClientInv'
  BY <1>3 DEF ClientInv, ClientMembersSurvive
<1>4. ASSUME NEW d \in Uploads, Saved(d)
      PROVE  ClientInv'
  <2>1. d \in Document \cup {NotAnObject}
    BY InputAssumption
  <2> QED BY <1>3, <1>4, <2>1, MarkAssumption DEF Saved, Since
<1>5. ASSUME NEW a \in Answers, Answered(a)
      PROVE  ClientInv'
  <2>1. doc' \in Document
    BY <1>5, GradedType, Stamped DEF Answered, Changed
  <2>2. /\ doc'.srsByKana = Stored.srsByKana
        /\ doc'.completedLessonIds = Stored.completedLessonIds
    <3> DEFINE graded == Graded(Stored, a)
    <3>1. doc' = [graded EXCEPT !.schemaVersion = 2]
      BY <1>5 DEF Answered, Changed
    <3>2. /\ graded \in Document /\ graded.srsByKana = Stored.srsByKana
          /\ graded.completedLessonIds = Stored.completedLessonIds
      BY <1>5, GradedType DEF Answered, Changed
    <3> HIDE DEF graded
    <3> QED BY <3>1, <3>2, Stamped
  <2>3. since'.srs = since.srs /\ since'.lessons = since.lessons
    BY <1>5 DEF Answered, Changed, TypeOK
  <2> QED BY <1>3, <1>5, <2>1, <2>2, <2>3, StoredClient, MarkAssumption DEF Answered, Changed
<1>6. ASSUME NEW l \in Lessons, CompletedLesson(l)
      PROVE  ClientInv'
  <2>1. doc' \in Document
    BY <1>6, CompletedType, Stamped DEF CompletedLesson, Changed
  <2>2. /\ Stored \in Document /\ LessonError(Stored) = "none"
        /\ doc'.srsByKana = Stored.srsByKana
        /\ doc'.completedLessonIds = Slice(Stored.completedLessonIds, {}) \cup {l}
    BY <1>6 DEF CompletedLesson, Changed, Completed, Document
  <2>3. since'.srs = since.srs /\ since'.lessons = since.lessons \cup {l}
    BY <1>6 DEF CompletedLesson, Changed, TypeOK
  <2>4. since.lessons = Slice(Stored.completedLessonIds, {})
    BY <2>2, StoredClient DEF Given, LessonError
  <2>5. Given(doc'.completedLessonIds, {}) = doc'.completedLessonIds
    BY <2>2, <2>4, MarkAssumption DEF Given, Slice, TypeOK
  <2> QED BY <1>3, <2>1, <2>2, <2>3, <2>4, <2>5, StoredClient, MarkAssumption
<1>7. ASSUME NEW p \in Patches, Patched(p)
      PROVE  ClientInv'
  <2>1. doc' \in Document
    BY <1>7, MergedType, Stamped DEF Patched, Changed
  <2>2. Stored \in Document
    BY <1>7 DEF Patched, Changed
  <2>3. /\ doc'.srsByKana = IF "srsByKana" \in DOMAIN p THEN p["srsByKana"]
                             ELSE Stored.srsByKana
        /\ doc'.completedLessonIds = IF "completedLessonIds" \in DOMAIN p
                                      THEN p["completedLessonIds"]
                                      ELSE Stored.completedLessonIds
    BY <1>7, <2>2, MergedType DEF Patched, Changed, Document, Fields
  <2>4. /\ since'.srs = IF "srsByKana" \in DOMAIN p THEN p["srsByKana"] ELSE since.srs
        /\ since'.lessons = IF "completedLessonIds" \in DOMAIN p
                             THEN Given(p["completedLessonIds"], {}) ELSE since.lessons
    BY <1>7 DEF Patched, Changed, TypeOK
  <2> QED BY <1>3, <2>1, <2>2, <2>3, <2>4, StoredClient, MarkAssumption
<1> QED
  BY <1>2, <1>4, <1>5, <1>6, <1>7, Steps

\* No answer, no completed lesson and no patch of something else loses what the
\* client keeps in the document or a lesson that was completed.
THEOREM ClientMembersKept == Spec => []ClientMembersSurvive
<1>1. Init => ClientInv
  BY MarkAssumption DEF Init, Since, Fresh, Given, Slice, ClientInv, ClientMembersSurvive
<1>2. TypeOK /\ ClientInv /\ [Next]_vars => ClientInv'
  BY ClientInductive
<1>3. ClientInv => ClientMembersSurvive
  BY DEF ClientInv
<1> QED
  BY <1>1, <1>2, <1>3, TypeCorrect, PTL DEF Spec

\* Only a PUT replaces a document of a layout the server does not know.
THEOREM NewerSchemaKept == Spec => NewerSchemaUntouched
<1>1. ASSUME TypeOK, [Next]_vars, doc \in Document, doc.schemaVersion \in Ints \ {1, 2}
      PROVE  doc' = doc \/ last'.call = "Save"
  <2>1. CASE UNCHANGED vars
    BY <2>1 DEF vars
  <2>2. Stored = doc
    BY <1>1, MarkAssumption DEF Stored
  <2>3. ParseError(Stored) # "none"
    <3>1. doc.schemaVersion \in Member(Ints)
      BY <1>1 DEF Document
    <3>2. ~Supported(doc)
      BY <1>1, <3>1, MarkAssumption DEF Supported, Version, Member
    <3> QED BY <2>2, <3>2 DEF ParseError
  <2>4. ~(\E a \in Answers : Answered(a))
    BY <2>3 DEF Answered, Changed, AnswerError
  <2>5. ~(\E l \in Lessons : CompletedLesson(l))
    BY <2>3 DEF CompletedLesson, Changed, LessonError
  <2>6. ~(\E p \in Patches : Patched(p))
    BY <2>3 DEF Patched, Changed, PatchError
  <2> QED BY <1>1, <2>1, <2>4, <2>5, <2>6, Steps DEF Kept
<1>2. TypeOK /\ [Next]_vars =>
        [(doc \in Document /\ doc.schemaVersion \in Ints \ {1, 2})
           => doc' = doc \/ last'.call = "Save"]_vars
  BY <1>1
<1> QED
  BY <1>2, TypeCorrect, PTL DEF Spec, NewerSchemaUntouched

----------------------------------------------------------------------------
\* The attempt window

\* s ends with w.
EndsWith(s, w) ==
  /\ Len(w) <= Len(s)
  /\ \A i \in 1 .. Len(w) : w[i] = s[Len(s) - Len(w) + i]

LEMMA EndIsSubSeq ==
  ASSUME NEW s \in Seq(Attempt), NEW w \in Seq(Attempt), EndsWith(s, w)
  PROVE  w = SubSeq(s, Len(s) - Len(w) + 1, Len(s))
<1> DEFINE m == Len(s) - Len(w) + 1
           n == Len(s)
           e == SubSeq(s, m, n)
<1>1. Len(s) \in Nat /\ Len(w) \in Nat /\ Len(w) <= Len(s)
  BY DEF EndsWith
<1>2. m \in Int /\ n \in Int /\ \A i \in m .. n : s[i] \in Attempt
  BY <1>1
<1>3. /\ e \in Seq(Attempt)
      /\ Len(e) = IF m <= n THEN n - m + 1 ELSE 0
      /\ \A i \in 1 .. n - m + 1 : e[i] = s[m + i - 1]
  <2> HIDE DEF m, n
  <2> QED BY <1>2, SubSeqProperties
<1>4. Len(e) = Len(w)
  <2> HIDE DEF e
  <2> QED BY <1>1, <1>3
<1>5. \A i \in 1 .. Len(w) : w[i] = e[i]
  <2> TAKE i \in 1 .. Len(w)
  <2>1. w[i] = s[Len(s) - Len(w) + i]
    BY DEF EndsWith
  <2>2. e[i] = s[m + i - 1]
    <3> HIDE DEF e
    <3> QED BY <1>1, <1>3
  <2>3. m + i - 1 = Len(s) - Len(w) + i
    BY <1>1
  <2> QED BY <2>1, <2>2, <2>3
<1>6. w = e
  <2> HIDE DEF e
  <2> QED BY <1>3, <1>4, <1>5, SeqEqual
<1> QED
  BY <1>6

LEMMA EndOfEnd ==
  ASSUME NEW s \in Seq(Attempt), NEW w \in Seq(Attempt), NEW v \in Seq(Attempt),
         EndsWith(s, w), EndsWith(w, v)
  PROVE  EndsWith(s, v)
<1>1. Len(s) \in Nat /\ Len(w) \in Nat /\ Len(v) \in Nat
  OBVIOUS
<1>2. Len(v) <= Len(s)
  BY <1>1 DEF EndsWith
<1>3. ASSUME NEW i \in 1 .. Len(v)
      PROVE  v[i] = s[Len(s) - Len(v) + i]
  <2> DEFINE j == Len(w) - Len(v) + i
  <2>1. v[i] = w[j] /\ j \in 1 .. Len(w)
    BY <1>1 DEF EndsWith
  <2>2. w[j] = s[Len(s) - Len(w) + j]
    <3> HIDE DEF j
    <3> QED BY <2>1 DEF EndsWith
  <2>3. Len(s) - Len(w) + j = Len(s) - Len(v) + i
    BY <1>1
  <2> QED BY <2>1, <2>2, <2>3
<1> QED
  BY <1>2, <1>3 DEF EndsWith

LEMMA AppendToEnd ==
  ASSUME NEW s \in Seq(Attempt), NEW w \in Seq(Attempt), NEW a \in Attempt,
         EndsWith(s, w)
  PROVE  EndsWith(Append(s, a), Append(w, a))
<1>1. Len(s) \in Nat /\ Len(w) \in Nat /\ Len(w) <= Len(s)
  BY DEF EndsWith
<1>2. Len(Append(s, a)) = Len(s) + 1 /\ Len(Append(w, a)) = Len(w) + 1
  OBVIOUS
<1>3. ASSUME NEW i \in 1 .. Len(w) + 1
      PROVE  Append(w, a)[i] = Append(s, a)[Len(s) - Len(w) + i]
  <2>1. CASE i = Len(w) + 1
    <3>1. Len(s) - Len(w) + i = Len(s) + 1
      BY <1>1, <2>1
    <3> QED BY <2>1, <3>1, AppendProperties
  <2>2. CASE i \in 1 .. Len(w)
    <3> DEFINE j == Len(s) - Len(w) + i
    <3>1. j \in 1 .. Len(s)
      BY <1>1, <2>2
    <3>2. w[i] = s[j]
      BY <2>2 DEF EndsWith
    <3> HIDE DEF j
    <3>3. Append(w, a)[i] = w[i] /\ Append(s, a)[j] = s[j]
      BY <2>2, <3>1, AppendProperties
    <3> QED BY <3>2, <3>3 DEF j
  <2> QED BY <1>1, <2>1, <2>2
<1>4. (Len(s) + 1) - (Len(w) + 1) = Len(s) - Len(w)
  BY <1>1
<1> QED
  BY <1>1, <1>2, <1>3, <1>4 DEF EndsWith

\* The window keeps the end of what it was given, as much as it may hold.
LEMMA WindowIsEnd ==
  ASSUME NEW w \in Seq(Attempt), NEW a \in Attempt
  PROVE  /\ EndsWith(Append(w, a), AppendAttempt(w, a))
         /\ \/ AppendAttempt(w, a) = Append(w, a) /\ Len(w) < MaxRecentAttempts
            \/ Len(AppendAttempt(w, a)) = MaxRecentAttempts
<1> DEFINE all == Append(w, a)
           n == Len(all)
           m == n - MaxRecentAttempts + 1
           v == SubSeq(all, m, n)
<1>1. all \in Seq(Attempt) /\ n \in Nat /\ n = Len(w) + 1
  OBVIOUS
<1>2. MaxRecentAttempts \in Nat \ {0}
  BY BoundAssumption
<1>3. CASE n <= MaxRecentAttempts
  <2>1. AppendAttempt(w, a) = all
    BY <1>1, <1>2, <1>3 DEF AppendAttempt
  <2>2. EndsWith(all, all)
    <3> HIDE DEF all
    <3> QED BY <1>1 DEF EndsWith
  <2> QED BY <1>1, <1>2, <1>3, <2>1, <2>2
<1>4. CASE n > MaxRecentAttempts
  <2>1. AppendAttempt(w, a) = v
    BY <1>4 DEF AppendAttempt
  <2> HIDE DEF all
  <2>2. m \in Int /\ n \in Int /\ m \in 1 .. n /\ \A i \in m .. n : all[i] \in Attempt
    BY <1>1, <1>2, <1>4
  <2>3. /\ Len(v) = IF m <= n THEN n - m + 1 ELSE 0
        /\ \A i \in 1 .. n - m + 1 : v[i] = all[m + i - 1]
    <3> HIDE DEF m, n
    <3> QED BY <2>2, SubSeqProperties
  <2> HIDE DEF v
  <2>4. Len(v) = MaxRecentAttempts
    BY <1>1, <1>2, <2>2, <2>3
  <2>5. \A i \in 1 .. Len(v) : v[i] = all[n - Len(v) + i]
    <3> TAKE i \in 1 .. Len(v)
    <3>1. v[i] = all[m + i - 1]
      BY <1>1, <1>2, <2>3, <2>4
    <3>2. m + i - 1 = n - Len(v) + i
      BY <1>1, <1>2, <2>4
    <3> QED BY <3>1, <3>2
  <2>6. EndsWith(all, v)
    BY <1>1, <1>2, <1>4, <2>4, <2>5 DEF EndsWith
  <2> QED BY <2>1, <2>4, <2>6 DEF all
<1> QED
  BY <1>1, <1>2, <1>3, <1>4

\* The window, whatever it is now, ends everything that was answered.
Window(d) == Slice(d.recentAttempts, <<>>)
GoodWindow(w, all) ==
  /\ EndsWith(all, w)
  /\ Len(w) >= MaxRecentAttempts \/ w = all
WindowInv ==
  /\ doc \in Document /\ doc.recentAttempts # Malformed =>
       GoodWindow(Window(doc), since.attempts)
  /\ doc = NoDoc => since.attempts = <<>>

LEMMA WindowSelf ==
  ASSUME NEW w \in Seq(Attempt)
  PROVE  GoodWindow(w, w)
BY DEF GoodWindow, EndsWith

LEMMA StoredWindow ==
  ASSUME TypeOK, WindowInv, Stored \in Document, Stored.recentAttempts # Malformed
  PROVE  GoodWindow(Window(Stored), since.attempts) /\ Window(Stored) \in Seq(Attempt)
<1>1. Window(Stored) \in Seq(Attempt)
  <2>1. Stored.recentAttempts \in Member(Seq(Attempt)) /\ <<>> \in Seq(Attempt)
    BY DEF Document
  <2> QED BY <2>1 DEF Window, Slice, Member
<1>2. CASE doc = NoDoc
  <2>1. Window(Stored) = <<>> /\ since.attempts = <<>>
    BY <1>2 DEF Window, Stored, Fresh, Slice, WindowInv
  <2> QED BY <1>1, <2>1, WindowSelf
<1>3. CASE doc # NoDoc
  BY <1>1, <1>3 DEF WindowInv, Stored
<1> QED
  BY <1>2, <1>3

LEMMA WindowInductive ==
  ASSUME TypeOK, WindowInv, [Next]_vars
  PROVE  WindowInv'
<1>1. CASE UNCHANGED vars
  BY <1>1 DEF WindowInv, Window, GoodWindow, EndsWith, Slice, vars
<1> SUFFICES ASSUME Next PROVE WindowInv'
  BY <1>1
<1>2. CASE Kept
  BY <1>2 DEF WindowInv, Window, GoodWindow, EndsWith, Slice, Kept
<1>3. ASSUME doc' # NoDoc,
             doc' \in Document /\ doc'.recentAttempts # Malformed =>
               GoodWindow(Window(doc'), since'.attempts)
      PROVE  WindowInv'
  BY <1>3 DEF WindowInv, Window, GoodWindow, EndsWith, Slice
<1>4. ASSUME NEW d \in Uploads, Saved(d)
      PROVE  WindowInv'
  <2>1. d \in Document \cup {NotAnObject}
    BY InputAssumption
  <2>2. ASSUME d \in Document, d.recentAttempts # Malformed
        PROVE  GoodWindow(Window(d), since'.attempts)
    <3>1. since'.attempts = Window(d)
      BY <1>4, <2>2, MarkAssumption DEF Saved, Since, Given, Window
    <3>2. Window(d) \in Seq(Attempt)
      BY <2>2, MemberType DEF Given, Window
    <3> QED BY <3>1, <3>2, WindowSelf
  <2> QED BY <1>3, <1>4, <2>1, <2>2, MarkAssumption DEF Saved
<1>5. ASSUME NEW a \in Answers, Answered(a)
      PROVE  WindowInv'
  <2>1. Stored \in Document /\ AnswerError(Stored) = "none"
    BY <1>5 DEF Answered, Changed
  <2> DEFINE w == Window(Stored)
             all == since.attempts
             v == AppendAttempt(w, a)
             graded == Graded(Stored, a)
  <2>2. a \in Attempt /\ all \in Seq(Attempt)
    BY DEF Answers, Attempt, TypeOK
  <2>3. GoodWindow(w, all) /\ w \in Seq(Attempt)
    BY <2>1, Gradable, StoredWindow
  <2>4. v \in Seq(Attempt) /\ Append(w, a) \in Seq(Attempt) /\ Append(all, a) \in Seq(Attempt)
    BY <2>2, <2>3, WindowType
  <2>5. GoodWindow(v, Append(all, a))
    <3> HIDE DEF w, all
    <3>1. EndsWith(Append(all, a), Append(w, a))
      BY <2>2, <2>3, AppendToEnd DEF GoodWindow
    <3>2. EndsWith(Append(w, a), v)
      BY <2>2, <2>3, WindowIsEnd
    <3>3. EndsWith(Append(all, a), v)
      BY <2>4, <3>1, <3>2, EndOfEnd
    <3>4. CASE v = Append(w, a) /\ Len(w) < MaxRecentAttempts
      <4>1. w = all
        BY <2>3, <3>4, BoundAssumption DEF GoodWindow
      <4> QED BY <3>3, <3>4, <4>1 DEF GoodWindow
    <3>5. CASE Len(v) = MaxRecentAttempts
      BY <3>3, <3>5, BoundAssumption DEF GoodWindow
    <3> QED BY <2>2, <2>3, <3>4, <3>5, WindowIsEnd
  <2>6. graded \in Document /\ graded.recentAttempts = v
    BY <2>1, GradedType DEF Window
  <2>7. doc' = [graded EXCEPT !.schemaVersion = 2] /\ since'.attempts = Append(all, a)
    BY <1>5 DEF Answered, Changed, TypeOK
  <2>8. doc' \in Document /\ doc'.recentAttempts = v
    <3> HIDE DEF graded, v
    <3> QED BY <2>6, <2>7, Stamped
  <2>9. Window(doc') = v
    <3> HIDE DEF v
    <3> QED BY <2>4, <2>8, MarkAssumption DEF Window, Slice
  <2> QED BY <1>3, <2>5, <2>7, <2>8, <2>9, MarkAssumption
<1>6. ASSUME doc' \in Document, Stored \in Document,
             doc'.recentAttempts = Stored.recentAttempts, since'.attempts = since.attempts
      PROVE  WindowInv'
  BY <1>3, <1>6, StoredWindow, MarkAssumption DEF Window
<1>7. ASSUME NEW l \in Lessons, CompletedLesson(l)
      PROVE  WindowInv'
  <2> DEFINE completed == Completed(Stored, l)
  <2>1. Stored \in Document /\ doc' = [completed EXCEPT !.schemaVersion = 2]
    BY <1>7 DEF CompletedLesson, Changed
  <2>2. completed \in Document /\ completed.recentAttempts = Stored.recentAttempts
    BY <1>7, CompletedType DEF CompletedLesson, Changed, Completed, Document
  <2>3. since'.attempts = since.attempts
    BY <1>7 DEF CompletedLesson, Changed, TypeOK
  <2> HIDE DEF completed
  <2> QED BY <1>6, <2>1, <2>2, <2>3, Stamped
<1>8. ASSUME NEW p \in Patches, Patched(p)
      PROVE  WindowInv'
  <2> DEFINE merged == Merged(Stored, p)
  <2>1. Stored \in Document /\ doc' = [merged EXCEPT !.schemaVersion = 2]
    BY <1>8 DEF Patched, Changed
  <2>2. "recentAttempts" \notin DOMAIN p
    BY <1>8 DEF Patched, Changed, PatchError, Protected
  <2>3. merged \in Document /\ merged.recentAttempts = Stored.recentAttempts
    BY <2>1, <2>2, MergedType DEF Fields
  <2>4. since'.attempts = since.attempts
    BY <1>8 DEF Patched, Changed, TypeOK
  <2> HIDE DEF merged
  <2> QED BY <1>6, <2>1, <2>3, <2>4, Stamped
<1> QED
  BY <1>2, <1>4, <1>5, <1>7, <1>8, Steps

\* Only the oldest entries ever leave the window, and none of them while it has
\* room.
THEOREM WindowKeepsNewest == Spec => []WindowIsNewest
<1>1. Init => WindowInv
  BY MarkAssumption DEF Init, Since, Fresh, Given, Slice, WindowInv
<1>2. TypeOK /\ WindowInv /\ [Next]_vars => WindowInv'
  BY WindowInductive
<1>3. TypeOK /\ WindowInv => WindowIsNewest
  <2> SUFFICES ASSUME TypeOK, WindowInv, doc \in Document, doc.recentAttempts # Malformed
               PROVE  LET window == Slice(doc.recentAttempts, <<>>)
                          all == since.attempts
                      IN /\ Len(window) <= Len(all)
                         /\ window = SubSeq(all, Len(all) - Len(window) + 1, Len(all))
                         /\ Len(window) >= MaxRecentAttempts \/ window = all
    BY DEF WindowIsNewest
  <2>1. Window(doc) \in Seq(Attempt) /\ since.attempts \in Seq(Attempt)
    BY MemberType DEF Window, Given, TypeOK
  <2>2. GoodWindow(Window(doc), since.attempts)
    BY DEF WindowInv
  <2> QED BY <2>1, <2>2, EndIsSubSeq DEF GoodWindow, EndsWith, Window
<1> QED
  BY <1>1, <1>2, <1>3, TypeCorrect, PTL DEF Spec

=============================================================================
