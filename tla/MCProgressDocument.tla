------------------------ MODULE MCProgressDocument -------------------------
\* ProgressDocument with two kana and the documents a client may have left:
\* of version 1, near a threshold, out of range, newer, or not what the server
\* expects.
EXTENDS ProgressDocument, TLC

CONSTANTS k1, k2, s1, s2

MCKana == {k1, k2}
MCSchedules == {s1, s2}

Scored(r, w, l, e) ==
  [recognition |-> r, writing |-> w, listening |-> l, reading |-> e]

Only(k, v) == [EmptyMap EXCEPT ![k] = v]

OldEntry == [kana |-> NoKana, skill |-> "none", correct |-> TRUE]

VersionOne ==
  [Fresh EXCEPT !.schemaVersion = 1,
                !.masteryByKana = Only(k1, "learning"),
                !.skillsByKana = Only(k1, Scored(100, 0, 0, 0)),
                !.completedLessonIds = {1, 2},
                !.recentAttempts = <<OldEntry, OldEntry, OldEntry>>,
                !.srsByKana = s1]

NearlyMastered ==
  [Fresh EXCEPT !.masteryByKana = Only(k1, "familiar"),
                !.skillsByKana = Only(k1, Scored(100, 100, 90, 0))]

OutOfRange ==
  [Fresh EXCEPT !.masteryByKana = Only(k1, "mastered"),
                !.skillsByKana = Only(k1, Scored(MaxInt, -40, 100, 10))]

MCUploads ==
  {VersionOne, NearlyMastered, OutOfRange, NotAnObject,
   [VersionOne EXCEPT !.schemaVersion = 3],
   [VersionOne EXCEPT !.schemaVersion = Null],
   [VersionOne EXCEPT !.skillsByKana = Null],
   [VersionOne EXCEPT !.recentAttempts = Malformed]}

MCPatches ==
  {<<>>, ("srsByKana" :> s2), ("completedLessonIds" :> {2}),
   ("completedLessonIds" :> Malformed),
   ("masteryByKana" :> Only(k1, "mastered")) @@ ("srsByKana" :> s2)}
=============================================================================
