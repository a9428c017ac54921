SPECIFICATION Spec
CONSTANTS
  Requests = {r1, r2}
  Zones <- MCZones
  Hours <- MCHours
  NoDay = NoDay
SYMMETRY Symmetry
INVARIANTS TypeOK StreakIsEarned NoFreeDays ExtraDaysBounded
PROPERTY StreakCutOnlyByAGap
