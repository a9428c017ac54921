SPECIFICATION Spec
CONSTANTS
  Requests = {r1, r2}
  Zones <- MCZones
  Hours <- MCHours
  NoDay = NoDay
  NoDoc = NoDoc
  MaxOps = 2
  MaxLogins = 1
SYMMETRY Symmetry
INVARIANTS CountedForPractice MeIsNeverBehind

