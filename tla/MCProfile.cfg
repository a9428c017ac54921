SPECIFICATION Spec
CONSTANTS
  Requests = {r1, r2}
  Names = {Ana, Eva}
  Genders = {neutral}
  Zones = {Lima, Tokyo}
  Refused = Refused
  None = None
  Days <- MCDays
  Birthdays <- MCBirthdays
  MinBirthDay <- MCMinBirthDay
  MaxWrites = 2
SYMMETRY Symmetry
INVARIANTS AnswerIsCurrent EchoChangesNothing
