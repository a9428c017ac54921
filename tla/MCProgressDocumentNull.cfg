SPECIFICATION Spec
CONSTANTS
  k1 = k1
  k2 = k2
  s1 = s1
  s2 = s2
  Kana <- MCKana
  Schedules <- MCSchedules
  Lessons = {1, 2}
  Uploads <- MCUploads
  Patches <- MCPatches
  MaxRecentAttempts = 2
  MaxInt = 511
  NoDoc = NoDoc
  NotAnObject = NotAnObject
  Absent = Absent
  Null = Null
  Malformed = Malformed
  MaxCalls = 4
INVARIANT UngradableIsReported
