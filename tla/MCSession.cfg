\* Two accounts, one request at a time, half seconds, tokens of 1.5 s.
CONSTANTS
  a1 = a1
  a2 = a2
  r1 = r1
  Accounts = {a1, a2}
  Requests = {r1}
  Configs <- MCConfigs
  Second = 2
  MaxTime = 6
  MaxTokens = 2
SYMMETRY Symmetry
SPECIFICATION Spec
INVARIANTS Inv GateHoldsForItsOwnTokens
