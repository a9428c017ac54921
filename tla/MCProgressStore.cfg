SPECIFICATION FairSpec
CONSTANTS
  Requests = {r1, r2, r3}
  Users = {1, 2}
  NoDoc = NoDoc
  MaxOpenConns = 2
  MaxOps = 2
INVARIANT SnapshotIsCurrent
PROPERTIES OnlyFirstWritesDeadlock Implements EveryCallEnds
