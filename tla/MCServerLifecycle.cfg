\* Two requests, two connect attempts; the container runtime is more patient
\* than the drain.
CONSTANTS
  r1 = r1
  r2 = r2
  Requests = {r1, r2}
  ConnectRetries = 2
  AutoMigrate = TRUE
  ShutdownTimeout = 2
  StopGrace = 4
SPECIFICATION LifecycleFairSpec
INVARIANT LifecycleInv
PROPERTIES SignalEndsProcess ComesUpWithTheDatabase
