SPECIFICATION AllSpec
CONSTANTS
  Limit = 2
  Results = 3
  MaxGeneration = 3
  w1 = w1
  w2 = w2
  w3 = w3
  None = None
  WindowSetups <- MCWindowSetups
INVARIANTS
  NoLostWakeup
  VerdictOfForeground
  LifetimeIdentifies
PROPERTIES
  DeliversLatest
  EveryRequestAnswered
  SettlesOnForeground
  SnapshotIsTrue
CHECK_DEADLOCK FALSE
