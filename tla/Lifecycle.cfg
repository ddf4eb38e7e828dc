SPECIFICATION FairSpec
CONSTANTS
  Conns = {c1, c2}
  c1 = c1
  c2 = c2
  MaxRetries = 3
CHECK_DEADLOCK FALSE
INVARIANTS LifeInv RequestsKeepMongo CleanExitIsDrained
PROPERTIES ClosersRunOnce SignalEndsProcess BootEnds
