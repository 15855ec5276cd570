SPECIFICATION FairSpec
CONSTANTS
  Elevations = {TRUE, FALSE}
  MaxHandoffs = 2
INVARIANTS OneInstance GoesByScript
PROPERTIES SomeoneServes OrphanEnds
CHECK_DEADLOCK FALSE
