SPECIFICATION Spec
CONSTANTS
  None = None
  MaxDeferred = 2
  Retries = 1
  Setups <- MCSetups
INVARIANTS
  OneThingAtATime
  MenuKeepsItsWord
PROPERTIES
  Answered
  Ends
CHECK_DEADLOCK FALSE
