SPECIFICATION Spec
CONSTANTS
  None = None
  Setups <- MCSetups
INVARIANT
  NeverOverwrites
CHECK_DEADLOCK FALSE
