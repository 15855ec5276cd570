SPECIFICATION FairSpec
CONSTANTS
  Template <- MCTemplate
  Domain <- MCDomain
  Bindings <- MCBindings
  Setups <- MCSetups
  None = None
INVARIANTS
  WritesKeepAll
PROPERTIES
  Settles
CHECK_DEADLOCK FALSE
