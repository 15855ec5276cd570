SPECIFICATION AllSpec
CONSTANTS
  w1 = w1
  w2 = w2
  w3 = w3
  g1 = g1
  g2 = g2
  g3 = g3
  Windows <- MCWindows
  Setups <- MCSetups
  None = None
INVARIANTS
  PanelBelongs
  SelectionIsTrue
  ActivationLands
PROPERTIES
  SwitchCompletes
  SwallowedReleaseFollowsSwallowedPress
  GesturesEndOnce
  AltGrOpensNothing
