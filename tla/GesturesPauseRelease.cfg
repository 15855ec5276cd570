SPECIFICATION Spec
CONSTANTS
  Kinds = {"Apps", "Windows", "Search"}
  Directions = {FALSE, TRUE}
  MaxSession = 1
  Configurations <- PauseOnly
PROPERTIES PauseReleaseIsKept
