SPECIFICATION FairSpec
CONSTANTS
  Kinds = {"Apps"}
  Directions = {FALSE}
  MaxSession = 1
  Capacity = 2
INVARIANTS QueueIsSound TerminalSlotReserved
PROPERTIES RevocationHolds FinishCompletes
