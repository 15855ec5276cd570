SPECIFICATION AllSpec
CONSTANTS
  None = None
  Nothing = Nothing
  old = old
  new = new
  Processes <- MCProcesses
  Retained <- MCRetained
  MaxLength <- MCMaxLength
  Header = 1
  Slots = 3
  MaxSequence = 4
  QueueSize = 1
  MaxLines = 2
  Kills = 1
  Faults = 1
  Intrusions = 1
  Histories <- MCHistories
  Setups <- MCSetups
INVARIANTS
  AutostartSurvives
  EntriesAreTrue
  LogIsTrue
PROPERTIES
  FilesAreKept
CHECK_DEADLOCK FALSE
