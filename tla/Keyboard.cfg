SPECIFICATION HookSpec
CONSTANTS
  Kinds = {"Apps"}
  Directions = {FALSE}
  MaxSession = 2
  Capacity = 2
  MaxActivations = 2
  Keys = {"lalt", "tab"}
  Hotkeys <- AltTab
  Foregrounds <- PlainForegrounds
PROPERTIES ImplementsDispatch NothingAfterTheEnd
