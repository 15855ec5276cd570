SPECIFICATION AllSpec
CONSTANTS
  None = None
  k1 = k1
  k2 = k2
  IconSetups <- MCIconSetups
  h1 = h1
  h2 = h2
  panel = panel
  search = search
  Handles = {h1, h2}
  Surfaces = {panel, search}
  Places <- MCPlaces
  Size <- MCSize
  MaxWidth = 6
  MaxHeight = 5
  Rooms = {60, 1000}
  MaxChanges = 1
  MaxMoves = 2
  MaxFaults = 1
PROPERTIES
  PreviewIsTrue
  SurfacesSettle
  ShownStaysCached
CHECK_DEADLOCK FALSE
