SPECIFICATION LinkerSpec
CONSTANTS
  GuestNames = {a, b, c}
  Contents = {x, y}
  NoContent = NoContent
  Linkers = {p}
  RenameFlags = {"none", "noreplace"}
  Careless = {"rename"}
  MaxSuffix = 2
  CountBase = 5
  MaxLinkCalls = 4
INVARIANT CountsAreNames
CHECK_DEADLOCK FALSE
