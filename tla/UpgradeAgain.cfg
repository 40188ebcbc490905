SPECIFICATION SchemaSpec
CONSTANTS
  Servers = {a, b}
  People = {o1}
  OlderFiles = {}
  NoFileYet = NoFileYet
  NoPerson = NoPerson
  Null = Null
  Editors = {e1}
  EditorAt <- MCOneServer
  NoEdit = NoEdit
  OrgGiven = {FALSE, TRUE}
  MaxLaunches = 2
INVARIANTS
  SafeToRunAgain
CHECK_DEADLOCK FALSE
