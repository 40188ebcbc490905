SPECIFICATION OrganizerSpec
CONSTANTS
  docs = docs
  desk = desk
  aside = aside
  a_b = a_b
  ab = ab
  a__b = a__b
  Folders = {docs, desk, aside}
  Names = {a_b, a__b, ab}
  Normal <- MCNormal
  Quarantine = aside
  Starts <- MCStarts
  Layouts <- MCLayouts
  UserPlans <- MCUserPlans
  UserChanges <- MCUserChanges
  PathOrder <- MCPathOrder
  Jobs = {h1, h2}
  NoFile = NoFile
  NoPlan = NoPlan
  MaxServed = 4
  MaxSuffix = 2
  MaxSeconds = 0
SYMMETRY Symmetry
INVARIANT RenameKeepsFiles
CHECK_DEADLOCK FALSE
