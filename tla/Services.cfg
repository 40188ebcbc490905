SPECIFICATION ServicesSpec
CONSTANTS
  a = a
  b = b
  t1 = t1
  t2 = t2
  docs = docs
  desk = desk
  aside = aside
  a_b = a_b
  a__b = a__b
  ab = ab
  drive = drive
  notion = notion
  files_read = files_read
  pages_read = pages_read
  oauth = oauth
  local_read = local_read
  catalog_list = catalog_list
  catalog_search = catalog_search
  Instances = {a, b}
  Threads = {t1, t2}
  Home <- MCHome
  Nobody = Nobody
  NoKey = NoKey
  NoLine = NoLine
  Keys = {k1}
  Rules <- MCRules
  MaxIds = 6
  MaxBoots = 2
  Calls = {call1, call2}
  NoCall = NoCall
  MaxRuns = 2
  Handlers = {h1, h2}
  Flows = {flow1}
  MaxRefresh = 1
  MaxStarts = 2
  MaxTasks = 3
  MaxRestores = 2
  Folders = {docs, desk, aside}
  Names = {a_b, a__b, ab}
  Normal <- MCNormal
  Quarantine = aside
  Starts <- MCStarts
  Layouts <- MCLayouts
  UserPlans <- MCUserPlans
  UserChanges <- MCUserChanges
  PathOrder <- MCPathOrder
  Jobs = {j1, j2}
  NoFile = NoFile
  NoPlan = NoPlan
  MaxServed = 3
  MaxSuffix = 1
  MaxSeconds = 1
  Clerks = {c1, c2}
  RowIds = {1, 2}
  MaxBirths = 3
  MaxHang = 2
  Savers = {s1, s2}
  Fields = {x1, x2}
  Absent = Absent
  Torn = Torn
  MaxSaves = 3
  Provided <- MCProvided
  Configured = {drive}
  CoreCaps = {oauth, files_read, local_read}
  ReaderCaps <- MCReaderCaps
  Oauth = oauth
  Askers = {r1, r2}
  MaxEmits = 3
  Recipes = {p1, p2}
  NoRecipe = NoRecipe
  NoRun = NoRun
  MaxFetches = 3
  MaxPosted = 2
  Saved = {p1}
  Fresh = {p3}
  Unsaved = Unsaved
  NoDraft = NoDraft
  Clicks = {k2, k3}
  MaxGets = 2
  Filters = {all, some}
  AllRows = all
  Broken = Broken
  Dialogs = {g1}
  MaxLoads = 3
  MaxChanges = 1
  Forms = {g1}
  Presses = {u1, u2}
  NoForm = NoForm
  NoItem = NoItem
  MaxMade = 3
  Servers = {a, b}
  People = {o1}
  OlderFiles <- MCOlderFiles
  NoFileYet = NoFileYet
  NoPerson = NoPerson
  Null = Null
  Editors = {e1, e2}
  EditorAt <- MCEditorAt
  NoEdit = NoEdit
  OrgGiven = {FALSE}
  MaxLaunches = 2
  top = top
  near = near
  far = far
  Callers = {w1, w2}
  Dirs = {top, near, far}
  NoDir = NoDir
  Pages <- MCPages
  StartDirs <- MCStartDirs
  MaxQueued = 3
  Users = {l1, l2}
  MaxLinks = 2
  e1 = e1
  e2 = e2
  m1 = m1
  aes = aes
  Uploads = {m1}
  UploadName <- MCUploadName
  Passwords = {aes}
  UploadKey <- MCUploadKey
  NoPath = NoPath
  NoUpload = NoUpload
  NoBackup = NoBackup
  Hidden = Hidden
  Previews = {v1, v2}
  Restores = {z1}
  Seconds = {0}
  MaxExports = 2
  Viewers = {y1}
  Issuers = {i1, i2}
  MaxBatches = 2
  MaxReceived = 2
  PageSize = 2
  MaxMovements = 5
  NRuns = 2
  MaxStamp = 2
  Window = 1
  KeepCounts = {1, 2}
  MaxLines = 2
  MaxLogged = 1
INVARIANTS ServicesTypeOK ChainsIntact RecoveryClosesJournal
  CommitTwiceOnlyByRace RefusedOnlyIfDisturbed
  TokenFollowsRequests
  QuietWhileReplacing DuplicatesKeepContent CommittedIsDone
  NoStockOrRunsInherited ChildrenNameTheirOrg
   ManifestCurrent
  RunIsOfChosen SentForWhatIsShown PaintedIsCurrent TwiceOnlyIfRepeated
  ServedUpToDate WalkComplete AsksForTheAccount RestoresWhatIsShown
  CostIsOfStock NoMovementMissing PruneKeeps
PROPERTIES AppendOnly
CHECK_DEADLOCK FALSE
