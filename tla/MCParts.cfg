SPECIFICATION PartsSpec
CONSTANTS
  Owners = {o1, o2}
  Uploads = {u1, u2}
  AvatarKeys = {f1, f2, f3}
  Nothing = Nothing
  MaxFaults = 1
  Imports = {m1, m2}
  Workbooks = {w1}
  Archives = {a1, a2}
  Sources = {s1, s2}
  a1 = a1
  WorkbookRows = {n1, n2, n3}
  n3 = n3
  RowsOf <- RowsOfArchives
  NoArchive = NoArchive
  ListRows = {1, 2, 3, 4}
  NoRow = 0
  MaxPlace = 5
  PageLimit = 1
  LastPage = 3
  MaxListed = 2
  run0 = run0
  run7 = run7
  runFFFF = runFFFF
  runZZ = runZZ
  Runs = {run0, run7, runFFFF, runZZ}
  Zone = runZZ
  Port = run7
  MappedMark = runFFFF
  HexOf <- HexOfRun
  OctetOf <- OctetOfRun
  Pieces <- PiecesHere
  GroupCount = 4
  MaxPieces = 5
  NoAddress = NoAddress
  ListKeys = {"page"}
  ItemKeys = {"item"}
  LookupKeys = {"filter-options"}
  Readers = {r1, r2}
  Voters = {v1}
  Capacity = 1
  ListTtl = 1
  ItemTtl = 2
  LookupTtl = 2
  MaxRead = 1
  MaxClock = 3
  MaxVersions = 3
  ann = ann
  mod = mod
  Asked <- AskedHere
  AuthorOf <- AuthorOfItems
  People = {ann, mod}
  Staff = {mod}
  Items = {i1}
  Comments = {c1}
  Reports = {x1, x2}
  Requests = {q1, q2}
  NoOne = NoOne
  MaxDecisions = 2
  MaxChanges = 1
SYMMETRY Symmetry
INVARIANTS
  NamedFileExists
  NoFileIsLeftBehind
  OriginIsStated
  WholeOrNothing
  NothingIsSkipped
  NothingIsRepeated
  OnePrefix
  ServedIsRecent
  OneOpenReport
PROPERTIES
  CommentsAreAudited
  ReportsAreAudited
  ReportedIsThere
  CommentsEndRightly
CHECK_DEADLOCK FALSE
