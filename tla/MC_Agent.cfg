SPECIFICATION Spec
CONSTANTS
  view = view
  oper = oper
  primary = primary
  a = a
  b = b
  Callers = {r1, r2}
  Kinds <- Classes
  Keys = {unknown, view, oper, primary}
  PrimaryKey = primary
  KeysFile <- KeyRoles
  BufferSize = 1
  HookNames = {a, b}
  Events = {up, down}
  Fires = {f1, f2}
  MaxHooks = 3
  LogSize = 1
  Clients = {c1, c2}
  Channels = {session, audit}
  MaxQueue = 2
  Nothing = Nothing
  MaxEvents = 3
  Snapshots = {s1, s2}
  Users = {a, b}
  PageSize = 1
  MaxTime = 2
  Files <- SomeFiles
  Names = {a, b}
  Settings = {1, 2}
  MaxEdits = 2
SYMMETRY Symmetry
INVARIANTS ChangesByOperators ChangesAudited ServedAreRecorded BufferIsLatest
  EventReachesHooks BusTypeOK ChannelsAgree WholeSnapshots PurgeIsFinal PagingMissesNothing
  OthersKept EditShows
PROPERTIES ImplementsFeed
CHECK_DEADLOCK FALSE
