SPECIFICATION Spec
CONSTANTS
  h1 = h1
  h2 = h2
  Handlers = {h1, h2}
  Links = {"wan"}
  Levels = {0, 1}
  Requests <- HostRequests
  Hosts <- Either
  Spontaneous <- Drains
  Fragile <- RefusesOver
  Settings <- Files
SYMMETRY Symmetry
CONSTRAINT Related
CHECK_DEADLOCK FALSE
INVARIANTS
  TypeOK
  SuccessHolds
  RetryHeals
  FilesFollow
