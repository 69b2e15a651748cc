CONSTANTS
  N = 3
  MaxTasks = 4
  MaxWork = 2
  Sizes <- ImageSizes
  RESCALE = 3
  STEP = 1
  MaxThreads = 4
  Sessions = 2
  Limit = 16
  HEADER_TERMINATOR_SIZE = 2
  MaxHeader = 4
  MaxBody = 2
  SIZE_MAX = 15
  MaxRows = 4
  BestIsMin = {1}
  BestIsMax = {2}
  Top = 2
SPECIFICATION MachinesSpec
INVARIANTS
  ContoursRight
  OwnToken
  PiecesDoNotMatter
  StatisticsAgree
PROPERTIES
  ChoosesFairly
CHECK_DEADLOCK FALSE
