SPECIFICATION PageSpec
CONSTANTS
  IndexSize = 2
  PageSize = 4
  WordSize = 2
  HugePages = 3
  Frame <- Frames
INVARIANT ShowsWord
