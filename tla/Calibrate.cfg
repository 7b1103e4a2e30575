SPECIFICATION CalSpec
CONSTANTS
  Minute = 60
  Second = 10
  Runs = 14
  Tolerance = 1
  Hits = 2
  Far = 2
  Window = 10
  FirstSleep = 12
  Big = 5
  Medium = 4
  Small = 1
  MaxStep = 2
  MaxSleep = 20
  Speeds = {0, 1, 2, 4}
  Times = {1, 10, 49, 55, 70}
  Args <- ArgLists
INVARIANTS ArithmeticSafe MatchedIsMeasured
PROPERTIES StaleDiffUnderflows
