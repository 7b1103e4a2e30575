SPECIFICATION Spec
CONSTANTS
  Reader = {r1, r2}
  Block = {2, 42}
  Beyond = 43
  MaxRefs = 2
  EarlyWrite = {"registered"}
INVARIANTS UnregisterSucceeds
