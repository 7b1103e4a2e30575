SPECIFICATION Spec
CONSTANTS
  Thread = {t1, t2, t3, t4}
  BreakCount = 2
  NoThread = NoThread
INVARIANTS StopTargetsLive QueueIsLoop WalkOnQueue
PROPERTIES CallsReturn LifeSpec
