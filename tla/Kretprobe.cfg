SPECIFICATION Spec
CONSTANTS
  Task = {t1, t2, k1}
  Kthread = {k1}
  Instance = {i1, i2}
  None = None
  MaxTime = 2
  MaxMissed = 2
INVARIANTS DurationIsOwn InstancesConserved
PROPERTIES RmmodEnds LifeSpec
