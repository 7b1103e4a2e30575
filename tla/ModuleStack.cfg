SPECIFICATION Spec
CONSTANTS
  Task = {t1, t2, t3}
  First = t1
  InitTask = init_task
  Number = 2
  Opener = {p1, p2}
INVARIANTS WalkSafe WalkComplete DependsAlone
PROPERTIES CallsReturn LifeSpec
