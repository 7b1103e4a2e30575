SPECIFICATION Spec
CONSTANTS
  Cpu = {c1, c2}
  Timeout = 20
INVARIANT BlocksUntilExpiry
PROPERTIES CallsReturn LifeSpec
\* In SelfDeadlock the loader and the timer interrupt wait for each other.
CHECK_DEADLOCK FALSE
