SPECIFICATION Spec
CONSTANTS
  Threads = {t1, t2}
  Keys = {1, 2, 3, 4}
  NNode = 4
  MaxOps = 6
PROPERTY ImplementsContainer
CHECK_DEADLOCK FALSE
