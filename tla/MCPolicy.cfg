SPECIFICATION Spec
CONSTANTS
  t1 = t1
  t2 = t2
  t3 = t3
  l1 = l1
  l2 = l2
  w1 = w1
  NoLoop = NoLoop
  None = None
  Threads = {t1, t2, t3}
  Main = t1
  Loops = {l1, l2}
  Own = {w1}
  MaxDefaults = 2
  MaxCleared = 1
SYMMETRY Symmetry
INVARIANTS
  Books
  WatchersInOrder
CHECK_DEADLOCK FALSE
