CONSTANTS
  w1 = w1  w2 = w2
  p1 = p1  p2 = p2
  i1 = i1  i2 = i2  i3 = i3
  t1 = t1  t2 = t2  t3 = t3
  a = a  b = b
  Workers = {w1, w2}
  Procs = {p1, p2}
  ProcOf <- OneEach
  Inodes = {i1, i2}
  Values = {a, b}
  GcEnabled = FALSE
  Instants = {t1, t2, t3}
  SaveMayFail = TRUE
  Garbled = Garbled
  MaxLives = 2
  None = None
SPECIFICATION FairSpec
INVARIANT Mutex
PROPERTIES AtomicSpec Served
CHECK_DEADLOCK FALSE
