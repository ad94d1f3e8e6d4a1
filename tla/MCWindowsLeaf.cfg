SPECIFICATION Spec
CONSTANTS
  Client = {t1}
  Container = {c1}
  Screen = {s1}
  Modes = {"bsp", "floating"}
  NULL = NULL
  MaxLoad = 2
CONSTRAINT Bounded
CHECK_DEADLOCK FALSE
INVARIANT NoSecondLeaf
