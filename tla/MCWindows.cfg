SPECIFICATION Spec
CONSTANTS
  Client = {t1, t2}
  Container = {c1, c2}
  Screen = {s1, s2}
  Modes = {"bsp", "master", "floating"}
  NULL = NULL
  MaxLoad = 1
CONSTRAINT Bounded
SYMMETRY Twins
CHECK_DEADLOCK FALSE
INVARIANTS TypeOK GrabIsLive NothingOutlives 
PROPERTIES LeavesReturn TilesKeepTheirPlace LeavesAreSingle FrontStaysShown ListFollowsState
