SPECIFICATION Spec
CONSTANTS
  Key = {k1, k2}
  Surface = {sa, sb}
  Window1 = w1
  Window2 = w2
  Layer1 = l1
  Layer2 = l2
  Output1 = o1
  Output2 = o2
  Finger = {f1, f2}
  Button = {b1, b2}
  Timer = {t1, t2}
  Callback = {fn, gn}
  Slot = {s1, s2, s3}
  Child = {c1, c2, c3}
  None = None
  Hash = {8, 16, 2, 3, 4, 5, 1}
  MaxUse = 8
  MaxNesting = 2
  MaxDepth = 2
  MaxSpurious = 1
  Extra = {"full"}
  Width = 40
  Height = 5
  Factor = {0, 5, 12}
  MaxWindows = 5
  MaxCount = 3
  Address = {a1, a2, a3, a4}
  Holder = {ha, hb, hc, hd}
  Outliving = {hc, hd}
  MaxRef = 5
  Image = {i1, i2}
  Bar = {b}
  Workspace = {ta, tb}
  LastDisplay = 2
  Window3 = w3
  Container = {ca, cb}
INVARIANTS
  ClientSeesHeldKeys
  RepeatNeedsAKey
  
  SeatIsReleased
  StartedTimersRun
  EmissionIsComplete
  AllIsAccounted
  MapAnswers
  TilesFit
  
  
  ShownIsCurrent
PROPERTIES
  FocusIsGuarded
CHECK_DEADLOCK FALSE
