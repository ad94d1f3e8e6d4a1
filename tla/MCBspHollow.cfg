CONSTANTS
  Container = {c1, c2, c3, c4}
  Internal = {i1, i2, i3}
  NULL = NULL
  Width = 4
  Height = 4
  Factors = {}
  FirstModes = {"tiled"}
SPECIFICATION Spec
SYMMETRY Symmetry
INVARIANT NoHollowNode
