CONSTANTS
  Container = {c1, c2, c3}
  Internal = {i1, i2}
  NULL = NULL
  Width = 4
  Height = 4
  Factors = {}
  FirstModes = {"tiled"}
SPECIFICATION Spec
SYMMETRY Symmetry
INVARIANTS
  TypeOK
  OneTree
  
  GeometryIsCurrent
  TilesDoNotOverlap
PROPERTIES
  OrderIsKept
  FocusMovesToNeighbour
