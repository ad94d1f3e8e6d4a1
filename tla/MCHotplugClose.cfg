SPECIFICATION Spec
CONSTANTS
  Output = {o1, o2}
  Container = {c1}
  Index = {1, 2}
  TagSets = {{}, {1, 2}}
  First = 1
  Layouts = {"floating", "bsp"}
  Fallback = fallback
  NONE = NONE
INVARIANT OldLeafIsFound
SYMMETRY Symmetry
