SPECIFICATION Spec
CONSTANTS
  o1 = o1
  o2 = o2
  Output <- TwoOutputs
  Index <- OneTag
  First = 1
  Layouts = {"floating", "master", "bsp"}
SYMMETRY Swapped
INVARIANTS ViewIsArranged
