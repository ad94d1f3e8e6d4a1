SPECIFICATION Spec
CONSTANTS
  o1 = o1
  o2 = o2
  Output <- OneOutput
  Index <- TwoTags
  First = 1
  Layouts = {"floating", "master", "bsp"}
INVARIANT ViewFillsUsableArea
