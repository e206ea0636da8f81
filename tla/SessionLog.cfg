SPECIFICATION Spec

CONSTANTS
  a = a
  b = b
  Shapes <- MCShapes
  Texts <- MCTexts
  DiffLines = 5
  MaxEvents = 5
  MaxLag = 2
  MaxResets = 1

SYMMETRY Names

INVARIANTS
  TypeOK
  StoryTold
  IdsAgree
  PagesTell

CHECK_DEADLOCK FALSE
