CONSTANTS
  Lines <- MC_Lines
  DirNames <- MC_DirNames
  Sizes <- MC_Sizes
SPECIFICATION Spec
INVARIANT ParseTypeOK
INVARIANT ArgumentAsTyped
