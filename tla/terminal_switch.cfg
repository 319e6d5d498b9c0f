SPECIFICATION Spec
CONSTANTS
  KEY_ARR_SIZE <- MC_KEY_ARR_SIZE
  MAX_OVF <- MC_MAX_OVF
  Sizes <- MC_Sizes
  Screens <- MC_Screens
  KeysWhilePending = TRUE
INVARIANT ReadOwnInput
