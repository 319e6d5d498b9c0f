SPECIFICATION Spec
CONSTANTS
  NUM_COLS <- MC_NUM_COLS
  NUM_ROWS <- MC_NUM_ROWS
  KEY_ARR_SIZE <- MC_KEY_ARR_SIZE
  MAX_OVF <- MC_MAX_OVF
  CH <- MC_CH
  NO_PID_MSG <- MC_NO_PID_MSG
  PROMPT <- MC_PROMPT
  TID_FMT <- MC_TID_FMT
  Outputs <- MC_Outputs
  Screens <- MC_Screens
  KeysAnyTime = FALSE
INVARIANT EchoTypeOK
INVARIANT BackspaceErasesOnlyTyped
INVARIANT PrintfMatchesReference
