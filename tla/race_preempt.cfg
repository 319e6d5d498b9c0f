SPECIFICATION Spec
CONSTANTS
  MAX_TASK = 3
  Statuses = {0}
  BackgroundCalls = FALSE
  PreemptWindows = TRUE
  SwitchBeforeKill = FALSE
  MAX_NEST = 1
ACTION_CONSTRAINT NoCtrlC
INVARIANT NoWildAccess
