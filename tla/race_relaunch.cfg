SPECIFICATION Spec
CONSTANTS
  MAX_TASK = 2
  Statuses = {0}
  BackgroundCalls = TRUE
  PreemptWindows = FALSE
  SwitchBeforeKill = TRUE
  MAX_NEST = 1
INVARIANT RunningIsTop
