SPECIFICATION Spec
CONSTANTS
  MAX_TASK = 3
  Statuses = {0}
  BackgroundCalls = FALSE
  PreemptWindows = TRUE
  SwitchBeforeKill = FALSE
  MAX_NEST = 2
CONSTRAINT StopAtWild
VIEW ControlView
ACTION_CONSTRAINT PreemptEnv
INVARIANT TableConsistentUntilWild
