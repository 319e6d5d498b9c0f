SPECIFICATION Spec
CONSTANTS
  MAX_TASK = 2
  Statuses = {0}
  BackgroundCalls = FALSE
  PreemptWindows = FALSE
  SwitchBeforeKill = FALSE
  MAX_NEST = 1
INVARIANT TypeOK
INVARIANT NoWildAccess
INVARIANT ProcessTableMatchesStacks
INVARIANT RunningIsTop
INVARIANT AddressSpaceOfCurr
INVARIANT HaltReturnsBelow
INVARIANT StartedTerminalsHaveProcess
INVARIANT UserMemoryIsolated
INVARIANT WindowOnScreenBuffer
PROPERTY EveryStartedTerminalRuns
