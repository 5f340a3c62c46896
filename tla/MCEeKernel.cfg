SPECIFICATION Spec
CONSTANTS
  ThreadIds = {main, t2, t3}
  MainThread = main
  NoThread = NoThread
  LowestPriority = 1
  Semas = {sema}
  MaxSema = 1
  Flags = {flag}
  EventBits = {bit}
  Modes <- MCModes
  HandlerCalls = {"SignalSema", "SetEventFlag", "WakeupThread"}
  SleepKey = sleep
  NoWait = NoWait
  MaxCount = 1
  MaxRequested = 2
  Programs = {{t2, sema, flag}, {t3, sema, flag}, {t2, t3}}
  MaxQueueSequence = 200
  MaxDeferred = 1
VIEW OrderView
SYMMETRY Symmetry
INVARIANTS
  MirrorValid
  MirrorAgrees
  NoStrandedWaiter
  FailsOnlyAsReported
