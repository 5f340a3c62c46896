SPECIFICATION Spec
CONSTANTS
  ThreadIds = {t1, t2, t3}
  NoThread = NoThread
  Generations = {g1}
  LowestPriority = 1
  WaitKeys = {sleep, sema}
  SleepKey = sleep
  NoWait = NoWait
  Completions <- MCCompletions
  MaxCount = 1
  MaxQueueSequence = 40
VIEW OrderView
SYMMETRY Symmetry
INVARIANT Restorable
PROPERTIES CompletionKept CpuRefilled SelectionOrder
