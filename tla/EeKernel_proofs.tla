--------------------------- MODULE EeKernel_proofs ---------------------------
(***************************************************************************)
(* The guest kernel on the executor: scheduler, mirror and objects agree,   *)
(* nobody is stranded and no exception but the three reported ones is       *)
(* thrown, for any number of threads, semaphores, event flags and           *)
(* published closures.                                                      *)
(*                                                                         *)
(* Whole says that the scheduler, the mirror and the objects agree.  A       *)
(* closure that finds Whole leaves it (the Close... lemmas), so does a step  *)
(* of a closure's loop, and so what a handler does is done.  KInv adds the   *)
(* publications: while closures are queued the two pictures may differ on    *)
(* the threads these are about (Moving, Promoted), and each closure will     *)
(* find what it counts on (Owed).  SP holds the scheduler's own invariant    *)
(* and what each of its operations does to a record.                        *)
(***************************************************************************)
EXTENDS EeKernel, FiniteSetTheorems, SequenceTheorems, TLAPS

\* The scheduler with its theorems, as EeKernel instantiates it.
SP == INSTANCE EeThreadScheduler_proofs
        WITH Generations <- {1}, WaitKeys <- Keys,
             Completions <- WaitCompletions

-----------------------------------------------------------------------------
(* The scheduler.                                                           *)

LEMMA SchedulerConstants == SP!ConstantsAssumption
  BY KernelConstants DEF SP!ConstantsAssumption, KernelConstants, Keys, WaitCompletions

LEMMA SameTake ==
    ASSUME NEW ts, NEW queues
    PROVE  Sched!TakeNextReady(ts, queues) <=> SP!TakeNextReady(ts, queues)
  BY DEF Sched!TakeNextReady, SP!TakeNextReady, Sched!TakeAt, SP!TakeAt,
         Sched!TakeNone, SP!TakeNone, Sched!IsReady, SP!IsReady,
         Sched!FindThread, SP!FindThread, Sched!SelectedRecord,
         SP!SelectedRecord, Sched!Priorities, SP!Priorities

LEMMA SameStart ==
    ASSUME NEW h
    PROVE  Sched!StartThread(h) <=> SP!StartThread(h)
  BY DEF Sched!StartThread, SP!StartThread, Sched!SequenceAvailable,
         SP!SequenceAvailable, Sched!FindThread, SP!FindThread,
         Sched!ReadyRecord, SP!ReadyRecord, Sched!PushReady, SP!PushReady,
         Sched!HandleOf, SP!HandleOf

LEMMA SameRequeue ==
    /\ Sched!RequeueCurrent <=> SP!RequeueCurrent
    /\ Sched!CurrentIsRunning <=> SP!CurrentIsRunning
  BY SameTake DEF Sched!RequeueCurrent, SP!RequeueCurrent, Sched!SequenceAvailable,
         SP!SequenceAvailable, Sched!CurrentIsRunning, SP!CurrentIsRunning,
         Sched!ReadyRecord, SP!ReadyRecord, Sched!PushReady, SP!PushReady,
         Sched!HandleOf, SP!HandleOf

LEMMA SameComplete ==
    ASSUME NEW t, NEW c, NEW retain
    PROVE  Sched!CompleteWait(t, c, retain) <=> SP!CompleteWait(t, c, retain)
  BY DEF Sched!CompleteWait, SP!CompleteWait, Sched!SequenceAvailable,
         SP!SequenceAvailable, Sched!ReadyRecord, SP!ReadyRecord,
         Sched!PushReady, SP!PushReady, Sched!HandleOf, SP!HandleOf

LEMMA SameRemove ==
    ASSUME NEW q, NEW h
    PROVE  /\ Sched!RemoveFirst(q, h) = SP!RemoveFirst(q, h)
           /\ Sched!ToSet(q) = SP!ToSet(q)
           /\ ToSet(q) = SP!ToSet(q)
  BY Zenon DEF Sched!RemoveFirst, SP!RemoveFirst, Sched!ToSet, SP!ToSet, ToSet,
         Sched!RemoveAt, SP!RemoveAt, Sched!SelectInSeq, SP!SelectInSeq,
         Sched!Min, SP!Min

LEMMA SameRelease ==
    ASSUME NEW h, NEW c, NEW retain
    PROVE  Sched!ReleaseWaitThread(h, c, retain) <=> SP!ReleaseWaitThread(h, c, retain)
  <1>1. Sched!CompleteWait(h.id, c, retain) <=> SP!CompleteWait(h.id, c, retain)
    BY SameComplete
  <1> QED BY <1>1, SameRemove, Zenon DEF Sched!ReleaseWaitThread, SP!ReleaseWaitThread,
         Sched!FindThread, SP!FindThread, Sched!WithoutWaiting, SP!WithoutWaiting,
         Sched!Blocked, SP!Blocked

LEMMA SameSuspend ==
    ASSUME NEW h
    PROVE  Sched!SuspendThread(h) <=> SP!SuspendThread(h)
  <1>1. Sched!SuspendRunning(h) <=> SP!SuspendRunning(h)
    BY SameTake DEF Sched!SuspendRunning, SP!SuspendRunning
  <1>2. Sched!SuspendReady(h) <=> SP!SuspendReady(h)
    BY SameRemove, Zenon DEF Sched!SuspendReady, SP!SuspendReady, Sched!WithoutReady, SP!WithoutReady
  <1>3. Sched!SuspendOther(h) <=> SP!SuspendOther(h)
    BY DEF Sched!SuspendOther, SP!SuspendOther
  <1> QED BY <1>1, <1>2, <1>3 DEF Sched!SuspendThread, SP!SuspendThread, 
    Sched!FindThread, SP!FindThread

LEMMA SameOthers ==
    ASSUME NEW t, NEW level
    PROVE  /\ Sched!AddDormantThread(t, 1, level) <=> SP!AddDormantThread(t, 1, level)
           /\ Sched!DeleteThread(Handle(t)) <=> SP!DeleteThread(Handle(t))
           /\ Sched!FinishCurrentThread <=> SP!FinishCurrentThread
           /\ Sched!SelectNextThread <=> SP!SelectNextThread
           /\ Sched!CancelWakeups(Handle(t)) <=> SP!CancelWakeups(Handle(t))
           /\ Sched!ConsumeWakeup <=> SP!ConsumeWakeup
           /\ Sched!ConsumeWaitCompletion(Handle(t)) <=> SP!ConsumeWaitCompletion(Handle(t))
           /\ Sched!RotateReadyQueue(level) <=> SP!RotateReadyQueue(level)
  <1>1. Sched!AddDormantThread(t, 1, level) <=> SP!AddDormantThread(t, 1, level)
    BY Zenon DEF Sched!AddDormantThread, SP!AddDormantThread, Sched!AddThread, SP!AddThread,
           Sched!DormantRecord, SP!DormantRecord, Sched!FreshRecord, SP!FreshRecord,
           Sched!NoCompletion, SP!NoCompletion
  <1>2. Sched!DeleteThread(Handle(t)) <=> SP!DeleteThread(Handle(t))
    BY Zenon DEF Sched!DeleteThread, SP!DeleteThread, Sched!FindThread, SP!FindThread
  <1>3. Sched!FinishCurrentThread <=> SP!FinishCurrentThread
    BY SameTake, SameRequeue, Zenon DEF Sched!FinishCurrentThread, SP!FinishCurrentThread,
           Sched!DormantRecord, SP!DormantRecord, Sched!FreshRecord, SP!FreshRecord,
           Sched!NoCompletion, SP!NoCompletion
  <1>4. Sched!SelectNextThread <=> SP!SelectNextThread
    BY SameTake, Zenon DEF Sched!SelectNextThread, SP!SelectNextThread
  <1>5. Sched!CancelWakeups(Handle(t)) <=> SP!CancelWakeups(Handle(t))
    BY Zenon DEF Sched!CancelWakeups, SP!CancelWakeups, Sched!FindThread, SP!FindThread
  <1>6. Sched!ConsumeWakeup <=> SP!ConsumeWakeup
    BY SameRequeue, Zenon DEF Sched!ConsumeWakeup, SP!ConsumeWakeup, Sched!NoCompletion, SP!NoCompletion
  <1>7. Sched!ConsumeWaitCompletion(Handle(t)) <=> SP!ConsumeWaitCompletion(Handle(t))
    BY Zenon DEF Sched!ConsumeWaitCompletion, SP!ConsumeWaitCompletion, Sched!FindThread,
           SP!FindThread, Sched!NoCompletion, SP!NoCompletion
  <1>8. Sched!RotateReadyQueue(level) <=> SP!RotateReadyQueue(level)
    BY Zenon DEF Sched!RotateReadyQueue, SP!RotateReadyQueue, Sched!SequenceAvailable,
           SP!SequenceAvailable, Sched!IsReady, SP!IsReady, Sched!FindThread, SP!FindThread
  <1> QED BY <1>1, <1>2, <1>3, <1>4, <1>5, <1>6, <1>7, <1>8

LEMMA SameBlock ==
    ASSUME NEW w
    PROVE  Sched!BlockCurrentThread(w) <=> SP!BlockCurrentThread(w)
  BY SameTake, SameRequeue, Zenon DEF Sched!BlockCurrentThread, SP!BlockCurrentThread,
         Sched!SequenceAvailable, SP!SequenceAvailable, Sched!NoCompletion, SP!NoCompletion,
         Sched!HandleOf, SP!HandleOf

LEMMA SameWakes ==
    ASSUME NEW w, NEW h
    PROVE  /\ Sched!WakeOne(w) <=> SP!WakeOne(w)
           /\ Sched!WakeThread(h) <=> SP!WakeThread(h)
  <1>1. Sched!WakeOne(w) <=> SP!WakeOne(w)
    BY SameComplete, Zenon DEF Sched!WakeOne, SP!WakeOne, Sched!WaitsOn, SP!WaitsOn,
           Sched!FindThread, SP!FindThread, Sched!Blocked, SP!Blocked
  <1>2. Sched!WakeThread(h) <=> SP!WakeThread(h)
    BY SameRelease, Zenon DEF Sched!WakeThread, SP!WakeThread, Sched!WaitsOn, SP!WaitsOn,
           Sched!FindThread, SP!FindThread, Sched!Blocked, SP!Blocked
  <1> QED BY <1>1, <1>2

LEMMA SamePreempt ==
    ASSUME NEW p
    PROVE  /\ Sched!ShouldPreempt(p) <=> SP!ShouldPreempt(p)
           /\ Sched!Preempt(p) <=> SP!Preempt(p)
  <1>1. Sched!ShouldPreempt(p) <=> SP!ShouldPreempt(p)
    BY Zenon DEF Sched!ShouldPreempt, SP!ShouldPreempt, Sched!Priorities, SP!Priorities
  <1> QED BY <1>1, SameRequeue, Zenon DEF Sched!Preempt, SP!Preempt

LEMMA SameMoves ==
    ASSUME NEW h, NEW p
    PROVE  /\ Sched!ResumeThread(h) <=> SP!ResumeThread(h)
           /\ Sched!TerminateThread(h) <=> SP!TerminateThread(h)
           /\ Sched!ChangeThreadPriority(h, p) <=> SP!ChangeThreadPriority(h, p)
  <1>1. Sched!ResumeThread(h) <=> SP!ResumeThread(h)
    BY Zenon DEF Sched!ResumeThread, SP!ResumeThread, Sched!SequenceAvailable,
         SP!SequenceAvailable, Sched!FindThread, SP!FindThread,
         Sched!ReadyRecord, SP!ReadyRecord, Sched!PushReady, SP!PushReady,
         Sched!HandleOf, SP!HandleOf
  <1>2. /\ Sched!WithoutReady(h) = SP!WithoutReady(h)
        /\ Sched!WithoutWaiting(h) = SP!WithoutWaiting(h)
    BY SameRemove, Zenon
    DEF Sched!WithoutReady, SP!WithoutReady, Sched!WithoutWaiting, SP!WithoutWaiting
  <1>3. \A g, l : Sched!DormantRecord(g, l) = SP!DormantRecord(g, l)
    BY Zenon DEF Sched!DormantRecord, SP!DormantRecord, Sched!FreshRecord,
           SP!FreshRecord, Sched!NoCompletion, SP!NoCompletion
  <1>4. Sched!TerminateThread(h) <=> SP!TerminateThread(h)
    BY SameTake, SameRemove, <1>2, <1>3, Zenon
    DEF Sched!TerminateThread, SP!TerminateThread, Sched!FindThread,
        SP!FindThread, Sched!Blocked, SP!Blocked
  <1>5. Sched!ChangeThreadPriority(h, p) <=> SP!ChangeThreadPriority(h, p)
    BY SameRemove, <1>2, Zenon DEF Sched!ChangeThreadPriority, SP!ChangeThreadPriority,
         Sched!SequenceAvailable, SP!SequenceAvailable, Sched!FindThread, SP!FindThread,
         Sched!ReadyRecord, SP!ReadyRecord
  <1> QED BY <1>1, <1>4, <1>5

-----------------------------------------------------------------------------
(* What each call does to the scheduler, as the kernel sees it.             *)

LEMMA SchedulerStep ==
    ASSUME SP!IInv, SP!Next
    PROVE  SP!IInv'
  BY SchedulerConstants, SP!NextStep

LEMMA SchedulerStutter ==
    ASSUME SP!IInv, UNCHANGED schedulerVars
    PROVE  SP!IInv' /\ SP!NothingSeen
  <1>1. UNCHANGED SP!vars
    BY DEF schedulerVars, SP!vars
  <1>2. SP!IInv'
    BY <1>1, SchedulerConstants, SP!NextStep
  <1>3. SP!NothingSeen
    BY SchedulerConstants, SP!SameSeen DEF schedulerVars
  <1> QED BY <1>2, <1>3

LEMMA HandleType ==
    ASSUME NEW t \in ThreadIds
    PROVE  Handle(t) \in SP!Handles /\ Handle(t).id = t
  BY DEF Handle, SP!Handles

LEMMA ThreadType ==
    ASSUME SP!IInv, NEW t \in DOMAIN threads
    PROVE  /\ threads[t] \in SP!ThreadRecords
           /\ SP!RecordValid(threads[t])
           /\ threads[t].state = "Running" <=> t = currentThreadId
           /\ t \in ThreadIds
  BY SchedulerConstants, SP!ThreadOf DEF SP!ValidRecord

LEMMA DoAdd ==
    ASSUME SP!IInv, NEW t \in ThreadIds, NEW level \in 0 .. LowestPriority,
           Sched!AddDormantThread(t, 1, level)
    PROVE  /\ SP!IInv'
           /\ t \notin DOMAIN threads
           /\ threads' = [u \in DOMAIN threads \cup {t} |->
                            IF u = t THEN SP!DormantRecord(1, level) ELSE threads[u]]
           /\ UNCHANGED <<waitQueues, currentThreadId>>
  <1>1. SP!AddDormantThread(t, 1, level)
    BY SameOthers
  <1>2. SP!Next
    BY <1>1 DEF SP!Next, SP!Priorities
  <1>3. SP!IInv'
    BY <1>2, SchedulerStep
  <1> QED BY <1>1, <1>3 DEF SP!AddDormantThread, SP!AddThread

LEMMA DoDelete ==
    ASSUME SP!IInv, NEW t \in ThreadIds, Sched!DeleteThread(Handle(t))
    PROVE  /\ SP!IInv'
           /\ t \in DOMAIN threads /\ threads[t].state = "Dormant"
           /\ threads' = [u \in DOMAIN threads \ {t} |-> threads[u]]
           /\ UNCHANGED <<waitQueues, currentThreadId>>
  <1>1. SP!DeleteThread(Handle(t))
    BY SameOthers
  <1>2. SP!IInv'
    BY <1>1, HandleType, SchedulerStep DEF SP!Next
  <1> QED BY <1>1, <1>2, HandleType DEF SP!DeleteThread, SP!FindThread

LEMMA DoStart ==
    ASSUME SP!IInv, NEW t \in ThreadIds, Sched!StartThread(Handle(t))
    PROVE  /\ SP!IInv'
           /\ SP!Becomes(t, [threads[t] EXCEPT !.state = "Ready"])
           /\ threads[t].state = "Dormant"
           /\ UNCHANGED currentThreadId
  <1>1. SP!StartThread(Handle(t))
    BY SameStart
  <1>2. SP!IInv'
    BY <1>1, HandleType, SchedulerStep DEF SP!Next
  <1>3. UNCHANGED currentThreadId
    BY <1>1 DEF SP!StartThread
  <1> QED BY <1>1, <1>2, <1>3, HandleType, SchedulerConstants, SP!StartSeen

LEMMA DoFinish ==
    ASSUME SP!IInv, Sched!FinishCurrentThread
    PROVE  /\ SP!IInv'
           /\ SP!Becomes(currentThreadId,
                         SP!DormantRecord(threads[currentThreadId].generation,
                                          threads[currentThreadId].priority))
           /\ threads[currentThreadId].state = "Running"
  <1>1. SP!FinishCurrentThread
    BY SameOthers
  <1>2. SP!IInv'
    BY <1>1, SchedulerStep DEF SP!Next
  <1> QED BY <1>1, <1>2, SchedulerConstants, SP!FinishSeen

LEMMA DoBlock ==
    ASSUME SP!IInv, NEW w \in Keys, Sched!BlockCurrentThread(w)
    PROVE  /\ SP!IInv'
           /\ SP!Becomes(currentThreadId,
                         SP!WaitingRecord(threads[currentThreadId], w))
           /\ threads[currentThreadId].state = "Running"
  <1>1. SP!BlockCurrentThread(w)
    BY SameBlock
  <1>2. SP!IInv'
    BY <1>1, SchedulerStep DEF SP!Next
  <1> QED BY <1>1, <1>2, SchedulerConstants, SP!BlockSeen

LEMMA DoRelease ==
    ASSUME SP!IInv, NEW t \in ThreadIds, NEW c \in WaitCompletions,
           NEW retain \in BOOLEAN, Sched!ReleaseWaitThread(Handle(t), c, retain)
    PROVE  /\ SP!IInv'
           /\ SP!Becomes(t, SP!LeftRecord(threads[t], c))
           /\ Blocked(t)
  <1>1. SP!ReleaseWaitThread(Handle(t), c, retain)
    BY SameRelease
  <1>2. SP!IInv'
    BY <1>1, HandleType, SchedulerStep DEF SP!Next
  <1>3. /\ SP!Becomes(Handle(t).id, SP!LeftRecord(threads[Handle(t).id], c))
        /\ threads[Handle(t).id].state \in SP!Blocked
    BY <1>1, HandleType, SchedulerConstants, SP!ReleaseSeen
  <1> QED BY <1>2, <1>3, HandleType DEF Blocked, SP!Blocked

LEMMA DoWakeOne ==
    ASSUME SP!IInv, NEW w \in Keys, Sched!WakeOne(w)
    PROVE  LET t == Head(waitQueues[w]).id IN
           /\ SP!IInv'
           /\ SP!Becomes(t, SP!LeftRecord(threads[t], "Satisfied"))
           /\ Blocked(t) /\ threads[t].wait = w
  <1>1. SP!WakeOne(w)
    BY SameWakes
  <1>2. SP!IInv'
    BY <1>1, SchedulerStep DEF SP!Next
  <1> QED BY <1>1, <1>2, SchedulerConstants, SP!WakeOneSeen DEF Blocked, SP!Blocked

LEMMA DoWake ==
    ASSUME SP!IInv, NEW t \in ThreadIds, Sched!WakeThread(Handle(t))
    PROVE  /\ SP!IInv'
           /\ Active(t)
           /\ threads[t].wait = SleepKey =>
                 /\ Blocked(t)
                 /\ SP!Becomes(t, SP!LeftRecord(threads[t], "Satisfied"))
           /\ threads[t].wait # SleepKey =>
                 /\ threads[t].wakeupCount # MaxCount
                 /\ SP!Becomes(t, [threads[t] EXCEPT !.wakeupCount = @ + 1])
  <1>1. SP!WakeThread(Handle(t))
    BY SameWakes
  <1>2. SP!IInv'
    BY <1>1, HandleType, SchedulerStep DEF SP!Next
  <1> QED BY <1>1, <1>2, HandleType, SchedulerConstants, SP!WakeSeen
          DEF Blocked, SP!Blocked, Active, Known

LEMMA DoSuspend ==
    ASSUME SP!IInv, NEW t \in ThreadIds, Sched!SuspendThread(Handle(t))
    PROVE  /\ SP!IInv'
           /\ SP!Becomes(t, [threads[t] EXCEPT
                 !.state = IF @ \in SP!Blocked THEN "WaitSuspended" ELSE "Suspended",
                 !.suspendCount = @ + 1])
           /\ threads[t].suspendCount # MaxCount
  <1>1. SP!SuspendThread(Handle(t))
    BY SameSuspend
  <1>2. SP!IInv'
    BY <1>1, HandleType, SchedulerStep DEF SP!Next
  <1> QED BY <1>1, <1>2, HandleType, SchedulerConstants, SP!SuspendSeen

LEMMA DoResume ==
    ASSUME SP!IInv, NEW t \in ThreadIds, Sched!ResumeThread(Handle(t))
    PROVE  /\ SP!IInv'
           /\ SP!Becomes(t, [threads[t] EXCEPT
                 !.state = IF threads[t].suspendCount # 1 THEN @
                           ELSE IF @ \in SP!Blocked THEN "Waiting" ELSE "Ready",
                 !.suspendCount = @ - 1])
           /\ threads[t].suspendCount # 0
           /\ threads[t].state \in {"Suspended", "WaitSuspended"}
  <1>1. SP!ResumeThread(Handle(t))
    BY SameMoves
  <1>2. SP!IInv'
    BY <1>1, HandleType, SchedulerStep DEF SP!Next
  <1> QED BY <1>1, <1>2, HandleType, SchedulerConstants, SP!ResumeSeen

LEMMA DoTerminate ==
    ASSUME SP!IInv, NEW t \in ThreadIds, Sched!TerminateThread(Handle(t))
    PROVE  /\ SP!IInv'
           /\ SP!Becomes(t, SP!DormantRecord(threads[t].generation,
                                             threads[t].priority))
  <1>1. SP!TerminateThread(Handle(t))
    BY SameMoves
  <1>2. SP!IInv'
    BY <1>1, HandleType, SchedulerStep DEF SP!Next
  <1> QED BY <1>1, <1>2, HandleType, SchedulerConstants, SP!TerminateSeen

LEMMA DoMove ==
    ASSUME SP!IInv, NEW t \in DOMAIN threads, NEW level \in 0 .. LowestPriority,
           MovePriority(t, level)
    PROVE  /\ SP!IInv'
           /\ SP!Becomes(t, [threads[t] EXCEPT !.priority = level])
           /\ UNCHANGED currentThreadId
  <1>1. t \in ThreadIds /\ threads[t] \in SP!ThreadRecords
    BY ThreadType
  <1>2. CASE threads[t].priority = level
    <2>1. UNCHANGED schedulerVars
      BY <1>2 DEF MovePriority
    <2>2. [threads[t] EXCEPT !.priority = level] = threads[t]
      BY <1>1, <1>2 DEF SP!ThreadRecords
    <2>3. SP!Becomes(t, threads[t])
      BY <2>1, SchedulerStutter DEF SP!NothingSeen, SP!Becomes
    <2> QED BY <2>1, <2>2, <2>3, SchedulerStutter DEF schedulerVars
  <1>3. CASE threads[t].priority # level
    <2>1. SP!ChangeThreadPriority(Handle(t), level)
      BY <1>3, SameMoves DEF MovePriority
    <2>2. SP!IInv'
      BY <2>1, <1>1, HandleType, SchedulerStep DEF SP!Next, SP!Priorities
    <2>3. UNCHANGED currentThreadId
      BY <2>1 DEF SP!ChangeThreadPriority
    <2>4. level \in SP!Priorities
      BY DEF SP!Priorities
    <2> QED BY <2>1, <2>2, <2>3, <2>4, <1>1, HandleType, SchedulerConstants, SP!PrioritySeen
  <1> QED BY <1>2, <1>3

LEMMA DoCancel ==
    ASSUME SP!IInv, NEW t \in ThreadIds, Sched!CancelWakeups(Handle(t))
    PROVE  /\ SP!IInv'
           /\ SP!Becomes(t, [threads[t] EXCEPT !.wakeupCount = 0])
  <1>1. SP!CancelWakeups(Handle(t))
    BY SameOthers
  <1>2. SP!IInv'
    BY <1>1, HandleType, SchedulerStep DEF SP!Next
  <1>3. /\ t \in DOMAIN threads
        /\ threads' = [threads EXCEPT ![t] = [threads[t] EXCEPT !.wakeupCount = 0]]
    BY <1>1, HandleType DEF SP!CancelWakeups, SP!FindThread
  <1> QED BY <1>2, <1>3, SchedulerConstants, SP!SetBecomes

LEMMA DoConsumeWakeup ==
    ASSUME SP!IInv, Sched!ConsumeWakeup
    PROVE  LET t == currentThreadId IN
           /\ SP!IInv'
           /\ SP!Becomes(t, [threads[t] EXCEPT !.wakeupCount = @ - 1])
           /\ threads[t].state = "Running"
           /\ threads[t].wakeupCount # 0
  <1>1. SP!ConsumeWakeup
    BY SameOthers
  <1>2. SP!IInv'
    BY <1>1, SchedulerStep DEF SP!Next, SP!SleepCurrentThread
  <1>3. LET t == currentThreadId IN
        /\ t \in DOMAIN threads
        /\ threads' = [threads EXCEPT ![t] = [threads[t] EXCEPT !.wakeupCount = @ - 1]]
        /\ threads[t].state = "Running" /\ threads[t].wakeupCount # 0
    BY <1>1 DEF SP!ConsumeWakeup, SP!CurrentIsRunning
  <1> QED BY <1>2, <1>3, SchedulerConstants, SP!SetBecomes

LEMMA DoConsumeCompletion ==
    ASSUME SP!IInv, NEW t \in ThreadIds, Sched!ConsumeWaitCompletion(Handle(t))
    PROVE  /\ SP!IInv'
           /\ SP!Becomes(t, [threads[t] EXCEPT !.completedWait = SP!NoCompletion])
           /\ UNCHANGED currentThreadId
  <1>1. SP!ConsumeWaitCompletion(Handle(t))
    BY SameOthers
  <1>2. SP!IInv'
    BY <1>1, HandleType, SchedulerStep DEF SP!Next
  <1> DEFINE r == [threads[t] EXCEPT !.completedWait = SP!NoCompletion, !.retainReason = FALSE]
  <1>3. /\ t \in DOMAIN threads
        /\ threads' = [threads EXCEPT ![t] = r]
        /\ UNCHANGED currentThreadId
    BY <1>1, HandleType DEF SP!ConsumeWaitCompletion, SP!FindThread
  <1>4. SP!Alike([threads[t] EXCEPT !.completedWait = SP!NoCompletion], r)
    BY <1>3, ThreadType DEF SP!Alike, SP!ThreadRecords
  <1> HIDE DEF r
  <1>5. SP!Becomes(t, r)
    BY <1>3, SchedulerConstants, SP!SetBecomes
  <1> QED BY <1>2, <1>3, <1>4, <1>5, SchedulerConstants, SP!BecomesAlike

LEMMA DoRotate ==
    ASSUME SP!IInv, NEW level \in 0 .. LowestPriority, Sched!RotateReadyQueue(level)
    PROVE  SP!IInv' /\ SP!NothingSeen /\ UNCHANGED currentThreadId
  <1>1. SP!RotateReadyQueue(level) /\ level \in SP!Priorities
    BY SameOthers DEF SP!Priorities
  <1>2. SP!IInv'
    BY <1>1, SchedulerStep DEF SP!Next
  <1>3. UNCHANGED currentThreadId
    BY <1>1 DEF SP!RotateReadyQueue
  <1> QED BY <1>1, <1>2, <1>3, SchedulerConstants, SP!RotateSeen

LEMMA DoSelect ==
    ASSUME SP!IInv, Sched!SelectNextThread
    PROVE  SP!IInv' /\ SP!NothingSeen
  <1>1. SP!SelectNextThread
    BY SameOthers
  <1>2. SP!IInv'
    BY <1>1, SchedulerStep DEF SP!Next
  <1> QED BY <1>1, <1>2, SchedulerConstants, SP!SelectSeen

LEMMA DoPreempt ==
    ASSUME SP!IInv, NEW p \in {"HigherPriorityOnly", "EqualOrHigherPriority"},
           Sched!Preempt(p)
    PROVE  /\ SP!IInv' /\ SP!NothingSeen
           /\ SP!MostUrgent' /\ currentThreadId' \in DOMAIN threads
  <1>1. SP!Preempt(p)
    BY SamePreempt
  <1>2. SP!IInv'
    BY <1>1, SchedulerStep DEF SP!Next
  <1> QED BY <1>1, <1>2, SchedulerConstants, SP!PreemptSeen, SP!PreemptUrgent

-----------------------------------------------------------------------------
(* One thread in the two pictures: its record r, its mirror g and the tail   *)
(* tl of its fiber.                                                         *)

Waits(r) == r.state \in {"Waiting", "WaitSuspended"}

Match(r, g, tl) ==
    /\ g.linked <=> Waits(r)
    /\ g.linked => g.wait = r.wait /\ tl = BlockedTail(r.wait)
    /\ tl.kind = "Blocked" /\ ~ g.linked =>
         /\ g.pending # "None"
         /\ r.completedWait = [wait |-> tl.on, completion |-> g.pending]
    /\ g.suspends = r.suspendCount
    /\ g.wakeups = r.wakeupCount
    /\ g.status = "Dormant" <=> r.state = "Dormant"

GuestOK(g) == g \in GuestStates /\ GuestValid(g)

RecordOK(r) == r \in SP!ThreadRecords /\ SP!RecordValid(r)

LEMMA MatchAlike ==
    ASSUME NEW r, NEW r2, NEW g, NEW tl, SP!Alike(r, r2), Match(r, g, tl)
    PROVE  Match(r2, g, tl)
  BY DEF SP!Alike, Match, Waits, SP!Blocked

LEMMA MatchBlocked ==
    ASSUME NEW r, NEW g, NEW tl, NEW key \in Keys, RecordOK(r), GuestOK(g),
           Match(r, g, tl), r.state = "Running"
    PROVE  /\ GuestOK(BlockedGuest(g, key))
           /\ Match(SP!WaitingRecord(r, key), BlockedGuest(g, key), BlockedTail(key))
  <1>1. r.suspendCount = 0
    BY DEF RecordOK, SP!RecordValid
  <1>2. key # NoWait
    BY SchedulerConstants DEF SP!ConstantsAssumption
  <1>3. GuestOK(BlockedGuest(g, key))
    BY <1>1, <1>2 DEF GuestOK, GuestStates, GuestValid, BlockedGuest, Match, Waits
  <1>4. Match(SP!WaitingRecord(r, key), BlockedGuest(g, key), BlockedTail(key))
    BY <1>1 DEF GuestOK, GuestStates, BlockedGuest, Match, Waits, BlockedTail,
                RecordOK, SP!ThreadRecords, SP!WaitingRecord
  <1> QED BY <1>3, <1>4

LEMMA MatchReleased ==
    ASSUME NEW r, NEW g, NEW tl, NEW c \in WaitCompletions, NEW retain \in BOOLEAN,
           RecordOK(r), GuestOK(g), Match(r, g, tl), Waits(r)
    PROVE  /\ GuestOK(ReleasedGuest(g, c, retain))
           /\ Match(SP!LeftRecord(r, c), ReleasedGuest(g, c, retain), tl)
  <1>1. GuestOK(ReleasedGuest(g, c, retain))
    BY DEF GuestOK, GuestStates, GuestValid, ReleasedGuest
  <1>2. /\ g.linked /\ tl = BlockedTail(r.wait)
        /\ g.suspends = r.suspendCount /\ g.wakeups = r.wakeupCount
        /\ r.suspendCount \in Nat
    BY DEF Match, RecordOK, SP!ThreadRecords
  <1>3. LET g2 == ReleasedGuest(g, c, retain)
            r2 == SP!LeftRecord(r, c) IN
        /\ g2.linked = FALSE /\ g2.pending = c /\ g2.suspends = g.suspends
        /\ g2.wakeups = g.wakeups /\ g2.status # "Dormant"
        /\ r2.completedWait = [wait |-> r.wait, completion |-> c]
        /\ r2.state \in {"Ready", "Suspended"}
        /\ r2.suspendCount = r.suspendCount /\ r2.wakeupCount = r.wakeupCount
    BY DEF GuestOK, GuestStates, ReleasedGuest, RecordOK, SP!ThreadRecords, SP!LeftRecord, Match, Waits
  <1>4. c # "None"
    BY DEF WaitCompletions
  <1>5. tl.kind = "Blocked" /\ tl.on = r.wait
    BY <1>2 DEF BlockedTail
  <1>6. Match(SP!LeftRecord(r, c), ReleasedGuest(g, c, retain), tl)
    BY <1>2, <1>3, <1>4, <1>5 DEF Match, Waits
  <1> QED BY <1>1, <1>6

LEMMA MatchDormant ==
    ASSUME NEW n, NEW p, NEW p2 \in 0 .. LowestPriority, NEW tl, tl.kind # "Blocked"
    PROVE  /\ GuestOK(DormantGuest(p2))
           /\ Match(SP!DormantRecord(n, p), DormantGuest(p2), tl)
  <1>1. 0 \in 0 .. MaxCount
    BY KernelConstants DEF KernelConstants
  <1> QED BY <1>1 DEF GuestOK, GuestStates, GuestValid, DormantGuest, Match, Waits,
             SP!DormantRecord, SP!FreshRecord

LEMMA MatchSuspended ==
    ASSUME NEW r, NEW g, NEW tl, RecordOK(r), GuestOK(g), Match(r, g, tl),
           r.state # "Dormant", r.suspendCount # MaxCount
    PROVE  /\ GuestOK(SuspendedGuest(g))
           /\ Match([r EXCEPT
                       !.state = IF @ \in SP!Blocked THEN "WaitSuspended"
                                                     ELSE "Suspended",
                       !.suspendCount = @ + 1],
                    SuspendedGuest(g), tl)
  <1>1. /\ g.suspends \in Nat /\ g.suspends + 1 \in 0 .. MaxCount
        /\ g.suspends = r.suspendCount
    BY KernelConstants DEF KernelConstants, Match, GuestOK, GuestStates
  <1>2. GuestOK(SuspendedGuest(g))
    <2>1. SuspendedGuest(g) \in GuestStates
      BY <1>1 DEF GuestOK, GuestStates, SuspendedGuest
    <2>2. LET g2 == SuspendedGuest(g) IN
          /\ g2.linked = g.linked /\ g2.wait = g.wait /\ g2.suspends > 0
          /\ g2.status = IF g.linked THEN "WaitSuspend" ELSE "Suspend"
      BY <1>1 DEF GuestOK, GuestStates, SuspendedGuest
    <2>3. GuestValid(SuspendedGuest(g))
      BY <1>1, <2>2 DEF GuestOK, GuestStates, GuestValid
    <2> QED BY <2>1, <2>3 DEF GuestOK
  <1>3. g.status # "Dormant"
    BY DEF Match
  <1> DEFINE g2 == SuspendedGuest(g)
             r2 == [r EXCEPT !.state = IF @ \in SP!Blocked THEN "WaitSuspended"
                                                           ELSE "Suspended",
                             !.suspendCount = @ + 1]
  <1>4. /\ g2.linked = g.linked /\ g2.wait = g.wait /\ g2.pending = g.pending
        /\ g2.suspends = g.suspends + 1 /\ g2.wakeups = g.wakeups
        /\ g2.status # "Dormant"
    BY DEF SuspendedGuest, GuestOK, GuestStates
  <1>5. /\ r2.wait = r.wait /\ r2.completedWait = r.completedWait
        /\ r2.suspendCount = r.suspendCount + 1 /\ r2.wakeupCount = r.wakeupCount
        /\ r2.state # "Dormant" /\ (Waits(r2) <=> Waits(r))
    BY DEF RecordOK, SP!ThreadRecords, Waits, SP!Blocked
  <1> HIDE DEF g2, r2
  <1>6. Match(r2, g2, tl)
    BY <1>1, <1>3, <1>4, <1>5 DEF Match
  <1> QED BY <1>2, <1>6 DEF g2, r2

LEMMA MatchResumed ==
    ASSUME NEW r, NEW g, NEW tl, RecordOK(r), GuestOK(g), Match(r, g, tl),
           r.state # "Dormant", r.suspendCount # 0
    PROVE  /\ GuestOK(ResumedGuest(g))
           /\ Match([r EXCEPT
                       !.state = IF r.suspendCount # 1 THEN @
                                 ELSE IF @ \in SP!Blocked THEN "Waiting" ELSE "Ready",
                       !.suspendCount = @ - 1],
                    ResumedGuest(g), tl)
  <1>1. /\ g.suspends \in Nat \ {0} /\ g.suspends - 1 \in 0 .. MaxCount
        /\ g.suspends = r.suspendCount
    BY KernelConstants DEF KernelConstants, Match, GuestOK, GuestStates
  <1>2. GuestOK(ResumedGuest(g))
    <2>1. ResumedGuest(g) \in GuestStates
      BY <1>1 DEF GuestOK, GuestStates, ResumedGuest
    <2>2. g.status \in {"Suspend", "WaitSuspend"}
      BY <1>1 DEF GuestOK, GuestValid
    <2>3. GuestValid(ResumedGuest(g))
      BY <1>1, <2>2 DEF GuestOK, GuestStates, GuestValid, ResumedGuest
    <2> QED BY <2>1, <2>3 DEF GuestOK
  <1>3. g.status # "Dormant"
    BY DEF Match
  <1> DEFINE g2 == ResumedGuest(g)
             r2 == [r EXCEPT
                       !.state = IF r.suspendCount # 1 THEN @
                                 ELSE IF @ \in SP!Blocked THEN "Waiting" ELSE "Ready",
                       !.suspendCount = @ - 1]
  <1>4. /\ g2.linked = g.linked /\ g2.wait = g.wait /\ g2.pending = g.pending
        /\ g2.suspends = g.suspends - 1 /\ g2.wakeups = g.wakeups
        /\ g2.status # "Dormant"
    BY <1>3 DEF ResumedGuest, GuestOK, GuestStates
  <1>5. /\ r2.wait = r.wait /\ r2.completedWait = r.completedWait
        /\ r2.suspendCount = r.suspendCount - 1 /\ r2.wakeupCount = r.wakeupCount
        /\ r2.state # "Dormant" /\ (Waits(r2) <=> Waits(r))
    BY DEF RecordOK, SP!ThreadRecords, Waits, SP!Blocked
  <1> HIDE DEF g2, r2
  <1>6. Match(r2, g2, tl)
    BY <1>1, <1>3, <1>4, <1>5 DEF Match
  <1> QED BY <1>2, <1>6 DEF g2, r2

LEMMA MatchWakeups ==
    ASSUME NEW r, NEW g, NEW tl, RecordOK(r), GuestOK(g), Match(r, g, tl),
           NEW n \in 0 .. MaxCount, r.state # "Dormant" \/ n = 0
    PROVE  /\ GuestOK([g EXCEPT !.wakeups = n])
           /\ Match([r EXCEPT !.wakeupCount = n], [g EXCEPT !.wakeups = n], tl)
  BY DEF GuestOK, GuestStates, GuestValid, Match, Waits, RecordOK, SP!ThreadRecords

LEMMA MatchPriority ==
    ASSUME NEW r, NEW g, NEW tl, RecordOK(r), GuestOK(g), Match(r, g, tl),
           NEW p \in 0 .. LowestPriority, NEW p2
    PROVE  /\ GuestOK([g EXCEPT !.priority = p])
           /\ Match([r EXCEPT !.priority = p2], [g EXCEPT !.priority = p], tl)
           /\ Match(r, [g EXCEPT !.priority = p], tl)
           /\ Match([r EXCEPT !.priority = p2], g, tl)
  BY DEF GuestOK, GuestStates, GuestValid, Match, Waits, RecordOK, SP!ThreadRecords

\* A fiber that does not wait may finish its syscall in another way.
LEMMA MatchTail ==
    ASSUME NEW r, NEW g, NEW tl, NEW tl2, Match(r, g, tl), tl.kind # "Blocked",
           tl2.kind # "Blocked"
    PROVE  Match(r, g, tl2)
  BY DEF Match, BlockedTail

LEMMA MatchGoOn ==
    ASSUME NEW r, NEW g, NEW tl, NEW tl2, RecordOK(r), GuestOK(g), Match(r, g, tl),
           tl.kind # "Blocked", tl2.kind # "Blocked"
    PROVE  /\ GuestOK([g EXCEPT !.pending = "None"])
           /\ Match(r, [g EXCEPT !.pending = "None"], tl2)
  BY DEF GuestOK, GuestStates, GuestValid, Match, BlockedTail

LEMMA MatchWoken ==
    ASSUME NEW r, NEW g, NEW tl, NEW tl2, RecordOK(r), GuestOK(g), Match(r, g, tl),
           tl.kind # "Blocked", tl2.kind # "Blocked", r.state = "Running",
           r.wakeupCount # 0
    PROVE  LET g3 == [g EXCEPT !.wakeups = @ - 1, !.status = "Run", !.wait = NoWait]
           IN  /\ GuestOK(g3)
               /\ Match([r EXCEPT !.wakeupCount = @ - 1], g3, tl2)
  <1>1. r.suspendCount = 0 /\ ~ Waits(r) /\ g.linked = FALSE
    BY DEF RecordOK, SP!RecordValid, Match, Waits, GuestOK, GuestStates
  <1>2. g.wakeups = r.wakeupCount /\ g.wakeups - 1 \in 0 .. MaxCount
    BY KernelConstants DEF KernelConstants, GuestOK, GuestStates, Match
  <1>3. g.suspends = 0 /\ r.state # "Dormant"
    BY <1>1 DEF Match
  <1> DEFINE g3 == [g EXCEPT !.wakeups = @ - 1, !.status = "Run", !.wait = NoWait]
             r3 == [r EXCEPT !.wakeupCount = @ - 1]
  <1>4. g3 \in GuestStates
    BY <1>2 DEF GuestOK, GuestStates
  <1>5. /\ g3.linked = FALSE /\ g3.wait = NoWait /\ g3.suspends = 0
        /\ g3.status = "Run" /\ g3.wakeups = g.wakeups - 1
    BY <1>1, <1>3 DEF GuestOK, GuestStates
  <1>6. /\ ~ Waits(r3) /\ r3.suspendCount = 0 /\ r3.state # "Dormant"
        /\ r3.wakeupCount = r.wakeupCount - 1
    BY <1>1, <1>3 DEF RecordOK, SP!ThreadRecords, Waits
  <1> HIDE DEF g3, r3
  <1>7. GuestOK(g3) /\ Match(r3, g3, tl2)
    BY <1>2, <1>4, <1>5, <1>6 DEF GuestOK, GuestValid, Match
  <1> QED BY <1>7 DEF g3, r3

\* A dispatched fiber finds its result and runs.
LEMMA MatchDispatched ==
    ASSUME NEW r, NEW g, NEW tl, NEW key, RecordOK(r), GuestOK(g), Match(r, g, tl),
           NEW r2, r2 \in {r, [r EXCEPT !.completedWait = SP!NoCompletion]},
           r.state = "Running"
    PROVE  /\ GuestOK(DispatchedGuest(g))
           /\ GuestOK(DispatchedGuest(FinishedGuest(g, key)))
           /\ Match(r2, g, NoTail)
           /\ Match(r2, DispatchedGuest(g), NoTail)
           /\ Match(r2, DispatchedGuest(FinishedGuest(g, key)), NoTail)
  <1>1. /\ r.suspendCount = 0 /\ ~ Waits(r) /\ g.linked = FALSE /\ g.suspends = 0
        /\ g.status # "Dormant" /\ g.wakeups = r.wakeupCount
    BY DEF RecordOK, SP!RecordValid, Match, Waits, GuestOK, GuestStates
  <1>2. /\ r2.suspendCount = 0 /\ ~ Waits(r2) /\ r2.state # "Dormant"
        /\ r2.wakeupCount = r.wakeupCount
    BY <1>1 DEF RecordOK, SP!ThreadRecords, Waits
  <1> DEFINE f == FinishedGuest(g, key)
  <1>3. /\ GuestOK(f) /\ f.linked = FALSE /\ f.suspends = 0
        /\ f.status # "Dormant" /\ f.wakeups = g.wakeups
    BY <1>1 DEF GuestOK, GuestStates, GuestValid, FinishedGuest
  <1> HIDE DEF f
  <1>4. ASSUME NEW h, GuestOK(h), h.linked = FALSE, h.suspends = 0,
               h.status # "Dormant", h.wakeups = g.wakeups
        PROVE  /\ GuestOK(DispatchedGuest(h))
               /\ Match(r2, h, NoTail)
               /\ Match(r2, DispatchedGuest(h), NoTail)
    <2>1. GuestOK(DispatchedGuest(h))
      BY <1>4 DEF GuestOK, GuestStates, GuestValid, DispatchedGuest
    <2>2. LET d == DispatchedGuest(h) IN
          /\ d.linked = FALSE /\ d.suspends = 0 /\ d.status # "Dormant"
          /\ d.wakeups = g.wakeups
      BY <1>4 DEF GuestOK, GuestStates, DispatchedGuest
    <2> QED BY <1>1, <1>2, <1>4, <2>1, <2>2 DEF Match, NoTail
  <1> QED BY <1>1, <1>3, <1>4 DEF f

\* StartThread wrote the mirror before the scheduler.
LEMMA MatchStarted ==
    ASSUME NEW r, NEW p \in 0 .. LowestPriority, RecordOK(r), r.state = "Dormant"
    PROVE  LET g == [DormantGuest(p) EXCEPT !.status = "Ready"] IN
           /\ GuestOK(g)
           /\ Match([r EXCEPT !.state = "Ready"], g, RunTail)
  <1>1. 0 \in 0 .. MaxCount
    BY KernelConstants DEF KernelConstants
  <1>2. r.suspendCount = 0 /\ r.wakeupCount = 0
    BY DEF RecordOK, SP!RecordValid
  <1> DEFINE g == [DormantGuest(p) EXCEPT !.status = "Ready"]
             r2 == [r EXCEPT !.state = "Ready"]
  <1>3. g \in GuestStates /\ g.linked = FALSE /\ g.wait = NoWait
        /\ g.suspends = 0 /\ g.status = "Ready" /\ g.wakeups = 0
    BY <1>1 DEF GuestStates, DormantGuest
  <1>4. ~ Waits(r2) /\ r2.suspendCount = 0 /\ r2.state # "Dormant"
        /\ r2.wakeupCount = 0
    BY <1>2 DEF RecordOK, SP!ThreadRecords, Waits
  <1> HIDE DEF g, r2
  <1>5. GuestOK(g) /\ Match(r2, g, RunTail)
    BY <1>3, <1>4 DEF GuestOK, GuestValid, Match, RunTail
  <1> QED BY <1>5 DEF g, r2

-----------------------------------------------------------------------------
(* The invariant, but for what is published.                                *)

Waiters(w) == SP!WaitSet(threads, w)

Types ==
    /\ DOMAIN infos \subseteq ThreadIds
    /\ infos \in [DOMAIN infos -> GuestStates]
    /\ \A t \in DOMAIN infos : GuestOK(infos[t])
    /\ tails \in [ThreadIds -> Tails]

\* The two pictures agree on every thread but those of E, and on the
\* priorities of all but those of P.
Agree(E, P) ==
    /\ \A t \in DOMAIN threads \ E :
          /\ t \in DOMAIN infos
          /\ Match(threads[t], infos[t], tails[t])
          /\ t \in P \/ infos[t].priority = threads[t].priority
    /\ \A t \in DOMAIN infos \ (DOMAIN threads \cup E) :
          infos[t].status = "Dormant"

\* The two pictures agree on every thread.
AllMatch ==
    /\ \A t \in DOMAIN threads :
          /\ t \in DOMAIN infos
          /\ Match(threads[t], infos[t], tails[t])
          /\ infos[t].priority = threads[t].priority
    /\ \A t \in DOMAIN infos \ DOMAIN threads : infos[t].status = "Dormant"

NewIds ==
    /\ fresh \subseteq ThreadIds \ {MainThread}
    /\ \A t \in fresh : t \notin DOMAIN infos /\ t \notin DOMAIN threads
    /\ \A t \in ThreadIds : tails[t].kind = "Blocked" => t \in DOMAIN threads

Requests == [bits : SUBSET EventBits, mode : WaitModes]

SemaRecords == [live : BOOLEAN, count : 0 .. MaxSema, waiters : Nat]

FlagRecords ==
    [live : BOOLEAN, used : BOOLEAN, bits : SUBSET EventBits, multi : BOOLEAN,
     requests : UNION {[S -> Requests] : S \in SUBSET ThreadIds}]

ObjectTypes ==
    /\ semas \in [Semas -> SemaRecords]
    /\ flags \in [Flags -> FlagRecords]
    /\ \A f \in Flags : flags[f].live => flags[f].used

Counted ==
    /\ \A s \in Semas : semas[s].waiters = Cardinality(Waiters(s))
    /\ \A f \in Flags : DOMAIN flags[f].requests = Waiters(f)

DrainRecords ==
    [call : {"SetEventFlag", "DeleteSema", "DeleteEventFlag"},
     on : Semas \cup Flags, rest : Seq(ThreadIds)]

\* The threads a closure's loop has still to look at wait for its object; a
\* deletion looks at all of them.
DrainOK ==
    draining # NoDrain =>
        /\ draining \in DrainRecords
        /\ draining.rest # <<>>
        /\ \A i, j \in 1 .. Len(draining.rest) :
              draining.rest[i] = draining.rest[j] => i = j
        /\ \A i \in 1 .. Len(draining.rest) :
              draining.rest[i] \in Waiters(draining.on)
        /\ draining.call = "SetEventFlag" =>
              draining.on \in Flags /\ flags[draining.on].live
        /\ draining.call = "DeleteSema" => draining.on \in Semas
        /\ draining.call = "DeleteEventFlag" => draining.on \in Flags
        /\ draining.call # "SetEventFlag" =>
              \A t \in Waiters(draining.on) :
                 \E i \in 1 .. Len(draining.rest) : draining.rest[i] = t

Pending(key, t) ==
    /\ draining # NoDrain
    /\ draining.on = key
    /\ \E i \in 1 .. Len(draining.rest) : draining.rest[i] = t

NotStranded ==
    /\ \A s \in Semas : \A t \in Waiters(s) :
          Pending(s, t) \/ (semas[s].live /\ semas[s].count = 0)
    /\ \A f \in Flags : \A t \in Waiters(f) :
          \/ Pending(f, t)
          \/ flags[f].live /\ ~ Satisfied(flags[f].bits, flags[f].requests[t])

Objects == ObjectTypes /\ Counted /\ DrainOK /\ NotStranded

Data == Types /\ NewIds /\ Objects

-----------------------------------------------------------------------------
(* A step of one thread.                                                    *)

LEMMA AgreeAll ==
    /\ AllMatch <=> Agree({}, {})
    /\ AllMatch' <=> Agree({}, {})'
  BY DEF AllMatch, Agree

LEMMA AgreeFrame ==
    ASSUME NEW E, NEW P, NEW E2, NEW P2, SP!IInv, Types, NewIds, Agree(E, P),
           UNCHANGED ids, NEW t \in DOMAIN threads, t \in DOMAIN infos,
           NEW r, NEW g, NEW tl \in Tails, SP!Becomes(t, r), GuestOK(g),
           t \in E2 \/ (Match(r, g, tl) /\ (t \in P2 \/ g.priority = r.priority)),
           E \ {t} \subseteq E2, P \ {t} \subseteq P2,
           infos' = [infos EXCEPT ![t] = g], tails' = [tails EXCEPT ![t] = tl]
    PROVE  Types' /\ NewIds' /\ Agree(E2, P2)'
  <1>1. /\ DOMAIN threads' = DOMAIN threads
        /\ SP!Alike(r, threads'[t])
        /\ \A u \in DOMAIN threads \ {t} : SP!Alike(threads[u], threads'[u])
    BY DEF SP!Becomes
  <1>2. t \in DOMAIN infos /\ t \in ThreadIds
    BY ThreadType
  <1>3. /\ DOMAIN infos' = DOMAIN infos /\ infos'[t] = g
        /\ \A u \in DOMAIN infos \ {t} : infos'[u] = infos[u]
        /\ infos' \in [DOMAIN infos' -> GuestStates]
    BY <1>2 DEF Types, GuestOK
  <1>4. /\ tails' \in [ThreadIds -> Tails] /\ tails'[t] = tl
        /\ \A u \in ThreadIds \ {t} : tails'[u] = tails[u]
    BY <1>2 DEF Types
  <1>5. Types'
    BY <1>3, <1>4 DEF Types
  <1>6. NewIds'
    BY <1>1, <1>3, <1>4 DEF NewIds, ids
  <1>7. ASSUME NEW u \in DOMAIN threads' \ E2
        PROVE  /\ u \in DOMAIN infos'
               /\ Match(threads'[u], infos'[u], tails'[u])
               /\ u \in P2 \/ infos'[u].priority = threads'[u].priority
    <2>1. CASE u = t
      BY <1>1, <1>2, <1>3, <1>4, <2>1, MatchAlike DEF SP!Alike
    <2>2. CASE u # t
      <3>1. u \in DOMAIN threads \ E /\ u \in ThreadIds
        BY <1>1, <2>2, ThreadType
      <3>2. /\ u \in DOMAIN infos /\ Match(threads[u], infos[u], tails[u])
            /\ u \in P \/ infos[u].priority = threads[u].priority
        BY <3>1 DEF Agree
      <3>3. /\ infos'[u] = infos[u] /\ tails'[u] = tails[u]
            /\ SP!Alike(threads[u], threads'[u])
        BY <1>1, <1>3, <1>4, <2>2, <3>1, <3>2
      <3> QED BY <1>3, <2>2, <3>2, <3>3, MatchAlike DEF SP!Alike
    <2> QED BY <2>1, <2>2
  <1>8. ASSUME NEW u \in DOMAIN infos' \ (DOMAIN threads' \cup E2)
        PROVE  infos'[u].status = "Dormant"
    BY <1>1, <1>3 DEF Agree
  <1>9. Agree(E2, P2)'
    BY <1>7, <1>8 DEF Agree
  <1> QED BY <1>5, <1>6, <1>9

\* The same when nothing of the thread but its record changes.
LEMMA AgreeSame ==
    ASSUME NEW E, NEW P, SP!IInv, Types, NewIds, Agree(E, P), SP!NothingSeen,
           UNCHANGED <<ids, infos, tails>>
    PROVE  Types' /\ NewIds' /\ Agree(E, P)'
  <1>1. /\ DOMAIN threads' = DOMAIN threads
        /\ \A u \in DOMAIN threads : SP!Alike(threads[u], threads'[u])
    BY DEF SP!NothingSeen
  <1>2. Types' /\ NewIds'
    BY <1>1 DEF Types, NewIds, ids
  <1>3. Agree(E, P)'
    BY <1>1, MatchAlike DEF Agree, SP!Alike
  <1> QED BY <1>2, <1>3

LEMMA MatchesFrame ==
    ASSUME SP!IInv, Types, NewIds, AllMatch, UNCHANGED ids,
           NEW t \in DOMAIN threads, NEW r, NEW g, NEW tl \in Tails,
           SP!Becomes(t, r), GuestOK(g), Match(r, g, tl), g.priority = r.priority,
           infos' = [infos EXCEPT ![t] = g], tails' = [tails EXCEPT ![t] = tl]
    PROVE  Types' /\ NewIds' /\ AllMatch'
  <1>1. t \in DOMAIN infos
    BY DEF AllMatch
  <1>2. Agree({}, {})
    BY AgreeAll
  <1>3. {} \ {t} \subseteq {}
    OBVIOUS
  <1>4. Types' /\ NewIds' /\ Agree({}, {})'
    BY <1>1, <1>2, <1>3, AgreeFrame
  <1> QED BY <1>4, AgreeAll

LEMMA MatchesSame ==
    ASSUME SP!IInv, Types, NewIds, AllMatch, SP!NothingSeen,
           UNCHANGED <<ids, infos, tails>>
    PROVE  Types' /\ NewIds' /\ AllMatch'
  <1>1. Agree({}, {})
    BY AgreeAll
  <1>2. Types' /\ NewIds' /\ Agree({}, {})'
    BY <1>1, AgreeSame
  <1> QED BY <1>2, AgreeAll

LEMMA WaitersOf ==
    ASSUME NEW w
    PROVE  /\ Waiters(w) = {t \in DOMAIN threads : Waits(threads[t]) /\ threads[t].wait = w}
           /\ Waiters(w)' = {t \in DOMAIN threads' : Waits(threads'[t]) /\ threads'[t].wait = w}
  BY DEF Waiters, SP!WaitSet, Waits, SP!Blocked

LEMMA WaitersSame ==
    ASSUME SP!NothingSeen, NEW w
    PROVE  Waiters(w)' = Waiters(w)
  <1>1. \A t : t \in Waiters(w)' <=> t \in Waiters(w)
    BY WaitersOf DEF SP!NothingSeen, SP!Alike, Waits, SP!Blocked
  <1> QED BY <1>1

LEMMA WaitersKept ==
    ASSUME NEW t, NEW r, SP!Becomes(t, r), Waits(r) <=> Waits(threads[t]),
           Waits(r) => r.wait = threads[t].wait, NEW w
    PROVE  Waiters(w)' = Waiters(w)
  <1>1. \A u : u \in Waiters(w)' <=> u \in Waiters(w)
    BY WaitersOf DEF SP!Becomes, SP!Alike, Waits, SP!Blocked
  <1> QED BY <1>1

LEMMA WaitersLost ==
    ASSUME NEW t, NEW r, SP!Becomes(t, r), ~ Waits(r), NEW w
    PROVE  Waiters(w)' = Waiters(w) \ {t}
  <1>1. \A u : u \in Waiters(w)' <=> u \in Waiters(w) /\ u # t
    BY WaitersOf DEF SP!Becomes, SP!Alike, Waits, SP!Blocked
  <1> QED BY <1>1

LEMMA WaitersGained ==
    ASSUME NEW t, NEW r, SP!Becomes(t, r), ~ Waits(threads[t]), Waits(r), NEW w
    PROVE  Waiters(w)' = IF w = r.wait THEN Waiters(w) \cup {t} ELSE Waiters(w)
  <1>1. \A u : u \in Waiters(w)' <=> u \in Waiters(w) \/ (u = t /\ w = r.wait)
    BY WaitersOf DEF SP!Becomes, SP!Alike, Waits, SP!Blocked
  <1> QED BY <1>1

LEMMA SameCardinality ==
    ASSUME NEW S
    PROVE  /\ IsFiniteSet(S) <=> SP!IsFiniteSet(S)
           /\ Cardinality(S) = SP!Cardinality(S)
  BY Zenon DEF IsFiniteSet, SP!IsFiniteSet, Cardinality, SP!Cardinality

LEMMA WaitersFinite ==
    ASSUME SP!IInv, NEW w \in Keys
    PROVE  /\ IsFiniteSet(Waiters(w))
           /\ Cardinality(Waiters(w)) \in Nat
           /\ Cardinality(Waiters(w)) = Len(waitQueues[w])
           /\ waitQueues[w] = <<>> <=> Waiters(w) = {}
           /\ Waiters(w) \subseteq DOMAIN threads
  <1>1. /\ IsFiniteSet(Waiters(w))
        /\ Cardinality(Waiters(w)) = Len(waitQueues[w])
    BY SchedulerConstants, SP!WaitersCounted, SameCardinality DEF Waiters
  <1>2. waitQueues[w] \in Seq(SP!Handles)
    BY SchedulerConstants, SP!WaitersQueued
  <1>3. Waiters(w) = {} <=> Cardinality(Waiters(w)) = 0
    BY <1>1, FS_EmptySet
  <1>4. waitQueues[w] = <<>> <=> Len(waitQueues[w]) = 0
    BY <1>2, EmptySeq
  <1>5. Cardinality(Waiters(w)) \in Nat
    BY <1>1, FS_CardinalityType
  <1> QED BY <1>1, <1>3, <1>4, <1>5, WaitersOf

LEMMA KeyTypes ==
    /\ Semas \subseteq Keys /\ Flags \subseteq Keys /\ SleepKey \in Keys
    /\ NoWait \notin Keys /\ Semas \cap Flags = {}
    /\ SleepKey \notin Semas \cup Flags
  BY KernelConstants DEF KernelConstants, Keys

\* Nobody comes to an object or leaves it.
LEMMA ObjectsKept ==
    ASSUME Objects, UNCHANGED <<objects, draining>>,
           \A w \in Semas \cup Flags : Waiters(w)' = Waiters(w)
    PROVE  Objects'
  <1>1. ObjectTypes' /\ Counted'
    BY DEF Objects, ObjectTypes, Counted, objects
  <1>2. DrainOK'
    BY DEF Objects, DrainOK, DrainRecords, objects
  <1>3. NotStranded'
    BY DEF Objects, NotStranded, Pending, objects
  <1> QED BY <1>1, <1>2, <1>3 DEF Objects

\* A thread waits for one object, and its record says which.
LEMMA WaiterOf ==
    ASSUME SP!IInv, NEW t \in DOMAIN threads
    PROVE  /\ Waits(threads[t]) <=> threads[t].wait # NoWait
           /\ Waits(threads[t]) <=> Blocked(t)
           /\ threads[t].wait # NoWait =>
                threads[t].wait \in Keys /\ t \in Waiters(threads[t].wait)
           /\ \A w : t \in Waiters(w) => w = threads[t].wait
  BY ThreadType, WaitersOf DEF SP!RecordValid, SP!ThreadRecords, Waits, Blocked, SP!Blocked

LEMMA RequestsType ==
    ASSUME ObjectTypes, NEW f \in Flags
    PROVE  /\ flags[f] \in FlagRecords
           /\ DOMAIN flags[f].requests \subseteq ThreadIds
           /\ flags[f].requests \in [DOMAIN flags[f].requests -> Requests]
           /\ \A t \in DOMAIN flags[f].requests : flags[f].requests[t] \in Requests
  BY DEF ObjectTypes, FlagRecords

\* Requests with one withdrawn.
Without(requests, t) == [u \in DOMAIN requests \ {t} |-> requests[u]]

LEMMA WithoutType ==
    ASSUME NEW S \in SUBSET ThreadIds, NEW requests \in [S -> Requests], NEW t
    PROVE  /\ Without(requests, t) \in UNION {[Q -> Requests] : Q \in SUBSET ThreadIds}
           /\ DOMAIN Without(requests, t) = S \ {t}
           /\ \A u \in S \ {t} : Without(requests, t)[u] = requests[u]
  <1>1. Without(requests, t) \in [S \ {t} -> Requests]
    BY DEF Without
  <1>2. S \ {t} \in SUBSET ThreadIds
    OBVIOUS
  <1> QED BY <1>1, <1>2 DEF Without

LEMMA FlagWithout ==
    ASSUME ObjectTypes, NEW f \in Flags, NEW t
    PROVE  LET q == Without(flags[f].requests, t) IN
           /\ q \in UNION {[Q -> Requests] : Q \in SUBSET ThreadIds}
           /\ DOMAIN q = DOMAIN flags[f].requests \ {t}
           /\ \A u \in DOMAIN flags[f].requests \ {t} : q[u] = flags[f].requests[u]
  <1>1. /\ DOMAIN flags[f].requests \in SUBSET ThreadIds
        /\ flags[f].requests \in [DOMAIN flags[f].requests -> Requests]
    BY RequestsType
  <1> DEFINE e == flags[f].requests
  <1>2. DOMAIN e \in SUBSET ThreadIds /\ e \in [DOMAIN e -> Requests]
    BY <1>1
  <1> HIDE DEF e
  <1>3. LET q == Without(e, t) IN
        /\ q \in UNION {[Q -> Requests] : Q \in SUBSET ThreadIds}
        /\ DOMAIN q = DOMAIN e \ {t}
        /\ \A u \in DOMAIN e \ {t} : q[u] = e[u]
    BY <1>2, WithoutType, Zenon
  <1> QED BY <1>3 DEF e

\* The objects once t has left the wait it had, and its objects know it.
LEMMA LostCounted ==
    ASSUME SP!IInv, ObjectTypes, Counted, NEW t, NEW r, SP!Becomes(t, r), ~ Waits(r),
           DropWaiter(t, threads[t].wait)
    PROVE  /\ ObjectTypes' /\ Counted'
           /\ \A w : Waiters(w)' = Waiters(w) \ {t}
           /\ \A s \in Semas : /\ semas'[s].live = semas[s].live
                               /\ semas'[s].count = semas[s].count
           /\ \A f \in Flags : /\ flags'[f].live = flags[f].live
                               /\ flags'[f].bits = flags[f].bits
                               /\ \A u \in Waiters(f)' :
                                    flags'[f].requests[u] = flags[f].requests[u]
  <1> DEFINE key == threads[t].wait
  <1>1. t \in DOMAIN threads
    BY DEF SP!Becomes
  <1>2. \A w : Waiters(w)' = Waiters(w) \ {t}
    BY WaitersLost
  <1>3. ASSUME NEW s \in Semas
        PROVE  /\ semas'[s] \in SemaRecords
               /\ semas'[s].live = semas[s].live /\ semas'[s].count = semas[s].count
               /\ semas'[s].waiters = Cardinality(Waiters(s)')
    <2>1. semas[s] \in SemaRecords /\ semas[s].waiters = Cardinality(Waiters(s))
      BY DEF ObjectTypes, Counted
    <2>2. CASE s # key
      <3>1. semas'[s] = semas[s]
        BY <2>2 DEF DropWaiter, ObjectTypes
      <3>2. Waiters(s)' = Waiters(s)
        BY <1>1, <1>2, <2>2, WaiterOf
      <3> QED BY <2>1, <3>1, <3>2
    <2>3. CASE s = key
      <3>1. semas'[s] = [semas[s] EXCEPT !.waiters = @ - 1]
        BY <2>3 DEF DropWaiter, ObjectTypes
      <3>2. t \in Waiters(s) /\ IsFiniteSet(Waiters(s))
        BY <1>1, <2>3, KeyTypes, WaiterOf, WaitersFinite
      <3>3. /\ Cardinality(Waiters(s) \ {t}) = Cardinality(Waiters(s)) - 1
            /\ Cardinality(Waiters(s) \ {t}) \in Nat
        BY <3>2, FS_RemoveElement, FS_CardinalityType
      <3>4. Cardinality(Waiters(s)') = semas[s].waiters - 1
            /\ semas[s].waiters - 1 \in Nat
        BY <1>2, <2>1, <3>3
      <3> QED BY <2>1, <3>1, <3>4 DEF SemaRecords
    <2> QED BY <2>2, <2>3
  <1>4. ASSUME NEW f \in Flags
        PROVE  /\ flags'[f] \in FlagRecords
               /\ flags'[f].live = flags[f].live /\ flags'[f].bits = flags[f].bits
               /\ flags'[f].used = flags[f].used
               /\ DOMAIN flags'[f].requests = Waiters(f)'
               /\ \A u \in Waiters(f)' : flags'[f].requests[u] = flags[f].requests[u]
    <2>1. flags[f] \in FlagRecords /\ DOMAIN flags[f].requests = Waiters(f)
      BY DEF ObjectTypes, Counted
    <2>2. CASE f # key
      <3>1. flags'[f] = flags[f]
        BY <2>2 DEF DropWaiter, ObjectTypes
      <3>2. Waiters(f)' = Waiters(f)
        BY <1>1, <1>2, <2>2, WaiterOf
      <3> QED BY <2>1, <3>1, <3>2
    <2>3. CASE f = key
      <3>1. flags'[f] = [flags[f] EXCEPT !.requests = Without(@, t)]
        BY <2>3 DEF DropWaiter, ObjectTypes, Without
      <3>2. LET q == Without(flags[f].requests, t) IN
            /\ q \in UNION {[Q -> Requests] : Q \in SUBSET ThreadIds}
            /\ DOMAIN q = DOMAIN flags[f].requests \ {t}
            /\ \A u \in DOMAIN flags[f].requests \ {t} : q[u] = flags[f].requests[u]
        BY FlagWithout
      <3> QED BY <1>2, <2>1, <3>1, <3>2 DEF FlagRecords
    <2> QED BY <2>2, <2>3
  <1>5. semas' \in [Semas -> SemaRecords] /\ flags' \in [Flags -> FlagRecords]
    <2>1. DOMAIN semas' = Semas /\ semas' = [s \in Semas |-> semas'[s]]
      BY DEF DropWaiter, ObjectTypes
    <2>2. DOMAIN flags' = Flags /\ flags' = [f \in Flags |-> flags'[f]]
      BY DEF DropWaiter, ObjectTypes
    <2> QED BY <1>3, <1>4, <2>1, <2>2
  <1>6. ObjectTypes'
    BY <1>4, <1>5 DEF ObjectTypes
  <1>7. Counted'
    BY <1>3, <1>4 DEF Counted
  <1> QED BY <1>2, <1>3, <1>4, <1>6, <1>7

\* Nobody is stranded by a thread that leaves its wait.
LEMMA LostObjects ==
    ASSUME SP!IInv, Objects, draining = NoDrain, UNCHANGED draining, NEW t, NEW r,
           SP!Becomes(t, r), ~ Waits(r), DropWaiter(t, threads[t].wait)
    PROVE  Objects'
  <1>1. /\ ObjectTypes' /\ Counted'
        /\ \A w : Waiters(w)' = Waiters(w) \ {t}
        /\ \A s \in Semas : /\ semas'[s].live = semas[s].live
                            /\ semas'[s].count = semas[s].count
        /\ \A f \in Flags : /\ flags'[f].live = flags[f].live
                            /\ flags'[f].bits = flags[f].bits
                            /\ \A u \in Waiters(f)' :
                                 flags'[f].requests[u] = flags[f].requests[u]
    BY LostCounted DEF Objects
  <1>2. DrainOK'
    BY DEF DrainOK
  <1>3. NotStranded'
    BY <1>1 DEF Objects, NotStranded, Pending
  <1> QED BY <1>1, <1>2, <1>3 DEF Objects

-----------------------------------------------------------------------------
(* The closures that find the two pictures in agreement keep them so.       *)

Whole == SP!IInv /\ Data /\ AllMatch

LEMMA WholeStutter ==
    ASSUME Whole, UNCHANGED <<schedulerVars, infos, tails, objects, draining, ids>>
    PROVE  Whole'
  <1>1. SP!IInv' /\ SP!NothingSeen
    BY SchedulerStutter DEF Whole
  <1>2. Types' /\ NewIds' /\ AllMatch'
    BY <1>1, MatchesSame DEF Whole, Data
  <1>3. Objects'
    BY <1>1, WaitersSame, ObjectsKept DEF Whole, Data
  <1> QED BY <1>1, <1>2, <1>3 DEF Whole, Data

\* The thread of a call, in both pictures.
LEMMA WholeThread ==
    ASSUME Whole, NEW t \in DOMAIN threads
    PROVE  /\ t \in DOMAIN infos /\ t \in ThreadIds /\ tails[t] \in Tails
           /\ GuestOK(infos[t]) /\ RecordOK(threads[t])
           /\ Match(threads[t], infos[t], tails[t])
           /\ infos[t].priority = threads[t].priority
           /\ infos[t].priority \in 0 .. LowestPriority
           /\ infos[t].suspends \in Nat /\ infos[t].wakeups \in Nat
           /\ [tails EXCEPT ![t] = tails[t]] = tails
           /\ [infos EXCEPT ![t] = infos[t]] = infos
  <1>1. t \in DOMAIN infos /\ t \in ThreadIds /\ tails[t] \in Tails
    BY ThreadType DEF Whole, Data, Types, AllMatch
  <1>2. GuestOK(infos[t]) /\ RecordOK(threads[t])
    BY <1>1, ThreadType DEF Whole, Data, Types, RecordOK
  <1>3. Match(threads[t], infos[t], tails[t]) /\ infos[t].priority = threads[t].priority
    BY DEF Whole, AllMatch
  <1>4. /\ infos[t].priority \in 0 .. LowestPriority
        /\ infos[t].suspends \in Nat /\ infos[t].wakeups \in Nat
    BY <1>2 DEF GuestOK, GuestStates
  <1>5. /\ [tails EXCEPT ![t] = tails[t]] = tails
        /\ [infos EXCEPT ![t] = infos[t]] = infos
    BY <1>1 DEF Whole, Data, Types
  <1> QED BY <1>1, <1>2, <1>3, <1>4, <1>5

\* A step of one thread that keeps its wait.
LEMMA WholeKept ==
    ASSUME Whole, UNCHANGED <<ids, objects, draining>>, SP!IInv',
           NEW t \in DOMAIN threads, NEW r, NEW g, NEW tl \in Tails,
           SP!Becomes(t, r), GuestOK(g), Match(r, g, tl), g.priority = r.priority,
           Waits(r) <=> Waits(threads[t]), Waits(r) => r.wait = threads[t].wait,
           infos' = [infos EXCEPT ![t] = g], tails' = [tails EXCEPT ![t] = tl]
    PROVE  Whole'
  <1>1. Types' /\ NewIds' /\ AllMatch'
    BY MatchesFrame DEF Whole, Data
  <1>2. Objects'
    BY WaitersKept, ObjectsKept DEF Whole, Data
  <1> QED BY <1>1, <1>2 DEF Whole, Data

\* A step of one thread that ends its wait, if it has one.
LEMMA WholeLost ==
    ASSUME Whole, UNCHANGED <<ids, draining>>, draining = NoDrain, SP!IInv',
           NEW t \in DOMAIN threads, NEW r, NEW g, NEW tl \in Tails,
           SP!Becomes(t, r), GuestOK(g), Match(r, g, tl), g.priority = r.priority,
           ~ Waits(r), DropWaiter(t, threads[t].wait),
           infos' = [infos EXCEPT ![t] = g], tails' = [tails EXCEPT ![t] = tl]
    PROVE  Whole'
  <1>1. Types' /\ NewIds' /\ AllMatch'
    BY MatchesFrame DEF Whole, Data
  <1>2. Objects'
    BY LostObjects DEF Whole, Data
  <1> QED BY <1>1, <1>2 DEF Whole, Data

LEMMA CloseTerminate ==
    ASSUME Whole, UNCHANGED ids, draining = NoDrain, NEW t \in ThreadIds,
           TerminateThread(t)
    PROVE  Whole'
  <1>1. CASE ~ Active(t)
    BY <1>1, WholeStutter DEF TerminateThread
  <1>2. CASE Active(t)
    <2> DEFINE r == SP!DormantRecord(threads[t].generation, threads[t].priority)
               g == DormantGuest(infos[t].priority)
    <2>1. /\ SP!IInv' /\ SP!Becomes(t, r)
          /\ UNCHANGED draining /\ DropWaiter(t, threads[t].wait)
          /\ infos' = [infos EXCEPT ![t] = g] /\ tails' = [tails EXCEPT ![t] = NoTail]
          /\ t \in DOMAIN threads
      <3>1. /\ Sched!TerminateThread(Handle(t))
            /\ UNCHANGED draining /\ DropWaiter(t, threads[t].wait)
            /\ infos' = [infos EXCEPT ![t] = DormantGuest(@.priority)]
            /\ tails' = [tails EXCEPT ![t] = NoTail]
        BY <1>2 DEF TerminateThread
      <3> QED BY <1>2, <3>1, DoTerminate DEF Whole, Active, Known
    <2>2. GuestOK(g) /\ Match(r, g, NoTail)
      BY <2>1, WholeThread, MatchDormant DEF NoTail
    <2>3. ~ Waits(r) /\ g.priority = r.priority
      BY <2>1, WholeThread DEF Waits, SP!DormantRecord, SP!FreshRecord, DormantGuest
    <2>4. NoTail \in Tails
      BY DEF NoTail, Tails
    <2> HIDE DEF r, g
    <2> QED BY <2>1, <2>2, <2>3, <2>4, WholeLost
  <1> QED BY <1>1, <1>2

LEMMA CloseRelease ==
    ASSUME Whole, UNCHANGED ids, draining = NoDrain, NEW t \in ThreadIds,
           ReleaseWaitThread(t)
    PROVE  Whole'
  <1>1. CASE ~ (Known(t) /\ Blocked(t))
    BY <1>1, WholeStutter DEF ReleaseWaitThread
  <1>2. CASE Known(t) /\ Blocked(t)
    <2> DEFINE r == SP!LeftRecord(threads[t], "Released")
               g == ReleasedGuest(infos[t], "Released", FALSE)
    <2>1. /\ SP!IInv' /\ SP!Becomes(t, r) /\ Waits(threads[t])
          /\ UNCHANGED draining /\ DropWaiter(t, threads[t].wait)
          /\ infos' = [infos EXCEPT ![t] = g] /\ tails' = tails
          /\ t \in DOMAIN threads
      <3>1. /\ Sched!ReleaseWaitThread(Handle(t), "Released", FALSE)
            /\ UNCHANGED draining /\ DropWaiter(t, threads[t].wait)
            /\ infos' = [infos EXCEPT ![t] = ReleasedGuest(@, "Released", FALSE)]
            /\ tails' = tails
        BY <1>2 DEF ReleaseWaitThread, Resolve
      <3>2. "Released" \in WaitCompletions
        BY DEF WaitCompletions
      <3> QED BY <1>2, <3>1, <3>2, DoRelease DEF Whole, Known, Blocked, Waits
    <2>2. GuestOK(g) /\ Match(r, g, tails[t])
      BY <2>1, WholeThread, MatchReleased DEF WaitCompletions
    <2>3. ~ Waits(r) /\ g.priority = r.priority
      BY <2>1, WholeThread DEF Waits, SP!LeftRecord, ReleasedGuest, RecordOK, SP!ThreadRecords,
            GuestOK, GuestStates
    <2> HIDE DEF r, g
    <2>4. tails' = [tails EXCEPT ![t] = tails[t]] /\ tails[t] \in Tails
      BY <2>1, WholeThread
    <2> QED BY <2>1, <2>2, <2>3, <2>4, WholeLost
  <1> QED BY <1>1, <1>2

LEMMA CloseSuspend ==
    ASSUME Whole, UNCHANGED ids, NEW t \in ThreadIds, SuspendThread(t),
           t = prior /\ phase # "Interrupts" => tails[t].kind # "Blocked"
    PROVE  Whole'
  <1> DEFINE tl == IF t = prior /\ phase # "Interrupts" THEN SuspendTail ELSE tails[t]
  <1>1. /\ tails' = [tails EXCEPT ![t] = tl] /\ tl \in Tails
        /\ tl = tails[t] \/ (tl.kind # "Blocked" /\ tails[t].kind # "Blocked")
    <2>1. tails \in [ThreadIds -> Tails]
      BY DEF Whole, Data, Types
    <2>2. SuspendTail \in Tails /\ SuspendTail.kind # "Blocked"
      BY DEF SuspendTail, Tails
    <2> QED BY <2>1, <2>2 DEF SuspendThread
  <1> HIDE DEF tl
  <1>2. CASE ~ Active(t)
    <2>1. UNCHANGED <<schedulerVars, infos, objects, draining>>
      BY <1>2 DEF SuspendThread
    <2>2. SP!IInv' /\ SP!NothingSeen
      BY <2>1, SchedulerStutter DEF Whole
    <2>3. Objects'
      BY <2>1, <2>2, WaitersSame, ObjectsKept DEF Whole, Data
    <2>4. CASE t \in DOMAIN threads
      <3>1. SP!Becomes(t, threads[t])
        BY <2>2, <2>4 DEF SP!NothingSeen, SP!Becomes
      <3>2. GuestOK(infos[t]) /\ Match(threads[t], infos[t], tails[t])
            /\ infos[t].priority = threads[t].priority
            /\ [infos EXCEPT ![t] = infos[t]] = infos
        BY <2>4, WholeThread
      <3>3. Match(threads[t], infos[t], tl)
        BY <1>1, <3>2, MatchTail
      <3>4. infos' = [infos EXCEPT ![t] = infos[t]]
        BY <2>1, <3>2
      <3> QED BY <1>1, <2>1, <2>2, <2>4, <3>1, <3>2, <3>3, <3>4, WholeKept
    <2>5. CASE t \notin DOMAIN threads
      <3>1. tails' \in [ThreadIds -> Tails]
            /\ \A u \in ThreadIds \ {t} : tails'[u] = tails[u]
            /\ tails'[t] = tl
        BY <1>1 DEF Whole, Data, Types
      <3>2. threads' = threads /\ infos' = infos
        BY <2>1 DEF schedulerVars
      <3>3. Types'
        BY <3>1, <3>2 DEF Whole, Data, Types
      <3>4. NewIds'
        BY <1>1, <3>1, <3>2 DEF Whole, Data, NewIds, ids
      <3>5. AllMatch'
        <4>1. \A u \in DOMAIN threads : tails'[u] = tails[u]
          BY <2>5, <3>1, WholeThread
        <4> QED BY <3>2, <4>1 DEF Whole, AllMatch
      <3> QED BY <2>2, <2>3, <3>3, <3>4, <3>5 DEF Whole, Data
    <2> QED BY <2>4, <2>5
  <1>3. CASE Active(t)
    <2> DEFINE r == [threads[t] EXCEPT
                       !.state = IF @ \in SP!Blocked THEN "WaitSuspended" ELSE "Suspended",
                       !.suspendCount = @ + 1]
               g == SuspendedGuest(infos[t])
    <2>1. /\ SP!IInv' /\ SP!Becomes(t, r) /\ threads[t].suspendCount # MaxCount
          /\ UNCHANGED <<objects, draining>>
          /\ infos' = [infos EXCEPT ![t] = g]
          /\ t \in DOMAIN threads /\ threads[t].state # "Dormant"
      <3>1. /\ Sched!SuspendThread(Handle(t))
            /\ UNCHANGED <<objects, draining>>
            /\ infos' = [infos EXCEPT ![t] = SuspendedGuest(@)]
        BY <1>3 DEF SuspendThread
      <3> QED BY <1>3, <3>1, DoSuspend DEF Whole, Active, Known
    <2>2. /\ GuestOK(infos[t]) /\ RecordOK(threads[t])
          /\ Match(threads[t], infos[t], tails[t])
          /\ infos[t].priority = threads[t].priority
      BY <2>1, WholeThread
    <2>3. Match(threads[t], infos[t], tl)
      BY <1>1, <2>2, MatchTail
    <2>4. GuestOK(g) /\ Match(r, g, tl)
      BY <2>1, <2>2, <2>3, MatchSuspended
    <2>5. /\ g.priority = r.priority /\ r.wait = threads[t].wait
          /\ Waits(r) <=> Waits(threads[t])
      BY <2>2 DEF Waits, SuspendedGuest, RecordOK, SP!ThreadRecords, GuestOK, GuestStates, SP!Blocked
    <2> HIDE DEF r, g
    <2> QED BY <1>1, <2>1, <2>4, <2>5, WholeKept
  <1> QED BY <1>2, <1>3

LEMMA CloseResume ==
    ASSUME Whole, UNCHANGED ids, NEW t \in ThreadIds, ResumeThread(t)
    PROVE  Whole'
  <1>1. CASE ~ (Active(t) /\ threads[t].suspendCount # 0)
    BY <1>1, WholeStutter DEF ResumeThread
  <1>2. CASE Active(t) /\ threads[t].suspendCount # 0
    <2> DEFINE r == [threads[t] EXCEPT
                       !.state = IF threads[t].suspendCount # 1 THEN @
                                 ELSE IF @ \in SP!Blocked THEN "Waiting" ELSE "Ready",
                       !.suspendCount = @ - 1]
               g == ResumedGuest(infos[t])
    <2>1. /\ SP!IInv' /\ SP!Becomes(t, r)
          /\ UNCHANGED <<objects, draining, tails>>
          /\ infos' = [infos EXCEPT ![t] = g]
          /\ t \in DOMAIN threads /\ threads[t].state # "Dormant"
      <3>1. /\ Sched!ResumeThread(Handle(t))
            /\ UNCHANGED <<objects, draining, tails>>
            /\ infos' = [infos EXCEPT ![t] = ResumedGuest(@)]
        BY <1>2 DEF ResumeThread
      <3> QED BY <1>2, <3>1, DoResume DEF Whole, Active, Known
    <2>2. /\ GuestOK(infos[t]) /\ RecordOK(threads[t]) /\ tails[t] \in Tails
          /\ Match(threads[t], infos[t], tails[t])
          /\ infos[t].priority = threads[t].priority
          /\ tails' = [tails EXCEPT ![t] = tails[t]]
      BY <2>1, WholeThread
    <2>3. GuestOK(g) /\ Match(r, g, tails[t])
      BY <1>2, <2>1, <2>2, MatchResumed
    <2>4. /\ g.priority = r.priority /\ r.wait = threads[t].wait
          /\ Waits(r) <=> Waits(threads[t])
      BY <2>2 DEF Waits, ResumedGuest, RecordOK, SP!ThreadRecords, GuestOK, GuestStates, SP!Blocked
    <2> HIDE DEF r, g
    <2> QED BY <2>1, <2>2, <2>3, <2>4, WholeKept
  <1> QED BY <1>1, <1>2

LEMMA CloseWakeup ==
    ASSUME Whole, UNCHANGED ids, draining = NoDrain, NEW t \in ThreadIds,
           WakeupThread(t)
    PROVE  Whole'
  <1>1. CASE ~ Active(t) \/ (threads[t].wait # SleepKey /\ threads[t].wakeupCount = MaxCount)
    BY <1>1, WholeStutter DEF WakeupThread
  <1>2. CASE ~ (~ Active(t) \/ (threads[t].wait # SleepKey /\ threads[t].wakeupCount = MaxCount))
    <2>1. /\ Sched!WakeThread(Handle(t))
          /\ UNCHANGED <<tails, objects, draining>>
          /\ IF threads[t].wait = SleepKey
             THEN infos' = [infos EXCEPT ![t] =
                              ReleasedGuest(@, "Satisfied", FALSE)]
             ELSE infos' = [infos EXCEPT ![t].wakeups = @ + 1]
          /\ t \in DOMAIN threads /\ threads[t].state # "Dormant"
      BY <1>2 DEF WakeupThread, Active, Known
    <2>2. /\ GuestOK(infos[t]) /\ RecordOK(threads[t]) /\ tails[t] \in Tails
          /\ Match(threads[t], infos[t], tails[t])
          /\ infos[t].priority = threads[t].priority
          /\ tails' = [tails EXCEPT ![t] = tails[t]]
      BY <2>1, WholeThread
    <2>3. CASE threads[t].wait = SleepKey
      <3> DEFINE r == SP!LeftRecord(threads[t], "Satisfied")
                 g == ReleasedGuest(infos[t], "Satisfied", FALSE)
      <3>1. SP!IInv' /\ SP!Becomes(t, r) /\ Waits(threads[t])
        BY <2>1, <2>3, DoWake DEF Whole, Blocked, Waits
      <3>2. GuestOK(g) /\ Match(r, g, tails[t])
        BY <2>2, <3>1, MatchReleased DEF WaitCompletions
      <3>3. ~ Waits(r) /\ g.priority = r.priority
        BY <2>2 DEF Waits, SP!LeftRecord, ReleasedGuest, RecordOK, SP!ThreadRecords,
              GuestOK, GuestStates
      <3>4. infos' = [infos EXCEPT ![t] = g]
        BY <2>1, <2>3
      <3>5. DropWaiter(t, threads[t].wait)
        BY <2>1, <2>3, KeyTypes DEF DropWaiter, objects
      <3> HIDE DEF r, g
      <3> QED BY <2>1, <2>2, <3>1, <3>2, <3>3, <3>4, <3>5, WholeLost
    <2>4. CASE threads[t].wait # SleepKey
      <3> DEFINE n == threads[t].wakeupCount + 1
                 r == [threads[t] EXCEPT !.wakeupCount = n]
                 g == [infos[t] EXCEPT !.wakeups = n]
      <3>1. SP!IInv' /\ SP!Becomes(t, r) /\ threads[t].wakeupCount # MaxCount
        BY <2>1, <2>4, DoWake DEF Whole
      <3>2. n \in 0 .. MaxCount
        BY <2>2, <3>1, KernelConstants DEF RecordOK, SP!ThreadRecords, KernelConstants
      <3>3. infos' = [infos EXCEPT ![t] = g]
        <4>1. infos[t].wakeups = threads[t].wakeupCount
          BY <2>2 DEF Match
        <4> QED BY <2>1, <2>4, <4>1
      <3>4. r.priority = threads[t].priority /\ g.priority = infos[t].priority
            /\ r.wait = threads[t].wait /\ (Waits(r) <=> Waits(threads[t]))
        BY <2>2 DEF Waits, RecordOK, SP!ThreadRecords, GuestOK, GuestStates
      <3> HIDE DEF n
      <3>5. GuestOK(g) /\ Match(r, g, tails[t])
        BY <2>1, <2>2, <3>2, MatchWakeups
      <3> HIDE DEF r, g
      <3> QED BY <2>1, <2>2, <3>1, <3>3, <3>4, <3>5, WholeKept
    <2> QED BY <2>3, <2>4
  <1> QED BY <1>1, <1>2

LEMMA CloseCancel ==
    ASSUME Whole, UNCHANGED ids, NEW t \in ThreadIds, CancelWakeupThread(t)
    PROVE  Whole'
  <1>1. CASE ~ Known(t)
    BY <1>1, WholeStutter DEF CancelWakeupThread
  <1>2. CASE Known(t)
    <2> DEFINE r == [threads[t] EXCEPT !.wakeupCount = 0]
               g == [infos[t] EXCEPT !.wakeups = 0]
    <2>1. /\ SP!IInv' /\ SP!Becomes(t, r)
          /\ UNCHANGED <<objects, draining, tails>>
          /\ infos' = [infos EXCEPT ![t] = g]
          /\ t \in DOMAIN threads
      <3>1. /\ Sched!CancelWakeups(Handle(t))
            /\ UNCHANGED <<objects, draining, tails>>
            /\ infos' = [infos EXCEPT ![t].wakeups = 0]
        BY <1>2 DEF CancelWakeupThread
      <3> QED BY <1>2, <3>1, DoCancel DEF Whole, Known
    <2>2. /\ GuestOK(infos[t]) /\ RecordOK(threads[t]) /\ tails[t] \in Tails
          /\ Match(threads[t], infos[t], tails[t])
          /\ infos[t].priority = threads[t].priority
          /\ tails' = [tails EXCEPT ![t] = tails[t]]
      BY <2>1, WholeThread
    <2>3. GuestOK(g) /\ Match(r, g, tails[t])
      <3>1. 0 \in 0 .. MaxCount
        BY KernelConstants DEF KernelConstants
      <3> QED BY <2>2, <3>1, MatchWakeups
    <2>4. /\ g.priority = r.priority /\ r.wait = threads[t].wait
          /\ Waits(r) <=> Waits(threads[t])
      BY <2>2 DEF Waits, RecordOK, SP!ThreadRecords, GuestOK, GuestStates
    <2> HIDE DEF r, g
    <2> QED BY <2>1, <2>2, <2>3, <2>4, WholeKept
  <1> QED BY <1>1, <1>2

LEMMA ClosePriority ==
    ASSUME Whole, UNCHANGED ids, NEW t \in ThreadIds, NEW level \in 0 .. LowestPriority,
           ChangeThreadPriority(t, level)
    PROVE  Whole'
  <1>1. CASE ~ Active(t)
    BY <1>1, WholeStutter DEF ChangeThreadPriority
  <1>2. CASE Active(t)
    <2> DEFINE r == [threads[t] EXCEPT !.priority = level]
               g == [infos[t] EXCEPT !.priority = level]
    <2>1. /\ SP!IInv' /\ SP!Becomes(t, r)
          /\ UNCHANGED <<objects, draining, tails>>
          /\ infos' = [infos EXCEPT ![t] = g]
          /\ t \in DOMAIN threads
      <3>1. /\ MovePriority(t, level)
            /\ UNCHANGED <<objects, draining, tails>>
            /\ infos' = [infos EXCEPT ![t].priority = level]
        BY <1>2 DEF ChangeThreadPriority
      <3> QED BY <1>2, <3>1, DoMove DEF Whole, Active, Known
    <2>2. /\ GuestOK(infos[t]) /\ RecordOK(threads[t]) /\ tails[t] \in Tails
          /\ Match(threads[t], infos[t], tails[t])
          /\ tails' = [tails EXCEPT ![t] = tails[t]]
      BY <2>1, WholeThread
    <2>3. GuestOK(g) /\ Match(r, g, tails[t])
      BY <2>2, MatchPriority
    <2>4. /\ g.priority = r.priority /\ r.wait = threads[t].wait
          /\ Waits(r) <=> Waits(threads[t])
      BY <2>2 DEF Waits, RecordOK, SP!ThreadRecords, GuestOK, GuestStates
    <2> HIDE DEF r, g
    <2> QED BY <2>1, <2>2, <2>3, <2>4, WholeKept
  <1> QED BY <1>1, <1>2

LEMMA CloseRotate ==
    ASSUME Whole, UNCHANGED ids, NEW level \in 0 .. LowestPriority,
           RotateThreadReadyQueue(level)
    PROVE  Whole'
  <1>1. CASE UNCHANGED schedulerVars
    BY <1>1, WholeStutter DEF RotateThreadReadyQueue
  <1>2. CASE Sched!RotateReadyQueue(level)
    <2>1. SP!IInv' /\ SP!NothingSeen
      BY <1>2, DoRotate DEF Whole
    <2>2. UNCHANGED <<infos, tails, objects, draining>>
      BY DEF RotateThreadReadyQueue
    <2>3. Types' /\ NewIds' /\ AllMatch'
      BY <2>1, <2>2, MatchesSame DEF Whole, Data
    <2>4. Objects'
      BY <2>1, <2>2, WaitersSame, ObjectsKept DEF Whole, Data
    <2> QED BY <2>1, <2>3, <2>4 DEF Whole, Data
  <1> QED BY <1>1, <1>2 DEF RotateThreadReadyQueue

\* A semaphore or an event flag changes and its waiters stay.
LEMMA SemaChanged ==
    ASSUME Objects, draining = NoDrain, UNCHANGED <<flags, draining>>,
           \A w \in Semas \cup Flags : Waiters(w)' = Waiters(w),
           NEW s \in Semas, NEW q \in SemaRecords, q.waiters = semas[s].waiters,
           Waiters(s) # {} => q.live /\ q.count = 0,
           semas' = [semas EXCEPT ![s] = q]
    PROVE  Objects'
  <1>1. /\ semas' \in [Semas -> SemaRecords]
        /\ semas'[s] = q /\ \A u \in Semas \ {s} : semas'[u] = semas[u]
    BY DEF Objects, ObjectTypes
  <1>2. ObjectTypes'
    BY <1>1 DEF Objects, ObjectTypes
  <1>3. Counted'
    BY <1>1 DEF Objects, Counted
  <1>4. DrainOK' /\ \A v, t : ~ Pending(v, t) /\ ~ Pending(v, t)'
    BY DEF DrainOK, Pending
  <1>5. NotStranded'
    <2>1. ASSUME NEW u \in Semas, NEW t \in Waiters(u)'
          PROVE  semas'[u].live /\ semas'[u].count = 0
      BY <1>1, <1>4 DEF Objects, NotStranded
    <2>2. ASSUME NEW f \in Flags, NEW t \in Waiters(f)'
          PROVE  flags'[f].live /\ ~ Satisfied(flags'[f].bits, flags'[f].requests[t])
      BY <1>4 DEF Objects, NotStranded
    <2> QED BY <2>1, <2>2 DEF NotStranded
  <1> QED BY <1>2, <1>3, <1>4, <1>5 DEF Objects

LEMMA FlagChanged ==
    ASSUME Objects, draining = NoDrain, UNCHANGED <<semas, draining>>,
           NEW f \in Flags, NEW q \in FlagRecords, q.live => q.used,
           \A w \in (Semas \cup Flags) \ {f} : Waiters(w)' = Waiters(w),
           DOMAIN q.requests = Waiters(f)',
           \A t \in Waiters(f)' : q.live /\ ~ Satisfied(q.bits, q.requests[t]),
           flags' = [flags EXCEPT ![f] = q]
    PROVE  Objects'
  <1>1. /\ flags' \in [Flags -> FlagRecords]
        /\ flags'[f] = q /\ \A u \in Flags \ {f} : flags'[u] = flags[u]
    BY DEF Objects, ObjectTypes
  <1>2. ObjectTypes'
    BY <1>1 DEF Objects, ObjectTypes
  <1>3. Counted'
    BY <1>1, KeyTypes DEF Objects, Counted
  <1>4. DrainOK' /\ \A v, t : ~ Pending(v, t) /\ ~ Pending(v, t)'
    BY DEF DrainOK, Pending
  <1>5. NotStranded'
    <2>1. ASSUME NEW u \in Semas, NEW t \in Waiters(u)'
          PROVE  semas'[u].live /\ semas'[u].count = 0
      BY <1>4, KeyTypes DEF Objects, NotStranded
    <2>2. ASSUME NEW u \in Flags, NEW t \in Waiters(u)'
          PROVE  flags'[u].live /\ ~ Satisfied(flags'[u].bits, flags'[u].requests[t])
      BY <1>1, <1>4 DEF Objects, NotStranded
    <2> QED BY <2>1, <2>2 DEF NotStranded
  <1> QED BY <1>2, <1>3, <1>4, <1>5 DEF Objects

\* A closure's loop starts with every waiter still to look at.
LEMMA DrainStarted ==
    ASSUME SP!IInv, UNCHANGED schedulerVars, NEW key \in Semas \cup Flags,
           NEW name \in {"SetEventFlag", "DeleteSema", "DeleteEventFlag"},
           name = "DeleteSema" => key \in Semas,
           name # "DeleteSema" => key \in Flags,
           name = "SetEventFlag" /\ Waiters(key) # {} => flags'[key].live,
           StartDrain(name, key)
    PROVE  DrainOK' /\ \A t \in Waiters(key) : Pending(key, t)'
  <1> DEFINE q == waitQueues[key]
  <1>1. key \in Keys
    BY KeyTypes
  <1>2. /\ q \in Seq(SP!Handles)
        /\ {q[i].id : i \in 1 .. Len(q)} = Waiters(key)
        /\ \A i, j \in 1 .. Len(q) : q[i].id = q[j].id => i = j
    BY <1>1, SchedulerConstants, SP!WaitersQueued DEF Waiters
  <1>3. Waiters(key)' = Waiters(key)
    BY DEF Waiters, schedulerVars, SP!WaitSet
  <1>4. q = <<>> <=> Waiters(key) = {}
    BY <1>1, WaitersFinite
  <1>5. CASE q = <<>>
    <2>1. draining' = NoDrain
      BY <1>5 DEF StartDrain
    <2> QED BY <1>4, <1>5, <2>1 DEF DrainOK
  <1>6. CASE q # <<>>
    <2> DEFINE rest == WaitOrder(key)
    <2>1. draining' = [call |-> name, on |-> key, rest |-> rest]
      BY <1>6 DEF StartDrain
    <2>2. /\ rest \in Seq(ThreadIds) /\ rest # <<>> /\ Len(rest) = Len(q)
          /\ \A i \in 1 .. Len(q) : rest[i] = q[i].id
      <3>1. DOMAIN q = 1 .. Len(q) /\ Len(q) \in Nat
        BY <1>2, LenProperties
      <3>2. \A i \in 1 .. Len(q) : q[i].id \in ThreadIds
        <4>1. \A i \in 1 .. Len(q) : q[i] \in SP!Handles
          BY <1>2, ElementOfSeq
        <4> QED BY <4>1 DEF SP!Handles
      <3>3. rest = [i \in 1 .. Len(q) |-> q[i].id]
        BY <3>1 DEF WaitOrder
      <3>4. Len(q) # 0
        BY <1>2, <1>6, EmptySeq
      <3>5. rest \in Seq(ThreadIds)
        BY <3>1, <3>2, <3>3
      <3>6. Len(rest) = Len(q)
        <4>1. DOMAIN rest = 1 .. Len(rest) /\ Len(rest) \in Nat
          BY <3>5, LenProperties
        <4>2. DOMAIN rest = 1 .. Len(q)
          BY <3>3
        <4> QED BY <3>1, <4>1, <4>2
      <3>7. rest # <<>>
        BY <3>4, <3>5, <3>6, EmptySeq
      <3> QED BY <3>3, <3>5, <3>6, <3>7
    <2> HIDE DEF rest, q
    <2>3. draining' \in DrainRecords /\ draining' # NoDrain
      BY <2>1, <2>2 DEF DrainRecords, NoDrain
    <2>4. /\ draining'.rest = rest /\ draining'.on = key /\ draining'.call = name
      BY <2>1
    <2>5. \A i, j \in 1 .. Len(rest) : rest[i] = rest[j] => i = j
      BY <1>2, <2>2
    <2>6. /\ \A i \in 1 .. Len(rest) : rest[i] \in Waiters(key)
          /\ \A t \in Waiters(key) : \E i \in 1 .. Len(rest) : rest[i] = t
      BY <1>2, <2>2
    <2>7. Waiters(key) # {}
      BY <1>4, <1>6
    <2>8. DrainOK'
      BY <1>3, <2>2, <2>3, <2>4, <2>5, <2>6, <2>7 DEF DrainOK
    <2>9. \A t \in Waiters(key) : Pending(key, t)'
      BY <2>3, <2>4, <2>6 DEF Pending
    <2> QED BY <2>8, <2>9
  <1> QED BY <1>5, <1>6

LEMMA CloseSignal ==
    ASSUME Whole, UNCHANGED ids, draining = NoDrain, NEW s \in Semas, SignalSema(s)
    PROVE  Whole'
  <1>0. s \in Keys /\ s \notin Flags
    BY KeyTypes
  <1>1. CASE ~ semas[s].live \/ semas[s].count >= MaxSema
    <2>1. UNCHANGED <<schedulerVars, infos, semas, tails, flags, draining>>
      BY <1>1 DEF SignalSema
    <2> QED BY <2>1, WholeStutter DEF objects
  <1>2. CASE ~ (~ semas[s].live \/ semas[s].count >= MaxSema) /\ waitQueues[s] = <<>>
    <2>1. /\ semas' = [semas EXCEPT ![s].count = @ + 1]
          /\ UNCHANGED <<schedulerVars, infos, tails, flags, draining>>
      BY <1>2 DEF SignalSema
    <2>2. SP!IInv' /\ SP!NothingSeen
      BY <2>1, SchedulerStutter DEF Whole
    <2>3. Types' /\ NewIds' /\ AllMatch'
      BY <2>1, <2>2, MatchesSame DEF Whole, Data
    <2> DEFINE q == [semas[s] EXCEPT !.count = @ + 1]
    <2>4. semas[s] \in SemaRecords /\ semas' = [semas EXCEPT ![s] = q]
      BY <2>1 DEF Whole, Data, Objects, ObjectTypes
    <2>5. q \in SemaRecords /\ q.waiters = semas[s].waiters
      BY <1>2, <2>4, KernelConstants DEF SemaRecords, KernelConstants
    <2>6. Waiters(s) = {}
      BY <1>0, <1>2, WaitersFinite DEF Whole
    <2>7. \A w : Waiters(w)' = Waiters(w)
      BY <2>2, WaitersSame
    <2> HIDE DEF q
    <2>8. Objects'
      BY <2>1, <2>4, <2>5, <2>6, <2>7, SemaChanged DEF Whole, Data
    <2> QED BY <2>2, <2>3, <2>8 DEF Whole, Data
  <1>3. CASE ~ (~ semas[s].live \/ semas[s].count >= MaxSema) /\ waitQueues[s] # <<>>
    <2> DEFINE t == Head(waitQueues[s]).id
               r == SP!LeftRecord(threads[t], "Satisfied")
               g == ReleasedGuest(infos[t], "Satisfied", FALSE)
    <2>1. /\ Sched!WakeOne(s)
          /\ infos' = [infos EXCEPT ![t] = g]
          /\ semas' = [semas EXCEPT ![s].waiters = @ - 1]
          /\ UNCHANGED <<tails, flags, draining>>
      BY <1>3 DEF SignalSema
    <2>2. /\ SP!IInv' /\ SP!Becomes(t, r) /\ Waits(threads[t])
          /\ threads[t].wait = s /\ t \in DOMAIN threads
      BY <1>0, <2>1, DoWakeOne DEF Whole, Blocked, Waits, SP!Becomes
    <2>3. DropWaiter(t, threads[t].wait)
      BY <1>0, <2>1, <2>2 DEF DropWaiter
    <2> HIDE DEF t
    <2>4. /\ GuestOK(infos[t]) /\ RecordOK(threads[t]) /\ tails[t] \in Tails
          /\ Match(threads[t], infos[t], tails[t])
          /\ infos[t].priority = threads[t].priority
          /\ tails' = [tails EXCEPT ![t] = tails[t]]
      BY <2>1, <2>2, WholeThread
    <2>5. GuestOK(g) /\ Match(r, g, tails[t])
      BY <2>2, <2>4, MatchReleased DEF WaitCompletions
    <2>6. ~ Waits(r) /\ g.priority = r.priority
      BY <2>4 DEF Waits, SP!LeftRecord, ReleasedGuest, RecordOK, SP!ThreadRecords,
            GuestOK, GuestStates
    <2> HIDE DEF r, g
    <2> QED BY <2>1, <2>2, <2>3, <2>4, <2>5, <2>6, WholeLost
  <1> QED BY <1>1, <1>2, <1>3

\* The caller of a blocking call, once it waits.
LEMMA BlockedCaller ==
    ASSUME Whole, UNCHANGED ids, prior \in DOMAIN threads, currentThreadId = prior,
           NEW key \in Keys, BlockOn(key)
    PROVE  /\ SP!IInv' /\ Types' /\ NewIds' /\ AllMatch'
           /\ prior \notin Waiters(key) /\ prior \in ThreadIds
           /\ \A w : Waiters(w)' = IF w = key THEN Waiters(w) \cup {prior} ELSE Waiters(w)
  <1> DEFINE t == prior
             r == SP!WaitingRecord(threads[t], key)
             g == BlockedGuest(infos[t], key)
  <1>1. /\ SP!IInv' /\ SP!Becomes(t, r) /\ threads[t].state = "Running"
        /\ infos' = [infos EXCEPT ![t] = g]
        /\ tails' = [tails EXCEPT ![t] = BlockedTail(key)]
    BY DoBlock DEF BlockOn, Whole
  <1>2. /\ GuestOK(infos[t]) /\ RecordOK(threads[t])
        /\ Match(threads[t], infos[t], tails[t])
        /\ infos[t].priority = threads[t].priority /\ t \in ThreadIds
    BY WholeThread
  <1>3. GuestOK(g) /\ Match(r, g, BlockedTail(key)) /\ BlockedTail(key) \in Tails
    BY <1>1, <1>2, MatchBlocked DEF BlockedTail, Tails
  <1>4. /\ g.priority = r.priority /\ Waits(r) /\ r.wait = key /\ ~ Waits(threads[t])
    BY <1>1, <1>2 DEF Waits, SP!WaitingRecord, BlockedGuest, RecordOK, SP!ThreadRecords,
            GuestOK, GuestStates
  <1> HIDE DEF r, g
  <1>5. Types' /\ NewIds' /\ AllMatch'
    BY <1>1, <1>3, <1>4, MatchesFrame DEF Whole, Data
  <1>6. \A w : Waiters(w)' = IF w = key THEN Waiters(w) \cup {t} ELSE Waiters(w)
    BY <1>1, <1>4, WaitersGained
  <1>7. t \notin Waiters(key)
    BY <1>4, WaitersOf
  <1> QED BY <1>1, <1>2, <1>5, <1>6, <1>7

\* The caller of a call that ends at once.
LEMMA GoneOn ==
    ASSUME Whole, UNCHANGED ids, prior \in DOMAIN threads, tails[prior].kind # "Blocked",
           UNCHANGED schedulerVars, GoOn([infos[prior] EXCEPT !.pending = "None"])
    PROVE  /\ SP!IInv' /\ Types' /\ NewIds' /\ AllMatch'
           /\ \A w : Waiters(w)' = Waiters(w)
  <1> DEFINE t == prior
             g == [infos[t] EXCEPT !.pending = "None"]
  <1>1. /\ infos' = [infos EXCEPT ![t] = g]
        /\ tails' = [tails EXCEPT ![t] = RunTail]
    BY DEF GoOn
  <1>2. /\ GuestOK(infos[t]) /\ RecordOK(threads[t])
        /\ Match(threads[t], infos[t], tails[t])
        /\ infos[t].priority = threads[t].priority
    BY WholeThread
  <1>3. RunTail \in Tails /\ RunTail.kind # "Blocked"
    BY DEF RunTail, Tails
  <1>4. GuestOK(g) /\ Match(threads[t], g, RunTail)
    BY <1>2, <1>3, MatchGoOn
  <1>5. g.priority = threads[t].priority
    BY <1>2 DEF GuestOK, GuestStates
  <1>6. SP!IInv' /\ SP!NothingSeen
    BY SchedulerStutter DEF Whole
  <1>7. SP!Becomes(t, threads[t])
    BY <1>6 DEF SP!NothingSeen, SP!Becomes
  <1> HIDE DEF g
  <1>8. Types' /\ NewIds' /\ AllMatch'
    BY <1>1, <1>3, <1>4, <1>5, <1>7, MatchesFrame DEF Whole, Data
  <1>9. \A w : Waiters(w)' = Waiters(w)
    BY <1>6, WaitersSame
  <1> QED BY <1>6, <1>8, <1>9

LEMMA CloseWaitSema ==
    ASSUME Whole, UNCHANGED ids, draining = NoDrain, NEW s \in Semas, WaitSema(s),
           prior \in DOMAIN threads, tails[prior].kind # "Blocked",
           semas[s].live /\ semas[s].count = 0 => currentThreadId = prior
    PROVE  Whole'
  <1>0. s \in Keys /\ s \notin Flags
    BY KeyTypes
  <1>1. /\ semas \in [Semas -> SemaRecords] /\ semas[s] \in SemaRecords
        /\ semas[s].waiters = Cardinality(Waiters(s))
    BY DEF Whole, Data, Objects, ObjectTypes, Counted
  <1>2. CASE semas[s].live /\ semas[s].count = 0
    <2>1. /\ BlockOn(s) /\ semas' = [semas EXCEPT ![s].waiters = @ + 1]
          /\ UNCHANGED <<flags, draining>>
      BY <1>2 DEF WaitSema
    <2>2. /\ SP!IInv' /\ Types' /\ NewIds' /\ AllMatch' /\ prior \notin Waiters(s)
          /\ \A w : Waiters(w)' = IF w = s THEN Waiters(w) \cup {prior} ELSE Waiters(w)
      BY <1>0, <1>2, <2>1, BlockedCaller
    <2> DEFINE n == semas[s].waiters + 1
               q == [semas[s] EXCEPT !.waiters = n]
    <2>3. Cardinality(Waiters(s)') = n /\ n \in Nat
      <3>1. IsFiniteSet(Waiters(s)) /\ Cardinality(Waiters(s)) \in Nat
        BY <1>0, WaitersFinite DEF Whole
      <3> QED BY <1>1, <2>2, <3>1, FS_AddElement
    <2>4. /\ semas' = [semas EXCEPT ![s] = q] /\ q \in SemaRecords
          /\ q.waiters = n /\ q.live = semas[s].live /\ q.count = 0
      BY <1>1, <1>2, <2>1, <2>3 DEF SemaRecords
    <2> HIDE DEF n, q
    <2>5. /\ semas' \in [Semas -> SemaRecords] /\ semas'[s] = q
          /\ \A u \in Semas \ {s} : semas'[u] = semas[u]
      BY <1>1, <2>4
    <2>6. ObjectTypes' /\ DrainOK'
      BY <2>1, <2>5 DEF Whole, Data, Objects, ObjectTypes, DrainOK
    <2>7. Counted'
      <3>1. \A u \in Semas : semas'[u].waiters = Cardinality(Waiters(u)')
        BY <2>2, <2>3, <2>4, <2>5 DEF Whole, Data, Objects, Counted
      <3>2. \A f \in Flags : DOMAIN flags'[f].requests = Waiters(f)'
        BY <1>0, <2>1, <2>2 DEF Whole, Data, Objects, Counted
      <3> QED BY <3>1, <3>2 DEF Counted
    <2>8. NotStranded'
      <3>1. \A v, t : ~ Pending(v, t) /\ ~ Pending(v, t)'
        BY <2>1 DEF Pending
      <3>2. ASSUME NEW u \in Semas, NEW t \in Waiters(u)'
            PROVE  semas'[u].live /\ semas'[u].count = 0
        BY <1>2, <2>2, <2>4, <2>5, <3>1 DEF Whole, Data, Objects, NotStranded
      <3>3. ASSUME NEW f \in Flags, NEW t \in Waiters(f)'
            PROVE  flags'[f].live /\ ~ Satisfied(flags'[f].bits, flags'[f].requests[t])
        BY <1>0, <2>1, <2>2, <3>1 DEF Whole, Data, Objects, NotStranded
      <3> QED BY <3>2, <3>3 DEF NotStranded
    <2> QED BY <2>2, <2>6, <2>7, <2>8 DEF Whole, Data, Objects
  <1>3. CASE ~ (semas[s].live /\ semas[s].count = 0)
    <2>1. /\ GoOn([infos[prior] EXCEPT !.pending = "None"])
          /\ semas' = [semas EXCEPT ![s].count = IF @ > 0 THEN @ - 1 ELSE @]
          /\ UNCHANGED <<schedulerVars, flags, draining>>
      BY <1>3 DEF WaitSema
    <2>2. /\ SP!IInv' /\ Types' /\ NewIds' /\ AllMatch'
          /\ \A w : Waiters(w)' = Waiters(w)
      BY <2>1, GoneOn
    <2> DEFINE q == [semas[s] EXCEPT !.count = IF @ > 0 THEN @ - 1 ELSE @]
    <2>3. semas' = [semas EXCEPT ![s] = q] /\ q \in SemaRecords
          /\ q.waiters = semas[s].waiters
      BY <1>1, <2>1, KernelConstants DEF SemaRecords, KernelConstants
    <2>4. Waiters(s) = {}
      <3>1. \A t : ~ Pending(s, t)
        BY DEF Pending
      <3> QED BY <1>3, <3>1 DEF Whole, Data, Objects, NotStranded
    <2> HIDE DEF q
    <2>5. Objects'
      BY <2>1, <2>2, <2>3, <2>4, SemaChanged DEF Whole, Data
    <2> QED BY <2>2, <2>5 DEF Whole, Data
  <1> QED BY <1>2, <1>3

LEMMA ClearedFewer ==
    ASSUME NEW bits \in SUBSET EventBits, NEW request \in Requests
    PROVE  /\ Cleared(bits, request) \in SUBSET EventBits
           /\ Cleared(bits, request) \subseteq bits
  <1>1. request.mode.clear \in {"None", "Bits", "All"}
    BY DEF Requests, WaitModes
  <1> QED BY <1>1 DEF Cleared

\* With fewer bits a request is not satisfied either.
LEMMA FewerBits ==
    ASSUME NEW bits, NEW fewer \in SUBSET bits, NEW request,
           ~ Satisfied(bits, request)
    PROVE  ~ Satisfied(fewer, request)
  BY DEF Satisfied

LEMMA CloseWaitFlag ==
    ASSUME Whole, UNCHANGED ids, draining = NoDrain, NEW f \in Flags,
           NEW bits \in SUBSET EventBits, NEW mode \in WaitModes,
           WaitEventFlag(f, bits, mode), flags[f].live,
           prior \in DOMAIN threads, tails[prior].kind # "Blocked",
           (flags[f].multi \/ DOMAIN flags[f].requests = {})
             /\ ~ Satisfied(flags[f].bits, [bits |-> bits, mode |-> mode])
               => currentThreadId = prior
    PROVE  Whole'
  <1> DEFINE request == [bits |-> bits, mode |-> mode]
             occupied == ~ flags[f].multi /\ DOMAIN flags[f].requests # {}
             satisfied == Satisfied(flags[f].bits, request)
  <1>0. f \in Keys /\ f \notin Semas /\ request \in Requests
    BY KeyTypes DEF Requests
  <1>1. /\ flags[f] \in FlagRecords /\ (flags[f].live => flags[f].used)
        /\ DOMAIN flags[f].requests = Waiters(f)
        /\ Waiters(f) \subseteq ThreadIds
        /\ flags[f].requests \in [Waiters(f) -> Requests]
        /\ flags[f].bits \in SUBSET EventBits
        /\ flags \in [Flags -> FlagRecords]
    <2>1. ObjectTypes /\ DOMAIN flags[f].requests = Waiters(f)
      BY DEF Whole, Data, Objects, Counted
    <2>2. /\ flags[f] \in FlagRecords /\ (flags[f].live => flags[f].used)
          /\ flags \in [Flags -> FlagRecords]
      BY <2>1 DEF ObjectTypes
    <2> QED BY <2>1, <2>2, RequestsType DEF FlagRecords
  <1>2. \A t : ~ Pending(f, t)
    BY DEF Pending
  <1>3. \A t \in Waiters(f) : ~ Satisfied(flags[f].bits, flags[f].requests[t])
    BY <1>2 DEF Whole, Data, Objects, NotStranded
  <1>4. CASE occupied \/ satisfied
    <2>1. /\ GoOn([infos[prior] EXCEPT !.pending = "None"])
          /\ flags' = IF occupied THEN flags
                      ELSE [flags EXCEPT ![f].bits = Cleared(@, request)]
          /\ UNCHANGED <<schedulerVars, semas, draining>>
      BY <1>4 DEF WaitEventFlag
    <2>2. /\ SP!IInv' /\ Types' /\ NewIds' /\ AllMatch'
          /\ \A w : Waiters(w)' = Waiters(w)
      BY <2>1, GoneOn
    <2>3. CASE occupied
      <3>1. Objects'
        BY <2>1, <2>2, <2>3, ObjectsKept DEF Whole, Data, objects
      <3> QED BY <2>2, <3>1 DEF Whole, Data
    <2>4. CASE ~ occupied
      <3> DEFINE b == Cleared(flags[f].bits, request)
                 q == [flags[f] EXCEPT !.bits = b]
      <3>1. b \in SUBSET EventBits /\ b \subseteq flags[f].bits
        BY <1>0, <1>1, ClearedFewer
      <3>2. flags' = [flags EXCEPT ![f] = q]
        BY <1>1, <2>1, <2>4
      <3>3. \A t \in Waiters(f) : ~ Satisfied(b, flags[f].requests[t])
        BY <1>3, <3>1, FewerBits
      <3> HIDE DEF b
      <3>4. /\ q \in FlagRecords /\ q.live /\ q.used /\ q.bits = b
            /\ q.requests = flags[f].requests
        BY <1>1, <3>1 DEF FlagRecords
      <3> HIDE DEF q
      <3>5. /\ DOMAIN q.requests = Waiters(f)'
            /\ \A t \in Waiters(f)' : q.live /\ ~ Satisfied(q.bits, q.requests[t])
            /\ q.live => q.used
        BY <1>1, <2>2, <3>3, <3>4
      <3>6. Objects'
        BY <2>1, <2>2, <3>2, <3>4, <3>5, FlagChanged DEF Whole, Data
      <3> QED BY <2>2, <3>6 DEF Whole, Data
    <2> QED BY <2>3, <2>4
  <1>5. CASE ~ (occupied \/ satisfied)
    <2>1. /\ BlockOn(f)
          /\ flags' = [flags EXCEPT ![f].requests =
                          [t \in DOMAIN @ \cup {prior} |->
                             IF t = prior THEN request ELSE @[t]]]
          /\ UNCHANGED <<semas, draining>>
      BY <1>5 DEF WaitEventFlag
    <2>2. /\ SP!IInv' /\ Types' /\ NewIds' /\ AllMatch' /\ prior \notin Waiters(f)
          /\ prior \in ThreadIds
          /\ \A w : Waiters(w)' = IF w = f THEN Waiters(w) \cup {prior} ELSE Waiters(w)
      BY <1>0, <1>5, <2>1, BlockedCaller
    <2> DEFINE requests == [t \in DOMAIN flags[f].requests \cup {prior} |->
                             IF t = prior THEN request ELSE flags[f].requests[t]]
               q == [flags[f] EXCEPT !.requests = requests]
    <2>3. flags' = [flags EXCEPT ![f] = q]
      BY <1>1, <2>1
    <2>4. /\ requests \in [Waiters(f) \cup {prior} -> Requests]
          /\ requests[prior] = request
          /\ \A t \in Waiters(f) : requests[t] = flags[f].requests[t]
      BY <1>0, <1>1, <2>2
    <2>5. requests \in UNION {[S -> Requests] : S \in SUBSET ThreadIds}
          /\ DOMAIN requests = Waiters(f) \cup {prior}
      BY <1>1, <2>2, <2>4
    <2> HIDE DEF requests
    <2>6. /\ q \in FlagRecords /\ q.live /\ q.used /\ q.bits = flags[f].bits
          /\ q.requests = requests
      BY <1>1, <2>5 DEF FlagRecords
    <2> HIDE DEF q
    <2>7. \A t \in Waiters(f)' : q.live /\ ~ Satisfied(q.bits, q.requests[t])
      BY <1>3, <1>5, <2>2, <2>4, <2>6
    <2>8. DOMAIN q.requests = Waiters(f)'
      BY <2>2, <2>5, <2>6
    <2>9. \A w \in (Semas \cup Flags) \ {f} : Waiters(w)' = Waiters(w)
      BY <2>2
    <2>10. Objects'
      BY <2>1, <2>3, <2>6, <2>7, <2>8, <2>9, FlagChanged DEF Whole, Data
    <2> QED BY <2>2, <2>10 DEF Whole, Data
  <1> QED BY <1>4, <1>5

\* A closure that starts a loop over the waiters of its object.
LEMMA DrainObjects ==
    ASSUME Whole, draining = NoDrain, UNCHANGED schedulerVars,
           NEW key \in Semas \cup Flags,
           NEW name \in {"SetEventFlag", "DeleteSema", "DeleteEventFlag"},
           name = "DeleteSema" => key \in Semas,
           name # "DeleteSema" => key \in Flags,
           name = "SetEventFlag" /\ Waiters(key) # {} => flags'[key].live,
           StartDrain(name, key), ObjectTypes', Counted',
           \A s \in Semas : s # key => semas'[s] = semas[s],
           \A f \in Flags : f # key => flags'[f] = flags[f]
    PROVE  Objects'
  <1>1. DrainOK' /\ \A t \in Waiters(key) : Pending(key, t)'
    BY DrainStarted DEF Whole
  <1>2. \A w : Waiters(w)' = Waiters(w)
    BY DEF Waiters, schedulerVars, SP!WaitSet
  <1>3. \A v, t : ~ Pending(v, t)
    BY DEF Pending
  <1>4. NotStranded'
    BY <1>1, <1>2, <1>3 DEF Whole, Data, Objects, NotStranded
  <1> QED BY <1>1, <1>4 DEF Objects

LEMMA CloseDeleteSema ==
    ASSUME Whole, UNCHANGED ids, draining = NoDrain, NEW s \in Semas, DeleteSema(s)
    PROVE  Whole'
  <1>1. /\ semas' = [semas EXCEPT ![s].live = FALSE, ![s].count = 0]
        /\ StartDrain("DeleteSema", s)
        /\ UNCHANGED <<schedulerVars, infos, tails, flags>>
    BY DEF DeleteSema, Idle
  <1>2. SP!IInv' /\ SP!NothingSeen
    BY <1>1, SchedulerStutter DEF Whole
  <1>3. Types' /\ NewIds' /\ AllMatch'
    BY <1>1, <1>2, MatchesSame DEF Whole, Data
  <1>4. \A w : Waiters(w)' = Waiters(w)
    BY <1>2, WaitersSame
  <1>5. ObjectTypes /\ Counted
    BY DEF Whole, Data, Objects
  <1> DEFINE q == [semas[s] EXCEPT !.live = FALSE, !.count = 0]
  <1>6. /\ semas' = [semas EXCEPT ![s] = q] /\ q \in SemaRecords
        /\ q.waiters = semas[s].waiters
    <2>1. semas[s] \in SemaRecords /\ semas \in [Semas -> SemaRecords]
      BY <1>5 DEF ObjectTypes
    <2>2. 0 \in 0 .. MaxSema
      BY KernelConstants DEF KernelConstants
    <2>3. q \in SemaRecords /\ q.waiters = semas[s].waiters
      BY <2>1, <2>2 DEF SemaRecords
    <2>4. semas' = [semas EXCEPT ![s] = q]
      BY <1>1, <2>1
    <2> QED BY <2>3, <2>4
  <1> HIDE DEF q
  <1>7. /\ semas' \in [Semas -> SemaRecords] /\ semas'[s] = q
        /\ \A u \in Semas \ {s} : semas'[u] = semas[u]
    BY <1>5, <1>6 DEF ObjectTypes
  <1>8. ObjectTypes' /\ Counted'
    BY <1>1, <1>4, <1>5, <1>6, <1>7 DEF ObjectTypes, Counted
  <1>9. Objects'
    BY <1>1, <1>7, <1>8, DrainObjects
  <1> QED BY <1>2, <1>3, <1>9 DEF Whole, Data

\* The two calls that change the flag itself and go through its waiters.
LEMMA FlagDrained ==
    ASSUME Whole, UNCHANGED ids, draining = NoDrain, NEW f \in Flags,
           NEW name \in {"SetEventFlag", "DeleteEventFlag"},
           NEW q \in FlagRecords, q.live => q.used, q.requests = flags[f].requests,
           name = "SetEventFlag" => q.live = flags[f].live,
           flags' = [flags EXCEPT ![f] = q], StartDrain(name, f),
           UNCHANGED <<schedulerVars, infos, tails, semas>>
    PROVE  Whole'
  <1>2. SP!IInv' /\ SP!NothingSeen
    BY SchedulerStutter DEF Whole
  <1>3. Types' /\ NewIds' /\ AllMatch'
    BY <1>2, MatchesSame DEF Whole, Data
  <1>4. \A w : Waiters(w)' = Waiters(w)
    BY <1>2, WaitersSame
  <1>5. ObjectTypes /\ Counted
    BY DEF Whole, Data, Objects
  <1>7. /\ flags' \in [Flags -> FlagRecords] /\ flags'[f] = q
        /\ \A u \in Flags \ {f} : flags'[u] = flags[u]
    BY <1>5 DEF ObjectTypes
  <1>8. ObjectTypes' /\ Counted'
    BY <1>4, <1>5, <1>7 DEF ObjectTypes, Counted
  <1>9. Waiters(f) # {} => flags[f].live
    BY DEF Whole, Data, Objects, NotStranded, Pending
  <1>10. Objects'
    BY <1>7, <1>8, <1>9, DrainObjects
  <1> QED BY <1>2, <1>3, <1>10 DEF Whole, Data

LEMMA CloseSetFlag ==
    ASSUME Whole, UNCHANGED ids, draining = NoDrain, NEW f \in Flags,
           NEW bits \in SUBSET EventBits, SetEventFlag(f, bits)
    PROVE  Whole'
  <1> DEFINE q == [flags[f] EXCEPT !.bits = @ \cup bits]
  <1>1. /\ flags[f] \in FlagRecords /\ (flags[f].live => flags[f].used)
        /\ flags \in [Flags -> FlagRecords]
    BY DEF Whole, Data, Objects, ObjectTypes
  <1>2. /\ flags' = [flags EXCEPT ![f] = q]
        /\ StartDrain("SetEventFlag", f)
        /\ UNCHANGED <<schedulerVars, infos, tails, semas>>
    BY <1>1 DEF SetEventFlag, Idle
  <1>3. /\ q \in FlagRecords /\ q.live = flags[f].live /\ q.used = flags[f].used
        /\ q.requests = flags[f].requests
    BY <1>1 DEF FlagRecords
  <1> HIDE DEF q
  <1> QED BY <1>1, <1>2, <1>3, FlagDrained

LEMMA CloseDeleteFlag ==
    ASSUME Whole, UNCHANGED ids, draining = NoDrain, NEW f \in Flags, DeleteEventFlag(f)
    PROVE  Whole'
  <1> DEFINE q == [flags[f] EXCEPT !.live = FALSE, !.bits = {}]
  <1>1. /\ flags[f] \in FlagRecords /\ flags \in [Flags -> FlagRecords]
    BY DEF Whole, Data, Objects, ObjectTypes
  <1>2. /\ flags' = [flags EXCEPT ![f] = q]
        /\ StartDrain("DeleteEventFlag", f)
        /\ UNCHANGED <<schedulerVars, infos, tails, semas>>
    BY <1>1 DEF DeleteEventFlag, Idle
  <1>3. q \in FlagRecords /\ ~ q.live /\ q.requests = flags[f].requests
    BY <1>1 DEF FlagRecords
  <1> HIDE DEF q
  <1> QED BY <1>1, <1>2, <1>3, FlagDrained

LEMMA CloseSleep ==
    ASSUME Whole, UNCHANGED ids, draining = NoDrain, SleepThread,
           prior \in DOMAIN threads, tails[prior].kind # "Blocked",
           currentThreadId = prior
    PROVE  Whole'
  <1>1. CASE threads[prior].wakeupCount # 0
    <2> DEFINE t == prior
               r == [threads[t] EXCEPT !.wakeupCount = @ - 1]
               g == [infos[t] EXCEPT !.wakeups = @ - 1, !.status = "Run", !.wait = NoWait]
    <2>1. /\ Sched!ConsumeWakeup
          /\ infos' = [infos EXCEPT ![t] = g]
          /\ tails' = [tails EXCEPT ![t] = RunTail]
          /\ UNCHANGED <<objects, draining>>
      BY <1>1 DEF SleepThread, GoOn
    <2>2. SP!IInv' /\ SP!Becomes(t, r) /\ threads[t].state = "Running"
      BY <2>1, DoConsumeWakeup DEF Whole
    <2>3. /\ GuestOK(infos[t]) /\ RecordOK(threads[t])
          /\ Match(threads[t], infos[t], tails[t])
          /\ infos[t].priority = threads[t].priority
      BY WholeThread
    <2>4. RunTail \in Tails /\ RunTail.kind # "Blocked"
      BY DEF RunTail, Tails
    <2>5. GuestOK(g) /\ Match(r, g, RunTail)
      BY <1>1, <2>2, <2>3, <2>4, MatchWoken
    <2>6. /\ g.priority = r.priority /\ r.wait = threads[t].wait
          /\ Waits(r) <=> Waits(threads[t])
      BY <2>3 DEF Waits, RecordOK, SP!ThreadRecords, GuestOK, GuestStates
    <2> HIDE DEF r, g
    <2> QED BY <2>1, <2>2, <2>4, <2>5, <2>6, WholeKept
  <1>2. CASE threads[prior].wakeupCount = 0
    <2>1. BlockOn(SleepKey) /\ UNCHANGED <<objects, draining>>
      BY <1>2 DEF SleepThread
    <2>2. /\ SP!IInv' /\ Types' /\ NewIds' /\ AllMatch'
          /\ \A w : w # SleepKey => Waiters(w)' = Waiters(w)
      BY <2>1, KeyTypes, BlockedCaller
    <2>3. Objects'
      BY <2>1, <2>2, KeyTypes, ObjectsKept DEF Whole, Data
    <2> QED BY <2>2, <2>3 DEF Whole, Data
  <1> QED BY <1>1, <1>2

\* A dormant thread that the mirror agrees on is not in the middle of a call.
LEMMA DormantIdle ==
    ASSUME NEW r, NEW g, NEW tl \in Tails, RecordOK(r), GuestOK(g), Match(r, g, tl),
           r.state = "Dormant"
    PROVE  tl.kind # "Blocked" /\ g.status = "Dormant" /\ g.linked = FALSE
  <1>1. g.status = "Dormant" /\ g.linked = FALSE
    BY DEF Match, Waits, GuestOK, GuestStates
  <1>2. r.completedWait = SP!NoCompletion
    BY DEF RecordOK, SP!RecordValid
  <1>3. tl.kind = "Blocked" => tl.on \in Keys /\ tl.on # NoWait
    BY KeyTypes DEF Tails
  <1>4. SP!NoCompletion.wait = NoWait
    BY DEF SP!NoCompletion
  <1> QED BY <1>1, <1>2, <1>3, <1>4 DEF Match

LEMMA CloseDelete ==
    ASSUME Whole, UNCHANGED ids, NEW t \in ThreadIds, DeleteThread(t),
           prior \in ThreadIds, tails[prior].kind # "Blocked"
    PROVE  Whole'
  <1>1. CASE ~ (Known(t) /\ ~ Active(t))
    BY <1>1, WholeStutter DEF DeleteThread
  <1>2. CASE Known(t) /\ ~ Active(t)
    <2>1. /\ Sched!DeleteThread(Handle(t))
          /\ tails' = [tails EXCEPT ![prior] = DeleteTail(t)]
          /\ UNCHANGED <<infos, objects, draining>>
      BY <1>2 DEF DeleteThread
    <2>2. /\ SP!IInv' /\ threads[t].state = "Dormant" /\ t \in DOMAIN threads
          /\ threads' = [u \in DOMAIN threads \ {t} |-> threads[u]]
      BY <2>1, DoDelete DEF Whole
    <2>3. DeleteTail(t) \in Tails /\ DeleteTail(t).kind # "Blocked"
      BY DEF DeleteTail, Tails
    <2>4. /\ tails' \in [ThreadIds -> Tails] /\ tails'[prior] = DeleteTail(t)
          /\ \A u \in ThreadIds \ {prior} : tails'[u] = tails[u]
      BY <2>1, <2>3 DEF Whole, Data, Types
    <2>5. Types'
      <3>1. Types /\ infos' = infos
        BY <2>1 DEF Whole, Data
      <3> QED BY <2>4, <3>1 DEF Types
    <2>6. tails[t].kind # "Blocked" /\ infos[t].status = "Dormant"
      BY <2>2, WholeThread, DormantIdle, ZenonT(60)
    <2>7. NewIds'
      BY <2>1, <2>2, <2>3, <2>4, <2>6 DEF Whole, Data, NewIds, ids
    <2>8. AllMatch'
      <3>1. ASSUME NEW u \in DOMAIN threads'
            PROVE  /\ u \in DOMAIN infos'
                   /\ Match(threads'[u], infos'[u], tails'[u])
                   /\ infos'[u].priority = threads'[u].priority
        <4>1. u \in DOMAIN threads /\ threads'[u] = threads[u] /\ infos' = infos
          BY <2>1, <2>2
        <4>2. /\ u \in DOMAIN infos /\ u \in ThreadIds
              /\ Match(threads[u], infos[u], tails[u])
              /\ infos[u].priority = threads[u].priority
          BY <4>1, WholeThread
        <4> QED BY <2>3, <2>4, <4>1, <4>2, MatchTail
      <3>2. \A u \in DOMAIN infos' \ DOMAIN threads' : infos'[u].status = "Dormant"
        BY <2>1, <2>2, <2>6 DEF Whole, AllMatch
      <3> QED BY <3>1, <3>2 DEF AllMatch
    <2>9. \A w : Waiters(w)' = Waiters(w)
      <3>1. ~ Waits(threads[t])
        BY <2>2 DEF Waits
      <3>2. \A w, u : u \in Waiters(w)' <=> u \in Waiters(w)
        BY <2>2, <3>1, WaitersOf, ZenonT(60)
      <3> QED BY <3>2
    <2>10. Objects'
      BY <2>1, <2>9, ObjectsKept DEF Whole, Data
    <2> QED BY <2>2, <2>5, <2>7, <2>8, <2>10 DEF Whole, Data
  <1> QED BY <1>1, <1>2

-----------------------------------------------------------------------------
(* Calls.                                                                   *)

ThreadCalls ==
    {"CreateThread", "InitThread", "StartThread", "DeleteThread",
     "ExitDeleteThread", "TerminateThread", "SuspendThread", "ResumeThread",
     "WakeupThread", "CancelWakeupThread", "ChangeThreadPriority",
     "ReleaseWaitThread"}
SemaCalls == {"SignalSema", "WaitSema", "DeleteSema"}
FlagCalls == {"SetEventFlag", "WaitEventFlag", "DeleteEventFlag"}
OtherCalls == {"SleepThread", "RotateThreadReadyQueue"}

CallRecords ==
    [call : ThreadCalls \cup SemaCalls \cup FlagCalls \cup OtherCalls,
     on : ThreadIds \cup {NoThread} \cup Keys,
     level : 0 .. LowestPriority, bits : SUBSET EventBits, mode : WaitModes,
     policy : {"None", "HigherPriorityOnly"}]

CallTyped(c) ==
    /\ c \in CallRecords
    /\ c.call \in ThreadCalls => c.on \in ThreadIds
    /\ c.call \in SemaCalls => c.on \in Semas
    /\ c.call \in FlagCalls => c.on \in Flags

Deferred == {"CreateThread", "InitThread"}
Blocking == {"SleepThread", "WaitSema", "WaitEventFlag"}

\* The calls whose closure changes what the guest was not shown before.
Ordinary ==
    (ThreadCalls \ (Deferred \cup {"StartThread", "ExitDeleteThread"}))
      \cup SemaCalls \cup FlagCalls \cup OtherCalls

\* What a call may count on about the thread that made it.
CallerOf(c) ==
    /\ c.call \in Blocking => prior \in DOMAIN threads
    /\ c.call \in Blocking \cup {"DeleteThread"} =>
          prior \in ThreadIds /\ tails[prior].kind # "Blocked"
    /\ c.call = "SuspendThread" /\ c.on = prior /\ phase # "Interrupts" =>
          tails[prior].kind # "Blocked"
    /\ c.call = "WaitEventFlag" => flags[c.on].live

LEMMA CloseOrdinary ==
    ASSUME Whole, UNCHANGED ids, draining = NoDrain, NEW c, CallTyped(c),
           c.call \in Ordinary, CallerOf(c), Exception(c) = "None", Apply(c)
    PROVE  Whole'
  <1>1. ~ ForeignBlock(c)
    BY DEF Exception
  <1>2. /\ c.level \in 0 .. LowestPriority /\ c.bits \in SUBSET EventBits
        /\ c.mode \in WaitModes
    BY DEF CallTyped, CallRecords
  <1>3. CASE c.call = "SignalSema" /\ SignalSema(c.on)
    BY <1>3, CloseSignal DEF CallTyped, SemaCalls
  <1>4. CASE c.call = "WaitSema" /\ WaitSema(c.on)
    <2>1. semas[c.on].live /\ semas[c.on].count = 0 => currentThreadId = prior
      BY <1>1, <1>4 DEF ForeignBlock
    <2>2. c.on \in Semas /\ prior \in DOMAIN threads /\ tails[prior].kind # "Blocked"
      BY <1>4 DEF CallTyped, SemaCalls, CallerOf, Blocking
    <2> QED BY <1>4, <2>1, <2>2, CloseWaitSema
  <1>5. CASE c.call = "DeleteSema" /\ DeleteSema(c.on)
    BY <1>5, CloseDeleteSema DEF CallTyped, SemaCalls
  <1>6. CASE c.call = "SetEventFlag" /\ SetEventFlag(c.on, c.bits)
    BY <1>2, <1>6, CloseSetFlag DEF CallTyped, FlagCalls
  <1>7. CASE c.call = "WaitEventFlag" /\ WaitEventFlag(c.on, c.bits, c.mode)
    <2>1. (flags[c.on].multi \/ DOMAIN flags[c.on].requests = {})
             /\ ~ Satisfied(flags[c.on].bits, [bits |-> c.bits, mode |-> c.mode])
               => currentThreadId = prior
      BY <1>1, <1>7 DEF ForeignBlock
    <2>2. c.on \in Flags /\ prior \in DOMAIN threads /\ tails[prior].kind # "Blocked"
          /\ flags[c.on].live
      BY <1>7 DEF CallTyped, FlagCalls, CallerOf, Blocking
    <2> QED BY <1>2, <1>7, <2>1, <2>2, CloseWaitFlag
  <1>8. CASE c.call = "DeleteEventFlag" /\ DeleteEventFlag(c.on)
    BY <1>8, CloseDeleteFlag DEF CallTyped, FlagCalls
  <1>9. CASE c.call = "DeleteThread" /\ DeleteThread(c.on)
    BY <1>9, CloseDelete DEF CallTyped, ThreadCalls, CallerOf
  <1>10. CASE c.call = "TerminateThread" /\ TerminateThread(c.on)
    BY <1>10, CloseTerminate DEF CallTyped, ThreadCalls
  <1>11. CASE c.call = "SuspendThread" /\ SuspendThread(c.on)
    BY <1>11, CloseSuspend DEF CallTyped, ThreadCalls, CallerOf
  <1>12. CASE c.call = "ResumeThread" /\ ResumeThread(c.on)
    BY <1>12, CloseResume DEF CallTyped, ThreadCalls
  <1>13. CASE c.call = "SleepThread" /\ SleepThread
    <2>1. currentThreadId = prior
      BY <1>1, <1>13 DEF ForeignBlock
    <2>2. prior \in DOMAIN threads /\ tails[prior].kind # "Blocked"
      BY <1>13 DEF CallerOf, Blocking
    <2> QED BY <1>13, <2>1, <2>2, CloseSleep
  <1>14. CASE c.call = "WakeupThread" /\ WakeupThread(c.on)
    BY <1>14, CloseWakeup DEF CallTyped, ThreadCalls
  <1>15. CASE c.call = "CancelWakeupThread" /\ CancelWakeupThread(c.on)
    BY <1>15, CloseCancel DEF CallTyped, ThreadCalls
  <1>16. CASE c.call = "ChangeThreadPriority" /\ ChangeThreadPriority(c.on, c.level)
    BY <1>2, <1>16, ClosePriority DEF CallTyped, ThreadCalls
  <1>17. CASE c.call = "RotateThreadReadyQueue" /\ RotateThreadReadyQueue(c.level)
    BY <1>2, <1>17, CloseRotate
  <1>18. CASE c.call = "ReleaseWaitThread" /\ ReleaseWaitThread(c.on)
    BY <1>18, CloseRelease DEF CallTyped, ThreadCalls
  <1>19. c.call \notin {"CreateThread", "InitThread", "StartThread", "ExitDeleteThread"}
    BY DEF Ordinary, Deferred, ThreadCalls, SemaCalls, FlagCalls, OtherCalls
  <1> QED BY <1>3, <1>4, <1>5, <1>6, <1>7, <1>8, <1>9, <1>10, <1>11, <1>12, <1>13, <1>14,
        <1>15, <1>16, <1>17, <1>18, <1>19 DEF Apply

-----------------------------------------------------------------------------
(* The exceptions.                                                          *)

LEMMA StatusMatch ==
    ASSUME NEW r, NEW g, NEW tl, RecordOK(r), GuestOK(g), Match(r, g, tl),
           r.state # "Dormant"
    PROVE  /\ g.suspends = r.suspendCount
           /\ \/ g.status = StatusOf[r.state]
              \/ r.state = "Ready" /\ g.status = "Run"
              \/ r.state = "Running" /\ g.status = "Ready"
  <1>1. /\ g.suspends = r.suspendCount /\ (g.linked <=> Waits(r))
        /\ g.status # "Dormant" /\ g.suspends \in Nat
        /\ r.state \in SP!States
    BY DEF Match, GuestOK, GuestStates, RecordOK, SP!ThreadRecords
  <1>2. r.suspendCount # 0 <=> r.state \in {"Suspended", "WaitSuspended"}
    BY DEF RecordOK, SP!RecordValid
  <1>3. /\ g.linked <=> g.status \in {"Wait", "WaitSuspend"}
        /\ g.suspends > 0 <=> g.status \in {"Suspend", "WaitSuspend"}
        /\ g.status \in {"Run", "Ready", "Wait", "Suspend", "WaitSuspend", "Dormant"}
    BY DEF GuestOK, GuestStates, GuestValid
  <1>4. CASE r.state = "Waiting"
    BY <1>1, <1>2, <1>3, <1>4 DEF Waits, StatusOf
  <1>5. CASE r.state = "WaitSuspended"
    BY <1>1, <1>2, <1>3, <1>5 DEF Waits, StatusOf
  <1>6. CASE r.state = "Suspended"
    BY <1>1, <1>2, <1>3, <1>6 DEF Waits, StatusOf
  <1>7. CASE r.state \in {"Ready", "Running"}
    BY <1>1, <1>2, <1>3, <1>7 DEF Waits, StatusOf
  <1> QED BY <1>1, <1>4, <1>5, <1>6, <1>7 DEF SP!States

\* A thread that waits is one that its mirror and its object know of.
LEMMA NotLost ==
    ASSUME Whole, NEW t \in DOMAIN threads, Blocked(t)
    PROVE  /\ ~ WaiterLost(t, threads[t].wait)
           /\ ~ WaiterLost(t, infos[t].wait)
  <1> DEFINE key == threads[t].wait
  <1>1. /\ t \in DOMAIN infos /\ GuestOK(infos[t])
        /\ Match(threads[t], infos[t], tails[t])
    BY WholeThread
  <1>2. t \in Waiters(key) /\ key \in Keys /\ Waits(threads[t])
    BY WaiterOf DEF Whole
  <1>3. infos[t].linked /\ infos[t].wait = key
        /\ infos[t].status \in {"Wait", "WaitSuspend"}
    BY <1>1, <1>2 DEF Match, GuestOK, GuestValid, GuestStates
  <1>4. key \in Semas => semas[key].waiters # 0
    <2>1. Waiters(key) # {} /\ IsFiniteSet(Waiters(key))
      BY <1>2, WaitersFinite DEF Whole
    <2>2. Cardinality(Waiters(key)) # 0
      BY <2>1, FS_EmptySet
    <2> QED BY <2>2 DEF Whole, Data, Objects, Counted
  <1>5. key \in Flags => t \in DOMAIN flags[key].requests
    BY <1>2 DEF Whole, Data, Objects, Counted
  <1> HIDE DEF key
  <1>6. ~ WaiterLost(t, key)
    BY <1>1, <1>3, <1>4, <1>5 DEF WaiterLost, IsWaitingOn
  <1> QED BY <1>3, <1>6 DEF key

\* Nor has an object without a waiter lost one.
LEMMA NoWaiter ==
    ASSUME Whole, NEW key \in Semas \cup Flags, waitQueues[key] = <<>>
    PROVE  /\ key \in Semas => semas[key].waiters = 0
           /\ key \in Flags => DOMAIN flags[key].requests = {}
  <1>1. Waiters(key) = {}
    BY WaitersFinite, KeyTypes DEF Whole
  <1>2. Cardinality(Waiters(key)) = 0
    BY <1>1, FS_EmptySet
  <1> QED BY <1>1, <1>2 DEF Whole, Data, Objects, Counted

LEMMA FirstWaiter ==
    ASSUME SP!IInv, NEW key \in Keys, waitQueues[key] # <<>>
    PROVE  Head(waitQueues[key]).id \in Waiters(key)
  <1> DEFINE q == waitQueues[key]
  <1>1. /\ q \in Seq(SP!Handles)
        /\ {q[i].id : i \in 1 .. Len(q)} = Waiters(key)
    BY SchedulerConstants, SP!WaitersQueued DEF Waiters
  <1>2. Len(q) \in Nat /\ Len(q) # 0 /\ Head(q) = q[1]
    BY <1>1, EmptySeq, LenProperties
  <1> HIDE DEF q
  <1>3. 1 \in 1 .. Len(q)
    BY <1>2
  <1> QED BY <1>1, <1>2, <1>3 DEF q

LEMMA NeverWaitDiverged ==
    ASSUME Whole, NEW c, CallTyped(c)
    PROVE  ~ WaitDiverged(c)
  <1>1. CASE c.call = "TerminateThread"
    <2>1. Active(c.on) /\ Blocked(c.on) => ~ WaiterLost(c.on, threads[c.on].wait)
      BY NotLost DEF Active, Known
    <2> QED BY <1>1, <2>1 DEF WaitDiverged
  <1>2. CASE c.call = "ReleaseWaitThread"
    <2>1. Known(c.on) /\ Blocked(c.on) => ~ WaiterLost(c.on, infos[c.on].wait)
      BY NotLost DEF Known
    <2> QED BY <1>2, <2>1 DEF WaitDiverged
  <1>3. CASE c.call = "WakeupThread"
    <2>1. ASSUME Active(c.on), threads[c.on].wait = SleepKey
          PROVE  ~ WaiterLost(c.on, SleepKey)
      <3>1. c.on \in DOMAIN threads
        BY <2>1 DEF Active, Known
      <3>2. Blocked(c.on)
        BY <2>1, <3>1, WaiterOf, KeyTypes DEF Whole
      <3> QED BY <2>1, <3>1, <3>2, NotLost
    <2> QED BY <1>3, <2>1 DEF WaitDiverged
  <1>4. CASE c.call = "SignalSema"
    <2>1. c.on \in Semas
      BY <1>4 DEF CallTyped, SemaCalls
    <2>2. waitQueues[c.on] = <<>> => semas[c.on].waiters = 0
      BY <2>1, NoWaiter
    <2>3. ASSUME waitQueues[c.on] # <<>>
          PROVE  ~ WaiterLost(Head(waitQueues[c.on]).id, c.on)
      <3> DEFINE t == Head(waitQueues[c.on]).id
      <3>1. t \in Waiters(c.on)
        BY <2>1, <2>3, KeyTypes, FirstWaiter DEF Whole
      <3> HIDE DEF t
      <3>2. t \in DOMAIN threads /\ threads[t].wait = c.on /\ Waits(threads[t])
        BY <3>1, WaitersOf
      <3>3. Blocked(t)
        BY <3>2 DEF Blocked, Waits
      <3>4. ~ WaiterLost(t, c.on)
        BY <3>2, <3>3, NotLost
      <3> QED BY <3>4 DEF t
    <2> QED BY <1>4, <2>2, <2>3 DEF WaitDiverged
  <1>5. CASE c.call = "DeleteSema"
    <2>1. c.on \in Semas
      BY <1>5 DEF CallTyped, SemaCalls
    <2> QED BY <1>5, <2>1, NoWaiter DEF WaitDiverged
  <1>6. CASE c.call = "DeleteEventFlag"
    <2>1. c.on \in Flags
      BY <1>6 DEF CallTyped, FlagCalls
    <2> QED BY <1>6, <2>1, NoWaiter DEF WaitDiverged
  <1> QED BY <1>1, <1>2, <1>3, <1>4, <1>5, <1>6 DEF WaitDiverged

LEMMA NeverCountsDiverged ==
    ASSUME Whole, NEW c, c.call \in Blocking => prior \in DOMAIN threads
    PROVE  ~ CountsDiverged(c)
  <1>1. ASSUME NEW t \in DOMAIN threads
        PROVE  /\ LinksAgree(t)
               /\ infos[t].wakeups = threads[t].wakeupCount
               /\ infos[t].priority = threads[t].priority
    BY WholeThread DEF Match, LinksAgree, Waits, Blocked
  <1> QED BY <1>1 DEF CountsDiverged, Active, Known, Blocking

LEMMA ExceptionsReported ==
    ASSUME Whole, NEW c, CallTyped(c), c.call \in Ordinary, CallerOf(c),
           Exception(c) # "None"
    PROVE  \/ /\ Exception(c) = "ForeignBlock"
              /\ c.call \in Blocking /\ currentThreadId # prior
           \/ /\ Exception(c) = "StatusDiverged"
              /\ \E t \in DOMAIN threads :
                   \/ threads[t].state = "Ready" /\ infos[t].status = "Run"
                   \/ threads[t].state = "Running" /\ infos[t].status = "Ready"
  <1>1. ~ RecordLost(c)
    BY DEF RecordLost, CallerOf, Known, Blocking, Ordinary, Deferred, ThreadCalls, SemaCalls,
           FlagCalls, OtherCalls
  <1>2. ~ WaitDiverged(c) /\ ~ CountsDiverged(c)
    BY NeverWaitDiverged, NeverCountsDiverged DEF CallerOf
  <1>3. ASSUME ForeignBlock(c) PROVE c.call \in Blocking /\ currentThreadId # prior
    BY <1>3 DEF ForeignBlock, Blocking
  <1>4. ASSUME StatusDiverged(c)
        PROVE  \E t \in DOMAIN threads :
                   \/ threads[t].state = "Ready" /\ infos[t].status = "Run"
                   \/ threads[t].state = "Running" /\ infos[t].status = "Ready"
    <2>1. c.on \in DOMAIN threads /\ threads[c.on].state # "Dormant"
      BY <1>4 DEF StatusDiverged, Active, Known
    <2>2. /\ GuestOK(infos[c.on]) /\ RecordOK(threads[c.on])
          /\ Match(threads[c.on], infos[c.on], tails[c.on])
      BY <2>1, WholeThread
    <2> QED BY <1>4, <2>1, <2>2, StatusMatch DEF StatusDiverged
  <1> QED BY <1>1, <1>2, <1>3, <1>4 DEF Exception

-----------------------------------------------------------------------------
(* A step of a closure's loop.                                              *)

\* The loop goes on with the waiters after the first.
LEMMA DrainFirst ==
    ASSUME DrainOK, draining # NoDrain
    PROVE  LET rest == draining.rest IN
           /\ Head(rest) = rest[1] /\ 1 \in 1 .. Len(rest)
           /\ Head(rest) \in Waiters(draining.on)
           /\ Len(rest) \in Nat \ {0}
           /\ Tail(rest) \in Seq(ThreadIds)
           /\ Len(Tail(rest)) = Len(rest) - 1
           /\ \A i \in 1 .. Len(rest) - 1 : Tail(rest)[i] = rest[i + 1]
           /\ draining \in DrainRecords
           /\ draining.on \in Semas \cup Flags
  <1> DEFINE rest == draining.rest
  <1>1. rest \in Seq(ThreadIds) /\ rest # <<>> /\ draining \in DrainRecords
        /\ draining.on \in Semas \cup Flags
    BY DEF DrainOK, DrainRecords
  <1>2. /\ Len(rest) \in Nat \ {0} /\ Head(rest) = rest[1]
        /\ Tail(rest) \in Seq(ThreadIds)
        /\ Len(Tail(rest)) = Len(rest) - 1
        /\ \A i \in 1 .. Len(rest) - 1 : Tail(rest)[i] = rest[i + 1]
    <2> HIDE DEF rest
    <2>1. Len(rest) \in Nat /\ Len(rest) # 0
      BY <1>1, EmptySeq, LenProperties
    <2> QED BY <1>1, <2>1
  <1>3. 1 \in 1 .. Len(rest)
    BY <1>2
  <1>4. rest[1] \in Waiters(draining.on)
    BY <1>3 DEF DrainOK
  <1> QED BY <1>1, <1>2, <1>3, <1>4

LEMMA DrainAdvance ==
    ASSUME DrainOK, draining # NoDrain,
           NEW w, w = draining.on, NEW first, first = Head(draining.rest),
           draining' = IF Len(draining.rest) = 1 THEN NoDrain
                       ELSE [draining EXCEPT !.rest = Tail(@)],
           Waiters(w) \ {first} \subseteq Waiters(w)', Waiters(w)' \subseteq Waiters(w),
           draining.call # "SetEventFlag" => first \notin Waiters(w)',
           draining.call = "SetEventFlag" => flags'[w].live = flags[w].live
    PROVE  /\ DrainOK'
           /\ \A key, t : Pending(key, t)' => Pending(key, t)
           /\ \A key, t : Pending(key, t) /\ t # first => Pending(key, t)'
  <1> DEFINE rest == draining.rest
             rest2 == Tail(rest)
  <1>1. /\ first = rest[1] /\ 1 \in 1 .. Len(rest) /\ first \in Waiters(w)
        /\ Len(rest) \in Nat \ {0} /\ rest2 \in Seq(ThreadIds)
        /\ Len(rest2) = Len(rest) - 1
        /\ \A i \in 1 .. Len(rest) - 1 : rest2[i] = rest[i + 1]
        /\ draining \in DrainRecords
    BY DrainFirst
  <1>2. /\ \A i, j \in 1 .. Len(rest) : rest[i] = rest[j] => i = j
        /\ \A i \in 1 .. Len(rest) : rest[i] \in Waiters(w)
        /\ draining.call # "SetEventFlag" =>
              \A t \in Waiters(w) : \E i \in 1 .. Len(rest) : rest[i] = t
    BY DEF DrainOK
  <1>3. CASE Len(rest) = 1
    <2>1. draining' = NoDrain
      BY <1>3
    <2>2. \A i \in 1 .. Len(rest) : rest[i] = first
      BY <1>1, <1>3
    <2> QED BY <2>1, <2>2 DEF DrainOK, Pending
  <1>4. CASE Len(rest) # 1
    <2> HIDE DEF rest2
    <2>1. /\ draining' = [draining EXCEPT !.rest = rest2]
          /\ draining'.rest = rest2 /\ draining'.on = w
          /\ draining'.call = draining.call /\ draining' \in DrainRecords
      BY <1>1, <1>4 DEF DrainRecords, rest2
    <2>2. rest2 # <<>> /\ draining' # NoDrain
      <3>1. Len(rest2) # 0
        BY <1>1, <1>4
      <3>2. rest2 # <<>>
        BY <1>1, <3>1, EmptySeq
      <3>3. NoDrain.rest = <<>>
        BY DEF NoDrain
      <3> QED BY <2>1, <3>2, <3>3
    <2> HIDE DEF rest
    <2>3. \A i, j \in 1 .. Len(rest2) : rest2[i] = rest2[j] => i = j
      <3>1. ASSUME NEW i \in 1 .. Len(rest2), NEW j \in 1 .. Len(rest2), rest2[i] = rest2[j]
            PROVE  i = j
        <4>1. i + 1 \in 1 .. Len(rest) /\ j + 1 \in 1 .. Len(rest)
              /\ rest[i + 1] = rest[j + 1]
          BY <1>1, <3>1
        <4>2. i + 1 = j + 1
          BY <1>2, <4>1
        <4> QED BY <4>2
      <3> QED BY <3>1
    <2>4. \A i \in 1 .. Len(rest2) : rest2[i] \in Waiters(w) \ {first}
      <3>1. ASSUME NEW i \in 1 .. Len(rest2)
            PROVE  rest2[i] \in Waiters(w) \ {first}
        <4>1. i + 1 \in 1 .. Len(rest) /\ rest2[i] = rest[i + 1] /\ i + 1 # 1
          BY <1>1
        <4>2. rest[i + 1] # rest[1]
          BY <1>1, <1>2, <4>1
        <4> QED BY <1>1, <1>2, <4>1, <4>2
      <3> QED BY <3>1
    <2>5. ASSUME NEW i \in 1 .. Len(rest), rest[i] # first
          PROVE  \E j \in 1 .. Len(rest2) : rest2[j] = rest[i]
      <3>1. i # 1
        BY <1>1, <2>5
      <3>2. i - 1 \in 1 .. Len(rest2) /\ rest2[i - 1] = rest[i]
        BY <1>1, <3>1
      <3> QED BY <3>2
    <2>6. \A i \in 1 .. Len(rest2) : rest2[i] \in Waiters(w)'
      BY <2>4 DEF rest
    <2>7. draining.call # "SetEventFlag" =>
             \A t \in Waiters(w)' : \E i \in 1 .. Len(rest2) : rest2[i] = t
      <3>1. SUFFICES ASSUME draining.call # "SetEventFlag", NEW t \in Waiters(w)'
                     PROVE  \E i \in 1 .. Len(rest2) : rest2[i] = t
        OBVIOUS
      <3>2. t \in Waiters(w) /\ t # first
        BY <3>1 DEF rest
      <3>3. PICK i \in 1 .. Len(rest) : rest[i] = t
        BY <1>2, <3>1, <3>2
      <3> QED BY <2>5, <3>2, <3>3
    <2>8. DrainOK'
      <3>1. /\ draining.call = "SetEventFlag" =>
                  draining'.on \in Flags /\ flags'[draining'.on].live
            /\ draining.call = "DeleteSema" => draining'.on \in Semas
            /\ draining.call = "DeleteEventFlag" => draining'.on \in Flags
        BY <2>1 DEF DrainOK
      <3>2. /\ draining' \in DrainRecords /\ draining'.rest # <<>>
            /\ \A i, j \in 1 .. Len(draining'.rest) :
                  draining'.rest[i] = draining'.rest[j] => i = j
        BY <2>1, <2>2, <2>3
      <3>3. Waiters(draining.on)' = Waiters(w)'
        BY <2>1 DEF Waiters
      <3>4. \A i \in 1 .. Len(draining'.rest) : draining'.rest[i] \in Waiters(draining.on)'
        BY <2>1, <2>6, <3>3
      <3>5. draining'.call # "SetEventFlag" =>
               \A t \in Waiters(draining.on)' :
                  \E i \in 1 .. Len(draining'.rest) : draining'.rest[i] = t
        BY <2>1, <2>7, <3>3
      <3>6. /\ draining'.call = "SetEventFlag" =>
                  draining'.on \in Flags /\ flags'[draining'.on].live
            /\ draining'.call = "DeleteSema" => draining'.on \in Semas
            /\ draining'.call = "DeleteEventFlag" => draining'.on \in Flags
        BY <2>1, <3>1
      <3> QED BY <3>2, <3>4, <3>5, <3>6 DEF DrainOK
    <2>9. ASSUME NEW key, NEW t, Pending(key, t)'
          PROVE  Pending(key, t)
      <3>1. key = w /\ \E i \in 1 .. Len(rest2) : rest2[i] = t
        BY <2>1, <2>9 DEF Pending
      <3>2. PICK i \in 1 .. Len(rest2) : rest2[i] = t
        BY <3>1
      <3>3. i + 1 \in 1 .. Len(rest) /\ rest[i + 1] = t
        BY <1>1, <3>2
      <3> QED BY <3>1, <3>3 DEF Pending, rest
    <2>10. ASSUME NEW key, NEW t, Pending(key, t), t # first
           PROVE  Pending(key, t)'
      <3>1. PICK i \in 1 .. Len(rest) : rest[i] = t
        BY <2>10 DEF Pending, rest
      <3>2. \E j \in 1 .. Len(rest2) : rest2[j] = t
        BY <2>5, <2>10, <3>1
      <3> QED BY <2>1, <2>2, <2>10, <3>2 DEF Pending
    <2> QED BY <2>8, <2>9, <2>10 DEF rest
  <1> QED BY <1>3, <1>4

\* One waiter of the loop.
LEMMA CloseDrainOf ==
    ASSUME Whole, Drain, NEW t, t = Head(draining.rest), NEW key, key = draining.on
    PROVE  Whole' /\ UNCHANGED <<ids, loop, failed, queue>>
  <1> DEFINE set == draining.call = "SetEventFlag"
             done == Len(draining.rest) = 1
             waiters == IF key \in Semas THEN semas[key].waiters
                        ELSE Cardinality(DOMAIN flags[key].requests)
  <1>1. draining # NoDrain /\ DrainOK
    BY DEF Drain, Whole, Data, Objects
  <1>2. /\ t \in Waiters(key) /\ key \in Semas \cup Flags /\ t = draining.rest[1]
    BY <1>1, DrainFirst
  <1>3. t \in DOMAIN threads /\ Waits(threads[t]) /\ threads[t].wait = key /\ Blocked(t)
    BY <1>2, WaitersOf DEF Blocked, Waits
  <1>4. ~ WaiterLost(t, key)
    BY <1>3, NotLost
  <1>5. ~ (done /\ ~ set /\ waiters # 1)
    <2>1. SUFFICES ASSUME done, ~ set PROVE waiters = 1
      OBVIOUS
    <2>2. Waiters(key) = {t}
      <3>1. \A u \in Waiters(key) : \E i \in 1 .. Len(draining.rest) : draining.rest[i] = u
        BY <1>1, <2>1 DEF DrainOK
      <3>2. \A u \in Waiters(key) : u = t
        BY <1>2, <2>1, <3>1
      <3> QED BY <1>2, <3>2
    <2>3. Cardinality(Waiters(key)) = 1
      BY <2>2, FS_Singleton
    <2> QED BY <1>2, <2>3 DEF Whole, Data, Objects, Counted
  <1>6. /\ UNCHANGED <<queue, ids, loop, failed>>
        /\ draining' = IF done THEN NoDrain ELSE [draining EXCEPT !.rest = Tail(@)]
        /\ IF ~ set
           THEN /\ Resolve(t, "ObjectDeleted", key \in Semas)
                /\ DropWaiter(t, key)
           ELSE IF ~ Satisfied(flags[key].bits, flags[key].requests[t])
           THEN UNCHANGED <<schedulerVars, infos, tails, objects>>
           ELSE /\ Resolve(t, "Satisfied", FALSE)
                /\ flags' = [flags EXCEPT
                      ![key].bits = Cleared(@, flags[key].requests[t]),
                      ![key].requests = [u \in DOMAIN @ \ {t} |-> @[u]]]
                /\ UNCHANGED semas
    BY <1>4, <1>5 DEF Drain
  <1> HIDE DEF set, done, waiters
  <1>7. /\ GuestOK(infos[t]) /\ RecordOK(threads[t]) /\ tails[t] \in Tails
        /\ Match(threads[t], infos[t], tails[t]) /\ t \in ThreadIds
        /\ infos[t].priority = threads[t].priority
    BY <1>3, WholeThread
  <1>8. ASSUME NEW c \in WaitCompletions, NEW retain \in BOOLEAN, Resolve(t, c, retain)
        PROVE  /\ SP!IInv' /\ Types' /\ NewIds' /\ AllMatch'
               /\ SP!Becomes(t, SP!LeftRecord(threads[t], c))
               /\ ~ Waits(SP!LeftRecord(threads[t], c))
    <2> DEFINE r == SP!LeftRecord(threads[t], c)
               g == ReleasedGuest(infos[t], c, retain)
    <2>1. /\ SP!IInv' /\ SP!Becomes(t, r)
          /\ infos' = [infos EXCEPT ![t] = g] /\ tails' = [tails EXCEPT ![t] = tails[t]]
      <3>1. /\ Sched!ReleaseWaitThread(Handle(t), c, retain)
            /\ infos' = [infos EXCEPT ![t] = g] /\ tails' = tails
        BY <1>8 DEF Resolve
      <3>2. SP!IInv' /\ SP!Becomes(t, r)
        BY <1>7, <3>1, DoRelease DEF Whole
      <3>3. [tails EXCEPT ![t] = tails[t]] = tails
        BY <1>3, WholeThread
      <3> QED BY <3>1, <3>2, <3>3
    <2>2. GuestOK(g) /\ Match(r, g, tails[t])
      BY <1>3, <1>7, MatchReleased
    <2>3. ~ Waits(r) /\ g.priority = r.priority
      BY <1>7 DEF Waits, SP!LeftRecord, ReleasedGuest, RecordOK, SP!ThreadRecords,
            GuestOK, GuestStates
    <2> HIDE DEF r, g
    <2>4. Types' /\ NewIds' /\ AllMatch'
      BY <1>3, <1>6, <1>7, <2>1, <2>2, <2>3, MatchesFrame DEF Whole, Data
    <2> QED BY <2>1, <2>3, <2>4 DEF r
  <1>9. /\ ObjectTypes /\ Counted /\ DrainOK /\ NotStranded
    BY DEF Whole, Data, Objects
  <1>10. set => key \in Flags /\ flags[key].live
    BY <1>1 DEF DrainOK, set
  <1>11. ASSUME Waiters(key) \ {t} \subseteq Waiters(key)', Waiters(key)' \subseteq Waiters(key),
                ~ set => t \notin Waiters(key)',
                set => flags'[key].live = flags[key].live
         PROVE  /\ DrainOK'
                /\ \A w, u : Pending(w, u)' => Pending(w, u)
                /\ \A w, u : Pending(w, u) /\ u # t => Pending(w, u)'
    BY <1>1, <1>6, <1>11, DrainAdvance DEF set, done
  <1>12. \A w, u : Pending(w, u) => w = key
    BY DEF Pending
  <1>13. CASE ~ set
    <2>1. Resolve(t, "ObjectDeleted", key \in Semas) /\ DropWaiter(t, key)
      BY <1>6, <1>13
    <2>2. /\ SP!IInv' /\ Types' /\ NewIds' /\ AllMatch'
          /\ SP!Becomes(t, SP!LeftRecord(threads[t], "ObjectDeleted"))
          /\ ~ Waits(SP!LeftRecord(threads[t], "ObjectDeleted"))
      <3>1. CASE key \in Semas
        <4>1. (key \in Semas) = TRUE
          BY <3>1, Zenon
        <4>2. Resolve(t, "ObjectDeleted", TRUE)
          BY <2>1, <4>1, Zenon
        <4> QED BY <1>8, <4>2 DEF WaitCompletions
      <3>2. CASE key \notin Semas
        <4>1. (key \in Semas) = FALSE
          BY <3>2
        <4>2. Resolve(t, "ObjectDeleted", FALSE)
          BY <2>1, <4>1, Zenon
        <4> QED BY <1>8, <4>2 DEF WaitCompletions
      <3> QED BY <3>1, <3>2
    <2>3. /\ ObjectTypes' /\ Counted'
          /\ \A w : Waiters(w)' = Waiters(w) \ {t}
          /\ \A s \in Semas : /\ semas'[s].live = semas[s].live
                              /\ semas'[s].count = semas[s].count
          /\ \A f \in Flags : /\ flags'[f].live = flags[f].live
                              /\ flags'[f].bits = flags[f].bits
                              /\ \A u \in Waiters(f)' :
                                   flags'[f].requests[u] = flags[f].requests[u]
      BY <1>3, <1>9, <2>1, <2>2, LostCounted DEF Whole
    <2>4. /\ DrainOK'
          /\ \A w, u : Pending(w, u) /\ u # t => Pending(w, u)'
      <3>1. /\ Waiters(key) \ {t} \subseteq Waiters(key)' /\ Waiters(key)' \subseteq Waiters(key)
            /\ ~ set => t \notin Waiters(key)'
            /\ set => flags'[key].live = flags[key].live
        BY <1>13, <2>3
      <3> QED BY <1>11, <3>1
    <2>5. NotStranded'
      BY <1>9, <2>3, <2>4 DEF NotStranded
    <2> QED BY <1>6, <2>2, <2>3, <2>4, <2>5 DEF Whole, Data, Objects
  <1>14. CASE set /\ ~ Satisfied(flags[key].bits, flags[key].requests[t])
    <2>1. UNCHANGED <<schedulerVars, infos, tails, objects>>
      BY <1>6, <1>14
    <2>2. SP!IInv' /\ SP!NothingSeen
      BY <2>1, SchedulerStutter DEF Whole
    <2>3. Types' /\ NewIds' /\ AllMatch'
      BY <1>6, <2>1, <2>2, MatchesSame DEF Whole, Data
    <2>4. \A w : Waiters(w)' = Waiters(w)
      BY <2>2, WaitersSame
    <2>5. /\ DrainOK'
          /\ \A w, u : Pending(w, u) /\ u # t => Pending(w, u)'
      <3>1. /\ Waiters(key) \ {t} \subseteq Waiters(key)' /\ Waiters(key)' \subseteq Waiters(key)
            /\ ~ set => t \notin Waiters(key)'
            /\ set => flags'[key].live = flags[key].live
        BY <1>14, <2>1, <2>4 DEF objects
      <3> QED BY <1>11, <3>1
    <2>6. ObjectTypes' /\ Counted'
      BY <1>9, <2>1, <2>4 DEF ObjectTypes, Counted, objects
    <2>7. NotStranded'
      <3>1. ASSUME NEW s \in Semas, NEW u \in Waiters(s)'
            PROVE  Pending(s, u)' \/ (semas'[s].live /\ semas'[s].count = 0)
        <4>1. s # key
          BY <1>10, <1>14, KeyTypes
        <4> QED BY <1>9, <1>12, <2>1, <2>4, <4>1 DEF NotStranded, objects
      <3>2. ASSUME NEW f \in Flags, NEW u \in Waiters(f)'
            PROVE  \/ Pending(f, u)'
                   \/ flags'[f].live /\ ~ Satisfied(flags'[f].bits, flags'[f].requests[u])
        <4>1. CASE u = t /\ f = key
          BY <1>10, <1>14, <2>1, <4>1 DEF objects
        <4>2. CASE ~ (u = t /\ f = key)
          <5>1. Pending(f, u) => Pending(f, u)'
            BY <1>12, <2>5, <4>2
          <5> QED BY <1>9, <2>1, <2>4, <5>1 DEF NotStranded, objects
        <4> QED BY <4>1, <4>2
      <3> QED BY <3>1, <3>2 DEF NotStranded
    <2> QED BY <1>6, <2>2, <2>3, <2>5, <2>6, <2>7 DEF Whole, Data, Objects
  <1>15. CASE set /\ Satisfied(flags[key].bits, flags[key].requests[t])
    <2> DEFINE b == Cleared(flags[key].bits, flags[key].requests[t])
               q == [flags[key] EXCEPT !.bits = b, !.requests = Without(@, t)]
    <2>1. /\ Resolve(t, "Satisfied", FALSE)
          /\ flags' = [flags EXCEPT
                ![key].bits = b,
                ![key].requests = [u \in DOMAIN @ \ {t} |-> @[u]]]
          /\ UNCHANGED semas
      BY <1>6, <1>15
    <2>2. /\ SP!IInv' /\ Types' /\ NewIds' /\ AllMatch'
          /\ SP!Becomes(t, SP!LeftRecord(threads[t], "Satisfied"))
          /\ ~ Waits(SP!LeftRecord(threads[t], "Satisfied"))
      BY <1>8, <2>1 DEF WaitCompletions
    <2>3. \A w : Waiters(w)' = Waiters(w) \ {t}
      BY <2>2, WaitersLost
    <2>4. /\ flags[key] \in FlagRecords /\ DOMAIN flags[key].requests = Waiters(key)
          /\ DOMAIN flags[key].requests \in SUBSET ThreadIds
          /\ flags[key].requests \in [DOMAIN flags[key].requests -> Requests]
          /\ flags[key].requests[t] \in Requests
      BY <1>2, <1>9, <1>10, <1>15, RequestsType DEF Counted
    <2>5. b \in SUBSET EventBits /\ b \subseteq flags[key].bits
      BY <2>4, ClearedFewer DEF FlagRecords
    <2>6. /\ Without(flags[key].requests, t) \in UNION {[Q -> Requests] : Q \in SUBSET ThreadIds}
          /\ DOMAIN Without(flags[key].requests, t) = Waiters(key) \ {t}
          /\ \A u \in Waiters(key) \ {t} :
                Without(flags[key].requests, t)[u] = flags[key].requests[u]
      <3>1. LET e == Without(flags[key].requests, t) IN
            /\ e \in UNION {[Q -> Requests] : Q \in SUBSET ThreadIds}
            /\ DOMAIN e = DOMAIN flags[key].requests \ {t}
            /\ \A u \in DOMAIN flags[key].requests \ {t} : e[u] = flags[key].requests[u]
        BY <1>9, <1>10, <1>15, FlagWithout, SMTT(60)
      <3> QED BY <2>4, <3>1
    <2>7. flags' = [flags EXCEPT ![key] = q]
      BY <1>9, <1>10, <1>15, <2>1 DEF ObjectTypes, Without
    <2> HIDE DEF b
    <2>8. /\ q \in FlagRecords /\ q.live = flags[key].live /\ q.used = flags[key].used
          /\ q.bits = b /\ q.requests = Without(flags[key].requests, t)
      BY <2>4, <2>5, <2>6 DEF FlagRecords
    <2> HIDE DEF q
    <2>9. /\ flags' \in [Flags -> FlagRecords] /\ flags'[key] = q
          /\ \A f \in Flags \ {key} : flags'[f] = flags[f]
      BY <1>9, <1>10, <1>15, <2>7, <2>8 DEF ObjectTypes
    <2>10. ObjectTypes'
      BY <1>9, <1>10, <1>15, <2>1, <2>8, <2>9 DEF ObjectTypes
    <2>11. \A w : w # key => Waiters(w)' = Waiters(w)
      BY <1>2, <1>3, <2>3, WaiterOf DEF Whole
    <2>12. Counted'
      <3>1. \A s \in Semas : semas'[s].waiters = Cardinality(Waiters(s)')
        BY <1>9, <1>10, <1>15, <2>1, <2>11, KeyTypes DEF Counted
      <3>2. \A f \in Flags : DOMAIN flags'[f].requests = Waiters(f)'
        BY <1>9, <2>3, <2>6, <2>8, <2>9, <2>11, ZenonT(60) DEF Counted
      <3> QED BY <3>1, <3>2 DEF Counted
    <2>13. /\ DrainOK'
           /\ \A w, u : Pending(w, u) /\ u # t => Pending(w, u)'
      <3>1. /\ Waiters(key) \ {t} \subseteq Waiters(key)' /\ Waiters(key)' \subseteq Waiters(key)
            /\ ~ set => t \notin Waiters(key)'
            /\ set => flags'[key].live = flags[key].live
        BY <1>15, <2>3, <2>8, <2>9
      <3> QED BY <1>11, <3>1
    <2>14. NotStranded'
      <3>1. ASSUME NEW s \in Semas, NEW u \in Waiters(s)'
            PROVE  Pending(s, u)' \/ (semas'[s].live /\ semas'[s].count = 0)
        <4>1. s # key
          BY <1>10, <1>15, KeyTypes
        <4> QED BY <1>9, <1>12, <2>1, <2>11, <4>1 DEF NotStranded
      <3>2. ASSUME NEW f \in Flags, NEW u \in Waiters(f)'
            PROVE  \/ Pending(f, u)'
                   \/ flags'[f].live /\ ~ Satisfied(flags'[f].bits, flags'[f].requests[u])
        <4>1. CASE f # key
          BY <1>9, <1>12, <2>9, <2>11, <4>1 DEF NotStranded
        <4>2. CASE f = key
          <5>1. u # t /\ u \in Waiters(f)
            BY <2>3
          <5>2. \/ Pending(f, u)
                \/ flags[f].live /\ ~ Satisfied(flags[f].bits, flags[f].requests[u])
            BY <1>9, <5>1 DEF NotStranded
          <5>3. /\ flags'[f].live = flags[f].live /\ flags'[f].bits = b
                /\ flags'[f].requests[u] = flags[f].requests[u]
            BY <2>6, <2>8, <2>9, <4>2, <5>1
          <5>4. ~ Satisfied(flags[f].bits, flags[f].requests[u])
                  => ~ Satisfied(b, flags[f].requests[u])
            BY <2>5, <4>2, FewerBits
          <5> QED BY <2>13, <5>1, <5>2, <5>3, <5>4
        <4> QED BY <4>1, <4>2
      <3> QED BY <3>1, <3>2 DEF NotStranded
    <2> QED BY <1>6, <2>2, <2>10, <2>12, <2>13, <2>14 DEF Whole, Data, Objects
  <1> QED BY <1>13, <1>14, <1>15
LEMMA CloseDrain ==
    ASSUME Whole, Drain
    PROVE  Whole' /\ UNCHANGED <<ids, loop, failed, queue>>
  <1>1. ASSUME NEW t, t = Head(draining.rest), NEW key, key = draining.on
        PROVE  Whole' /\ UNCHANGED <<ids, loop, failed, queue>>
    BY <1>1, CloseDrainOf
  <1> QED BY <1>1

-----------------------------------------------------------------------------
(* What is published.                                                       *)

\* The calls of the queue, and the threads whose two pictures may differ
\* while a call about them is among these.
Calls == {queue[i] : i \in 1 .. Len(queue)}

Moving == {c.on : c \in {d \in Calls : d.call \in {"StartThread", "ExitDeleteThread"}}}

Promoted == {c.on : c \in {d \in Calls : d.call = "InitThread"}}

Pictures ==
    /\ \A t \in DOMAIN threads \ Moving :
          /\ t \in DOMAIN infos
          /\ Match(threads[t], infos[t], tails[t])
          /\ t \in Promoted \/ infos[t].priority = threads[t].priority
    /\ \A t \in DOMAIN infos \ (DOMAIN threads \cup Moving) :
          infos[t].status = "Dormant"

\* The calls before the last one do not yield.
QueueShape ==
    /\ queue \in Seq(CallRecords)
    /\ \A i \in 1 .. Len(queue) :
          i < Len(queue) \/ phase = "Guest" => queue[i].call \in Deferred
    /\ \A i, j \in 1 .. Len(queue) :
          queue[i].call = "CreateThread" /\ queue[j].call = "CreateThread"
            /\ queue[i].on = queue[j].on => i = j

\* A thread that is about to block has not given up the CPU by itself.
Overtaken ==
    /\ prior \in DOMAIN threads
    /\ threads[prior].state \in {"Running", "Ready"}
    /\ currentThreadId # NoThread
    /\ phase = "Apply" =>
          threads[currentThreadId].priority <= threads[prior].priority
    /\ phase = "Reschedule" => policy = "HigherPriorityOnly"

\* What a published call finds.
Owed(c) ==
    /\ c.call = "CreateThread" =>
          /\ c.on # MainThread
          /\ c.on \in DOMAIN infos \ DOMAIN threads
          /\ infos[c.on].priority = c.level
    /\ c.call = "InitThread" =>
          /\ c.on = MainThread
          /\ prior = MainThread
          /\ MainThread \in DOMAIN threads
          /\ infos[MainThread].priority = 1
    /\ c.call = "StartThread" =>
          /\ c.on # MainThread
          /\ c.on \in DOMAIN infos
          /\ infos[c.on] = [DormantGuest(infos[c.on].priority)
                              EXCEPT !.status = "Ready"]
          /\ tails[c.on] = RunTail
          /\ c.on \in DOMAIN threads =>
                /\ threads[c.on].state = "Dormant"
                /\ threads[c.on].priority = infos[c.on].priority
    /\ c.call = "ExitDeleteThread" =>
          /\ c.on \in DOMAIN threads \ DOMAIN infos
          /\ threads[c.on].state = "Dormant"
          /\ tails[c.on].kind # "Blocked"
    /\ c.call \in Blocking => Overtaken
    /\ c.call = "WaitEventFlag" => flags[c.on].live

QueueOK ==
    /\ QueueShape
    /\ \A c \in Calls :
          /\ CallTyped(c)
          /\ Owed(c)
          /\ c.call \in Deferred => c.policy = "HigherPriorityOnly"

Control ==
    /\ prior \in ThreadIds \cup {NoThread}
    /\ phase \in {"Guest", "Apply", "Reschedule", "Interrupts", "Dispatch", "Stopped"}
    /\ policy \in {"None", "HigherPriorityOnly", "EqualOrHigherPriority"}
    /\ queue # <<>> => phase \in {"Guest", "Apply", "Reschedule"}
    /\ phase = "Apply" => queue # <<>>
    /\ queue # <<>> \/ phase = "Guest" =>
          prior # NoThread /\ tails[prior] = NoTail
    /\ phase = "Guest" => currentThreadId = prior
    /\ phase = "Dispatch" => currentThreadId # NoThread
    /\ phase = "Stopped" <=> failed # "None"
    /\ draining # NoDrain =>
          queue = <<>> /\ phase \in {"Reschedule", "Interrupts"}

KInv ==
    /\ SP!IInv
    /\ Data
    /\ Pictures
    /\ QueueOK
    /\ Control
    /\ FailsOnlyAsReported

-----------------------------------------------------------------------------
(* The queue.                                                               *)

LEMMA PicturesOf ==
    ASSUME NEW E, NEW P, E = Moving, P = Promoted
    PROVE  Pictures <=> Agree(E, P)
  BY DEF Pictures, Agree

LEMMA PicturesNext ==
    ASSUME NEW E, NEW P, E = Moving', P = Promoted'
    PROVE  Pictures' <=> Agree(E, P)'
  BY DEF Pictures, Agree

LEMMA NoCalls ==
    /\ queue = <<>> => QueueShape /\ Calls = {} /\ Moving = {} /\ Promoted = {} /\ QueueOK
    /\ queue' = <<>> =>
          QueueShape' /\ Calls' = {} /\ Moving' = {} /\ Promoted' = {} /\ QueueOK'
  <1>1. queue = <<>> => QueueShape /\ Calls = {}
    BY DEF QueueShape, Calls
  <1>2. queue' = <<>> => QueueShape' /\ Calls' = {}
    BY DEF QueueShape, Calls
  <1> QED BY <1>1, <1>2 DEF Moving, Promoted, QueueOK

LEMMA SameCalls ==
    ASSUME UNCHANGED queue
    PROVE  /\ Calls' = Calls /\ Moving' = Moving /\ Promoted' = Promoted
           /\ QueueShape /\ (phase' = "Guest" => phase = "Guest") => QueueShape'
  <1>1. Calls' = Calls
    BY DEF Calls
  <1>2. QueueShape /\ (phase' = "Guest" => phase = "Guest") => QueueShape'
    BY DEF QueueShape
  <1> QED BY <1>1, <1>2 DEF Moving, Promoted

LEMMA Published ==
    ASSUME QueueShape, phase = "Guest", NEW c \in CallRecords,
           queue' = Append(queue, c), c.call \in Deferred \/ phase' # "Guest",
           c.call = "CreateThread" =>
              \A d \in Calls : ~ (d.call = "CreateThread" /\ d.on = c.on)
    PROVE  /\ QueueShape' /\ Calls' = Calls \cup {c} /\ queue' # <<>>
  <1> DEFINE n == Len(queue)
  <1>1. /\ queue \in Seq(CallRecords) /\ n \in Nat
        /\ \A i \in 1 .. n : queue[i].call \in Deferred
        /\ \A i, j \in 1 .. n :
              queue[i].call = "CreateThread" /\ queue[j].call = "CreateThread"
                /\ queue[i].on = queue[j].on => i = j
    BY LenProperties DEF QueueShape
  <1>2. /\ queue' \in Seq(CallRecords) /\ Len(queue') = n + 1
        /\ \A i \in 1 .. n : queue'[i] = queue[i]
        /\ queue'[n + 1] = c
    BY <1>1, AppendProperties
  <1> HIDE DEF n
  <1>3. queue' # <<>>
    <2>1. Len(queue') # 0
      BY <1>1, <1>2
    <2> QED BY <1>2, <2>1, EmptySeq
  <1>4. Calls = {queue[i] : i \in 1 .. n} /\ Calls' = {queue'[i] : i \in 1 .. n + 1}
    BY <1>2 DEF Calls, n
  <1>5. Calls' = Calls \cup {c}
    <2>1. \A d \in Calls' : d \in Calls \/ d = c
      <3>1. \A i \in 1 .. n + 1 : i \in 1 .. n \/ i = n + 1
        BY <1>1
      <3> QED BY <1>2, <1>4, <3>1
    <2>2. \A d \in Calls : d \in Calls'
      <3>1. \A i \in 1 .. n : i \in 1 .. n + 1
        BY <1>1
      <3> QED BY <1>2, <1>4, <3>1
    <2>3. c \in Calls'
      <3>1. n + 1 \in 1 .. n + 1
        BY <1>1
      <3> QED BY <1>2, <1>4, <3>1
    <2> QED BY <2>1, <2>2, <2>3
  <1>6. ASSUME NEW i \in 1 .. Len(queue'), i < Len(queue') \/ phase' = "Guest"
        PROVE  queue'[i].call \in Deferred
    <2>1. CASE i = n + 1
      BY <1>2, <1>6, <2>1
    <2>2. CASE i # n + 1
      <3>1. i \in 1 .. n
        BY <1>1, <1>2, <2>2
      <3> QED BY <1>1, <1>2, <3>1
    <2> QED BY <2>1, <2>2
  <1>7. ASSUME NEW i \in 1 .. Len(queue'), NEW j \in 1 .. Len(queue'),
               queue'[i].call = "CreateThread", queue'[j].call = "CreateThread",
               queue'[i].on = queue'[j].on
        PROVE  i = j
    <2>1. \A k \in 1 .. Len(queue') : k = n + 1 \/ (k \in 1 .. n /\ queue'[k] = queue[k]
                                                    /\ queue[k] \in Calls)
      BY <1>1, <1>2, <1>4
    <2>2. CASE i = n + 1
      BY <1>2, <1>7, <2>1, <2>2
    <2>3. CASE j = n + 1
      BY <1>2, <1>7, <2>1, <2>3
    <2>4. CASE i # n + 1 /\ j # n + 1
      BY <1>1, <1>7, <2>1, <2>4
    <2> QED BY <2>2, <2>3, <2>4
  <1> QED BY <1>2, <1>3, <1>5, <1>6, <1>7 DEF QueueShape

LEMMA Popped ==
    ASSUME QueueShape, queue # <<>>, queue' = Tail(queue), phase' # "Guest"
    PROVE  LET c == Head(queue) IN
           /\ QueueShape' /\ c \in Calls
           /\ \A d \in Calls : d \in Calls' \/ d = c
           /\ \A d \in Calls' : /\ d \in Calls
                                /\ ~ (c.call = "CreateThread" /\ d.call = "CreateThread"
                                        /\ d.on = c.on)
           /\ c.call \notin Deferred => queue' = <<>> /\ Calls = {c}
  <1> DEFINE n == Len(queue)
             c == Head(queue)
  <1>1. /\ queue \in Seq(CallRecords) /\ n \in Nat \ {0}
        /\ \A i \in 1 .. n : i < n => queue[i].call \in Deferred
        /\ \A i, j \in 1 .. n :
              queue[i].call = "CreateThread" /\ queue[j].call = "CreateThread"
                /\ queue[i].on = queue[j].on => i = j
    BY LenProperties, EmptySeq DEF QueueShape
  <1>2. /\ queue' \in Seq(CallRecords) /\ Len(queue') = n - 1
        /\ \A i \in 1 .. n - 1 : queue'[i] = queue[i + 1]
        /\ c = queue[1]
    BY <1>1, HeadTailProperties
  <1> HIDE DEF n, c
  <1>3. Calls = {queue[i] : i \in 1 .. n} /\ Calls' = {queue'[i] : i \in 1 .. n - 1}
    BY <1>2 DEF Calls, n
  <1>4. ASSUME NEW i \in 1 .. n - 1
        PROVE  /\ i + 1 \in 1 .. n /\ i + 1 # 1 /\ queue'[i] = queue[i + 1]
    BY <1>1, <1>2
  <1>5. 1 \in 1 .. n
    BY <1>1
  <1>6. QueueShape'
    <2>1. ASSUME NEW i \in 1 .. Len(queue'), i < Len(queue')
          PROVE  queue'[i].call \in Deferred
      <3>1. i \in 1 .. n - 1 /\ i + 1 < n
        BY <1>1, <1>2, <2>1
      <3> QED BY <1>1, <1>4, <3>1
    <2>2. ASSUME NEW i \in 1 .. Len(queue'), NEW j \in 1 .. Len(queue'),
                 queue'[i].call = "CreateThread", queue'[j].call = "CreateThread",
                 queue'[i].on = queue'[j].on
          PROVE  i = j
      <3>1. /\ i + 1 \in 1 .. n /\ j + 1 \in 1 .. n
            /\ queue'[i] = queue[i + 1] /\ queue'[j] = queue[j + 1]
        BY <1>2, <1>4
      <3>2. i + 1 = j + 1
        BY <1>1, <2>2, <3>1
      <3> QED BY <1>2, <3>2
    <2> QED BY <1>2, <2>1, <2>2 DEF QueueShape
  <1>7. ASSUME NEW d \in Calls
        PROVE  d \in Calls' \/ d = c
    <2>1. PICK i \in 1 .. n : d = queue[i]
      BY <1>3
    <2>2. CASE i = 1
      BY <1>2, <2>1, <2>2
    <2>3. CASE i # 1
      <3>1. i - 1 \in 1 .. n - 1 /\ queue'[i - 1] = queue[i]
        BY <1>1, <1>2, <2>3
      <3> QED BY <1>3, <2>1, <3>1
    <2> QED BY <2>2, <2>3
  <1>8. ASSUME NEW d \in Calls'
        PROVE  /\ d \in Calls
               /\ ~ (c.call = "CreateThread" /\ d.call = "CreateThread" /\ d.on = c.on)
    <2>1. PICK i \in 1 .. n - 1 : d = queue'[i]
      BY <1>3
    <2>2. /\ i + 1 \in 1 .. n /\ i + 1 # 1 /\ d = queue[i + 1]
      BY <1>4, <2>1
    <2> QED BY <1>1, <1>2, <1>3, <1>5, <2>2
  <1>9. ASSUME c.call \notin Deferred
        PROVE  queue' = <<>> /\ Calls = {c}
    <2>1. n = 1
      BY <1>1, <1>2, <1>5, <1>9
    <2>2. Len(queue') = 0
      BY <1>2, <2>1
    <2>3. \A i \in 1 .. n : i = 1
      BY <2>1
    <2>4. Calls = {c}
      BY <1>2, <1>3, <1>5, <2>3
    <2> QED BY <1>2, <2>2, <2>4, EmptySeq
  <1>10. c \in Calls
    BY <1>2, <1>3, <1>5
  <1> QED BY <1>6, <1>7, <1>8, <1>9, <1>10 DEF c

-----------------------------------------------------------------------------
(* The invariant in parts.                                                  *)

LEMMA WholeWhen ==
    ASSUME KInv, Moving = {}, Promoted = {}
    PROVE  Whole
  BY AgreeAll, PicturesOf DEF KInv, Whole

LEMMA Settled ==
    ASSUME Whole', queue' = <<>>, Control', FailsOnlyAsReported'
    PROVE  KInv'
  <1>1. Moving' = {} /\ Promoted' = {} /\ QueueOK'
    BY NoCalls
  <1>2. Pictures'
    BY <1>1, AgreeAll, PicturesNext DEF Whole
  <1> QED BY <1>1, <1>2 DEF KInv, Whole

LEMMA NothingFailed ==
    failed' = "None" => FailsOnlyAsReported'
  BY DEF FailsOnlyAsReported

LEMMA GuestPhase ==
    ASSUME KInv, phase = "Guest"
    PROVE  /\ \A c \in Calls : c.call \in Deferred
           /\ Moving = {} /\ Promoted \subseteq {MainThread}
           /\ prior # MainThread => Promoted = {}
           /\ currentThreadId = prior /\ tails[prior] = NoTail
           /\ prior \in DOMAIN threads /\ prior \in DOMAIN infos /\ prior \in ThreadIds
           /\ threads[prior].state = "Running" /\ infos[prior].status # "Dormant"
           /\ GuestOK(infos[prior]) /\ RecordOK(threads[prior])
           /\ Match(threads[prior], infos[prior], NoTail)
           /\ prior \notin Promoted => infos[prior].priority = threads[prior].priority
           /\ draining = NoDrain /\ failed = "None"
  <1>1. \A c \in Calls : c.call \in Deferred
    BY DEF KInv, QueueOK, QueueShape, Calls
  <1>2. Moving = {}
    BY <1>1 DEF Moving, Deferred
  <1>3. Promoted \subseteq {MainThread} /\ (prior # MainThread => Promoted = {})
    BY DEF KInv, QueueOK, Owed, Promoted
  <1>4. /\ currentThreadId = prior /\ tails[prior] = NoTail /\ prior # NoThread
        /\ draining = NoDrain /\ failed = "None" /\ prior \in ThreadIds
    BY DEF KInv, Control
  <1>5. prior \in DOMAIN threads
    BY <1>4 DEF KInv, SP!IInv, SP!Good, SP!Records
  <1>6. threads[prior].state = "Running" /\ RecordOK(threads[prior])
    BY <1>4, <1>5, ThreadType DEF KInv, RecordOK
  <1>7. /\ prior \in DOMAIN infos /\ Match(threads[prior], infos[prior], NoTail)
        /\ prior \notin Promoted => infos[prior].priority = threads[prior].priority
    BY <1>2, <1>4, <1>5 DEF KInv, Pictures
  <1>8. GuestOK(infos[prior])
    BY <1>7 DEF KInv, Data, Types
  <1>9. infos[prior].status # "Dormant"
    BY <1>6, <1>7 DEF Match
  <1> QED BY <1>1, <1>2, <1>3, <1>4, <1>5, <1>6, <1>7, <1>8, <1>9

\* Steps that change no more than who runs.
LEMMA SeenKept ==
    ASSUME KInv, SP!IInv', SP!NothingSeen,
           UNCHANGED <<ids, infos, tails, objects, draining, queue>>
    PROVE  Data' /\ Pictures'
  <1>1. PICK E : E = Moving
    OBVIOUS
  <1>2. PICK P : P = Promoted
    OBVIOUS
  <1>3. Agree(E, P)
    BY <1>1, <1>2, PicturesOf DEF KInv
  <1>4. Types' /\ NewIds' /\ Agree(E, P)'
    BY <1>3, AgreeSame DEF KInv, Data
  <1>5. E = Moving' /\ P = Promoted'
    BY <1>1, <1>2, SameCalls
  <1>6. Pictures'
    BY <1>4, <1>5, PicturesNext
  <1>7. Objects'
    BY WaitersSame, ObjectsKept DEF KInv, Data
  <1> QED BY <1>4, <1>6, <1>7 DEF Data

LEMMA OwedKept ==
    ASSUME NEW c, Owed(c), SP!NothingSeen, UNCHANGED <<infos, tails, prior>>,
           c.call = "WaitEventFlag" /\ flags[c.on].live => flags'[c.on].live,
           c.call \in Blocking => Overtaken'
    PROVE  Owed(c)'
  <1>1. /\ DOMAIN threads' = DOMAIN threads
        /\ \A t \in DOMAIN threads :
              /\ threads'[t].state = "Dormant" <=> threads[t].state = "Dormant"
              /\ threads'[t].priority = threads[t].priority
    BY DEF SP!NothingSeen, SP!Alike
  <1>2. c.call = "StartThread" => c.on \in DOMAIN infos
    BY DEF Owed
  <1>3. /\ c.call = "CreateThread" =>
              /\ c.on # MainThread
              /\ c.on \in DOMAIN infos' \ DOMAIN threads'
              /\ infos'[c.on].priority = c.level
        /\ c.call = "InitThread" =>
              /\ c.on = MainThread
              /\ prior' = MainThread
              /\ MainThread \in DOMAIN threads'
              /\ infos'[MainThread].priority = 1
    BY <1>1 DEF Owed
  <1>4. c.call = "StartThread" =>
              /\ c.on # MainThread
              /\ c.on \in DOMAIN infos'
              /\ infos'[c.on] = [DormantGuest(infos'[c.on].priority)
                                  EXCEPT !.status = "Ready"]
              /\ tails'[c.on] = RunTail
              /\ c.on \in DOMAIN threads' =>
                    /\ threads'[c.on].state = "Dormant"
                    /\ threads'[c.on].priority = infos'[c.on].priority
    BY <1>1 DEF Owed
  <1>5. c.call = "ExitDeleteThread" =>
              /\ c.on \in DOMAIN threads' \ DOMAIN infos'
              /\ threads'[c.on].state = "Dormant"
              /\ tails'[c.on].kind # "Blocked"
    BY <1>1 DEF Owed
  <1>6. c.call = "WaitEventFlag" => flags'[c.on].live
    BY DEF Owed
  <1> QED BY <1>3, <1>4, <1>5, <1>6 DEF Owed

\* In the guest's own phase no published call waits to block.
LEMMA GuestSeen ==
    ASSUME KInv, phase = "Guest", phase' # "Guest", SP!IInv', SP!NothingSeen,
           UNCHANGED <<ids, infos, tails, objects, draining, queue, prior, failed>>,
           Control'
    PROVE  KInv'
  <1>1. Data' /\ Pictures'
    BY SeenKept
  <1>2. \A c \in Calls : c.call \in Deferred /\ c.call \notin Blocking
                          /\ c.call # "WaitEventFlag"
    BY GuestPhase DEF Deferred, Blocking
  <1>3. Calls' = Calls /\ QueueShape'
    BY SameCalls DEF KInv, QueueOK
  <1>4. \A c \in Calls : Owed(c) /\ CallTyped(c) /\ (c.call \in Deferred => c.policy = "HigherPriorityOnly")
    BY DEF KInv, QueueOK
  <1>5. \A c \in Calls : Owed(c)'
    BY <1>2, <1>4, OwedKept
  <1>6. QueueOK'
    BY <1>3, <1>4, <1>5 DEF QueueOK
  <1>7. FailsOnlyAsReported'
    BY GuestPhase, NothingFailed
  <1> QED BY <1>1, <1>6, <1>7 DEF KInv

-----------------------------------------------------------------------------
(* The guest's steps.                                                       *)

LEMMA CheckpointStep ==
    ASSUME KInv, Checkpoint
    PROVE  KInv'
  <1>1. /\ phase = "Guest" /\ phase' # "Guest"
        /\ UNCHANGED <<schedulerVars, ids, infos, tails, objects, draining, queue, prior, failed>>
    BY DEF Checkpoint, Boundary
  <1>2. SP!IInv' /\ SP!NothingSeen
    BY <1>1, SchedulerStutter DEF KInv
  <1>3. Control'
    <2>1. policy' = "HigherPriorityOnly" /\ currentThreadId' = currentThreadId
          /\ phase' = IF queue' = <<>> THEN "Reschedule" ELSE "Apply"
      BY DEF Checkpoint, Boundary, schedulerVars
    <2> QED BY <1>1, <2>1 DEF KInv, Control
  <1> QED BY <1>1, <1>2, <1>3, GuestSeen

LEMMA RotateStep ==
    ASSUME KInv, SyscallRotate
    PROVE  KInv'
  <1>1. /\ phase = "Guest" /\ phase' = "Reschedule"
        /\ policy' = "EqualOrHigherPriority"
        /\ UNCHANGED <<ids, queue, prior, failed>>
    BY DEF SyscallRotate
  <1>2. PICK level \in 0 .. LowestPriority : RotateThreadReadyQueue(level)
    BY DEF SyscallRotate
  <1>3. UNCHANGED <<infos, tails, objects, draining>>
    BY <1>2 DEF RotateThreadReadyQueue
  <1>4. SP!IInv' /\ SP!NothingSeen
    <2>1. UNCHANGED schedulerVars \/ Sched!RotateReadyQueue(level)
      BY <1>2 DEF RotateThreadReadyQueue
    <2> QED BY <2>1, DoRotate, SchedulerStutter DEF KInv
  <1>5. Control'
    BY <1>1, <1>3 DEF KInv, Control
  <1> QED BY <1>1, <1>3, <1>4, <1>5, GuestSeen

-----------------------------------------------------------------------------
(* The calls of a thread and of a handler.                                  *)

CallNames == ThreadCalls \cup SemaCalls \cup FlagCalls \cup OtherCalls

CallTargets == ThreadIds \cup {NoThread} \cup Keys

LEMMA CallBase ==
    ASSUME NEW name \in CallNames, NEW on \in CallTargets
    PROVE  LET c == Call(name, on) IN c \in CallRecords /\ c.call = name /\ c.on = on
  <1>1. 0 \in 0 .. LowestPriority /\ AnyMode \in WaitModes /\ {} \in SUBSET EventBits
    BY KernelConstants DEF KernelConstants, AnyMode, WaitModes
  <1> QED BY <1>1 DEF Call, CallRecords, CallNames, CallTargets

LEMMA RawTyped ==
    ASSUME Types, NEW me, NEW c \in RawCalls(me)
    PROVE  CallTyped(c) /\ c.call \in Ordinary \ (Blocking \cup {"DeleteThread"})
  <1> DEFINE Good == CallTyped(c) /\ c.call \in Ordinary \ (Blocking \cup {"DeleteThread"})
  <1>1. /\ Awake \subseteq ThreadIds /\ DOMAIN infos \subseteq ThreadIds
        /\ LiveSemas \subseteq Semas /\ LiveFlags \subseteq Flags
        /\ Semas \subseteq Keys /\ Flags \subseteq Keys
    BY KeyTypes DEF Types, Awake, LiveSemas, LiveFlags
  <1>2. ASSUME NEW name \in {"SignalSema", "DeleteSema"}, NEW s \in LiveSemas,
               c = Call(name, s)
        PROVE  Good
    <2>1. name \in CallNames /\ s \in CallTargets
      BY <1>1 DEF CallNames, CallTargets, SemaCalls
    <2>2. c \in CallRecords /\ c.call = name /\ c.on = s
      BY <1>2, <2>1, CallBase
    <2> QED BY <1>1, <2>2 DEF CallTyped, Ordinary, Deferred, Blocking, ThreadCalls,
            SemaCalls, FlagCalls, OtherCalls
  <1>3. ASSUME NEW f \in LiveFlags, NEW bits \in SUBSET EventBits,
               c = [Call("SetEventFlag", f) EXCEPT !.bits = bits]
        PROVE  Good
    <2> DEFINE d == Call("SetEventFlag", f)
    <2>1. "SetEventFlag" \in CallNames /\ f \in CallTargets
      BY <1>1 DEF CallNames, CallTargets, FlagCalls
    <2>2. d \in CallRecords /\ d.call = "SetEventFlag" /\ d.on = f
      BY <2>1, CallBase
    <2>3. c = [d EXCEPT !.bits = bits]
      BY <1>3, Zenon
    <2> HIDE DEF d
    <2>4. c \in CallRecords /\ c.call = "SetEventFlag" /\ c.on = f
      BY <1>1, <2>2, <2>3 DEF CallRecords
    <2> QED BY <1>1, <2>4 DEF CallTyped, Ordinary, Deferred, Blocking, ThreadCalls,
            SemaCalls, FlagCalls, OtherCalls
  <1>4. ASSUME NEW t \in ThreadIds,
               NEW name \in {"TerminateThread", "WakeupThread", "ReleaseWaitThread",
                             "SuspendThread", "ResumeThread", "CancelWakeupThread"},
               c = Call(name, t)
        PROVE  Good
    <2>1. name \in CallNames /\ t \in CallTargets
      BY <1>1 DEF CallNames, CallTargets, ThreadCalls
    <2>2. c \in CallRecords /\ c.call = name /\ c.on = t
      BY <1>4, <2>1, CallBase
    <2> QED BY <1>1, <2>2 DEF CallTyped, Ordinary, Deferred, Blocking, ThreadCalls,
            SemaCalls, FlagCalls, OtherCalls
  <1>5. ASSUME NEW t \in ThreadIds, NEW level \in 0 .. LowestPriority,
               c = [Call("ChangeThreadPriority", t) EXCEPT !.level = level]
        PROVE  Good
    <2> DEFINE d == Call("ChangeThreadPriority", t)
    <2>1. "ChangeThreadPriority" \in CallNames /\ t \in CallTargets
      BY <1>1 DEF CallNames, CallTargets, ThreadCalls
    <2>2. d \in CallRecords /\ d.call = "ChangeThreadPriority" /\ d.on = t
      BY <2>1, CallBase
    <2>3. c = [d EXCEPT !.level = level]
      BY <1>5, Zenon
    <2> HIDE DEF d
    <2>4. c \in CallRecords /\ c.call = "ChangeThreadPriority" /\ c.on = t
      BY <1>1, <2>2, <2>3 DEF CallRecords
    <2> QED BY <1>1, <2>4 DEF CallTyped, Ordinary, Deferred, Blocking, ThreadCalls,
            SemaCalls, FlagCalls, OtherCalls
  <1>6. ASSUME NEW level \in 0 .. LowestPriority,
               c = [Call("RotateThreadReadyQueue", NoThread) EXCEPT !.level = level]
        PROVE  Good
    <2> DEFINE d == Call("RotateThreadReadyQueue", NoThread)
    <2>1. "RotateThreadReadyQueue" \in CallNames /\ NoThread \in CallTargets
      BY <1>1 DEF CallNames, CallTargets, OtherCalls
    <2>2. d \in CallRecords /\ d.call = "RotateThreadReadyQueue" /\ d.on = NoThread
      BY <2>1, CallBase
    <2>3. c = [d EXCEPT !.level = level]
      BY <1>6, Zenon
    <2> HIDE DEF d
    <2>4. c \in CallRecords /\ c.call = "RotateThreadReadyQueue"
      BY <1>1, <2>2, <2>3 DEF CallRecords
    <2> QED BY <1>1, <2>4 DEF CallTyped, Ordinary, Deferred, Blocking, ThreadCalls,
            SemaCalls, FlagCalls, OtherCalls
  <1> HIDE DEF Good
  <1>7. \/ \E name \in {"SignalSema", "DeleteSema"}, s \in LiveSemas : c = Call(name, s)
        \/ \E f \in LiveFlags, bits \in SUBSET EventBits :
              c = [Call("SetEventFlag", f) EXCEPT !.bits = bits]
        \/ \E t \in ThreadIds : \E name \in
                {"TerminateThread", "WakeupThread", "ReleaseWaitThread",
                 "SuspendThread", "ResumeThread", "CancelWakeupThread"} :
              c = Call(name, t)
        \/ \E t \in ThreadIds, level \in 0 .. LowestPriority :
              c = [Call("ChangeThreadPriority", t) EXCEPT !.level = level]
        \/ \E level \in 0 .. LowestPriority :
              c = [Call("RotateThreadReadyQueue", NoThread) EXCEPT !.level = level]
    BY <1>1 DEF RawCalls
  <1>8. Good
    BY <1>2, <1>3, <1>4, <1>5, <1>6, <1>7
  <1> QED BY <1>8 DEF Good

LEMMA OwnTyped ==
    ASSUME Types, NEW c \in OwnCalls
    PROVE  /\ CallTyped(c) /\ c.call \in Ordinary
           /\ c.call = "WaitEventFlag" => flags[c.on].live
  <1> DEFINE Good == /\ CallTyped(c) /\ c.call \in Ordinary
                     /\ c.call = "WaitEventFlag" => flags[c.on].live
  <1>1. /\ DOMAIN infos \subseteq ThreadIds /\ Modes \subseteq WaitModes
        /\ LiveSemas \subseteq Semas /\ LiveFlags \subseteq Flags
        /\ \A f \in LiveFlags : flags[f].live
        /\ Semas \subseteq Keys /\ Flags \subseteq Keys /\ SleepKey \in Keys
    BY KeyTypes, KernelConstants DEF KernelConstants, Types, LiveSemas, LiveFlags
  <1>2. ASSUME c = Call("SleepThread", SleepKey)
        PROVE  Good
    <2>1. "SleepThread" \in CallNames /\ SleepKey \in CallTargets
      BY <1>1 DEF CallNames, CallTargets, OtherCalls
    <2>2. c \in CallRecords /\ c.call = "SleepThread"
      BY <1>2, <2>1, CallBase
    <2> QED BY <1>1, <2>2 DEF CallTyped, Ordinary, Deferred, ThreadCalls,
            SemaCalls, FlagCalls, OtherCalls
  <1>3. ASSUME NEW s \in LiveSemas, c = Call("WaitSema", s)
        PROVE  Good
    <2>1. "WaitSema" \in CallNames /\ s \in CallTargets
      BY <1>1 DEF CallNames, CallTargets, SemaCalls
    <2>2. c \in CallRecords /\ c.call = "WaitSema" /\ c.on = s
      BY <1>3, <2>1, CallBase
    <2> QED BY <1>1, <2>2 DEF CallTyped, Ordinary, Deferred, ThreadCalls,
            SemaCalls, FlagCalls, OtherCalls
  <1>4. ASSUME NEW f \in LiveFlags, NEW bits \in SUBSET EventBits, NEW mode \in Modes,
               c = WaitFlagCall(f, bits, mode)
        PROVE  Good
    <2> DEFINE d == Call("WaitEventFlag", f)
    <2>1. "WaitEventFlag" \in CallNames /\ f \in CallTargets
      BY <1>1 DEF CallNames, CallTargets, FlagCalls
    <2>2. d \in CallRecords /\ d.call = "WaitEventFlag" /\ d.on = f
      BY <2>1, CallBase
    <2>3. c = [d EXCEPT !.bits = bits, !.mode = mode]
      BY <1>4, Zenon DEF WaitFlagCall
    <2> HIDE DEF d
    <2>4. c \in CallRecords /\ c.call = "WaitEventFlag" /\ c.on = f
      BY <1>1, <2>2, <2>3 DEF CallRecords
    <2> QED BY <1>1, <2>4 DEF CallTyped, Ordinary, Deferred, ThreadCalls,
            SemaCalls, FlagCalls, OtherCalls
  <1>5. ASSUME NEW f \in LiveFlags, c = Call("DeleteEventFlag", f)
        PROVE  Good
    <2>1. "DeleteEventFlag" \in CallNames /\ f \in CallTargets
      BY <1>1 DEF CallNames, CallTargets, FlagCalls
    <2>2. c \in CallRecords /\ c.call = "DeleteEventFlag" /\ c.on = f
      BY <1>5, <2>1, CallBase
    <2> QED BY <1>1, <2>2 DEF CallTyped, Ordinary, Deferred, ThreadCalls,
            SemaCalls, FlagCalls, OtherCalls
  <1>6. ASSUME NEW t \in ThreadIds, c = Call("DeleteThread", t)
        PROVE  Good
    <2>1. "DeleteThread" \in CallNames /\ t \in CallTargets
      BY <1>1 DEF CallNames, CallTargets, ThreadCalls
    <2>2. c \in CallRecords /\ c.call = "DeleteThread" /\ c.on = t
      BY <1>6, <2>1, CallBase
    <2> QED BY <1>1, <2>2 DEF CallTyped, Ordinary, Deferred, ThreadCalls,
            SemaCalls, FlagCalls, OtherCalls
  <1> HIDE DEF Good
  <1>7. \/ c = Call("SleepThread", SleepKey)
        \/ \E s \in LiveSemas : c = Call("WaitSema", s)
        \/ \E f \in LiveFlags, bits \in SUBSET EventBits, mode \in Modes :
              c = WaitFlagCall(f, bits, mode)
        \/ \E f \in LiveFlags : c = Call("DeleteEventFlag", f)
        \/ \E t \in ThreadIds : c = Call("DeleteThread", t)
    BY <1>1 DEF OwnCalls
  <1>8. Good
    BY <1>2, <1>3, <1>4, <1>5, <1>6, <1>7
  <1> QED BY <1>8 DEF Good

LEMMA SyscallTyped ==
    ASSUME Types, NEW c \in RawCalls(currentThreadId) \cup OwnCalls, NEW p \in Policies(c)
    PROVE  LET d == [c EXCEPT !.policy = p] IN
           /\ CallTyped(d) /\ d.call \in Ordinary
           /\ d.call = "WaitEventFlag" => flags[d.on].live
  <1>1. /\ CallTyped(c) /\ c.call \in Ordinary
        /\ c.call = "WaitEventFlag" => flags[c.on].live
    BY RawTyped, OwnTyped DEF Blocking
  <1>2. p \in {"None", "HigherPriorityOnly"}
    BY DEF Policies
  <1> DEFINE d == [c EXCEPT !.policy = p]
  <1>3. d \in CallRecords /\ d.call = c.call /\ d.on = c.on
    BY <1>1, <1>2 DEF CallTyped, CallRecords
  <1> HIDE DEF d
  <1>4. /\ CallTyped(d) /\ d.call \in Ordinary
        /\ d.call = "WaitEventFlag" => flags[d.on].live
    BY <1>1, <1>3 DEF CallTyped
  <1> QED BY <1>4 DEF d

\* An ordinary call that is applied with nothing published after it.
LEMMA TakeOrdinary ==
    ASSUME Whole, Control, NEW c, CallTyped(c), c.call \in Ordinary, CallerOf(c),
           draining = NoDrain, Take(c), queue' = <<>>, failed = "None",
           c.call \in Blocking /\ currentThreadId # prior =>
              /\ currentThreadId \in DOMAIN threads
              /\ threads[currentThreadId].priority <= threads[prior].priority
    PROVE  KInv'
  <1>1. CASE Exception(c) # "None"
    <2>1. /\ failed' = Exception(c) /\ phase' = "Stopped" /\ draining' = NoDrain
          /\ UNCHANGED <<schedulerVars, infos, ids, tails, objects, policy, prior>>
      BY <1>1 DEF Take, Throw
    <2>2. Whole'
      BY <2>1, WholeStutter
    <2>3. Control'
      BY <1>1, <2>1 DEF Control
    <2>4. /\ threads' = threads /\ infos' = infos /\ prior' = prior
          /\ currentThreadId' = currentThreadId
      BY <2>1 DEF schedulerVars
    <2>5. FailsOnlyAsReported'
      BY <1>1, <2>1, <2>4, ExceptionsReported DEF FailsOnlyAsReported
    <2> QED BY <2>2, <2>3, <2>5, Settled
  <1>2. CASE Exception(c) = "None"
    <2>1. /\ Apply(c) /\ policy' = c.policy /\ phase' = "Reschedule"
          /\ UNCHANGED <<ids, prior, failed>>
      BY <1>2 DEF Take
    <2>2. Whole'
      BY <1>2, <2>1, CloseOrdinary
    <2>3. c.policy \in {"None", "HigherPriorityOnly"}
      BY DEF CallTyped, CallRecords
    <2>4. Control'
      BY <2>1, <2>3 DEF Control
    <2> QED BY <2>1, <2>2, <2>4, Settled, NothingFailed
  <1> QED BY <1>1, <1>2

\* A call that the guest publishes.
LEMMA GuestPublished ==
    ASSUME KInv, phase = "Guest", NEW c, CallTyped(c), queue' = Append(queue, c),
           phase' # "Guest" \/ c.call \in Deferred,
           c.call \in Deferred => c.policy = "HigherPriorityOnly",
           c.call = "CreateThread" =>
              \A d \in Calls : ~ (d.call = "CreateThread" /\ d.on = c.on),
           \A d \in Calls : Owed(d)', Owed(c)',
           SP!IInv', Data', Control', UNCHANGED failed,
           NEW E, NEW P, Agree(E, P)',
           E = IF c.call \in {"StartThread", "ExitDeleteThread"} THEN {c.on} ELSE {},
           P = IF c.call = "InitThread" THEN Promoted \cup {c.on} ELSE Promoted
    PROVE  KInv'
  <1>1. c \in CallRecords /\ QueueShape
    BY DEF CallTyped, KInv, QueueOK
  <1>2. QueueShape' /\ Calls' = Calls \cup {c}
    BY <1>1, Published
  <1>3. Moving' = E
    <2>1. \A t : t \in Moving' <=>
              \E d \in Calls' : d.call \in {"StartThread", "ExitDeleteThread"} /\ d.on = t
      BY DEF Moving
    <2>2. \A d \in Calls : d.call \notin {"StartThread", "ExitDeleteThread"}
      BY GuestPhase DEF Deferred
    <2>3. \A t : t \in Moving' <=> t \in E
      BY <1>2, <2>1, <2>2
    <2> QED BY <2>3
  <1>4. Promoted' = P
    <2>1. /\ \A t : t \in Promoted' <=> \E d \in Calls' : d.call = "InitThread" /\ d.on = t
          /\ \A t : t \in Promoted <=> \E d \in Calls : d.call = "InitThread" /\ d.on = t
      BY DEF Promoted
    <2>2. \A t : t \in Promoted' <=> t \in P
      BY <1>2, <2>1
    <2> QED BY <2>2
  <1>5. Pictures'
    BY <1>3, <1>4, PicturesNext
  <1>6. QueueOK'
    BY <1>2 DEF KInv, QueueOK
  <1>7. FailsOnlyAsReported'
    BY GuestPhase, NothingFailed
  <1> QED BY <1>5, <1>6, <1>7 DEF KInv

\* Data and the two pictures when only the control of the kernel moves.
LEMMA StillKept ==
    ASSUME KInv, UNCHANGED <<schedulerVars, ids, infos, tails, objects, draining>>,
           NEW E, NEW P, E = Moving, P = Promoted
    PROVE  SP!IInv' /\ SP!NothingSeen /\ Data' /\ Agree(E, P)'
  <1>1. SP!IInv' /\ SP!NothingSeen
    BY SchedulerStutter DEF KInv
  <1>2. Agree(E, P)
    BY PicturesOf DEF KInv
  <1>3. Types' /\ NewIds' /\ Agree(E, P)'
    BY <1>1, <1>2, AgreeSame DEF KInv, Data
  <1>4. Objects'
    BY <1>1, WaitersSame, ObjectsKept DEF KInv, Data
  <1> QED BY <1>1, <1>3, <1>4 DEF Data

LEMMA SyscallStep ==
    ASSUME KInv, Syscall
    PROVE  KInv'
  <1>1. PICK c \in RawCalls(currentThreadId) \cup OwnCalls : \E p \in Policies(c) :
          IF queue = <<>>
          THEN Take([c EXCEPT !.policy = p]) /\ UNCHANGED queue
          ELSE /\ Publish(c, p)
               /\ phase' = "Apply"
               /\ UNCHANGED <<schedulerVars, infos, ids, tails, objects,
                              policy, prior, draining, failed>>
    BY DEF Syscall
  <1>2. PICK p \in Policies(c) :
          IF queue = <<>>
          THEN Take([c EXCEPT !.policy = p]) /\ UNCHANGED queue
          ELSE /\ Publish(c, p)
               /\ phase' = "Apply"
               /\ UNCHANGED <<schedulerVars, infos, ids, tails, objects,
                              policy, prior, draining, failed>>
    BY <1>1
  <1> DEFINE d == [c EXCEPT !.policy = p]
  <1>3. /\ CallTyped(d) /\ d.call \in Ordinary
        /\ d.call = "WaitEventFlag" => flags[d.on].live
    BY SyscallTyped DEF KInv, Data
  <1>4. IF queue = <<>>
        THEN Take(d) /\ UNCHANGED queue
        ELSE /\ queue' = Append(queue, d)
             /\ phase' = "Apply"
             /\ UNCHANGED <<schedulerVars, infos, ids, tails, objects,
                            policy, prior, draining, failed>>
    BY <1>2, Zenon DEF Publish
  <1> HIDE DEF d
  <1>5. phase = "Guest" /\ Control
    BY DEF Syscall, KInv
  <1>6. CASE queue = <<>>
    <2>1. Whole
      BY <1>6, NoCalls, WholeWhen
    <2>2. CallerOf(d)
      BY <1>3, <1>5, GuestPhase DEF CallerOf, NoTail
    <2>3. draining = NoDrain /\ failed = "None" /\ currentThreadId = prior
      BY <1>5, GuestPhase
    <2> QED BY <1>3, <1>4, <1>5, <1>6, <2>1, <2>2, <2>3, TakeOrdinary
  <1>7. CASE queue # <<>>
    <2>1. /\ queue' = Append(queue, d) /\ phase' = "Apply"
          /\ UNCHANGED <<schedulerVars, infos, ids, tails, objects,
                         policy, prior, draining, failed>>
      BY <1>4, <1>7
    <2>2. PICK P : P = Promoted
      OBVIOUS
    <2>3. Moving = {}
      BY <1>5, GuestPhase
    <2>4. SP!IInv' /\ SP!NothingSeen /\ Data' /\ Agree({}, P)'
      BY <2>1, <2>2, <2>3, StillKept
    <2>5. queue' # <<>>
      BY <1>3, <1>5, <2>1, Published DEF CallTyped, KInv, QueueOK, Ordinary, Deferred, SemaCalls, FlagCalls, OtherCalls
    <2>6. Control'
      BY <1>5, <2>1, <2>5, GuestPhase DEF Control
    <2>7. \A e \in Calls : Owed(e)'
      <3>1. \A e \in Calls : Owed(e) /\ e.call \notin Blocking /\ e.call # "WaitEventFlag"
        BY <1>5, GuestPhase DEF KInv, QueueOK, Deferred, Blocking
      <3> QED BY <2>1, <2>4, <3>1, OwedKept
    <2>8. d.call \notin {"CreateThread", "InitThread", "StartThread", "ExitDeleteThread"}
      BY <1>3 DEF Ordinary, Deferred, SemaCalls, FlagCalls, OtherCalls
    <2>9. Owed(d)'
      <3>1. /\ prior \in DOMAIN threads /\ threads[prior].state = "Running"
            /\ currentThreadId = prior /\ prior # NoThread
            /\ threads[prior].priority \in Int
        BY <1>5, GuestPhase DEF Control, RecordOK, SP!ThreadRecords, SP!Priorities
      <3>2. Overtaken'
        BY <2>1, <3>1 DEF Overtaken, schedulerVars
      <3>3. flags' = flags
        BY <2>1 DEF objects
      <3> QED BY <1>3, <2>8, <3>2, <3>3 DEF Owed
    <2> QED BY <1>3, <1>5, <2>1, <2>2, <2>4, <2>6, <2>7, <2>8, <2>9, GuestPublished
            DEF Deferred
  <1> QED BY <1>6, <1>7

\* A creation or promotion goes on waiting for its turn.
LEMMA DeferredKept ==
    ASSUME KInv, phase = "Guest", UNCHANGED prior, DOMAIN threads' = DOMAIN threads,
           \A u \in DOMAIN infos \ DOMAIN threads :
              u \in DOMAIN infos' /\ infos'[u].priority = infos[u].priority,
           prior = MainThread /\ infos[MainThread].priority = 1 =>
              infos'[MainThread].priority = 1,
           NEW d \in Calls
    PROVE  Owed(d)'
  <1>1. Owed(d) /\ d.call \in {"CreateThread", "InitThread"}
    BY GuestPhase DEF KInv, QueueOK, Deferred
  <1> QED BY <1>1 DEF Owed, Blocking

\* Only the mirror of t moves, and the scheduler is told later.
LEMMA MirrorFrame ==
    ASSUME KInv, UNCHANGED <<schedulerVars, ids, objects, draining>>,
           NEW t \in DOMAIN infos, NEW g, NEW tl \in Tails, GuestOK(g), tl.kind # "Blocked",
           NEW P, Moving = {}, P = Promoted,
           infos' = [infos EXCEPT ![t] = g], tails' = [tails EXCEPT ![t] = tl]
    PROVE  SP!IInv' /\ Data' /\ Agree({t}, P)'
  <1>1. SP!IInv' /\ SP!NothingSeen
    BY SchedulerStutter DEF KInv
  <1>2. Agree({}, P)
    BY PicturesOf DEF KInv
  <1>3. t \in ThreadIds
    BY DEF KInv, Data, Types
  <1>4. /\ DOMAIN infos' = DOMAIN infos /\ infos'[t] = g
        /\ \A u \in DOMAIN infos \ {t} : infos'[u] = infos[u]
        /\ infos' \in [DOMAIN infos' -> GuestStates]
    BY DEF KInv, Data, Types, GuestOK
  <1>5. /\ tails' \in [ThreadIds -> Tails] /\ tails'[t] = tl
        /\ \A u \in ThreadIds \ {t} : tails'[u] = tails[u]
    BY <1>3 DEF KInv, Data, Types
  <1>6. Types'
    BY <1>4, <1>5 DEF KInv, Data, Types
  <1>7. NewIds'
    BY <1>4, <1>5 DEF KInv, Data, NewIds, ids, schedulerVars
  <1>8. Agree({t}, P)'
    <2>1. threads' = threads /\ \A u \in DOMAIN threads : u \in ThreadIds
      BY ThreadType DEF schedulerVars, KInv
    <2> QED BY <1>2, <1>4, <1>5, <2>1 DEF Agree
  <1>9. Objects'
    BY <1>1, WaitersSame, ObjectsKept DEF KInv, Data
  <1> QED BY <1>1, <1>6, <1>7, <1>8, <1>9 DEF Data

LEMMA StartThreadStep ==
    ASSUME KInv, SyscallStartThread
    PROVE  KInv'
  <1>1. /\ phase = "Guest" /\ phase' = "Apply"
        /\ UNCHANGED <<schedulerVars, ids, objects, policy, prior, draining, failed>>
    BY DEF SyscallStartThread
  <1>2. PICK t \in DOMAIN infos \ (Awake \cup {MainThread}) :
          /\ infos' = [infos EXCEPT ![t] =
                  [DormantGuest(@.priority) EXCEPT !.status = "Ready"]]
          /\ tails' = [tails EXCEPT ![t] = RunTail]
          /\ Publish(Call("StartThread", t), "HigherPriorityOnly")
    BY DEF SyscallStartThread
  <1> DEFINE c == [Call("StartThread", t) EXCEPT !.policy = "HigherPriorityOnly"]
             g == [DormantGuest(infos[t].priority) EXCEPT !.status = "Ready"]
  <1>3. t \in ThreadIds /\ t # MainThread /\ infos[t].status = "Dormant" /\ GuestOK(infos[t])
    BY DEF Awake, KInv, Data, Types
  <1>4. c \in CallRecords /\ c.call = "StartThread" /\ c.on = t
    <2> DEFINE d == Call("StartThread", t)
    <2>1. "StartThread" \in CallNames /\ t \in CallTargets
      BY <1>3 DEF CallNames, CallTargets, ThreadCalls
    <2>2. d \in CallRecords /\ d.call = "StartThread" /\ d.on = t
      BY <2>1, CallBase
    <2>3. c = [d EXCEPT !.policy = "HigherPriorityOnly"]
      BY Zenon
    <2> HIDE DEF d, c
    <2> QED BY <2>2, <2>3 DEF CallRecords
  <1>5. CallTyped(c)
    BY <1>3, <1>4 DEF CallTyped, SemaCalls, FlagCalls
  <1>6. queue' = Append(queue, c)
    BY <1>2 DEF Publish
  <1>7. infos' = [infos EXCEPT ![t] = g] /\ tails' = [tails EXCEPT ![t] = RunTail]
    BY <1>2
  <1>8. GuestOK(g) /\ g.priority = infos[t].priority
    <2>1. infos[t].priority \in 0 .. LowestPriority /\ 0 \in 0 .. MaxCount
      BY <1>3, KernelConstants DEF GuestOK, GuestStates, KernelConstants
    <2>2. /\ g \in GuestStates /\ g.linked = FALSE /\ g.wait = NoWait
          /\ g.suspends = 0 /\ g.status = "Ready" /\ g.wakeups = 0
          /\ g.priority = infos[t].priority
      BY <2>1 DEF GuestStates, DormantGuest
    <2> HIDE DEF g
    <2> QED BY <2>2 DEF GuestOK, GuestValid
  <1>9. infos'[t] = g /\ tails'[t] = RunTail /\ t \in DOMAIN infos'
        /\ DOMAIN infos' = DOMAIN infos
        /\ \A u \in DOMAIN infos \ {t} : infos'[u] = infos[u]
    BY <1>3, <1>7 DEF KInv, Data, Types
  <1>10. g = [DormantGuest(g.priority) EXCEPT !.status = "Ready"]
    BY <1>8
  <1>11. t \in DOMAIN threads => /\ threads[t].state = "Dormant"
                                 /\ threads[t].priority = g.priority
    <2>1. Moving = {} /\ Promoted \subseteq {MainThread}
      BY <1>1, GuestPhase
    <2>2. t \in DOMAIN threads => /\ Match(threads[t], infos[t], tails[t])
                                  /\ infos[t].priority = threads[t].priority
      BY <1>3, <2>1 DEF KInv, Pictures
    <2> QED BY <1>3, <1>8, <2>2 DEF Match
  <1>12. RunTail \in Tails /\ RunTail.kind # "Blocked"
    BY DEF Tails, RunTail
  <1> HIDE DEF c, g
  <1>13. PICK P : P = Promoted
    OBVIOUS
  <1>14. SP!IInv' /\ Data' /\ Agree({t}, P)'
    <2>1. Moving = {}
      BY <1>1, GuestPhase
    <2> QED BY <1>1, <1>7, <1>8, <1>12, <1>13, <2>1, MirrorFrame
  <1>15. \A d \in Calls : Owed(d)'
    <2>1. DOMAIN threads' = DOMAIN threads /\ prior' = prior
      BY <1>1 DEF schedulerVars
    <2>2. \A u \in DOMAIN infos : u \in DOMAIN infos' /\ infos'[u].priority = infos[u].priority
      BY <1>8, <1>9
    <2>3. MainThread \in DOMAIN infos => infos'[MainThread].priority = infos[MainThread].priority
      BY <2>2
    <2>4. prior = MainThread => MainThread \in DOMAIN infos
      BY <1>1, GuestPhase
    <2> QED BY <1>1, <2>1, <2>2, <2>3, <2>4, DeferredKept
  <1>16. Owed(c)'
    <2>1. threads' = threads
      BY <1>1 DEF schedulerVars
    <2> QED BY <1>3, <1>4, <1>9, <1>10, <1>11, <2>1 DEF Owed, Blocking
  <1>17. Control'
    <2>1. queue' # <<>>
      BY <1>1, <1>4, <1>6, Published DEF KInv, QueueOK
    <2>2. prior # t
      BY <1>1, <1>3, GuestPhase
    <2>3. tails'[prior] = NoTail
      BY <1>1, <1>7, <2>2, GuestPhase DEF KInv, Data, Types
    <2>4. currentThreadId' = currentThreadId
      BY <1>1 DEF schedulerVars
    <2> QED BY <1>1, <2>1, <2>3, <2>4, GuestPhase DEF KInv, Control
  <1> QED BY <1>1, <1>4, <1>5, <1>6, <1>13, <1>14, <1>15, <1>16, <1>17, GuestPublished
          DEF Deferred

LEMMA CreateThreadStep ==
    ASSUME KInv, SyscallCreateThread
    PROVE  KInv'
  <1>1. PICK t \in fresh, level \in 0 .. LowestPriority :
          /\ infos' = [u \in DOMAIN infos \cup {t} |->
                          IF u = t THEN DormantGuest(level) ELSE infos[u]]
          /\ fresh' = fresh \ {t}
          /\ UNCHANGED program
          /\ Publish([Call("CreateThread", t) EXCEPT !.level = level],
                     "HigherPriorityOnly")
    BY DEF SyscallCreateThread
  <1>2. /\ phase = "Guest" /\ phase' = phase
        /\ UNCHANGED <<schedulerVars, tails, objects, policy, prior, draining, failed>>
    BY DEF SyscallCreateThread, loop
  <1> DEFINE c == [[Call("CreateThread", t) EXCEPT !.level = level]
                     EXCEPT !.policy = "HigherPriorityOnly"]
  <1>3. queue' = Append(queue, c)
    BY <1>1, Zenon DEF Publish
  <1>4. /\ t \in ThreadIds /\ t # MainThread
        /\ t \notin DOMAIN infos /\ t \notin DOMAIN threads
    BY DEF KInv, Data, NewIds
  <1>5. /\ c \in CallRecords /\ c.call = "CreateThread" /\ c.on = t
        /\ c.level = level /\ c.policy = "HigherPriorityOnly"
    <2> DEFINE d == Call("CreateThread", t)
    <2>1. "CreateThread" \in CallNames /\ t \in CallTargets
      BY <1>4 DEF CallNames, CallTargets, ThreadCalls
    <2>2. d \in CallRecords /\ d.call = "CreateThread" /\ d.on = t
      BY <2>1, CallBase
    <2>3. c = [[d EXCEPT !.level = level] EXCEPT !.policy = "HigherPriorityOnly"]
      BY Zenon
    <2> HIDE DEF d, c
    <2> QED BY <2>2, <2>3 DEF CallRecords
  <1> HIDE DEF c
  <1>6. CallTyped(c)
    BY <1>4, <1>5 DEF CallTyped, SemaCalls, FlagCalls
  <1>7. GuestOK(DormantGuest(level)) /\ DormantGuest(level).priority = level
        /\ DormantGuest(level).status = "Dormant"
    <2>1. NoTail.kind # "Blocked"
      BY DEF NoTail
    <2>2. GuestOK(DormantGuest(level))
      BY <2>1, MatchDormant
    <2> QED BY <2>2 DEF DormantGuest
  <1>8. /\ DOMAIN infos' = DOMAIN infos \cup {t} /\ infos'[t] = DormantGuest(level)
        /\ \A u \in DOMAIN infos : infos'[u] = infos[u]
        /\ infos' \in [DOMAIN infos' -> GuestStates]
    BY <1>1, <1>4, <1>7 DEF KInv, Data, Types, GuestOK
  <1>9. threads' = threads /\ tails' = tails /\ prior' = prior
        /\ currentThreadId' = currentThreadId
    BY <1>2 DEF schedulerVars
  <1>10. Types'
    BY <1>4, <1>7, <1>8, <1>9 DEF KInv, Data, Types
  <1>11. NewIds'
    BY <1>1, <1>8, <1>9 DEF KInv, Data, NewIds
  <1>12. SP!IInv' /\ SP!NothingSeen
    BY <1>2, SchedulerStutter DEF KInv
  <1>13. Objects'
    BY <1>2, <1>12, WaitersSame, ObjectsKept DEF KInv, Data
  <1>14. PICK P : P = Promoted
    OBVIOUS
  <1>15. Agree({}, P)'
    <2>1. Agree({}, P)
      BY <1>2, <1>14, GuestPhase, PicturesOf DEF KInv
    <2> QED BY <1>7, <1>8, <1>9, <2>1 DEF Agree
  <1>16. \A d \in Calls : Owed(d)'
    <2>1. prior \in DOMAIN infos /\ \A u \in DOMAIN infos : infos'[u].priority = infos[u].priority
      BY <1>2, <1>8, GuestPhase
    <2> QED BY <1>2, <1>8, <1>9, <2>1, DeferredKept
  <1>17. Owed(c)'
    BY <1>4, <1>5, <1>7, <1>8, <1>9 DEF Owed, Blocking
  <1>18. \A d \in Calls : ~ (d.call = "CreateThread" /\ d.on = c.on)
    BY <1>4, <1>5 DEF KInv, QueueOK, Owed
  <1>19. Control'
    <2>1. queue' # <<>>
      BY <1>2, <1>3, <1>5, <1>18, Published DEF KInv, QueueOK, Deferred
    <2> QED BY <1>2, <1>9, <2>1, GuestPhase DEF KInv, Control
  <1>20. Data'
    BY <1>10, <1>11, <1>13 DEF Data
  <1> QED BY <1>2, <1>3, <1>5, <1>6, <1>12, <1>14, <1>15, <1>16, <1>17, <1>18, <1>19,
             <1>20, GuestPublished DEF Deferred

LEMMA InitThreadStep ==
    ASSUME KInv, SyscallInitThread
    PROVE  KInv'
  <1>1. /\ phase = "Guest" /\ phase' = phase /\ currentThreadId = MainThread
        /\ infos' = [infos EXCEPT ![MainThread].priority = 1]
        /\ Publish(Call("InitThread", MainThread), "HigherPriorityOnly")
        /\ UNCHANGED <<schedulerVars, ids, tails, objects, policy, prior, draining, failed>>
    BY DEF SyscallInitThread, loop
  <1> DEFINE t == MainThread
             c == [Call("InitThread", t) EXCEPT !.policy = "HigherPriorityOnly"]
  <1>2. queue' = Append(queue, c)
    BY <1>1 DEF Publish
  <1>3. /\ prior = t /\ t \in DOMAIN threads /\ t \in DOMAIN infos /\ t \in ThreadIds
        /\ Moving = {} /\ tails[t] = NoTail /\ GuestOK(infos[t]) /\ RecordOK(threads[t])
        /\ Match(threads[t], infos[t], tails[t])
    BY <1>1, GuestPhase
  <1>4. c \in CallRecords /\ c.call = "InitThread" /\ c.on = t /\ c.policy = "HigherPriorityOnly"
    <2> DEFINE d == Call("InitThread", t)
    <2>1. "InitThread" \in CallNames /\ t \in CallTargets
      BY <1>3 DEF CallNames, CallTargets, ThreadCalls
    <2>2. d \in CallRecords /\ d.call = "InitThread" /\ d.on = t
      BY <2>1, CallBase
    <2>3. c = [d EXCEPT !.policy = "HigherPriorityOnly"]
      BY Zenon
    <2> HIDE DEF d, c
    <2> QED BY <2>2, <2>3 DEF CallRecords
  <1> HIDE DEF c
  <1>5. CallTyped(c)
    BY <1>3, <1>4 DEF CallTyped, SemaCalls, FlagCalls
  <1> DEFINE g == [infos[t] EXCEPT !.priority = 1]
  <1>6. GuestOK(g) /\ Match(threads[t], g, tails[t]) /\ g.priority = 1
    <2>1. 1 \in 0 .. LowestPriority
      BY KernelConstants DEF KernelConstants
    <2>2. GuestOK(g) /\ Match(threads[t], g, tails[t])
      BY <1>3, <2>1, MatchPriority
    <2>3. g.priority = 1
      BY <1>3 DEF GuestOK, GuestStates
    <2> QED BY <2>2, <2>3
  <1>7. infos' = [infos EXCEPT ![t] = g]
    BY <1>1
  <1> HIDE DEF g, t
  <1>8. tails' = [tails EXCEPT ![t] = tails[t]] /\ tails[t] \in Tails
    BY <1>1, <1>3 DEF KInv, Data, Types
  <1>9. SP!IInv' /\ SP!NothingSeen /\ SP!Becomes(t, threads[t])
    <2>1. SP!IInv' /\ SP!NothingSeen
      BY <1>1, SchedulerStutter DEF KInv
    <2> QED BY <1>3, <2>1 DEF SP!NothingSeen, SP!Becomes
  <1>10. PICK P : P = Promoted
    OBVIOUS
  <1>11. PICK Q : Q = P \cup {t}
    OBVIOUS
  <1>12. Types' /\ NewIds' /\ Agree({}, Q)'
    <2>1. Agree({}, P)
      BY <1>3, <1>10, PicturesOf DEF KInv
    <2>2. {} \ {t} \subseteq {} /\ P \ {t} \subseteq Q /\ t \in Q
      BY <1>11
    <2>3. UNCHANGED ids /\ SP!IInv /\ Types /\ NewIds
      BY <1>1 DEF KInv, Data
    <2>4. t \in {} \/ (Match(threads[t], g, tails[t])
                        /\ (t \in Q \/ g.priority = threads[t].priority))
      BY <1>6, <2>2
    <2> QED BY <1>3, <1>6, <1>7, <1>8, <1>9, <2>1, <2>2, <2>3, <2>4, AgreeFrame
  <1>13. Objects'
    BY <1>1, <1>9, WaitersSame, ObjectsKept DEF KInv, Data
  <1>14. /\ DOMAIN infos' = DOMAIN infos /\ infos'[t] = g
         /\ \A u \in DOMAIN infos \ {t} : infos'[u] = infos[u]
         /\ threads' = threads /\ prior' = prior /\ currentThreadId' = currentThreadId
    BY <1>1, <1>3, <1>7 DEF KInv, Data, Types, schedulerVars
  <1>15. \A d \in Calls : Owed(d)'
    BY <1>1, <1>3, <1>6, <1>14, DeferredKept DEF t
  <1>16. Owed(c)'
    BY <1>3, <1>4, <1>6, <1>14 DEF Owed, Blocking, t
  <1>17. Control'
    <2>1. queue' # <<>>
      BY <1>1, <1>2, <1>4, Published DEF KInv, QueueOK, Deferred
    <2> QED BY <1>1, <1>14, <2>1, GuestPhase DEF KInv, Control
  <1>18. Data'
    BY <1>12, <1>13 DEF Data
  <1> QED BY <1>1, <1>2, <1>4, <1>5, <1>9, <1>10, <1>11, <1>12, <1>15, <1>16, <1>17,
             <1>18, GuestPublished DEF Deferred

\* What a thread of the guest's own phase leaves when it ends.
LEMMA EndedThread ==
    ASSUME KInv, phase = "Guest", currentThreadId # MainThread, Sched!FinishCurrentThread
    PROVE  /\ SP!IInv' /\ prior # MainThread /\ Promoted = {} /\ Moving = {}
           /\ SP!Becomes(prior, SP!DormantRecord(threads[prior].generation,
                                                 threads[prior].priority))
           /\ \A w : Waiters(w)' = Waiters(w)
           /\ infos[prior].priority = threads[prior].priority
           /\ infos[prior].priority \in 0 .. LowestPriority
           /\ DOMAIN threads' = DOMAIN threads
           /\ threads'[prior].state = "Dormant"
  <1>1. /\ currentThreadId = prior /\ prior # MainThread /\ Promoted = {} /\ Moving = {}
        /\ threads[prior].state = "Running" /\ prior \in DOMAIN threads
        /\ infos[prior].priority = threads[prior].priority
        /\ GuestOK(infos[prior])
    BY GuestPhase
  <1> DEFINE r == SP!DormantRecord(threads[prior].generation, threads[prior].priority)
  <1>2. SP!IInv' /\ SP!Becomes(prior, r)
    BY <1>1, DoFinish DEF KInv
  <1>3. ~ Waits(r) /\ ~ Waits(threads[prior]) /\ r.state = "Dormant"
    BY <1>1 DEF Waits, SP!DormantRecord, SP!FreshRecord
  <1> HIDE DEF r
  <1>4. \A w : Waiters(w)' = Waiters(w)
    BY <1>2, <1>3, WaitersKept
  <1>5. DOMAIN threads' = DOMAIN threads /\ threads'[prior].state = "Dormant"
    BY <1>2, <1>3 DEF SP!Becomes, SP!Alike
  <1> QED BY <1>1, <1>2, <1>4, <1>5 DEF GuestOK, GuestStates, r

LEMMA ExitThreadStep ==
    ASSUME KInv, SyscallExitThread
    PROVE  KInv'
  <1>1. /\ phase = "Guest" /\ currentThreadId # MainThread /\ Sched!FinishCurrentThread
        /\ infos' = [infos EXCEPT ![currentThreadId] = DormantGuest(@.priority)]
        /\ UNCHANGED <<ids, tails, objects, queue, draining, failed>>
        /\ policy' = "HigherPriorityOnly" /\ UNCHANGED prior
        /\ phase' = IF queue' = <<>> THEN "Reschedule" ELSE "Apply"
    BY DEF SyscallExitThread, Boundary
  <1>2. PICK t : t = prior
    OBVIOUS
  <1> DEFINE g == DormantGuest(infos[t].priority)
             r == SP!DormantRecord(threads[t].generation, threads[t].priority)
  <1>3. /\ SP!IInv' /\ t # MainThread /\ Promoted = {} /\ Moving = {}
        /\ SP!Becomes(t, r) /\ \A w : Waiters(w)' = Waiters(w)
        /\ infos[t].priority = threads[t].priority
        /\ infos[t].priority \in 0 .. LowestPriority
        /\ DOMAIN threads' = DOMAIN threads
    BY <1>1, <1>2, EndedThread
  <1>4. /\ t \in DOMAIN threads /\ t \in DOMAIN infos /\ t \in ThreadIds /\ tails[t] = NoTail
        /\ currentThreadId = t
    BY <1>1, <1>2, GuestPhase
  <1>5. NoTail.kind # "Blocked" /\ NoTail \in Tails
    BY DEF NoTail, Tails
  <1>6. GuestOK(g) /\ Match(r, g, NoTail)
    BY <1>3, <1>5, MatchDormant
  <1>7. g.priority = r.priority
    BY <1>3 DEF DormantGuest, SP!DormantRecord, SP!FreshRecord
  <1>8. infos' = [infos EXCEPT ![t] = g]
    BY <1>1, <1>4
  <1> HIDE DEF g, r
  <1>9. tails' = [tails EXCEPT ![t] = NoTail]
    BY <1>1, <1>4 DEF KInv, Data, Types
  <1>10. Types' /\ NewIds' /\ Agree({}, {})'
    <2>1. Agree({}, {}) /\ SP!IInv /\ Types /\ NewIds /\ UNCHANGED ids
      BY <1>1, <1>3, PicturesOf DEF KInv, Data
    <2>2. {} \ {t} \subseteq {}
      OBVIOUS
    <2> QED BY <1>3, <1>4, <1>5, <1>6, <1>7, <1>8, <1>9, <2>1, <2>2, AgreeFrame
  <1>11. Objects'
    BY <1>1, <1>3, ObjectsKept DEF KInv, Data
  <1>12. /\ Calls' = Calls /\ QueueShape'
         /\ Moving' = {} /\ Promoted' = {}
    BY <1>1, <1>3, SameCalls DEF KInv, QueueOK
  <1>13. Pictures'
    BY <1>10, <1>12, PicturesNext
  <1>14. \A d \in Calls : Owed(d)'
    <2>1. \A u \in DOMAIN infos \ DOMAIN threads :
             u \in DOMAIN infos' /\ infos'[u].priority = infos[u].priority
      BY <1>4, <1>8
    <2> QED BY <1>1, <1>2, <1>3, <2>1, DeferredKept
  <1>15. QueueOK'
    BY <1>12, <1>14 DEF KInv, QueueOK
  <1>16. Control'
    <2>1. tails'[prior] = NoTail /\ draining = NoDrain /\ failed = "None"
      BY <1>1, GuestPhase
    <2> QED BY <1>1, <2>1 DEF KInv, Control
  <1>17. FailsOnlyAsReported'
    BY <1>1, GuestPhase, NothingFailed
  <1> QED BY <1>3, <1>10, <1>11, <1>13, <1>15, <1>16, <1>17 DEF KInv, Data

LEMMA ExitDeleteThreadStep ==
    ASSUME KInv, SyscallExitDeleteThread
    PROVE  KInv'
  <1>1. /\ phase = "Guest" /\ currentThreadId # MainThread /\ Sched!FinishCurrentThread
        /\ infos' = [t \in DOMAIN infos \ {currentThreadId} |-> infos[t]]
        /\ Publish(Call("ExitDeleteThread", currentThreadId), "None")
        /\ UNCHANGED <<ids, tails, objects, draining, failed>>
        /\ policy' = "HigherPriorityOnly" /\ UNCHANGED prior
        /\ phase' = IF queue' = <<>> THEN "Reschedule" ELSE "Apply"
    BY DEF SyscallExitDeleteThread, Boundary
  <1>2. PICK t : t = prior
    OBVIOUS
  <1> DEFINE r == SP!DormantRecord(threads[t].generation, threads[t].priority)
             c == [Call("ExitDeleteThread", t) EXCEPT !.policy = "None"]
  <1>3. /\ SP!IInv' /\ t # MainThread /\ Promoted = {} /\ Moving = {}
        /\ SP!Becomes(t, r) /\ \A w : Waiters(w)' = Waiters(w)
        /\ infos[t].priority = threads[t].priority
        /\ infos[t].priority \in 0 .. LowestPriority
        /\ DOMAIN threads' = DOMAIN threads /\ threads'[t].state = "Dormant"
    BY <1>1, <1>2, EndedThread
  <1>4. /\ t \in DOMAIN threads /\ t \in DOMAIN infos /\ t \in ThreadIds /\ tails[t] = NoTail
        /\ currentThreadId = t
    BY <1>1, <1>2, GuestPhase
  <1>5. queue' = Append(queue, c)
    BY <1>1, <1>4, Zenon DEF Publish
  <1>6. c \in CallRecords /\ c.call = "ExitDeleteThread" /\ c.on = t
    <2> DEFINE d == Call("ExitDeleteThread", t)
    <2>1. "ExitDeleteThread" \in CallNames /\ t \in CallTargets
      BY <1>4 DEF CallNames, CallTargets, ThreadCalls
    <2>2. d \in CallRecords /\ d.call = "ExitDeleteThread" /\ d.on = t
      BY <2>1, CallBase
    <2>3. c = [d EXCEPT !.policy = "None"]
      BY Zenon
    <2> HIDE DEF d, c
    <2> QED BY <2>2, <2>3 DEF CallRecords
  <1> HIDE DEF c, r
  <1>7. CallTyped(c)
    BY <1>4, <1>6 DEF CallTyped, SemaCalls, FlagCalls
  <1>8. /\ DOMAIN infos' = DOMAIN infos \ {t}
        /\ \A u \in DOMAIN infos \ {t} : infos'[u] = infos[u]
        /\ infos' \in [DOMAIN infos' -> GuestStates]
    BY <1>1, <1>4 DEF KInv, Data, Types
  <1>9. Types'
    BY <1>1, <1>8 DEF KInv, Data, Types
  <1>10. NewIds'
    BY <1>1, <1>3, <1>8 DEF KInv, Data, NewIds, ids
  <1>11. Agree({t}, {})'
    <2>1. Agree({}, {})
      BY <1>3, PicturesOf DEF KInv
    <2>2. \A u \in DOMAIN threads \ {t} : SP!Alike(threads[u], threads'[u])
      BY <1>3 DEF SP!Becomes
    <2>3. ASSUME NEW u \in DOMAIN threads' \ {t}
          PROVE  /\ u \in DOMAIN infos'
                 /\ Match(threads'[u], infos'[u], tails'[u])
                 /\ infos'[u].priority = threads'[u].priority
      <3>1. /\ u \in DOMAIN infos /\ Match(threads[u], infos[u], tails[u])
            /\ infos[u].priority = threads[u].priority
        BY <1>3, <2>1 DEF Agree
      <3>2. /\ infos'[u] = infos[u] /\ tails'[u] = tails[u] /\ u \in DOMAIN infos'
            /\ SP!Alike(threads[u], threads'[u])
        BY <1>1, <1>3, <1>8, <2>2, <3>1
      <3> QED BY <3>1, <3>2, MatchAlike DEF SP!Alike
    <2>4. ASSUME NEW u \in DOMAIN infos' \ (DOMAIN threads' \cup {t})
          PROVE  infos'[u].status = "Dormant"
      BY <1>3, <1>8, <2>1 DEF Agree
    <2> QED BY <2>3, <2>4 DEF Agree
  <1>12. Objects'
    BY <1>1, <1>3, ObjectsKept DEF KInv, Data
  <1>13. \A d \in Calls : Owed(d)'
    <2>1. \A u \in DOMAIN infos \ DOMAIN threads :
             u \in DOMAIN infos' /\ infos'[u].priority = infos[u].priority
      BY <1>4, <1>8
    <2> QED BY <1>1, <1>2, <1>3, <2>1, DeferredKept
  <1>14. Owed(c)'
    <2>1. tails'[t].kind # "Blocked"
      BY <1>1, <1>4 DEF NoTail
    <2> QED BY <1>3, <1>4, <1>6, <1>8, <2>1 DEF Owed, Blocking
  <1>15. queue' # <<>> /\ phase' # "Guest"
    BY <1>1, <1>5, <1>6, Published DEF KInv, QueueOK
  <1>16. Control'
    <2>1. tails'[prior] = NoTail /\ draining = NoDrain /\ failed = "None"
      BY <1>1, GuestPhase
    <2> QED BY <1>1, <1>15, <2>1 DEF KInv, Control
  <1>17. Data'
    BY <1>9, <1>10, <1>12 DEF Data
  <1> QED BY <1>1, <1>3, <1>5, <1>6, <1>7, <1>11, <1>13, <1>14, <1>15, <1>16, <1>17,
             GuestPublished DEF Deferred

LEMMA PublishRunningStep ==
    ASSUME KInv, PublishRunning
    PROVE  KInv'
  <1>1. /\ phase = "Guest" /\ currentThreadId # MainThread
        /\ infos' = [infos EXCEPT ![currentThreadId] = DispatchedGuest(@)]
        /\ phase' = phase
        /\ UNCHANGED <<schedulerVars, ids, tails, objects, queue, policy, prior, draining, failed>>
    BY DEF PublishRunning, loop
  <1>2. PICK t : t = prior
    OBVIOUS
  <1> DEFINE g == DispatchedGuest(infos[t])
  <1>3. /\ t \in DOMAIN threads /\ t \in DOMAIN infos /\ t \in ThreadIds /\ tails[t] = NoTail
        /\ currentThreadId = t /\ Promoted = {} /\ Moving = {} /\ GuestOK(infos[t])
        /\ RecordOK(threads[t]) /\ Match(threads[t], infos[t], NoTail)
        /\ threads[t].state = "Running" /\ infos[t].priority = threads[t].priority
    BY <1>1, <1>2, GuestPhase
  <1>4. GuestOK(g) /\ Match(threads[t], g, NoTail)
    <2>1. threads[t] \in {threads[t], [threads[t] EXCEPT !.completedWait = SP!NoCompletion]}
      OBVIOUS
    <2> QED BY <1>3, <2>1, MatchDispatched
  <1>5. g.priority = infos[t].priority
    BY <1>3 DEF DispatchedGuest, GuestOK, GuestStates
  <1>6. infos' = [infos EXCEPT ![t] = g]
    BY <1>1, <1>3
  <1> HIDE DEF g
  <1>7. SP!IInv' /\ SP!NothingSeen /\ SP!Becomes(t, threads[t])
    <2>1. SP!IInv' /\ SP!NothingSeen
      BY <1>1, SchedulerStutter DEF KInv
    <2> QED BY <1>3, <2>1 DEF SP!NothingSeen, SP!Becomes
  <1>8. Types' /\ NewIds' /\ Agree({}, {})'
    <2>1. Agree({}, {}) /\ SP!IInv /\ Types /\ NewIds /\ UNCHANGED ids
      BY <1>1, <1>3, PicturesOf DEF KInv, Data
    <2>2. {} \ {t} \subseteq {}
      OBVIOUS
    <2>3. tails' = [tails EXCEPT ![t] = NoTail] /\ NoTail \in Tails
      BY <1>1, <1>3 DEF KInv, Data, Types, NoTail, Tails
    <2> QED BY <1>3, <1>4, <1>5, <1>6, <1>7, <2>1, <2>2, <2>3, AgreeFrame
  <1>9. Objects'
    BY <1>1, <1>7, WaitersSame, ObjectsKept DEF KInv, Data
  <1>10. /\ Calls' = Calls /\ QueueShape'
         /\ Moving' = {} /\ Promoted' = {}
    BY <1>1, <1>3, SameCalls DEF KInv, QueueOK
  <1>11. Pictures'
    BY <1>8, <1>10, PicturesNext
  <1>12. \A d \in Calls : Owed(d)'
    <2>1. \A u \in DOMAIN infos \ DOMAIN threads :
             u \in DOMAIN infos' /\ infos'[u].priority = infos[u].priority
      BY <1>3, <1>6
    <2>2. DOMAIN threads' = DOMAIN threads /\ prior' = prior
      BY <1>1 DEF schedulerVars
    <2> QED BY <1>1, <1>2, <1>3, <2>1, <2>2, DeferredKept
  <1>13. QueueOK'
    BY <1>10, <1>12 DEF KInv, QueueOK
  <1>14. Control'
    <2>1. currentThreadId' = currentThreadId
      BY <1>1 DEF schedulerVars
    <2> QED BY <1>1, <2>1 DEF KInv, Control
  <1>15. FailsOnlyAsReported'
    BY <1>1, GuestPhase, NothingFailed
  <1> QED BY <1>7, <1>8, <1>9, <1>11, <1>13, <1>14, <1>15 DEF KInv, Data

\* The calls that act on an object and publish nothing.
LEMMA ObjectStep ==
    ASSUME KInv, phase \in {"Guest", "Interrupts"},
           UNCHANGED <<schedulerVars, infos, ids, tails, queue, loop, draining, failed>>,
           Objects'
    PROVE  KInv'
  <1>1. SP!IInv' /\ SP!NothingSeen
    BY SchedulerStutter DEF KInv
  <1>2. PICK E : E = Moving
    OBVIOUS
  <1>3. PICK P : P = Promoted
    OBVIOUS
  <1>4. Agree(E, P)
    BY <1>2, <1>3, PicturesOf DEF KInv
  <1>5. Types' /\ NewIds' /\ Agree(E, P)'
    BY <1>1, <1>4, AgreeSame DEF KInv, Data
  <1>6. /\ Calls' = Calls /\ QueueShape' /\ E = Moving' /\ P = Promoted'
    BY <1>2, <1>3, SameCalls DEF KInv, QueueOK, loop
  <1>7. Pictures'
    BY <1>5, <1>6, PicturesNext
  <1>8. \A c \in Calls : c.call \notin Blocking /\ c.call # "WaitEventFlag"
    <2>1. CASE phase = "Guest"
      BY <2>1, GuestPhase DEF Deferred, Blocking
    <2>2. CASE phase = "Interrupts"
      <3>1. queue = <<>>
        BY <2>2 DEF KInv, Control
      <3> QED BY <3>1, NoCalls
    <2> QED BY <2>1, <2>2
  <1>9. \A c \in Calls : Owed(c)'
    BY <1>1, <1>8, OwedKept DEF KInv, QueueOK, loop
  <1>10. QueueOK'
    BY <1>6, <1>9 DEF KInv, QueueOK
  <1>11. /\ phase' = phase /\ policy' = policy /\ prior' = prior
         /\ threads' = threads /\ currentThreadId' = currentThreadId
    BY DEF loop, schedulerVars
  <1>12. Control'
    BY <1>11 DEF KInv, Control
  <1>13. FailsOnlyAsReported'
    BY <1>11 DEF KInv, FailsOnlyAsReported
  <1> QED BY <1>1, <1>5, <1>7, <1>10, <1>12, <1>13 DEF KInv, Data

LEMMA CreateObjectStep ==
    ASSUME KInv, CreateObject
    PROVE  KInv'
  <1>1. /\ phase = "Guest"
        /\ UNCHANGED <<schedulerVars, infos, ids, tails, queue, loop, draining, failed>>
        /\ draining = NoDrain
    BY GuestPhase DEF CreateObject
  <1>2. \A w \in Semas \cup Flags : Waiters(w)' = Waiters(w)
    BY <1>1, SchedulerStutter, WaitersSame DEF KInv
  <1>3. ASSUME NEW s \in Semas, ~ semas[s].live, NEW count \in 0 .. MaxSema,
               semas' = [semas EXCEPT ![s] = [live |-> TRUE, count |-> count, waiters |-> 0]],
               UNCHANGED flags
        PROVE  Objects'
    <2> DEFINE q == [live |-> TRUE, count |-> count, waiters |-> 0]
    <2>1. Waiters(s) = {}
      BY <1>1, <1>3 DEF KInv, Data, Objects, NotStranded, Pending
    <2>2. semas[s].waiters = 0
      BY <2>1, FS_EmptySet DEF KInv, Data, Objects, Counted
    <2>3. q \in SemaRecords /\ q.waiters = 0
      BY DEF SemaRecords
    <2> HIDE DEF q
    <2>4. semas' = [semas EXCEPT ![s] = q]
      BY <1>3 DEF q
    <2>5. Objects
      BY DEF KInv, Data
    <2> QED BY <1>1, <1>2, <1>3, <2>1, <2>2, <2>3, <2>4, <2>5, SemaChanged
  <1>4. ASSUME NEW f \in Flags, ~ flags[f].used, NEW bits \in SUBSET EventBits,
               NEW multi \in BOOLEAN, flags' = [flags EXCEPT ![f] = NewFlag(bits, multi)],
               UNCHANGED semas
        PROVE  Objects'
    <2> DEFINE q == NewFlag(bits, multi)
    <2>1. Waiters(f) = {}
      <3>1. ~ flags[f].live
        BY <1>4 DEF KInv, Data, Objects, ObjectTypes
      <3> QED BY <1>1, <3>1 DEF KInv, Data, Objects, NotStranded, Pending
    <2>2. q \in FlagRecords /\ q.used /\ DOMAIN q.requests = {}
      <3>1. [t \in {} |-> NoThread] \in [{} -> Requests] /\ {} \in SUBSET ThreadIds
        OBVIOUS
      <3>2. [t \in {} |-> NoThread] \in UNION {[S -> Requests] : S \in SUBSET ThreadIds}
        BY <3>1
      <3> QED BY <3>2 DEF NewFlag, FlagRecords
    <2> HIDE DEF q
    <2>3. flags' = [flags EXCEPT ![f] = q]
      BY <1>4 DEF q
    <2>4. Objects
      BY DEF KInv, Data
    <2>5. /\ \A w \in (Semas \cup Flags) \ {f} : Waiters(w)' = Waiters(w)
          /\ Waiters(f)' = {} /\ UNCHANGED <<semas, draining>>
      BY <1>1, <1>2, <1>4, <2>1
    <2>6. DOMAIN q.requests = Waiters(f)'
      BY <2>2, <2>5
    <2>7. \A t \in Waiters(f)' : q.live /\ ~ Satisfied(q.bits, q.requests[t])
      BY <2>5
    <2>8. q.live => q.used
      BY <2>2
    <2> QED BY <1>1, <1>4, <2>2, <2>3, <2>4, <2>5, <2>6, <2>7, <2>8, FlagChanged
  <1>5. Objects'
    BY <1>3, <1>4 DEF CreateObject, LiveSemas
  <1> QED BY <1>1, <1>5, ObjectStep

LEMMA UseObjectStep ==
    ASSUME KInv, UseObject
    PROVE  KInv'
  <1>1. /\ phase \in {"Guest", "Interrupts"} /\ draining = NoDrain
        /\ UNCHANGED <<schedulerVars, infos, ids, tails, queue, loop, draining, failed>>
    BY DEF UseObject
  <1>2. \A w \in Semas \cup Flags : Waiters(w)' = Waiters(w)
    BY <1>1, SchedulerStutter, WaitersSame DEF KInv
  <1>3. ASSUME NEW s \in LiveSemas, PollSema(s)
        PROVE  Objects'
    <2> DEFINE q == [semas[s] EXCEPT !.count = @ - 1]
    <2>1. s \in Semas /\ semas[s] \in SemaRecords /\ semas[s].count > 0
      BY <1>3 DEF LiveSemas, PollSema, KInv, Data, Objects, ObjectTypes
    <2>2. Waiters(s) = {}
      BY <1>1, <2>1 DEF KInv, Data, Objects, NotStranded, Pending, SemaRecords
    <2>3. q \in SemaRecords /\ q.waiters = semas[s].waiters
      BY <2>1, KernelConstants DEF SemaRecords, KernelConstants
    <2>4. semas' = [semas EXCEPT ![s] = q] /\ UNCHANGED flags
      BY <1>3, <2>1 DEF PollSema
    <2> HIDE DEF q
    <2> QED BY <1>1, <1>2, <2>1, <2>2, <2>3, <2>4, SemaChanged DEF KInv, Data
  <1>4. ASSUME NEW f \in LiveFlags, NEW fewer \in SUBSET flags[f].bits,
               flags' = [flags EXCEPT ![f].bits = fewer], UNCHANGED semas
        PROVE  Objects'
    <2> DEFINE q == [flags[f] EXCEPT !.bits = fewer]
    <2>1. f \in Flags /\ flags[f] \in FlagRecords /\ flags[f].live /\ flags[f].used
      BY DEF LiveFlags, KInv, Data, Objects, ObjectTypes
    <2>2. /\ q \in FlagRecords /\ q.live /\ q.used /\ q.bits = fewer
          /\ q.requests = flags[f].requests
      BY <2>1 DEF FlagRecords
    <2>3. flags' = [flags EXCEPT ![f] = q]
      BY <1>4, <2>1
    <2> HIDE DEF q
    <2>4. DOMAIN q.requests = Waiters(f)'
      BY <1>2, <2>1, <2>2 DEF KInv, Data, Objects, Counted
    <2>5. \A t \in Waiters(f)' : ~ Satisfied(q.bits, q.requests[t])
      <3>1. \A t \in Waiters(f) : ~ Satisfied(flags[f].bits, flags[f].requests[t])
        BY <1>1, <2>1 DEF KInv, Data, Objects, NotStranded, Pending
      <3> QED BY <1>2, <2>1, <2>2, <3>1, FewerBits
    <2> QED BY <1>1, <1>2, <1>4, <2>1, <2>2, <2>3, <2>4, <2>5, FlagChanged DEF KInv, Data
  <1>5. ASSUME NEW f \in LiveFlags, NEW bits \in SUBSET EventBits, NEW mode \in Modes,
               PollEventFlag(f, bits, mode)
        PROVE  Objects'
    <2> DEFINE request == [bits |-> bits, mode |-> mode]
    <2>1. request \in Requests
      BY KernelConstants DEF KernelConstants, Requests
    <2>2. f \in Flags /\ flags[f].bits \in SUBSET EventBits
      BY DEF LiveFlags, KInv, Data, Objects, ObjectTypes, FlagRecords
    <2>3. Cleared(flags[f].bits, request) \in SUBSET flags[f].bits
      BY <2>1, <2>2, ClearedFewer
    <2>4. /\ flags' = [flags EXCEPT ![f].bits = Cleared(flags[f].bits, request)]
          /\ UNCHANGED semas
      BY <1>5, <2>2 DEF PollEventFlag
    <2> QED BY <1>4, <2>3, <2>4
  <1>6. ASSUME NEW f \in LiveFlags, NEW bits \in SUBSET EventBits, ClearEventFlag(f, bits)
        PROVE  Objects'
    <2>1. flags[f].bits \cap bits \in SUBSET flags[f].bits
      OBVIOUS
    <2>2. /\ flags' = [flags EXCEPT ![f].bits = flags[f].bits \cap bits]
          /\ UNCHANGED semas
      BY <1>6 DEF ClearEventFlag
    <2> QED BY <1>4, <2>1, <2>2
  <1>7. Objects'
    BY <1>3, <1>5, <1>6 DEF UseObject
  <1> QED BY <1>1, <1>7, ObjectStep

-----------------------------------------------------------------------------
(* The boundary.                                                            *)

LEMMA HeadCall ==
    ASSUME QueueShape, queue # <<>>
    PROVE  /\ Head(queue) \in Calls
           /\ Head(queue).call \notin Deferred => Calls = {Head(queue)}
  <1> DEFINE n == Len(queue)
  <1>1. /\ queue \in Seq(CallRecords) /\ n \in Nat \ {0} /\ Head(queue) = queue[1]
        /\ \A i \in 1 .. n : i < n => queue[i].call \in Deferred
    BY LenProperties, EmptySeq, HeadTailProperties DEF QueueShape
  <1> HIDE DEF n
  <1>2. Calls = {queue[i] : i \in 1 .. n} /\ 1 \in 1 .. n
    BY <1>1 DEF Calls, n
  <1>3. Head(queue).call \notin Deferred => n = 1
    BY <1>1
  <1>4. Head(queue).call \notin Deferred => \A d : d \in Calls <=> d = Head(queue)
    BY <1>1, <1>2, <1>3
  <1> QED BY <1>1, <1>2, <1>4

\* A record moves under its mirror.
LEMMA RecordFrame ==
    ASSUME NEW E, NEW P, NEW E2, NEW P2, SP!IInv, Types, NewIds, Agree(E, P),
           UNCHANGED <<ids, infos, tails>>, NEW t \in DOMAIN threads, NEW r,
           SP!Becomes(t, r),
           t \in E2 \/ (/\ t \in DOMAIN infos /\ Match(r, infos[t], tails[t])
                        /\ t \in P2 \/ infos[t].priority = r.priority),
           E \ {t} \subseteq E2, P \ {t} \subseteq P2
    PROVE  Types' /\ NewIds' /\ Agree(E2, P2)'
  <1>1. /\ DOMAIN threads' = DOMAIN threads
        /\ SP!Alike(r, threads'[t])
        /\ \A u \in DOMAIN threads \ {t} : SP!Alike(threads[u], threads'[u])
    BY DEF SP!Becomes
  <1>2. Types' /\ NewIds'
    BY <1>1 DEF Types, NewIds, ids
  <1>3. ASSUME NEW u \in DOMAIN threads' \ E2
        PROVE  /\ u \in DOMAIN infos'
               /\ Match(threads'[u], infos'[u], tails'[u])
               /\ u \in P2 \/ infos'[u].priority = threads'[u].priority
    <2>1. CASE u = t
      BY <1>1, <2>1, MatchAlike DEF SP!Alike
    <2>2. CASE u # t
      <3>1. u \in DOMAIN threads \ E
        BY <1>1, <2>2
      <3>2. /\ u \in DOMAIN infos /\ Match(threads[u], infos[u], tails[u])
            /\ u \in P \/ infos[u].priority = threads[u].priority
        BY <3>1 DEF Agree
      <3>3. SP!Alike(threads[u], threads'[u])
        BY <1>1, <2>2, <3>1
      <3> QED BY <2>2, <3>2, <3>3, MatchAlike DEF SP!Alike
    <2> QED BY <2>1, <2>2
  <1>4. ASSUME NEW u \in DOMAIN infos' \ (DOMAIN threads' \cup E2)
        PROVE  infos'[u].status = "Dormant"
    BY <1>1 DEF Agree
  <1>5. Agree(E2, P2)'
    BY <1>3, <1>4 DEF Agree
  <1> QED BY <1>2, <1>5

\* A thread of the scheduler alone that stays ready or running.
LEMMA StillActive ==
    ASSUME SP!IInv, SP!IInv', NEW t \in DOMAIN threads, t \in DOMAIN threads',
           SP!Alike(threads[t], threads'[t]) \/ threads'[t] = threads[t],
           threads[t].state \in {"Running", "Ready"}
    PROVE  threads'[t].state \in {"Running", "Ready"}
  <1>1. RecordOK(threads[t])
    BY ThreadType DEF RecordOK
  <1>2. RecordOK(threads'[t])
    BY DEF SP!IInv, SP!Good, SP!Records, SP!ValidRecord, RecordOK
  <1> QED BY <1>1, <1>2 DEF RecordOK, SP!ThreadRecords, SP!RecordValid, SP!Alike, SP!Blocked, SP!States

\* The calls that only the boundary itself can answer find what they need.
LEMMA NoException ==
    ASSUME NEW c, Owed(c),
           c.call \in {"CreateThread", "InitThread", "StartThread", "ExitDeleteThread"},
           c.call = "StartThread" => Known(c.on)
    PROVE  Exception(c) = "None"
  <1>1. ~ RecordLost(c)
    BY DEF Owed, RecordLost, Known, Active
  <1>2. ~ ForeignBlock(c) /\ ~ StatusDiverged(c)
    BY DEF ForeignBlock, StatusDiverged
  <1>3. ~ WaitDiverged(c)
    BY DEF WaitDiverged
  <1>4. ~ CountsDiverged(c)
    BY DEF CountsDiverged
  <1> QED BY <1>1, <1>2, <1>3, <1>4 DEF Exception

\* A new record, of a thread that the guest knows already.
LEMMA AddedRecord ==
    ASSUME SP!IInv, Types, NewIds, Objects, NEW E, NEW P, Agree(E, P),
           NEW t \in DOMAIN infos, NEW level, level = infos[t].priority,
           CreateThread(t, level), UNCHANGED ids
    PROVE  /\ SP!IInv' /\ Types' /\ NewIds' /\ Objects' /\ Agree(E, P)'
           /\ DOMAIN threads' = DOMAIN threads \cup {t} /\ t \notin DOMAIN threads
           /\ threads'[t].state = "Dormant" /\ threads'[t].priority = level
           /\ \A u \in DOMAIN threads : threads'[u] = threads[u]
           /\ UNCHANGED <<infos, tails, objects, draining, currentThreadId>>
  <1>1. /\ Sched!AddDormantThread(t, 1, level)
        /\ UNCHANGED <<infos, tails, objects, draining>>
    BY DEF CreateThread
  <1>2. t \in ThreadIds /\ GuestOK(infos[t])
    BY DEF Types
  <1>3. level \in 0 .. LowestPriority
    BY <1>2 DEF GuestOK, GuestStates
  <1>4. /\ SP!IInv' /\ t \notin DOMAIN threads
        /\ threads' = [u \in DOMAIN threads \cup {t} |->
                         IF u = t THEN SP!DormantRecord(1, level) ELSE threads[u]]
        /\ UNCHANGED currentThreadId
    BY <1>1, <1>2, <1>3, DoAdd
  <1>5. /\ DOMAIN threads' = DOMAIN threads \cup {t}
        /\ threads'[t] = SP!DormantRecord(1, level)
        /\ \A u \in DOMAIN threads : threads'[u] = threads[u]
    BY <1>4
  <1>6. /\ SP!DormantRecord(1, level).state = "Dormant"
        /\ SP!DormantRecord(1, level).priority = level
        /\ SP!DormantRecord(1, level).suspendCount = 0
        /\ SP!DormantRecord(1, level).wakeupCount = 0
    BY DEF SP!DormantRecord, SP!FreshRecord
  <1>7. Types'
    BY <1>1 DEF Types
  <1>8. NewIds'
    BY <1>1, <1>5 DEF NewIds, ids
  <1>9. Agree(E, P)'
    <2>1. ASSUME t \notin E
          PROVE  Match(threads'[t], infos[t], tails[t])
      <3>1. infos[t].status = "Dormant"
        BY <1>4, <2>1 DEF Agree
      <3>2. /\ infos[t].linked = FALSE /\ infos[t].suspends = 0 /\ infos[t].wakeups = 0
        BY <1>2, <3>1 DEF GuestOK, GuestStates, GuestValid
      <3>3. tails[t].kind # "Blocked"
        BY <1>2, <1>4 DEF NewIds
      <3> QED BY <1>5, <1>6, <3>1, <3>2, <3>3 DEF Match, Waits
    <2>2. ASSUME NEW u \in DOMAIN threads' \ E
          PROVE  /\ u \in DOMAIN infos
                 /\ Match(threads'[u], infos[u], tails[u])
                 /\ u \in P \/ infos[u].priority = threads'[u].priority
      <3>1. CASE u = t
        BY <1>5, <1>6, <2>1, <3>1
      <3>2. CASE u # t
        BY <1>5, <3>2 DEF Agree
      <3> QED BY <3>1, <3>2
    <2> QED BY <1>1, <1>5, <2>2 DEF Agree
  <1>10. Objects'
    <2>1. ASSUME NEW w
          PROVE  Waiters(w)' = Waiters(w)
      <3>1. ~ Waits(threads'[t])
        BY <1>5, <1>6 DEF Waits
      <3> HIDE DEF Waits
      <3>2. \A u \in DOMAIN threads : Waits(threads'[u]) <=> Waits(threads[u])
        BY <1>5
      <3>3. \A u : u \in Waiters(w)' <=> u \in Waiters(w)
        BY <1>5, <3>1, <3>2, WaitersOf
      <3> QED BY <3>3
    <2> QED BY <1>1, <2>1, ObjectsKept
  <1> QED BY <1>1, <1>4, <1>5, <1>6, <1>7, <1>8, <1>9, <1>10

\* What is left to answer once the head of the queue is.
LEMMA PoppedSets ==
    ASSUME QueueShape, queue # <<>>, queue' = Tail(queue), phase' # "Guest",
           NEW c, c = Head(queue)
    PROVE  /\ c.call \in Deferred => Moving' = Moving
           /\ c.call = "CreateThread" => Promoted' = Promoted
           /\ Promoted \ {c.on} \subseteq Promoted'
  <1>1. /\ c \in Calls
        /\ \A d \in Calls : d \in Calls' \/ d = c
        /\ \A d \in Calls' : d \in Calls
    BY Popped
  <1>2. /\ \A t : t \in Moving' <=>
              \E d \in Calls' : d.call \in {"StartThread", "ExitDeleteThread"} /\ d.on = t
        /\ \A t : t \in Moving <=>
              \E d \in Calls : d.call \in {"StartThread", "ExitDeleteThread"} /\ d.on = t
    BY DEF Moving
  <1>3. /\ \A t : t \in Promoted' <=> \E d \in Calls' : d.call = "InitThread" /\ d.on = t
        /\ \A t : t \in Promoted <=> \E d \in Calls : d.call = "InitThread" /\ d.on = t
    BY DEF Promoted
  <1>4. ASSUME c.call \in Deferred PROVE Moving' = Moving
    <2>1. \A t : t \in Moving' <=> t \in Moving
      BY <1>1, <1>2, <1>4 DEF Deferred
    <2> QED BY <2>1
  <1>5. ASSUME c.call = "CreateThread" PROVE Promoted' = Promoted
    <2>1. \A t : t \in Promoted' <=> t \in Promoted
      BY <1>1, <1>3, <1>5
    <2> QED BY <2>1
  <1>6. Promoted \ {c.on} \subseteq Promoted'
    BY <1>1, <1>3
  <1> QED BY <1>4, <1>5, <1>6

\* The phase of the boundary in which a published call is applied.
LEMMA ApplyPhase ==
    ASSUME KInv, phase = "Apply"
    PROVE  /\ queue # <<>> /\ QueueShape /\ Head(queue) \in Calls
           /\ CallTyped(Head(queue)) /\ Owed(Head(queue))
           /\ Head(queue).call \in Deferred => Head(queue).policy = "HigherPriorityOnly"
           /\ Head(queue).call \notin Deferred => Calls = {Head(queue)}
           /\ draining = NoDrain /\ failed = "None"
           /\ prior \in ThreadIds /\ tails[prior] = NoTail
  <1>1. queue # <<>> /\ QueueShape /\ draining = NoDrain /\ failed = "None"
        /\ prior \in ThreadIds /\ tails[prior] = NoTail
    BY DEF KInv, Control, QueueOK
  <1>2. Head(queue) \in Calls
        /\ (Head(queue).call \notin Deferred => Calls = {Head(queue)})
    BY <1>1, HeadCall
  <1> QED BY <1>1, <1>2 DEF KInv, QueueOK

\* The last call of a queue that is not a creation or promotion.
LEMMA LastCall ==
    ASSUME NEW c, Calls = {c}
    PROVE  /\ c.call \in {"StartThread", "ExitDeleteThread"} => Moving = {c.on} /\ Promoted = {}
           /\ c.call \notin {"StartThread", "ExitDeleteThread", "InitThread"} =>
                 Moving = {} /\ Promoted = {}
  <1>1. /\ \A t : t \in Moving <=>
              \E d \in Calls : d.call \in {"StartThread", "ExitDeleteThread"} /\ d.on = t
        /\ \A t : t \in Promoted <=> \E d \in Calls : d.call = "InitThread" /\ d.on = t
    BY DEF Moving, Promoted
  <1>2. c.call \in {"StartThread", "ExitDeleteThread"} =>
           /\ \A t : t \in Moving <=> t \in {c.on}
           /\ \A t : t \notin Promoted
    BY <1>1
  <1>3. c.call \notin {"StartThread", "ExitDeleteThread", "InitThread"} =>
           /\ \A t : t \notin Moving
           /\ \A t : t \notin Promoted
    BY <1>1
  <1> QED BY <1>2, <1>3

\* StartThread adds the record that a creation still owes.
LEMMA ApplyMissing ==
    ASSUME KInv, phase = "Apply", NEW c, c = Head(queue), c.call = "StartThread",
           ~ Known(c.on), CreateThread(c.on, infos[c.on].priority),
           UNCHANGED <<ids, queue, loop, failed>>
    PROVE  KInv'
  <1>1. /\ queue # <<>> /\ QueueShape /\ Owed(c) /\ Calls = {c}
        /\ c.call \notin Deferred
    BY ApplyPhase DEF Deferred
  <1>2. PICK t : t = c.on
    OBVIOUS
  <1>3. Moving = {t} /\ Promoted = {} /\ Agree({t}, {})
    <2>1. Moving = {t} /\ Promoted = {}
      BY <1>1, <1>2, LastCall
    <2> QED BY <2>1, PicturesOf DEF KInv
  <1>4. t \in DOMAIN infos
    BY <1>1, <1>2 DEF Owed
  <1>5. /\ SP!IInv' /\ Types' /\ NewIds' /\ Objects' /\ Agree({t}, {})'
        /\ DOMAIN threads' = DOMAIN threads \cup {t}
        /\ threads'[t].state = "Dormant" /\ threads'[t].priority = infos[t].priority
        /\ UNCHANGED <<infos, tails, objects, draining, currentThreadId>>
    BY <1>2, <1>3, <1>4, AddedRecord DEF KInv, Data
  <1>6. Calls' = {c} /\ QueueShape' /\ Moving' = {t} /\ Promoted' = {}
    BY <1>1, <1>3, SameCalls DEF loop
  <1>7. Pictures'
    BY <1>5, <1>6, PicturesNext
  <1>8. Owed(c)'
    BY <1>1, <1>2, <1>5 DEF Owed, Blocking
  <1>9. QueueOK'
    BY <1>1, <1>6, <1>8 DEF KInv, QueueOK
  <1>10. Control'
    BY <1>5 DEF KInv, Control, loop
  <1>11. FailsOnlyAsReported'
    BY ApplyPhase, NothingFailed
  <1> QED BY <1>5, <1>7, <1>9, <1>10, <1>11 DEF KInv, Data

\* Once the head is applied a boundary reschedules.
LEMMA PoppedControl ==
    ASSUME KInv, phase = "Apply", phase' = "Reschedule", queue' = Tail(queue),
           UNCHANGED <<prior, failed, draining, tails>>,
           policy' = Head(queue).policy
    PROVE  Control' /\ FailsOnlyAsReported'
  <1>1. Head(queue).policy \in {"None", "HigherPriorityOnly"}
    BY ApplyPhase DEF CallTyped, CallRecords
  <1>2. Control'
    BY <1>1, ApplyPhase DEF KInv, Control
  <1>3. FailsOnlyAsReported'
    BY ApplyPhase, NothingFailed
  <1> QED BY <1>2, <1>3

LEMMA ApplyCreate ==
    ASSUME KInv, phase = "Apply", NEW c, c = Head(queue), c.call = "CreateThread",
           CreateThread(c.on, c.level), queue' = Tail(queue), policy' = c.policy,
           phase' = "Reschedule", UNCHANGED <<ids, prior, failed>>
    PROVE  KInv'
  <1>1. /\ queue # <<>> /\ QueueShape /\ Owed(c) /\ c.policy = "HigherPriorityOnly"
        /\ c.call \in Deferred
    BY ApplyPhase DEF Deferred
  <1>2. PICK E : E = Moving
    OBVIOUS
  <1>3. PICK P : P = Promoted
    OBVIOUS
  <1>4. PICK t : t = c.on
    OBVIOUS
  <1>5. Agree(E, P)
    BY <1>2, <1>3, PicturesOf DEF KInv
  <1>6. t \in DOMAIN infos /\ infos[t].priority = c.level /\ t # MainThread
    BY <1>1, <1>4 DEF Owed
  <1>7. /\ SP!IInv' /\ Types' /\ NewIds' /\ Objects' /\ Agree(E, P)'
        /\ DOMAIN threads' = DOMAIN threads \cup {t} /\ t \notin DOMAIN threads
        /\ threads'[t].state = "Dormant" /\ threads'[t].priority = infos[t].priority
        /\ \A u \in DOMAIN threads : threads'[u] = threads[u]
        /\ UNCHANGED <<infos, tails, objects, draining, currentThreadId>>
    BY <1>4, <1>5, <1>6, AddedRecord DEF KInv, Data
  <1>8. E = Moving' /\ P = Promoted'
    BY <1>1, <1>2, <1>3, PoppedSets
  <1>9. Pictures'
    BY <1>7, <1>8, PicturesNext
  <1>10. /\ QueueShape'
         /\ \A d \in Calls' : d \in Calls /\ ~ (d.call = "CreateThread" /\ d.on = t)
    BY <1>1, <1>4, Popped
  <1>11. ASSUME NEW d \in Calls'
         PROVE  Owed(d)'
    <2>1. Owed(d) /\ ~ (d.call = "CreateThread" /\ d.on = t)
      BY <1>10 DEF KInv, QueueOK
    <2>2. d.call = "StartThread" => (d.on \in DOMAIN threads' =>
                /\ threads'[d.on].state = "Dormant"
                /\ threads'[d.on].priority = infos'[d.on].priority)
      BY <1>7, <2>1 DEF Owed
    <2>3. d.call \in Blocking => Overtaken'
      BY <1>1, <1>7, <2>1 DEF Owed, Overtaken
    <2>4. d.call = "WaitEventFlag" => flags'[d.on].live
      BY <1>7, <2>1 DEF Owed, objects
    <2>5. d.call = "CreateThread" =>
          /\ d.on # MainThread
          /\ d.on \in DOMAIN infos' \ DOMAIN threads'
          /\ infos'[d.on].priority = d.level
      BY <1>7, <2>1 DEF Owed
    <2>6. d.call = "InitThread" =>
          /\ d.on = MainThread
          /\ prior' = MainThread
          /\ MainThread \in DOMAIN threads'
          /\ infos'[MainThread].priority = 1
      BY <1>7, <2>1 DEF Owed
    <2>7. d.call = "ExitDeleteThread" =>
          /\ d.on \in DOMAIN threads' \ DOMAIN infos'
          /\ threads'[d.on].state = "Dormant"
          /\ tails'[d.on].kind # "Blocked"
      BY <1>7, <2>1 DEF Owed
    <2>8. d.call = "StartThread" =>
          /\ d.on # MainThread
          /\ d.on \in DOMAIN infos'
          /\ infos'[d.on] = [DormantGuest(infos'[d.on].priority)
                              EXCEPT !.status = "Ready"]
          /\ tails'[d.on] = RunTail
      BY <1>7, <2>1 DEF Owed
    <2> QED BY <2>2, <2>3, <2>4, <2>5, <2>6, <2>7, <2>8 DEF Owed
  <1>12. QueueOK'
    BY <1>10, <1>11 DEF KInv, QueueOK
  <1>13. Control' /\ FailsOnlyAsReported'
    BY <1>7, PoppedControl
  <1> QED BY <1>7, <1>9, <1>12, <1>13 DEF KInv, Data

LEMMA ApplyInit ==
    ASSUME KInv, phase = "Apply", NEW c, c = Head(queue), c.call = "InitThread",
           InitThread(c.on), queue' = Tail(queue), policy' = c.policy,
           phase' = "Reschedule", UNCHANGED <<ids, prior, failed>>
    PROVE  KInv'
  <1>1. /\ queue # <<>> /\ QueueShape /\ Owed(c) /\ c.policy = "HigherPriorityOnly"
        /\ c.call \in Deferred
    BY ApplyPhase DEF Deferred
  <1>2. PICK E : E = Moving
    OBVIOUS
  <1>3. PICK P : P = Promoted
    OBVIOUS
  <1>4. PICK P2 : P2 = Promoted'
    OBVIOUS
  <1>5. PICK t : t = MainThread
    OBVIOUS
  <1>6. Agree(E, P)
    BY <1>2, <1>3, PicturesOf DEF KInv
  <1>7. t \in DOMAIN threads /\ infos[t].priority = 1 /\ c.on = t /\ prior = t
    BY <1>1, <1>5 DEF Owed
  <1>8. E = Moving' /\ P \ {t} \subseteq P2 /\ E \ {t} \subseteq E
    BY <1>1, <1>2, <1>3, <1>4, <1>7, PoppedSets
  <1>9. /\ MovePriority(t, 1) /\ UNCHANGED <<infos, tails, objects, draining>>
    BY <1>7 DEF InitThread
  <1> DEFINE r == [threads[t] EXCEPT !.priority = 1]
  <1>10. SP!IInv' /\ SP!Becomes(t, r) /\ UNCHANGED currentThreadId
    <2>1. 1 \in 0 .. LowestPriority
      BY KernelConstants DEF KernelConstants
    <2> QED BY <1>7, <1>9, <2>1, DoMove DEF KInv
  <1>11. RecordOK(threads[t])
    BY <1>7, ThreadType DEF KInv, RecordOK
  <1>12. /\ r.priority = 1 /\ (Waits(r) <=> Waits(threads[t])) /\ r.wait = threads[t].wait
         /\ r.state = threads[t].state /\ r.suspendCount = threads[t].suspendCount
    BY <1>11 DEF RecordOK, SP!ThreadRecords, Waits
  <1>13. t \in E \/ (/\ t \in DOMAIN infos /\ Match(r, infos[t], tails[t])
                     /\ t \in P2 \/ infos[t].priority = r.priority)
    <2>1. ASSUME t \notin E
          PROVE  t \in DOMAIN infos /\ Match(r, infos[t], tails[t])
      <3>1. t \in DOMAIN infos /\ Match(threads[t], infos[t], tails[t])
        BY <1>6, <1>7, <2>1 DEF Agree
      <3>2. GuestOK(infos[t]) /\ infos[t].priority \in 0 .. LowestPriority
        BY <3>1 DEF KInv, Data, Types, GuestOK, GuestStates
      <3> QED BY <1>11, <3>1, <3>2, MatchPriority
    <2> QED BY <1>7, <1>12, <2>1
  <1> HIDE DEF r
  <1>14. Types' /\ NewIds' /\ Agree(E, P2)'
    <2>1. SP!IInv /\ Types /\ NewIds /\ UNCHANGED <<ids, infos, tails>>
      BY <1>9 DEF KInv, Data
    <2> QED BY <1>6, <1>7, <1>8, <1>10, <1>13, <2>1, RecordFrame
  <1>15. Objects'
    <2>1. \A w : Waiters(w)' = Waiters(w)
      BY <1>10, <1>12, WaitersKept
    <2> QED BY <1>9, <2>1, ObjectsKept DEF KInv, Data
  <1>16. Pictures'
    BY <1>4, <1>8, <1>14, PicturesNext
  <1>17. QueueShape' /\ \A d \in Calls' : d \in Calls
    BY <1>1, Popped
  <1>18. /\ DOMAIN threads' = DOMAIN threads
         /\ \A u \in DOMAIN threads \ {t} : SP!Alike(threads[u], threads'[u])
         /\ SP!Alike(r, threads'[t])
    BY <1>10 DEF SP!Becomes
  <1>19. ASSUME NEW d \in Calls'
         PROVE  Owed(d)'
    <2>1. Owed(d)
      BY <1>17 DEF KInv, QueueOK
    <2>2. d.call = "CreateThread" =>
          /\ d.on # MainThread
          /\ d.on \in DOMAIN infos' \ DOMAIN threads'
          /\ infos'[d.on].priority = d.level
      BY <1>9, <1>18, <2>1 DEF Owed
    <2>3. d.call = "InitThread" =>
          /\ d.on = MainThread
          /\ prior' = MainThread
          /\ MainThread \in DOMAIN threads'
          /\ infos'[MainThread].priority = 1
      BY <1>9, <1>18, <2>1 DEF Owed
    <2>4. d.call = "StartThread" => (d.on \in DOMAIN threads' =>
                /\ threads'[d.on].state = "Dormant"
                /\ threads'[d.on].priority = infos'[d.on].priority)
      BY <1>5, <1>9, <1>18, <2>1 DEF Owed, SP!Alike
    <2>5. d.call = "StartThread" =>
          /\ d.on # MainThread
          /\ d.on \in DOMAIN infos'
          /\ infos'[d.on] = [DormantGuest(infos'[d.on].priority)
                              EXCEPT !.status = "Ready"]
          /\ tails'[d.on] = RunTail
      BY <1>9, <2>1 DEF Owed
    <2>6. d.call = "ExitDeleteThread" =>
          /\ d.on \in DOMAIN threads' \ DOMAIN infos'
          /\ threads'[d.on].state = "Dormant"
          /\ tails'[d.on].kind # "Blocked"
      BY <1>9, <1>12, <1>18, <2>1 DEF Owed, SP!Alike
    <2>7. d.call \in Blocking => Overtaken'
      <3>1. ASSUME d.call \in Blocking
            PROVE  Overtaken'
        <4>1. threads[t].state \in {"Running", "Ready"} /\ currentThreadId # NoThread
          BY <1>7, <2>1, <3>1 DEF Owed, Overtaken
        <4>2. threads[t].suspendCount = 0
          BY <1>11, <4>1 DEF RecordOK, SP!RecordValid
        <4>3. RecordOK(threads'[t]) /\ threads'[t].suspendCount = 0
              /\ threads'[t].state # "Dormant" /\ ~ Waits(threads'[t])
          BY <1>7, <1>10, <1>12, <1>18, <4>1, <4>2
          DEF SP!IInv, SP!Good, SP!Records, SP!ValidRecord, RecordOK, SP!Alike,
              SP!Blocked, Waits
        <4>4. threads'[t].state \in {"Running", "Ready"}
          BY <4>3 DEF RecordOK, SP!ThreadRecords, SP!RecordValid, SP!States, Waits
        <4> QED BY <1>1, <1>7, <1>10, <1>18, <4>1, <4>4 DEF Overtaken
      <3> QED BY <3>1
    <2>8. d.call = "WaitEventFlag" => flags'[d.on].live
      BY <1>9, <2>1 DEF Owed, objects
    <2> QED BY <2>2, <2>3, <2>4, <2>5, <2>6, <2>7, <2>8 DEF Owed
  <1>20. QueueOK'
    BY <1>17, <1>19 DEF KInv, QueueOK
  <1>21. Control' /\ FailsOnlyAsReported'
    BY <1>9, PoppedControl
  <1> QED BY <1>10, <1>14, <1>15, <1>16, <1>20, <1>21 DEF KInv, Data

LEMMA ApplyStart ==
    ASSUME KInv, phase = "Apply", NEW c, c = Head(queue), c.call = "StartThread",
           Known(c.on), StartThread(c.on), queue' = Tail(queue), policy' = c.policy,
           phase' = "Reschedule", UNCHANGED <<ids, prior, failed>>
    PROVE  KInv'
  <1>1. /\ queue # <<>> /\ QueueShape /\ Owed(c) /\ Calls = {c} /\ c.call \notin Deferred
    BY ApplyPhase DEF Deferred
  <1>2. PICK t : t = c.on
    OBVIOUS
  <1>3. Agree({t}, {})
    <2>1. Moving = {t} /\ Promoted = {}
      BY <1>1, <1>2, LastCall
    <2> QED BY <2>1, PicturesOf DEF KInv
  <1>4. /\ t \in DOMAIN threads /\ t \in DOMAIN infos /\ tails[t] = RunTail
        /\ infos[t] = [DormantGuest(infos[t].priority) EXCEPT !.status = "Ready"]
        /\ threads[t].state = "Dormant" /\ threads[t].priority = infos[t].priority
    BY <1>1, <1>2 DEF Owed, Known
  <1>5. t \in ThreadIds /\ RecordOK(threads[t])
    BY <1>4, ThreadType DEF KInv, RecordOK
  <1>6. infos[t].priority \in 0 .. LowestPriority
    BY <1>4 DEF KInv, Data, Types, GuestOK, GuestStates
  <1> DEFINE r == [threads[t] EXCEPT !.state = "Ready"]
  <1>7. Sched!StartThread(Handle(t)) /\ UNCHANGED <<infos, tails, objects, draining>>
    BY <1>2 DEF StartThread
  <1>8. SP!IInv' /\ SP!Becomes(t, r)
    BY <1>5, <1>7, DoStart DEF KInv
  <1>9. Match(r, infos[t], tails[t])
    <2>1. Match(r, [DormantGuest(infos[t].priority) EXCEPT !.status = "Ready"], RunTail)
      BY <1>4, <1>5, <1>6, MatchStarted
    <2> HIDE DEF r
    <2> QED BY <1>4, <2>1, Zenon
  <1>10. r.priority = infos[t].priority /\ ~ Waits(r) /\ ~ Waits(threads[t])
    BY <1>4, <1>5 DEF RecordOK, SP!ThreadRecords, Waits
  <1> HIDE DEF r
  <1>11. Types' /\ NewIds' /\ Agree({}, {})'
    <2>1. SP!IInv /\ Types /\ NewIds /\ UNCHANGED <<ids, infos, tails>>
      BY <1>7 DEF KInv, Data
    <2>2. {t} \ {t} \subseteq {} /\ {} \ {t} \subseteq {}
      OBVIOUS
    <2> QED BY <1>3, <1>4, <1>8, <1>9, <1>10, <2>1, <2>2, RecordFrame
  <1>12. Objects'
    <2>1. \A w : Waiters(w)' = Waiters(w)
      BY <1>8, <1>10, WaitersKept
    <2> QED BY <1>7, <2>1, ObjectsKept DEF KInv, Data
  <1>13. Whole'
    BY <1>8, <1>11, <1>12, AgreeAll DEF Whole, Data
  <1>14. queue' = <<>>
    BY <1>1, Popped
  <1>15. Control' /\ FailsOnlyAsReported'
    BY <1>7, PoppedControl
  <1> QED BY <1>13, <1>14, <1>15, Settled

LEMMA ApplyExitDelete ==
    ASSUME KInv, phase = "Apply", NEW c, c = Head(queue), c.call = "ExitDeleteThread",
           ExitDeleteThread(c.on), queue' = Tail(queue), policy' = c.policy,
           phase' = "Reschedule", UNCHANGED <<ids, prior, failed>>
    PROVE  KInv'
  <1>1. /\ queue # <<>> /\ QueueShape /\ Owed(c) /\ Calls = {c} /\ c.call \notin Deferred
    BY ApplyPhase DEF Deferred
  <1>2. PICK t : t = c.on
    OBVIOUS
  <1>3. Agree({t}, {})
    <2>1. Moving = {t} /\ Promoted = {}
      BY <1>1, <1>2, LastCall
    <2> QED BY <2>1, PicturesOf DEF KInv
  <1>4. /\ t \in DOMAIN threads /\ t \notin DOMAIN infos /\ tails[t].kind # "Blocked"
        /\ threads[t].state = "Dormant"
    BY <1>1, <1>2 DEF Owed
  <1>5. t \in ThreadIds
    BY <1>4, ThreadType DEF KInv
  <1>6. Sched!DeleteThread(Handle(t)) /\ UNCHANGED <<infos, tails, objects, draining>>
    BY <1>2 DEF ExitDeleteThread
  <1>7. SP!IInv' /\ threads' = [u \in DOMAIN threads \ {t} |-> threads[u]]
    BY <1>5, <1>6, DoDelete DEF KInv
  <1>8. /\ DOMAIN threads' = DOMAIN threads \ {t}
        /\ \A u \in DOMAIN threads \ {t} : threads'[u] = threads[u]
    BY <1>7
  <1>9. Types'
    BY <1>6 DEF KInv, Data, Types
  <1>10. NewIds'
    BY <1>4, <1>6, <1>8 DEF KInv, Data, NewIds, ids
  <1>11. Agree({}, {})'
    BY <1>3, <1>4, <1>6, <1>8 DEF Agree
  <1>12. Objects'
    <2>1. ASSUME NEW w
          PROVE  Waiters(w)' = Waiters(w)
      <3>1. ~ Waits(threads[t])
        BY <1>4 DEF Waits
      <3> HIDE DEF Waits
      <3>2. \A u : u \in Waiters(w)' <=> u \in Waiters(w)
        BY <1>8, <3>1, WaitersOf
      <3> QED BY <3>2
    <2> QED BY <1>6, <2>1, ObjectsKept DEF KInv, Data
  <1>13. Whole'
    BY <1>7, <1>9, <1>10, <1>11, <1>12, AgreeAll DEF Whole, Data
  <1>14. queue' = <<>>
    BY <1>1, Popped
  <1>15. Control' /\ FailsOnlyAsReported'
    BY <1>6, PoppedControl
  <1> QED BY <1>13, <1>14, <1>15, Settled

LEMMA ApplyOrdinary ==
    ASSUME KInv, phase = "Apply", NEW c, c = Head(queue), c.call \in Ordinary,
           Take(c), queue' = Tail(queue)
    PROVE  KInv'
  <1>1. /\ queue # <<>> /\ QueueShape /\ Owed(c) /\ Calls = {c} /\ CallTyped(c)
        /\ draining = NoDrain /\ failed = "None"
        /\ prior \in ThreadIds /\ tails[prior] = NoTail
        /\ c.call \notin Deferred
        /\ c.call \notin {"StartThread", "ExitDeleteThread", "InitThread"}
    BY ApplyPhase DEF Deferred, Ordinary, SemaCalls, FlagCalls, OtherCalls
  <1>2. Whole
    BY <1>1, LastCall, WholeWhen
  <1>3. queue' = <<>>
    <2>1. CASE phase' # "Guest"
      BY <1>1, <2>1, Popped
    <2>2. phase' # "Guest"
      BY DEF Take, Throw
    <2> QED BY <2>1, <2>2
  <1>4. c.call \in Blocking => prior \in DOMAIN threads /\ currentThreadId # NoThread
           /\ threads[currentThreadId].priority <= threads[prior].priority
    BY <1>1 DEF Owed, Overtaken
  <1>5. CallerOf(c)
    BY <1>1, <1>4 DEF CallerOf, NoTail, Owed
  <1>6. currentThreadId # NoThread => currentThreadId \in DOMAIN threads
    BY DEF KInv, SP!IInv, SP!Good, SP!Records
  <1>7. Control
    BY DEF KInv
  <1> QED BY <1>1, <1>2, <1>3, <1>4, <1>5, <1>6, <1>7, TakeOrdinary

LEMMA ApplyStep ==
    ASSUME KInv, ApplyPublication
    PROVE  KInv'
  <1>1. PICK c : c = Head(queue)
    OBVIOUS
  <1>2. /\ phase = "Apply"
        /\ IF c.call = "StartThread" /\ ~ Known(c.on)
           THEN /\ CreateThread(c.on, infos[c.on].priority)
                /\ UNCHANGED <<ids, queue, loop, failed>>
           ELSE Take(c) /\ queue' = Tail(queue)
    BY <1>1 DEF ApplyPublication
  <1>3. CallTyped(c) /\ Owed(c)
    BY <1>1, <1>2, ApplyPhase
  <1>4. CASE c.call = "StartThread" /\ ~ Known(c.on)
    BY <1>1, <1>2, <1>4, ApplyMissing
  <1>5. CASE ~ (c.call = "StartThread" /\ ~ Known(c.on))
    <2>1. Take(c) /\ queue' = Tail(queue)
      BY <1>2, <1>5
    <2>2. c.call \in Ordinary \cup {"CreateThread", "InitThread", "StartThread", "ExitDeleteThread"}
      BY <1>3 DEF CallTyped, CallRecords, Ordinary, Deferred
    <2>3. CASE c.call \in Ordinary
      BY <1>1, <1>2, <2>1, <2>3, ApplyOrdinary
    <2>4. CASE c.call \in {"CreateThread", "InitThread", "StartThread", "ExitDeleteThread"}
      <3>1. Exception(c) = "None"
        BY <1>3, <1>5, <2>4, NoException
      <3>2. /\ Apply(c) /\ policy' = c.policy /\ phase' = "Reschedule"
            /\ UNCHANGED <<ids, prior, failed>>
        BY <2>1, <3>1 DEF Take
      <3>3. CASE c.call = "CreateThread"
        <4>1. CreateThread(c.on, c.level)
          BY <3>2, <3>3 DEF Apply
        <4> QED BY <1>1, <1>2, <2>1, <3>2, <3>3, <4>1, ApplyCreate
      <3>4. CASE c.call = "InitThread"
        <4>1. InitThread(c.on)
          BY <3>2, <3>4 DEF Apply
        <4> QED BY <1>1, <1>2, <2>1, <3>2, <3>4, <4>1, ApplyInit
      <3>5. CASE c.call = "StartThread"
        <4>1. StartThread(c.on)
          BY <3>2, <3>5 DEF Apply
        <4> QED BY <1>1, <1>2, <1>5, <2>1, <3>2, <3>5, <4>1, ApplyStart
      <3>6. CASE c.call = "ExitDeleteThread"
        <4>1. ExitDeleteThread(c.on)
          BY <3>2, <3>6 DEF Apply
        <4> QED BY <1>1, <1>2, <2>1, <3>2, <3>6, <4>1, ApplyExitDelete
      <3> QED BY <2>4, <3>3, <3>4, <3>5, <3>6
    <2> QED BY <2>2, <2>3, <2>4
  <1> QED BY <1>4, <1>5

\* Between the syscalls of a thread nothing is published.
LEMMA EmptyWhole ==
    ASSUME KInv, queue = <<>>
    PROVE  Whole
  BY NoCalls, WholeWhen

LEMMA DrainStep ==
    ASSUME KInv, Drain
    PROVE  KInv'
  <1>1. /\ queue = <<>> /\ phase \in {"Reschedule", "Interrupts"}
        /\ failed = "None"
    BY DEF KInv, Control, Drain
  <1>2. Whole' /\ UNCHANGED <<ids, loop, failed, queue>>
    BY <1>1, EmptyWhole, CloseDrain
  <1>3. Control'
    BY <1>1, <1>2 DEF KInv, Control, loop
  <1> QED BY <1>1, <1>2, <1>3, Settled, NothingFailed

LEMMA SelectStep ==
    ASSUME KInv, Select
    PROVE  KInv'
  <1>1. /\ phase = "Interrupts" /\ draining = NoDrain /\ Sched!SelectNextThread
        /\ UNCHANGED <<infos, ids, tails, objects, queue, policy, draining, failed>>
        /\ IF currentThreadId' = NoThread
           THEN prior' = NoThread /\ UNCHANGED phase
           ELSE phase' = "Dispatch" /\ UNCHANGED prior
    BY DEF Select
  <1>2. queue = <<>> /\ failed = "None"
    BY <1>1 DEF KInv, Control
  <1>3. SP!IInv' /\ SP!NothingSeen
    BY <1>1, DoSelect DEF KInv
  <1>4. Data' /\ Pictures'
    BY <1>1, <1>3, SeenKept
  <1>5. QueueOK'
    BY <1>1, <1>2, NoCalls
  <1>6. Control'
    BY <1>1, <1>2 DEF KInv, Control
  <1> QED BY <1>1, <1>2, <1>3, <1>4, <1>5, <1>6, NothingFailed DEF KInv

LEMMA InterruptStep ==
    ASSUME KInv, Interrupt
    PROVE  KInv'
  <1>1. /\ phase = "Interrupts" /\ draining = NoDrain /\ UNCHANGED queue
    BY DEF Interrupt
  <1>2. PICK me : me = prior
    OBVIOUS
  <1>3. PICK c \in RawCalls(me) :
           IF Exception(c) # "None" THEN Throw(Exception(c))
           ELSE Apply(c) /\ UNCHANGED <<ids, loop, failed>>
    BY <1>2 DEF Interrupt
  <1>4. CallTyped(c) /\ c.call \in Ordinary \ (Blocking \cup {"DeleteThread"})
    BY RawTyped DEF KInv, Data
  <1>5. CallerOf(c)
    BY <1>1, <1>4 DEF CallerOf, Blocking
  <1>6. queue = <<>> /\ queue' = <<>> /\ failed = "None" /\ Whole
    BY <1>1, EmptyWhole DEF KInv, Control
  <1>7. CASE Exception(c) # "None"
    <2>1. /\ failed' = Exception(c) /\ phase' = "Stopped" /\ draining' = NoDrain
          /\ UNCHANGED <<schedulerVars, infos, ids, tails, objects, policy, prior>>
      BY <1>3, <1>7 DEF Throw
    <2>2. Whole'
      BY <1>1, <1>6, <2>1, WholeStutter
    <2>3. Control'
      BY <1>6, <1>7, <2>1 DEF KInv, Control
    <2>4. threads' = threads /\ infos' = infos
      BY <2>1 DEF schedulerVars
    <2>5. FailsOnlyAsReported'
      BY <1>4, <1>5, <1>6, <1>7, <2>1, <2>4, ExceptionsReported DEF FailsOnlyAsReported
    <2> QED BY <1>6, <2>2, <2>3, <2>5, Settled
  <1>8. CASE Exception(c) = "None"
    <2>1. Apply(c) /\ UNCHANGED <<ids, loop, failed>>
      BY <1>3, <1>8
    <2>2. Whole'
      BY <1>1, <1>4, <1>5, <1>6, <1>8, <2>1, CloseOrdinary
    <2>3. Control'
      BY <1>1, <1>6, <2>1 DEF KInv, Control, loop
    <2> QED BY <1>6, <2>1, <2>2, <2>3, Settled, NothingFailed
  <1> QED BY <1>7, <1>8

\* A thread about to block is the current thread or yields to one that is as
\* urgent.
LEMMA OvertakenKept ==
    ASSUME KInv, Reschedule, Overtaken, SP!IInv', SP!NothingSeen,
           prior' = prior, policy = "HigherPriorityOnly", phase' = "Apply"
    PROVE  Overtaken'
  <1>1. /\ prior \in DOMAIN threads /\ currentThreadId # NoThread
        /\ threads[prior].state \in {"Running", "Ready"}
    BY DEF Overtaken
  <1>2. /\ prior \in DOMAIN threads'
        /\ SP!Alike(threads[prior], threads'[prior])
    BY <1>1 DEF SP!NothingSeen
  <1>3. threads'[prior].state \in {"Running", "Ready"}
    BY <1>1, <1>2, StillActive DEF KInv
  <1>4. SP!MostUrgent' /\ currentThreadId' \in DOMAIN threads'
    <2>1. CASE Sched!ShouldPreempt(policy)
      <3>1. Sched!Preempt("HigherPriorityOnly")
        BY <1>1, <2>1 DEF Reschedule
      <3>2. SP!MostUrgent' /\ currentThreadId' \in DOMAIN threads
        BY <3>1, DoPreempt DEF KInv
      <3> QED BY <3>2 DEF SP!NothingSeen
    <2>2. CASE ~ Sched!ShouldPreempt(policy)
      <3>1. UNCHANGED schedulerVars
        BY <1>1, <2>2 DEF Reschedule
      <3>2. ~ SP!ShouldPreempt("HigherPriorityOnly")
        BY <2>2, SamePreempt
      <3>3. SP!MostUrgent
        BY <1>1, <3>2, SchedulerConstants, SP!NoPreemptUrgent DEF KInv
      <3>4. threads' = threads /\ currentThreadId' = currentThreadId
        BY <3>1 DEF schedulerVars
      <3>5. currentThreadId \in DOMAIN threads
        BY <1>1 DEF KInv, SP!IInv, SP!Good, SP!Records
      <3> QED BY <3>3, <3>4, <3>5 DEF SP!MostUrgent
    <2> QED BY <2>1, <2>2
  <1>5. currentThreadId' # NoThread
    BY <1>4, KernelConstants DEF KernelConstants, SP!IInv, SP!Good, SP!Records
  <1>6. threads'[currentThreadId'].priority <= threads'[prior].priority
    <2>1. threads'[prior].state = "Running" => prior = currentThreadId'
      BY <1>2 DEF SP!IInv, SP!Good, SP!Records
    <2>2. threads'[prior].priority \in Int
      <3>1. threads'[prior] \in SP!ThreadRecords
        BY <1>2 DEF SP!IInv, SP!Good, SP!Records
      <3> QED BY <3>1 DEF SP!ThreadRecords, SP!Priorities
    <2> QED BY <1>2, <1>3, <1>4, <2>1, <2>2 DEF SP!MostUrgent
  <1> QED BY <1>2, <1>3, <1>5, <1>6 DEF Overtaken

LEMMA RescheduleStep ==
    ASSUME KInv, Reschedule
    PROVE  KInv'
  <1>1. /\ phase = "Reschedule" /\ draining = NoDrain /\ policy' = "None"
        /\ phase' = IF queue = <<>> THEN "Interrupts" ELSE "Apply"
        /\ UNCHANGED <<infos, ids, tails, objects, queue, prior, draining, failed>>
    BY DEF Reschedule
  <1>2. SP!IInv' /\ SP!NothingSeen
    <2>1. CASE currentThreadId = NoThread
      BY <2>1, DoSelect DEF KInv, Reschedule
    <2>2. CASE currentThreadId # NoThread /\ ~ Sched!ShouldPreempt(policy)
      BY <2>2, SchedulerStutter DEF KInv, Reschedule
    <2>3. CASE currentThreadId # NoThread /\ Sched!ShouldPreempt(policy)
      <3>1. Sched!Preempt(policy)
        BY <2>3 DEF Reschedule
      <3>2. policy \in {"HigherPriorityOnly", "EqualOrHigherPriority"}
        BY <2>3 DEF Sched!ShouldPreempt
      <3> QED BY <3>1, <3>2, DoPreempt DEF KInv
    <2> QED BY <2>1, <2>2, <2>3
  <1>3. Data' /\ Pictures'
    BY <1>1, <1>2, SeenKept
  <1>4. Calls' = Calls /\ QueueShape'
    BY <1>1, SameCalls DEF KInv, QueueOK
  <1>5. \A c \in Calls : Owed(c) /\ CallTyped(c)
                          /\ (c.call \in Deferred => c.policy = "HigherPriorityOnly")
    BY DEF KInv, QueueOK
  <1>6. ASSUME NEW c \in Calls
        PROVE  Owed(c)'
    <2>1. queue # <<>>
      BY NoCalls, <1>6
    <2>2. c.call \in Blocking => Overtaken'
      <3>1. c.call \in Blocking => Overtaken /\ policy = "HigherPriorityOnly"
        BY <1>1, <1>5 DEF Owed, Overtaken
      <3> QED BY <1>1, <1>2, <2>1, <3>1, OvertakenKept
    <2>3. flags' = flags
      BY <1>1 DEF objects
    <2> QED BY <1>1, <1>2, <1>5, <2>2, <2>3, OwedKept
  <1>7. QueueOK'
    BY <1>4, <1>5, <1>6 DEF QueueOK
  <1>8. Control'
    BY <1>1 DEF KInv, Control
  <1>9. failed = "None"
    BY <1>1 DEF KInv, Control
  <1> QED BY <1>1, <1>2, <1>3, <1>7, <1>8, <1>9, NothingFailed DEF KInv

\* The ThreadInfo of a thread that has no record goes.
LEMMA WholeForgotten ==
    ASSUME Whole, UNCHANGED <<ids, objects, draining>>, SP!IInv',
           NEW t \in DOMAIN threads, NEW r, NEW d, d \notin DOMAIN threads,
           SP!Becomes(t, r), Match(r, infos[t], NoTail),
           infos[t].priority = r.priority,
           Waits(r) <=> Waits(threads[t]), Waits(r) => r.wait = threads[t].wait,
           infos' = [u \in DOMAIN infos \ {d} |-> infos[u]],
           tails' = [tails EXCEPT ![t] = NoTail]
    PROVE  Whole'
  <1>1. /\ DOMAIN threads' = DOMAIN threads
        /\ SP!Alike(r, threads'[t])
        /\ \A u \in DOMAIN threads \ {t} : SP!Alike(threads[u], threads'[u])
    BY DEF SP!Becomes
  <1>2. /\ Types /\ NewIds /\ AllMatch /\ Objects /\ SP!IInv
    BY DEF Whole, Data
  <1>3. /\ DOMAIN infos' = DOMAIN infos \ {d}
        /\ \A u \in DOMAIN infos \ {d} : infos'[u] = infos[u]
    OBVIOUS
  <1>4. t \in ThreadIds /\ NoTail \in Tails /\ NoTail.kind = "None"
    BY <1>2, ThreadType DEF NoTail, Tails
  <1>5. /\ tails' \in [ThreadIds -> Tails] /\ tails'[t] = NoTail
        /\ \A u \in ThreadIds \ {t} : tails'[u] = tails[u]
    BY <1>2, <1>4 DEF Types
  <1>6. Types'
    <2>1. \A u \in DOMAIN infos' : infos'[u] \in GuestStates /\ GuestOK(infos'[u])
      BY <1>2, <1>3 DEF Types
    <2>2. infos' \in [DOMAIN infos' -> GuestStates]
      BY <1>3, <2>1
    <2> QED BY <1>2, <1>3, <1>5, <2>1, <2>2 DEF Types
  <1>7. NewIds'
    BY <1>1, <1>2, <1>3, <1>4, <1>5 DEF NewIds, ids
  <1>8. ASSUME NEW u \in DOMAIN threads'
        PROVE  /\ u \in DOMAIN infos'
               /\ Match(threads'[u], infos'[u], tails'[u])
               /\ infos'[u].priority = threads'[u].priority
    <2>1. /\ u \in DOMAIN infos /\ u \in ThreadIds /\ u # d
          /\ Match(threads[u], infos[u], tails[u])
          /\ infos[u].priority = threads[u].priority
      BY <1>1, <1>2, ThreadType DEF AllMatch
    <2>2. CASE u = t
      BY <1>1, <1>3, <1>5, <2>1, <2>2, MatchAlike DEF SP!Alike
    <2>3. CASE u # t
      <3>1. SP!Alike(threads[u], threads'[u]) /\ tails'[u] = tails[u] /\ infos'[u] = infos[u]
        BY <1>1, <1>3, <1>5, <2>1, <2>3
      <3> QED BY <1>3, <2>1, <3>1, MatchAlike DEF SP!Alike
    <2> QED BY <2>2, <2>3
  <1>9. ASSUME NEW u \in DOMAIN infos' \ DOMAIN threads'
        PROVE  infos'[u].status = "Dormant"
    BY <1>1, <1>2, <1>3 DEF AllMatch
  <1>10. AllMatch'
    BY <1>8, <1>9 DEF AllMatch
  <1>11. Objects'
    BY <1>2, WaitersKept, ObjectsKept
  <1> QED BY <1>6, <1>7, <1>10, <1>11 DEF Whole, Data

\* What a fiber finds when it runs again.
LEMMA Dispatched ==
    ASSUME KInv, Dispatch, NEW me, me = currentThreadId, NEW tail, tail = tails[me]
    PROVE  /\ queue = <<>> /\ Whole /\ failed = "None" /\ draining = NoDrain
           /\ me \in DOMAIN threads /\ me \in ThreadIds /\ me # NoThread
           /\ threads[me].state = "Running" /\ RecordOK(threads[me])
           /\ GuestOK(infos[me]) /\ Match(threads[me], infos[me], tail)
           /\ me \in DOMAIN infos /\ infos[me].priority = threads[me].priority
           /\ infos[me].suspends = 0 /\ infos[me].status # "WaitSuspend"
           /\ tail.kind = "Blocked" => infos[me].pending # "None"
  <1>1. \/ phase = "Dispatch"
        \/ phase = "Interrupts" /\ draining = NoDrain /\ currentThreadId # NoThread
    BY DEF Dispatch
  <1>2. /\ queue = <<>> /\ failed = "None" /\ draining = NoDrain /\ me # NoThread
    BY <1>1 DEF KInv, Control
  <1>3. Whole /\ SP!IInv
    BY <1>2, EmptyWhole DEF KInv
  <1>4. me \in DOMAIN threads
    BY <1>2, <1>3 DEF SP!IInv, SP!Good, SP!Records
  <1>5. /\ threads[me].state = "Running" /\ RecordOK(threads[me]) /\ me \in ThreadIds
    BY <1>3, <1>4, ThreadType DEF RecordOK
  <1>6. /\ GuestOK(infos[me]) /\ Match(threads[me], infos[me], tail)
        /\ me \in DOMAIN infos /\ infos[me].priority = threads[me].priority
    BY <1>3, <1>4, WholeThread
  <1>7. threads[me].suspendCount = 0 /\ ~ Waits(threads[me])
    BY <1>5 DEF RecordOK, SP!RecordValid, Waits
  <1>8. ~ infos[me].linked /\ infos[me].suspends = 0
    BY <1>6, <1>7 DEF Match
  <1>9. infos[me].status # "WaitSuspend" /\ (tail.kind = "Blocked" => infos[me].pending # "None")
    BY <1>6, <1>8 DEF Match, GuestOK, GuestValid
  <1> QED BY <1>2, <1>3, <1>4, <1>5, <1>6, <1>8, <1>9

LEMMA DispatchStep ==
    ASSUME KInv, Dispatch
    PROVE  KInv'
  <1>1. PICK me : me = currentThreadId
    OBVIOUS
  <1>2. PICK tail : tail = tails[me]
    OBVIOUS
  <1>3. PICK g : g = infos[me]
    OBVIOUS
  <1>4. PICK finished : finished = IF tail.kind = "Blocked" THEN FinishedGuest(g, tail.on) ELSE g
    OBVIOUS
  <1>5. /\ queue = <<>> /\ Whole /\ failed = "None" /\ draining = NoDrain
        /\ me \in DOMAIN threads /\ me \in ThreadIds /\ me # NoThread
        /\ threads[me].state = "Running" /\ RecordOK(threads[me])
        /\ GuestOK(g) /\ Match(threads[me], g, tail)
        /\ me \in DOMAIN infos /\ g.priority = threads[me].priority
        /\ g.suspends = 0 /\ g.status # "WaitSuspend"
        /\ tail.kind = "Blocked" => g.pending # "None"
    BY <1>1, <1>2, <1>3, Dispatched
  <1>6. ~ (tail.kind = "Blocked" /\ tail.on \in Flags /\ g.pending = "None")
        /\ ~ (tail.kind \in {"Blocked", "Run"} /\ (g.suspends > 0 \/ g.status = "WaitSuspend"))
    BY <1>5
  <1>7. /\ UNCHANGED queue
        /\ IF tail.kind = "Delete" /\ Known(tail.on)
           THEN Throw("DeletedLive")
           ELSE
           /\ IF threads[me].completedWait # Sched!NoCompletion
              THEN Sched!ConsumeWaitCompletion(Handle(me))
              ELSE UNCHANGED schedulerVars
           /\ infos' = CASE tail.kind = "None" -> infos
                        [] tail.kind = "Delete" ->
                             [t \in DOMAIN infos \ {tail.on} |-> infos[t]]
                        [] OTHER -> [infos EXCEPT ![me] =
                                       DispatchedGuest(finished)]
           /\ tails' = [tails EXCEPT ![me] = NoTail]
           /\ phase' = "Guest"
           /\ prior' = me
           /\ UNCHANGED <<ids, objects, policy, draining, failed>>
    BY <1>1, <1>2, <1>3, <1>4, <1>6 DEF Dispatch
  <1>8. CASE tail.kind = "Delete" /\ Known(tail.on)
    <2>1. /\ failed' = "DeletedLive" /\ phase' = "Stopped" /\ draining' = NoDrain
          /\ UNCHANGED <<schedulerVars, infos, ids, tails, objects, policy, prior>>
      BY <1>7, <1>8 DEF Throw
    <2>2. Whole'
      BY <1>5, <2>1, WholeStutter
    <2>3. Control'
      BY <1>5, <1>7, <2>1 DEF KInv, Control
    <2>4. FailsOnlyAsReported'
      BY <2>1 DEF FailsOnlyAsReported
    <2> QED BY <1>5, <1>7, <2>2, <2>3, <2>4, Settled
  <1>9. CASE ~ (tail.kind = "Delete" /\ Known(tail.on))
    <2>1. /\ tails' = [tails EXCEPT ![me] = NoTail] /\ phase' = "Guest" /\ prior' = me
          /\ UNCHANGED <<ids, objects, policy, draining, failed>>
      BY <1>7, <1>9
    <2>2. PICK r \in {threads[me], [threads[me] EXCEPT !.completedWait = SP!NoCompletion]} :
             SP!Becomes(me, r) /\ SP!IInv' /\ UNCHANGED currentThreadId
      <3>1. CASE Sched!ConsumeWaitCompletion(Handle(me))
        BY <1>5, <3>1, DoConsumeCompletion DEF Whole
      <3>2. CASE UNCHANGED schedulerVars
        <4>1. SP!IInv' /\ threads' = threads /\ UNCHANGED currentThreadId
          BY <1>5, <3>2, SchedulerStutter DEF Whole, schedulerVars
        <4>2. SP!Becomes(me, threads[me])
          BY <1>5, <4>1 DEF SP!Becomes, SP!Alike
        <4> QED BY <4>1, <4>2
      <3> QED BY <1>7, <1>9, <3>1, <3>2
    <2>3. /\ ~ Waits(r) /\ ~ Waits(threads[me]) /\ r.priority = g.priority
      BY <1>5, <2>2 DEF RecordOK, SP!ThreadRecords, Waits
    <2>4. /\ GuestOK(DispatchedGuest(finished)) /\ Match(r, g, NoTail)
          /\ Match(r, DispatchedGuest(finished), NoTail)
      BY <1>4, <1>5, <2>2, MatchDispatched, ZenonT(60)
    <2>5. NoTail \in Tails
      BY DEF NoTail, Tails
    <2>6. Whole'
      <3>1. CASE tail.kind = "Delete"
        <4>1. infos' = [t \in DOMAIN infos \ {tail.on} |-> infos[t]]
          BY <1>7, <1>9, <3>1
        <4>2. tail.on \notin DOMAIN threads
          BY <1>9, <3>1 DEF Known
        <4> QED BY <1>3, <1>5, <2>1, <2>2, <2>3, <2>4, <4>1, <4>2, WholeForgotten
      <3>2. CASE tail.kind = "None"
        <4>1. infos' = infos
          BY <1>7, <1>9, <3>2
        <4>2. infos' = [infos EXCEPT ![me] = g]
          BY <1>3, <1>5, <4>1, WholeThread
        <4> QED BY <1>5, <2>1, <2>2, <2>3, <2>4, <2>5, <4>2, WholeKept
      <3>3. CASE tail.kind \notin {"Delete", "None"}
        <4>1. infos' = [infos EXCEPT ![me] = DispatchedGuest(finished)]
          BY <1>7, <1>9, <3>3
        <4>2. DispatchedGuest(finished).priority = g.priority
          BY <1>4, <1>5 DEF DispatchedGuest, FinishedGuest, GuestOK, GuestStates
        <4> QED BY <1>5, <2>1, <2>2, <2>3, <2>4, <2>5, <4>1, <4>2, WholeKept
      <3> QED BY <3>1, <3>2, <3>3
    <2>7. Control'
      <3>1. tails'[me] = NoTail
        BY <1>5, <2>1 DEF Whole, Data, Types
      <3> QED BY <1>1, <1>5, <1>7, <2>1, <2>2, <3>1 DEF KInv, Control
    <2> QED BY <1>5, <1>7, <2>1, <2>6, <2>7, Settled, NothingFailed
  <1> QED BY <1>8, <1>9

-----------------------------------------------------------------------------
(* The invariant holds in every state.                                      *)

LEMMA InitScheduler ==
    ASSUME Init
    PROVE  SP!IInv
  <1>1. PICK r : r = Sched!FreshRecord(1, 0, "Running")
    OBVIOUS
  <1>2. /\ DOMAIN threads = {MainThread} /\ threads[MainThread] = r
        /\ currentThreadId = MainThread /\ nextQueueSequence = 1
    BY <1>1 DEF Init
  <1>3. /\ MainThread \in ThreadIds /\ MaxQueueSequence \in Nat \ {0}
        /\ MaxCount \in Nat \ {0} /\ LowestPriority \in Nat
    BY KernelConstants DEF KernelConstants
  <1>4. /\ r.state = "Running" /\ r.wait = NoWait /\ r.suspendCount = 0
        /\ r.queueSequence = 0 /\ r.priority = 0 /\ r.generation = 1
        /\ r.wakeupCount = 0 /\ r.retainReason = FALSE
        /\ r.completedWait = SP!NoCompletion
        /\ r \in SP!ThreadRecords
    <2>1. r = [generation |-> 1, priority |-> 0, state |-> "Running", wait |-> NoWait,
               completedWait |-> SP!NoCompletion, retainReason |-> FALSE,
               wakeupCount |-> 0, suspendCount |-> 0, queueSequence |-> 0]
      BY <1>1, Zenon DEF Sched!FreshRecord, Sched!NoCompletion, SP!NoCompletion
    <2>2. /\ 1 \in {1} /\ 0 \in SP!Priorities /\ "Running" \in SP!States
          /\ NoWait \in Keys \cup {NoWait} /\ SP!NoCompletion \in SP!CompletedWaits
          /\ 0 \in 0 .. MaxCount /\ 0 \in Nat /\ FALSE \in BOOLEAN
      BY <1>3 DEF SP!Priorities, SP!States, SP!CompletedWaits
    <2> QED BY <2>1, <2>2 DEF SP!ThreadRecords
  <1>5. SP!RecordValid(r)
    BY <1>4 DEF SP!RecordValid, SP!Blocked
  <1>6. SP!Records(threads, currentThreadId, nextQueueSequence)
    <2>1. threads \in [DOMAIN threads -> SP!ThreadRecords]
      <3>1. threads = [t \in {MainThread} |-> r]
        BY <1>1 DEF Init
      <3> QED BY <1>4, <3>1
    <2>2. 1 \in 1 .. MaxQueueSequence
      BY <1>3
    <2> QED BY <1>2, <1>3, <1>4, <1>5, <2>1, <2>2 DEF SP!Records
  <1>7. /\ \A p : SP!ReadySet(threads, p) = {}
        /\ \A w : SP!WaitSet(threads, w) = {}
    BY <1>2, <1>4 DEF SP!ReadySet, SP!WaitSet, SP!Blocked
  <1>8. SP!QueueHolds(threads, <<>>, {}) /\ <<>> \in Seq(SP!Handles)
    BY DEF SP!QueueHolds
  <1>9. SP!ReadyFamily(threads, readyQueues)
    <2>1. readyQueues = [p \in SP!Priorities |-> <<>>]
      BY DEF Init, SP!Priorities
    <2> QED BY <1>7, <1>8, <2>1 DEF SP!ReadyFamily
  <1>10. SP!WaitFamily(threads, waitQueues)
    <2>1. waitQueues = [w \in Keys |-> <<>>]
      BY DEF Init
    <2> QED BY <1>7, <1>8, <2>1 DEF SP!WaitFamily
  <1> QED BY <1>6, <1>9, <1>10 DEF SP!IInv, SP!Good

LEMMA InitKInv == Init => KInv
  <1> SUFFICES ASSUME Init PROVE KInv
    OBVIOUS
  <1>1. SP!IInv
    BY InitScheduler
  <1>2. PICK r : r = Sched!FreshRecord(1, 0, "Running")
    OBVIOUS
  <1>3. PICK g : g = RunningGuest(0)
    OBVIOUS
  <1>4. /\ threads = [t \in {MainThread} |-> r] /\ infos = [t \in {MainThread} |-> g]
        /\ tails = [t \in ThreadIds |-> NoTail]
    BY <1>2, <1>3 DEF Init
  <1>5. /\ MainThread \in ThreadIds /\ NoThread \notin ThreadIds
        /\ MaxCount \in Nat \ {0} /\ LowestPriority \in Nat /\ MaxSema \in Nat
    BY KernelConstants DEF KernelConstants
  <1>6. /\ r.state = "Running" /\ r.wait = NoWait /\ r.suspendCount = 0
        /\ r.priority = 0 /\ r.wakeupCount = 0
    BY <1>2 DEF Sched!FreshRecord
  <1>7. /\ g \in GuestStates /\ g.status = "Run" /\ g.wait = NoWait /\ g.linked = FALSE
        /\ g.wakeups = 0 /\ g.suspends = 0 /\ g.priority = 0
    <2> DEFINE d == DormantGuest(0)
    <2>1. 0 \in 0 .. MaxCount /\ 0 \in 0 .. LowestPriority
      BY <1>5
    <2>2. d \in GuestStates /\ d.wait = NoWait /\ d.linked = FALSE
          /\ d.wakeups = 0 /\ d.suspends = 0 /\ d.priority = 0
      BY <2>1 DEF DormantGuest, GuestStates
    <2>3. g = [d EXCEPT !.status = "Run"]
      BY <1>3, Zenon DEF RunningGuest
    <2> HIDE DEF d
    <2> QED BY <2>2, <2>3 DEF GuestStates
  <1>8. GuestOK(g) /\ Match(r, g, NoTail)
    BY <1>6, <1>7 DEF GuestOK, GuestValid, Match, Waits, NoTail
  <1>9. NoTail \in Tails /\ NoTail.kind = "None"
    BY DEF NoTail, Tails
  <1>10. Types
    BY <1>4, <1>5, <1>7, <1>8, <1>9 DEF Types
  <1>11. NewIds
    <2>1. fresh \subseteq ThreadIds \ {MainThread}
      BY KernelConstants DEF Init, KernelConstants
    <2> QED BY <1>4, <1>9, <2>1 DEF NewIds
  <1>12. ASSUME NEW w PROVE Waiters(w) = {}
    BY <1>4, <1>6, WaitersOf DEF Waits
  <1>13. Objects
    <2>1. /\ semas = [s \in Semas |-> DeadSema] /\ flags = [f \in Flags |-> DeadFlag(FALSE)]
          /\ draining = NoDrain
      BY DEF Init
    <2>2. DeadSema \in SemaRecords /\ DeadSema.waiters = 0
      BY <1>5 DEF DeadSema, SemaRecords
    <2> DEFINE q == DeadFlag(FALSE)
    <2>3. q \in FlagRecords /\ ~ q.live /\ DOMAIN q.requests = {}
      <3>1. [t \in {} |-> NoThread] \in [{} -> Requests] /\ {} \in SUBSET ThreadIds
        OBVIOUS
      <3>2. [t \in {} |-> NoThread] \in UNION {[S -> Requests] : S \in SUBSET ThreadIds}
        BY <3>1
      <3> DEFINE e == NewFlag({}, FALSE)
      <3>3. e \in FlagRecords /\ DOMAIN e.requests = {}
        BY <3>2 DEF NewFlag, FlagRecords
      <3>4. q = [e EXCEPT !.live = FALSE, !.used = FALSE]
        BY Zenon DEF DeadFlag
      <3> HIDE DEF e, q
      <3> QED BY <3>3, <3>4 DEF FlagRecords
    <2>4. flags = [f \in Flags |-> q]
      BY <2>1
    <2> HIDE DEF q
    <2>5. ObjectTypes
      BY <2>1, <2>2, <2>3, <2>4 DEF ObjectTypes
    <2>6. Counted
      <3>1. Cardinality({}) = 0
        BY FS_EmptySet
      <3> QED BY <1>12, <2>1, <2>2, <2>3, <2>4, <3>1 DEF Counted
    <2>7. DrainOK /\ NotStranded
      BY <1>12, <2>1 DEF DrainOK, NotStranded
    <2> QED BY <2>5, <2>6, <2>7 DEF Objects
  <1>14. AllMatch
    BY <1>4, <1>5, <1>6, <1>7, <1>8 DEF AllMatch
  <1>15. queue = <<>> /\ phase = "Guest" /\ policy = "None" /\ prior = MainThread
         /\ draining = NoDrain /\ failed = "None" /\ currentThreadId = MainThread
    BY DEF Init
  <1>16. Moving = {} /\ Promoted = {} /\ QueueOK
    BY <1>15, NoCalls
  <1>17. Pictures
    BY <1>14, <1>16, AgreeAll, PicturesOf
  <1>18. Control
    <2>1. tails[prior] = NoTail
      BY <1>4, <1>5, <1>15
    <2>2. prior # NoThread
      BY <1>5, <1>15
    <2> QED BY <1>5, <1>15, <2>1, <2>2 DEF Control
  <1>19. FailsOnlyAsReported
    BY <1>15 DEF FailsOnlyAsReported
  <1> QED BY <1>1, <1>10, <1>11, <1>13, <1>16, <1>17, <1>18, <1>19 DEF KInv, Data

LEMMA KeptAlways == KInv /\ [Next]_vars => KInv'
  <1> SUFFICES ASSUME KInv, [Next]_vars PROVE KInv'
    OBVIOUS
  <1>1. ASSUME UNCHANGED vars PROVE KInv'
    <2>1. /\ UNCHANGED <<schedulerVars, infos, ids, tails, objects, draining>>
          /\ UNCHANGED <<queue, phase, policy, prior, failed>>
      BY <1>1 DEF vars, loop
    <2>2. PICK E : E = Moving
      OBVIOUS
    <2>3. PICK P : P = Promoted
      OBVIOUS
    <2>4. SP!IInv' /\ SP!NothingSeen /\ Data' /\ Agree(E, P)'
      BY <2>1, <2>2, <2>3, StillKept
    <2>5. Calls' = Calls /\ Moving' = Moving /\ Promoted' = Promoted /\ QueueShape'
      BY <2>1, SameCalls DEF KInv, QueueOK
    <2>6. Pictures'
      BY <2>2, <2>3, <2>4, <2>5, PicturesNext
    <2>7. threads' = threads /\ currentThreadId' = currentThreadId
      BY <2>1 DEF schedulerVars
    <2>8. \A c \in Calls : Owed(c)'
      <3>1. \A c \in Calls : Owed(c)
        BY DEF KInv, QueueOK
      <3>2. flags' = flags
        BY <2>1 DEF objects
      <3>3. Overtaken => Overtaken'
        BY <2>1, <2>7 DEF Overtaken
      <3>4. \A c \in Calls : c.call \in Blocking => Overtaken'
        BY <3>1, <3>3 DEF Owed
      <3> QED BY <2>1, <2>4, <3>1, <3>2, <3>4, OwedKept
    <2>9. QueueOK'
      BY <2>5, <2>8 DEF KInv, QueueOK
    <2>10. Control' /\ FailsOnlyAsReported'
      BY <2>1, <2>7 DEF KInv, Control, FailsOnlyAsReported
    <2> QED BY <2>4, <2>6, <2>9, <2>10 DEF KInv
  <1>2. ASSUME Stopped PROVE KInv'
    BY <1>1, <1>2 DEF Stopped
  <1>3. ASSUME Syscall PROVE KInv'
    BY <1>3, SyscallStep
  <1>4. ASSUME SyscallStartThread PROVE KInv'
    BY <1>4, StartThreadStep
  <1>5. ASSUME SyscallCreateThread PROVE KInv'
    BY <1>5, CreateThreadStep
  <1>6. ASSUME SyscallInitThread PROVE KInv'
    BY <1>6, InitThreadStep
  <1>7. ASSUME SyscallExitThread PROVE KInv'
    BY <1>7, ExitThreadStep
  <1>8. ASSUME SyscallExitDeleteThread PROVE KInv'
    BY <1>8, ExitDeleteThreadStep
  <1>9. ASSUME SyscallRotate PROVE KInv'
    BY <1>9, RotateStep
  <1>10. ASSUME Checkpoint PROVE KInv'
    BY <1>10, CheckpointStep
  <1>11. ASSUME PublishRunning PROVE KInv'
    BY <1>11, PublishRunningStep
  <1>12. ASSUME CreateObject PROVE KInv'
    BY <1>12, CreateObjectStep
  <1>13. ASSUME UseObject PROVE KInv'
    BY <1>13, UseObjectStep
  <1>14. ASSUME ApplyPublication PROVE KInv'
    BY <1>14, ApplyStep
  <1>15. ASSUME Reschedule PROVE KInv'
    BY <1>15, RescheduleStep
  <1>16. ASSUME Interrupt PROVE KInv'
    BY <1>16, InterruptStep
  <1>17. ASSUME Select PROVE KInv'
    BY <1>17, SelectStep
  <1>18. ASSUME Dispatch PROVE KInv'
    BY <1>18, DispatchStep
  <1>19. ASSUME Drain PROVE KInv'
    BY <1>19, DrainStep
  <1> QED BY <1>1, <1>2, <1>3, <1>4, <1>5, <1>6, <1>7, <1>8, <1>9, <1>10, <1>11, <1>12,
        <1>13, <1>14, <1>15, <1>16, <1>17, <1>18, <1>19 DEF Next

-----------------------------------------------------------------------------
(* What the invariant says of the checked properties.                       *)

LEMMA InFlightCalls ==
    ASSUME QueueShape, NEW t, NEW calls
    PROVE  InFlight(t, calls) <=> \E c \in Calls : c.call \in calls /\ c.on = t
  <1>1. DOMAIN queue = 1 .. Len(queue)
    BY DEF QueueShape
  <1> QED BY <1>1 DEF InFlight, Calls

LEMMA KInvValid == KInv => MirrorValid
  BY DEF KInv, Data, Types, MirrorValid, GuestOK

LEMMA MatchAgrees ==
    ASSUME NEW t, Match(threads[t], infos[t], tails[t])
    PROVE  /\ WaitAgrees(t)
           /\ infos[t].suspends = threads[t].suspendCount
           /\ infos[t].wakeups = threads[t].wakeupCount
           /\ infos[t].status = "Dormant" <=> threads[t].state = "Dormant"
  <1>1. Waits(threads[t]) <=> Blocked(t)
    BY DEF Waits, Blocked
  <1> QED BY <1>1 DEF Match, WaitAgrees

LEMMA KInvAgrees == KInv => MirrorAgrees
  <1> SUFFICES ASSUME KInv PROVE MirrorAgrees
    OBVIOUS
  <1>1. QueueShape /\ (\A c \in Calls : Owed(c)) /\ Pictures
    BY DEF KInv, QueueOK
  <1>2. ASSUME NEW t \in DOMAIN threads, ~ InFlight(t, {"StartThread", "ExitDeleteThread"})
        PROVE  t \in DOMAIN infos /\ WaitAgrees(t) /\ CountsAgree(t)
    <2>1. t \notin Moving
      BY <1>1, <1>2, InFlightCalls DEF Moving
    <2>2. t \in Promoted => InFlight(t, {"InitThread"})
      BY <1>1, InFlightCalls DEF Promoted
    <2>3. /\ t \in DOMAIN infos /\ Match(threads[t], infos[t], tails[t])
          /\ t \in Promoted \/ infos[t].priority = threads[t].priority
      BY <1>1, <2>1 DEF Pictures
    <2> QED BY <2>2, <2>3, MatchAgrees DEF CountsAgree
  <1>3. ASSUME NEW t \in DOMAIN infos \ DOMAIN threads, infos[t].status # "Dormant"
        PROVE  InFlight(t, {"StartThread"})
    <2>1. t \in Moving
      BY <1>1, <1>3 DEF Pictures
    <2>2. PICK c \in Calls : c.call \in {"StartThread", "ExitDeleteThread"} /\ c.on = t
      BY <2>1 DEF Moving
    <2>3. c.call # "ExitDeleteThread"
      BY <1>1, <2>2 DEF Owed
    <2> QED BY <1>1, <2>2, <2>3, InFlightCalls
  <1>4. ASSUME NEW s \in Semas
        PROVE  semas[s].waiters = Len(waitQueues[s])
    BY KeyTypes, WaitersFinite DEF KInv, Data, Objects, Counted
  <1>5. ASSUME NEW f \in Flags
        PROVE  DOMAIN flags[f].requests = ToSet(WaitOrder(f))
    <2> DEFINE q == waitQueues[f]
               o == WaitOrder(f)
    <2>1. /\ q \in Seq(SP!Handles)
          /\ {q[i].id : i \in 1 .. Len(q)} = Waiters(f)
      BY KeyTypes, SchedulerConstants, SP!WaitersQueued DEF KInv, Waiters
    <2>2. DOMAIN q = 1 .. Len(q)
      BY <2>1
    <2>3. DOMAIN o = 1 .. Len(q) /\ \A i \in 1 .. Len(q) : o[i] = q[i].id
      BY <2>2 DEF WaitOrder
    <2> HIDE DEF q, o
    <2>4. \A t : t \in ToSet(o) <=> t \in Waiters(f)
      BY <2>1, <2>3 DEF ToSet
    <2> QED BY <2>4 DEF o, KInv, Data, Objects, Counted
  <1> QED BY <1>2, <1>3, <1>4, <1>5 DEF MirrorAgrees

LEMMA KInvStranded == KInv => NoStrandedWaiter
  <1> SUFFICES ASSUME KInv, draining = NoDrain PROVE
          /\ \A s \in Semas : waitQueues[s] # <<>> =>
                semas[s].live /\ semas[s].count = 0
          /\ \A f \in Flags : \A t \in DOMAIN flags[f].requests :
                flags[f].live /\ ~ Satisfied(flags[f].bits, flags[f].requests[t])
    BY DEF NoStrandedWaiter
  <1>1. NotStranded /\ Counted /\ \A key, t : ~ Pending(key, t)
    BY DEF KInv, Data, Objects, Pending
  <1>2. \A s \in Semas : waitQueues[s] # <<>> => Waiters(s) # {}
    BY KeyTypes, WaitersFinite DEF KInv
  <1>3. \A s \in Semas : waitQueues[s] # <<>> => semas[s].live /\ semas[s].count = 0
    BY <1>1, <1>2 DEF NotStranded
  <1>4. \A f \in Flags : \A t \in DOMAIN flags[f].requests :
                flags[f].live /\ ~ Satisfied(flags[f].bits, flags[f].requests[t])
    BY <1>1 DEF NotStranded, Counted
  <1> QED BY <1>3, <1>4

\* The inductive invariant: the scheduler's own, the two pictures of every
\* thread, the objects with their waiters, and what the published closures
\* will find, after any number of syscalls and boundaries (Thread.cpp and
\* Sync.cpp under Kernel/Syscalls, ee_scheduler_executor.cpp).
THEOREM KernelInvariant == Spec => []KInv
  BY InitKInv, KeptAlways, PTL DEF Spec

\* commit() never drops a transition of the mirror: every ThreadInfo that a
\* syscall, a closure or a dispatch leaves is one that isValid() accepts.
THEOREM MirrorAlwaysValid == Spec => []MirrorValid
  BY KInvValid, KernelInvariant, PTL

\* The scheduler, the ThreadInfo map, the semaphores and the event flags
\* describe the same waits, counts and priorities at every step, for any
\* number of threads and objects and any closures published before a yield.
THEOREM MirrorAlwaysAgrees == Spec => []MirrorAgrees
  BY KInvAgrees, KernelInvariant, PTL

\* Neither SignalSema, SetEventFlag or a deletion, nor a poll, a release or a
\* termination that comes between, leaves a thread waiting for what it could
\* have.
THEOREM NeverStrandsWaiter == Spec => []NoStrandedWaiter
  BY KInvStranded, KernelInvariant, PTL

\* Of the exceptions by which the closures guard the agreement of the
\* scheduler and the mirror, only three can be thrown, and each only in the
\* situation that its property names.
THEOREM FailsAsReported == Spec => []FailsOnlyAsReported
  <1>1. KInv => FailsOnlyAsReported
    BY DEF KInv
  <1> QED BY <1>1, KernelInvariant, PTL
=============================================================================
