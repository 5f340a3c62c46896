------------------------- MODULE EeThreadScheduler -------------------------
(***************************************************************************)
(* The EE thread scheduler core of the runtime (ee_thread_scheduler.cpp):   *)
(* per-thread records, one FIFO ready queue per priority, one FIFO wait     *)
(* queue per wait object and at most one running thread.                    *)
(*                                                                         *)
(* The class is single-owner: every method runs to completion on the EE     *)
(* executor's host thread, so one call is one action.  A call that the code *)
(* rejects returns without changing anything and is a stuttering step, so   *)
(* the rejection conditions are the guards below.                           *)
(***************************************************************************)
EXTENDS Integers, SequencesExt

CONSTANTS
    ThreadIds,         \* guest thread ids (int > 0)
    NoThread,          \* m_currentThreadId == nullopt
    Generations,       \* generation numbers a record may carry (uint32 # 0)
    LowestPriority,    \* kEeThreadPriorityCount - 1; 0 is the most urgent
    WaitKeys,          \* valid EeSchedulerWaitKey values
    SleepKey,          \* {EeSchedulerWaitKind::Sleep, 0}
    NoWait,            \* EeSchedulerWaitKey{}
    Completions,       \* EeSchedulerWaitCompletion values other than None
    MaxCount,          \* numeric_limits<uint32_t>::max() of the two counters
    MaxQueueSequence   \* bound on m_nextQueueSequence (uint64 in the code)

ASSUME ConstantsAssumption ==
    /\ NoThread \notin ThreadIds
    /\ LowestPriority \in Nat
    /\ SleepKey \in WaitKeys
    /\ NoWait \notin WaitKeys
    /\ "Satisfied" \in Completions
    /\ "None" \notin Completions
    /\ MaxCount \in Nat \ {0}
    /\ MaxQueueSequence \in Nat \ {0}

Priorities == 0 .. LowestPriority

Handles == [id : ThreadIds, generation : Generations]

NoCompletion == [wait |-> NoWait, completion |-> "None"]

CompletedWaits ==
    {NoCompletion} \cup [wait : WaitKeys, completion : Completions]

States ==
    {"Dormant", "Ready", "Running", "Waiting", "Suspended", "WaitSuspended"}

Blocked == {"Waiting", "WaitSuspended"}

ThreadRecords ==
    [generation : Generations, priority : Priorities, state : States,
     wait : WaitKeys \cup {NoWait}, completedWait : CompletedWaits,
     retainReason : BOOLEAN, wakeupCount : 0 .. MaxCount,
     suspendCount : 0 .. MaxCount, queueSequence : Nat]

VARIABLES
    threads,           \* m_threads: id -> record, defined on the live ids
    readyQueues,       \* m_readyQueues: priority -> sequence of handles
    waitQueues,        \* m_waitQueues: key -> handles, <<>> is an erased entry
    currentThreadId,   \* m_currentThreadId
    nextQueueSequence  \* m_nextQueueSequence

vars == <<threads, readyQueues, waitQueues, currentThreadId, nextQueueSequence>>

Init ==
    /\ threads = [t \in {} |-> NoThread]
    /\ readyQueues = [p \in Priorities |-> <<>>]
    /\ waitQueues = [w \in WaitKeys |-> <<>>]
    /\ currentThreadId = NoThread
    /\ nextQueueSequence = 1

-----------------------------------------------------------------------------
(* Helpers shared by the operations.                                        *)

FindThread(ts, h) ==
    /\ h.id \in DOMAIN ts
    /\ ts[h.id].generation = h.generation

IsReady(ts, h) == FindThread(ts, h) /\ ts[h.id].state = "Ready"

HandleOf(t) == [id |-> t, generation |-> threads[t].generation]

FreshRecord(g, p, state) ==
    [generation |-> g, priority |-> p, state |-> state, wait |-> NoWait,
     completedWait |-> NoCompletion, retainReason |-> FALSE,
     wakeupCount |-> 0, suspendCount |-> 0, queueSequence |-> 0]

DormantRecord(g, p) == FreshRecord(g, p, "Dormant")

SequenceAvailable == nextQueueSequence < MaxQueueSequence

\* enqueueReady: the record it leaves and the queues it leaves.
ReadyRecord(r) ==
    [r EXCEPT !.state = "Ready", !.wait = NoWait,
              !.queueSequence = nextQueueSequence]

PushReady(queues, t, p) == [queues EXCEPT ![p] = Append(@, HandleOf(t))]

SelectedRecord(r) ==
    [r EXCEPT !.state = "Running", !.retainReason = FALSE,
              !.queueSequence = 0]

\* takeNextReady on records ts and queues: pop handles from the most urgent
\* level on, dropping the ones that no longer name a Ready thread ...
TakeAt(ts, queues, p, i) ==
    LET selected == queues[p][i].id IN
    /\ IsReady(ts, queues[p][i])
    /\ \A j \in 1 .. i - 1 : ~ IsReady(ts, queues[p][j])
    /\ \A q \in 0 .. p - 1 : \A j \in DOMAIN queues[q] :
          ~ IsReady(ts, queues[q][j])
    /\ threads' = [ts EXCEPT ![selected] = SelectedRecord(@)]
    /\ readyQueues' =
          [q \in Priorities |->
             IF q < p THEN <<>>
             ELSE IF q = p THEN SubSeq(queues[p], i + 1, Len(queues[p]))
             ELSE queues[q]]
    /\ currentThreadId' = selected

\* ... until the queues are exhausted.
TakeNone(ts, queues) ==
    /\ \A p \in Priorities : \A i \in DOMAIN queues[p] :
          ~ IsReady(ts, queues[p][i])
    /\ threads' = ts
    /\ readyQueues' = [p \in Priorities |-> <<>>]
    /\ currentThreadId' = NoThread

TakeNextReady(ts, queues) ==
    \/ \E p \in Priorities : \E i \in DOMAIN queues[p] :
          TakeAt(ts, queues, p, i)
    \/ TakeNone(ts, queues)

\* removeReady and removeWait: std::find, then erase.
WithoutReady(h) ==
    [readyQueues EXCEPT ![threads[h.id].priority] = RemoveFirst(@, h)]

WithoutWaiting(h) ==
    [waitQueues EXCEPT ![threads[h.id].wait] = RemoveFirst(@, h)]

CurrentIsRunning ==
    /\ currentThreadId # NoThread
    /\ currentThreadId \in DOMAIN threads
    /\ threads[currentThreadId].state = "Running"

-----------------------------------------------------------------------------
(* Creation, deletion and the CPU.                                          *)

AddThread(t, r) ==
    threads' = [u \in DOMAIN threads \cup {t} |->
                  IF u = t THEN r ELSE threads[u]]

AddDormantThread(t, g, p) ==
    /\ t \notin DOMAIN threads
    /\ AddThread(t, DormantRecord(g, p))
    /\ UNCHANGED <<readyQueues, waitQueues, currentThreadId, nextQueueSequence>>

AddRunningThread(t, g, p) ==
    /\ currentThreadId = NoThread
    /\ t \notin DOMAIN threads
    /\ AddThread(t, FreshRecord(g, p, "Running"))
    /\ currentThreadId' = t
    /\ UNCHANGED <<readyQueues, waitQueues, nextQueueSequence>>

StartThread(h) ==
    /\ SequenceAvailable
    /\ FindThread(threads, h)
    /\ threads[h.id].state = "Dormant"
    /\ threads' = [threads EXCEPT ![h.id] = ReadyRecord(@)]
    /\ readyQueues' = PushReady(readyQueues, h.id, threads[h.id].priority)
    /\ nextQueueSequence' = nextQueueSequence + 1
    /\ UNCHANGED <<waitQueues, currentThreadId>>

DeleteThread(h) ==
    /\ FindThread(threads, h)
    /\ threads[h.id].state = "Dormant"
    /\ threads' = [u \in DOMAIN threads \ {h.id} |-> threads[u]]
    /\ UNCHANGED <<readyQueues, waitQueues, currentThreadId, nextQueueSequence>>

SelectNextThread ==
    /\ currentThreadId = NoThread
    /\ TakeNextReady(threads, readyQueues)
    /\ UNCHANGED <<waitQueues, nextQueueSequence>>

\* The running thread goes to the back of its own level and the most urgent
\* Ready thread, possibly itself, takes the CPU.
RequeueCurrent ==
    LET t == currentThreadId
        ts == [threads EXCEPT ![t] = ReadyRecord(@)]
    IN  /\ SequenceAvailable
        /\ TakeNextReady(ts, PushReady(readyQueues, t, threads[t].priority))
        /\ nextQueueSequence' = nextQueueSequence + 1
        /\ UNCHANGED waitQueues

YieldCurrentThread == CurrentIsRunning /\ RequeueCurrent

\* reschedule() with a running thread; without one it is SelectNextThread.
ShouldPreempt(policy) ==
    LET readyLevels == {p \in Priorities : readyQueues[p] # <<>>}
        current == threads[currentThreadId].priority
    IN  \/ /\ policy = "HigherPriorityOnly"
           /\ \E p \in readyLevels : p < current
        \/ /\ policy = "EqualOrHigherPriority"
           /\ \E p \in readyLevels : p <= current

Preempt(policy) ==
    CurrentIsRunning /\ ShouldPreempt(policy) /\ RequeueCurrent

\* finishCurrentThread and exitCurrentThread: retireCurrentThread, then select.
FinishCurrentThread ==
    LET t == currentThreadId
        r == threads[t]
        ts == [threads EXCEPT ![t] = DormantRecord(r.generation, r.priority)]
    IN  /\ CurrentIsRunning
        /\ TakeNextReady(ts, readyQueues)
        /\ UNCHANGED <<waitQueues, nextQueueSequence>>

-----------------------------------------------------------------------------
(* Waiting and waking.                                                      *)

\* Mutant: a wait starts although the result of the last one is unread.
BlockWithUnreadCompletion(w) ==
    LET t == currentThreadId
        ts == [threads EXCEPT ![t].state = "Waiting", ![t].wait = w,
                              ![t].queueSequence = nextQueueSequence]
    IN  /\ SequenceAvailable
        /\ CurrentIsRunning
        /\ w = SleepKey => threads[t].wakeupCount = 0
        /\ waitQueues' = [waitQueues EXCEPT ![w] = Append(@, HandleOf(t))]
        /\ TakeNextReady(ts, readyQueues)
        /\ nextQueueSequence' = nextQueueSequence + 1

BlockCurrentThread(w) ==
    LET t == currentThreadId
        ts == [threads EXCEPT ![t].state = "Waiting", ![t].wait = w,
                              ![t].queueSequence = nextQueueSequence]
    IN  /\ SequenceAvailable
        /\ CurrentIsRunning
        /\ threads[t].completedWait = NoCompletion
        /\ w = SleepKey => threads[t].wakeupCount = 0
        /\ waitQueues' = [waitQueues EXCEPT ![w] = Append(@, HandleOf(t))]
        /\ TakeNextReady(ts, readyQueues)
        /\ nextQueueSequence' = nextQueueSequence + 1

\* sleepCurrentThread with a wakeup already counted; without one it blocks.
ConsumeWakeup ==
    /\ CurrentIsRunning
    /\ threads[currentThreadId].completedWait = NoCompletion
    /\ threads[currentThreadId].wakeupCount # 0
    /\ threads' = [threads EXCEPT ![currentThreadId].wakeupCount = @ - 1]
    /\ UNCHANGED <<readyQueues, waitQueues, currentThreadId, nextQueueSequence>>

SleepCurrentThread == ConsumeWakeup \/ BlockCurrentThread(SleepKey)

\* A thread leaves its wait: the result is kept in completedWait, and the
\* thread becomes Ready, or merely Suspended when it is also suspended.
CompleteWait(t, completion, retain) ==
    LET r == threads[t]
        done == [r EXCEPT !.wait = NoWait, !.retainReason = retain,
                          !.completedWait =
                            [wait |-> r.wait, completion |-> completion]]
    IN  IF r.suspendCount # 0
        THEN /\ threads' = [threads EXCEPT ![t] =
                   [done EXCEPT !.state = "Suspended", !.queueSequence = 0]]
             /\ UNCHANGED <<readyQueues, nextQueueSequence>>
        ELSE /\ SequenceAvailable
             /\ threads' = [threads EXCEPT ![t] = ReadyRecord(done)]
             /\ readyQueues' = PushReady(readyQueues, t, r.priority)
             /\ nextQueueSequence' = nextQueueSequence + 1

WaitsOn(h, w) ==
    /\ FindThread(threads, h)
    /\ threads[h.id].state \in Blocked
    /\ threads[h.id].wait = w

\* The front of the queue is popped even when its handle is stale.
WakeOne(w) ==
    /\ waitQueues[w] # <<>>
    /\ waitQueues' = [waitQueues EXCEPT ![w] = Tail(@)]
    /\ IF WaitsOn(Head(waitQueues[w]), w)
       THEN CompleteWait(Head(waitQueues[w]).id, "Satisfied", FALSE)
       ELSE UNCHANGED <<threads, readyQueues, nextQueueSequence>>
    /\ UNCHANGED currentThreadId

ReleaseWaitThread(h, completion, retain) ==
    /\ FindThread(threads, h)
    /\ threads[h.id].state \in Blocked
    /\ threads[h.id].wait # NoWait
    /\ h \in ToSet(waitQueues[threads[h.id].wait])
    /\ waitQueues' = WithoutWaiting(h)
    /\ CompleteWait(h.id, completion, retain)
    /\ UNCHANGED currentThreadId

WakeThread(h) ==
    /\ FindThread(threads, h)
    /\ threads[h.id].state # "Dormant"
    /\ IF WaitsOn(h, SleepKey)
       THEN ReleaseWaitThread(h, "Satisfied", FALSE)
       ELSE /\ threads[h.id].wakeupCount # MaxCount
            /\ threads' = [threads EXCEPT ![h.id].wakeupCount = @ + 1]
            /\ UNCHANGED <<readyQueues, waitQueues, currentThreadId,
                           nextQueueSequence>>

CancelWakeups(h) ==
    /\ FindThread(threads, h)
    /\ threads' = [threads EXCEPT ![h.id].wakeupCount = 0]
    /\ UNCHANGED <<readyQueues, waitQueues, currentThreadId, nextQueueSequence>>

ConsumeWaitCompletion(h) ==
    /\ FindThread(threads, h)
    /\ threads[h.id].state = "Running"
    /\ threads[h.id].completedWait # NoCompletion
    /\ threads' = [threads EXCEPT ![h.id].completedWait = NoCompletion,
                                  ![h.id].retainReason = FALSE]
    /\ UNCHANGED <<readyQueues, waitQueues, currentThreadId, nextQueueSequence>>

-----------------------------------------------------------------------------
(* Suspension, termination and priorities.                                  *)

\* Mutant: the CPU is given up without selecting a replacement.
SuspendRunningLeavesCpuIdle(h) ==
    /\ threads[h.id].state = "Running"
    /\ currentThreadId = h.id
    /\ threads' = [threads EXCEPT ![h.id].state = "Suspended",
                                  ![h.id].suspendCount = @ + 1]
    /\ currentThreadId' = NoThread
    /\ UNCHANGED <<readyQueues, waitQueues>>

SuspendRunning(h) ==
    /\ threads[h.id].state = "Running"
    /\ currentThreadId = h.id
    /\ TakeNextReady([threads EXCEPT ![h.id].state = "Suspended",
                                     ![h.id].suspendCount = @ + 1],
                     readyQueues)
    /\ UNCHANGED waitQueues

SuspendReady(h) ==
    /\ threads[h.id].state = "Ready"
    /\ h \in ToSet(readyQueues[threads[h.id].priority])
    /\ readyQueues' = WithoutReady(h)
    /\ threads' = [threads EXCEPT ![h.id].state = "Suspended",
                                  ![h.id].suspendCount = @ + 1,
                                  ![h.id].queueSequence = 0]
    /\ UNCHANGED <<waitQueues, currentThreadId>>

SuspendOther(h) ==
    /\ threads[h.id].state \in {"Waiting", "Suspended", "WaitSuspended"}
    /\ threads' = [threads EXCEPT
         ![h.id].state = IF @ = "Waiting" THEN "WaitSuspended" ELSE @,
         ![h.id].suspendCount = @ + 1]
    /\ UNCHANGED <<readyQueues, waitQueues, currentThreadId>>

SuspendThread(h) ==
    /\ FindThread(threads, h)
    /\ threads[h.id].suspendCount # MaxCount
    /\ SuspendRunning(h) \/ SuspendReady(h) \/ SuspendOther(h)
    /\ UNCHANGED nextQueueSequence

\* The nested suspensions are undone one by one; the last one requeues.
ResumeThread(h) ==
    LET r == threads[h.id]
        resumed == [r EXCEPT !.suspendCount = @ - 1]
    IN  /\ FindThread(threads, h)
        /\ r.suspendCount # 0
        /\ r.state \in {"Suspended", "WaitSuspended"}
        /\ IF r.suspendCount = 1 /\ r.state = "Suspended"
           THEN /\ SequenceAvailable
                /\ threads' = [threads EXCEPT ![h.id] = ReadyRecord(resumed)]
                /\ readyQueues' = PushReady(readyQueues, h.id, r.priority)
                /\ nextQueueSequence' = nextQueueSequence + 1
           ELSE /\ threads' = [threads EXCEPT ![h.id] =
                     [resumed EXCEPT
                        !.state = IF r.suspendCount = 1 THEN "Waiting" ELSE @]]
                /\ UNCHANGED <<readyQueues, nextQueueSequence>>
        /\ UNCHANGED <<waitQueues, currentThreadId>>

TerminateThread(h) ==
    LET r == threads[h.id]
        ts == [threads EXCEPT ![h.id] = DormantRecord(r.generation, r.priority)]
        queues == IF r.state = "Ready" THEN WithoutReady(h) ELSE readyQueues
    IN  /\ FindThread(threads, h)
        /\ r.state # "Dormant"
        /\ r.state = "Running" => currentThreadId = h.id
        /\ r.state = "Ready" => h \in ToSet(readyQueues[r.priority])
        /\ r.state \in Blocked => h \in ToSet(waitQueues[r.wait])
        /\ waitQueues' = IF r.state \in Blocked THEN WithoutWaiting(h)
                                               ELSE waitQueues
        /\ IF r.state = "Running" \/ currentThreadId = NoThread
           THEN TakeNextReady(ts, queues)
           ELSE /\ threads' = ts
                /\ readyQueues' = queues
                /\ UNCHANGED currentThreadId
        /\ UNCHANGED nextQueueSequence

\* Mutant: a Ready thread is not moved to the queue of its new level.
ChangePriorityInPlace(h, p) ==
    /\ FindThread(threads, h)
    /\ threads[h.id].state # "Dormant"
    /\ threads[h.id].priority # p
    /\ threads' = [threads EXCEPT ![h.id].priority = p]
    /\ UNCHANGED <<readyQueues, waitQueues, currentThreadId, nextQueueSequence>>

ChangeThreadPriority(h, p) ==
    LET r == threads[h.id] IN
    /\ FindThread(threads, h)
    /\ r.state # "Dormant"
    /\ r.priority # p
    /\ IF r.state = "Ready"
       THEN /\ SequenceAvailable
            /\ h \in ToSet(readyQueues[r.priority])
            /\ threads' = [threads EXCEPT ![h.id] =
                             ReadyRecord([r EXCEPT !.priority = p])]
            /\ readyQueues' = [WithoutReady(h) EXCEPT ![p] = Append(@, h)]
            /\ nextQueueSequence' = nextQueueSequence + 1
       ELSE /\ threads' = [threads EXCEPT ![h.id].priority = p]
            /\ UNCHANGED <<readyQueues, nextQueueSequence>>
    /\ UNCHANGED <<waitQueues, currentThreadId>>

\* Mutant: the rotated thread keeps the sequence number of its old place.
RotateKeepsSequence(p) ==
    LET queue == readyQueues[p] IN
    /\ Len(queue) >= 2
    /\ readyQueues' = [readyQueues EXCEPT ![p] = Append(Tail(@), Head(@))]
    /\ UNCHANGED <<threads, waitQueues, currentThreadId, nextQueueSequence>>

RotateReadyQueue(p) ==
    LET queue == readyQueues[p]
        front == Head(queue)
    IN  /\ SequenceAvailable
        /\ Len(queue) >= 2
        /\ IsReady(threads, front)
        /\ threads[front.id].priority = p
        /\ readyQueues' = [readyQueues EXCEPT ![p] = Append(Tail(@), front)]
        /\ threads' =
              [threads EXCEPT ![front.id].queueSequence = nextQueueSequence]
        /\ nextQueueSequence' = nextQueueSequence + 1
        /\ UNCHANGED <<waitQueues, currentThreadId>>

-----------------------------------------------------------------------------
Next ==
    \/ \E t \in ThreadIds, g \in Generations, p \in Priorities :
          AddDormantThread(t, g, p) \/ AddRunningThread(t, g, p)
    \/ \E h \in Handles : \/ StartThread(h)
                           \/ DeleteThread(h)
                           \/ WakeThread(h)
                           \/ CancelWakeups(h)
                           \/ ConsumeWaitCompletion(h)
                           \/ SuspendThread(h)
                           \/ ResumeThread(h)
                           \/ TerminateThread(h)
    \/ \E h \in Handles, c \in Completions, retain \in BOOLEAN :
          ReleaseWaitThread(h, c, retain)
    \/ \E h \in Handles, p \in Priorities : ChangeThreadPriority(h, p)
    \/ SelectNextThread
    \/ YieldCurrentThread
    \/ \E policy \in {"HigherPriorityOnly", "EqualOrHigherPriority"} :
          Preempt(policy)
    \/ FinishCurrentThread
    \/ SleepCurrentThread
    \/ \E w \in WaitKeys : BlockCurrentThread(w) \/ WakeOne(w)
    \/ \E p \in Priorities : RotateReadyQueue(p)

Spec == Init /\ [][Next]_vars

-----------------------------------------------------------------------------
(* validate(), the check restore() and the save-state reader rely on.       *)

TypeOK ==
    /\ DOMAIN threads \subseteq ThreadIds
    /\ threads \in [DOMAIN threads -> ThreadRecords]
    /\ readyQueues \in [Priorities -> Seq(Handles)]
    /\ waitQueues \in [WaitKeys -> Seq(Handles)]
    /\ currentThreadId \in ThreadIds \cup {NoThread}
    /\ nextQueueSequence \in 1 .. MaxQueueSequence

\* The positions at which a queue family holds a thread id.
Places(queues, t) ==
    {place \in UNION {{k} \X DOMAIN queues[k] : k \in DOMAIN queues} :
        queues[place[1]][place[2]].id = t}

Once(places) == \E place \in places : places = {place}

ReadyEntriesValid(ts, queues) ==
    \A p \in Priorities : \A i \in DOMAIN queues[p] :
        /\ IsReady(ts, queues[p][i])
        /\ ts[queues[p][i].id].priority = p

WaitEntriesValid(ts, queues) ==
    \A w \in WaitKeys : \A i \in DOMAIN queues[w] :
        /\ FindThread(ts, queues[w][i])
        /\ ts[queues[w][i].id].state \in Blocked
        /\ ts[queues[w][i].id].wait = w

\* The switch over the state of one record.
RecordValid(r) ==
    /\ r.retainReason => r.completedWait # NoCompletion
    /\ (r.wait # NoWait) <=> (r.state \in Blocked)
    /\ (r.queueSequence # 0) <=> (r.state \in Blocked \cup {"Ready"})
    /\ (r.suspendCount # 0) <=> (r.state \in {"Suspended", "WaitSuspended"})
    /\ r.state \in Blocked \cup {"Dormant"} => r.completedWait = NoCompletion
    /\ r.state = "Dormant" => r.wakeupCount = 0
    /\ r.state = "Running" => ~ r.retainReason
    /\ r.wait = SleepKey => r.wakeupCount = 0

Validated(ts, ready, wait, current) ==
    /\ ReadyEntriesValid(ts, ready)
    /\ WaitEntriesValid(ts, wait)
    /\ \A t \in DOMAIN ts :
          /\ RecordValid(ts[t])
          /\ IF ts[t].state = "Ready" THEN Once(Places(ready, t))
                                      ELSE Places(ready, t) = {}
          /\ IF ts[t].state \in Blocked THEN Once(Places(wait, t))
                                        ELSE Places(wait, t) = {}
          /\ ts[t].state = "Running" => t = current
    /\ current # NoThread => /\ current \in DOMAIN ts
                             /\ ts[current].state = "Running"

\* validate() holds of every state the operations reach, so that a save state
\* taken at any scheduling boundary is one restore() accepts: each Ready or
\* waiting thread is queued exactly once, under its own priority or wait
\* object, no queue holds a stale handle, and the running thread is the
\* current one.
Valid == Validated(threads, readyQueues, waitQueues, currentThreadId)

Sorted(queue) ==
    \A i, j \in DOMAIN queue :
        i < j => threads[queue[i].id].queueSequence
                 < threads[queue[j].id].queueSequence

\* A save state stores no queues: restore() rebuilds them by sorting the
\* records on queueSequence.  So every operation that moves a thread inside or
\* between queues must leave all queues sorted on it, below the next number.
QueueOrder ==
    /\ \A p \in Priorities : Sorted(readyQueues[p])
    /\ \A w \in WaitKeys : Sorted(waitQueues[w])
    /\ \A t \in DOMAIN threads : threads[t].queueSequence < nextQueueSequence

Alive(t) == t \in DOMAIN threads /\ threads[t].state # "Dormant"

\* The result of a finished wait survives suspension, priority changes and any
\* number of reschedules: it is only cleared by the thread itself while it
\* runs, or dies with the thread.
CompletionKeptStep ==
    \A t \in DOMAIN threads :
        threads[t].completedWait # NoCompletion =>
          \/ ~ Alive(t)'
          \/ threads'[t].completedWait = threads[t].completedWait
          \/ threads[t].state = "Running" /\ threads'[t].state = "Running"
             /\ threads'[t].completedWait = NoCompletion

CompletionKept == [][CompletionKeptStep]_vars

\* A step that takes the CPU from its thread never leaves it idle while another
\* thread is Ready (blocking, finishing, suspending or terminating itself).
CpuRefilledStep ==
    currentThreadId # NoThread /\ currentThreadId' = NoThread
      => \A t \in DOMAIN threads' : threads'[t].state # "Ready"

CpuRefilled == [][CpuRefilledStep]_vars

\* A thread taken from the ready queues is the most urgent Ready one, and of
\* those the one queued longest: nothing left Ready precedes it.
SelectionOrderStep ==
    LET t == currentThreadId' IN
    t # currentThreadId /\ t \in DOMAIN threads =>
      \A u \in DOMAIN threads \ {t} :
        threads'[u].state = "Ready" =>
          \/ threads[t].priority < threads'[u].priority
          \/ /\ threads[t].priority = threads'[u].priority
             /\ threads[t].queueSequence < threads'[u].queueSequence

SelectionOrder == [][SelectionOrderStep]_vars

\* What a save state taken at any scheduling boundary relies on: the state is
\* well typed, validate() accepts it, and its queues are in the order in which
\* restore() sorts them.
Restorable == TypeOK /\ Valid /\ QueueOrder
=============
