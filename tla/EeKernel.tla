------------------------------ MODULE EeKernel ------------------------------
(***************************************************************************)
(* The guest kernel's threads, semaphores and event flags (Thread.cpp and   *)
(* Sync.cpp under Kernel/Syscalls) on the dedicated EE executor, composed   *)
(* with the thread scheduler.                                               *)
(*                                                                         *)
(* The executor owns the scheduler; a guest thread runs on a fiber of its   *)
(* own.  A syscall checks the guest-visible state (infos, the ThreadInfo    *)
(* map, called the mirror below), publishes a closure and yields.  The      *)
(* executor applies the closure at the next boundary to the scheduler, the  *)
(* mirror and the object together, reschedules, runs interrupt handlers     *)
(* (whose raw calls are applied at once) and dispatches the selected fiber, *)
(* which finishes its syscall from where it yielded.  So a syscall is a     *)
(* check, an application and a tail, and other threads and handlers run     *)
(* between the last two.  CreateThread and InitThread publish and go on;     *)
(* unless such a call is pending, the check and the application are one     *)
(* step, because no code runs between them.                                 *)
(*                                                                         *)
(* Boundaries of the model: a thread id is not reused (the code reuses one  *)
(* after 254 creations), so every record has generation 1; handlers issue   *)
(* raw calls only and do not end the interrupted thread; the main thread    *)
(* does not exit and is not started again; only it calls InitThread, when   *)
(* that changes its priority.                                               *)
(***************************************************************************)
EXTENDS Integers, FiniteSets, SequencesExt, TLC

CONSTANTS
    ThreadIds,         \* ids of guest threads
    MainThread,        \* id 1, the thread that boots the guest program
    NoThread,          \* no current thread, no interrupted thread
    LowestPriority,    \* kEeThreadPriorityCount - 1
    Semas,             \* semaphore ids
    MaxSema,           \* maxCount of every semaphore
    Flags,             \* event flag ids
    EventBits,         \* bits of an event flag
    Modes,             \* wait modes a thread uses, a subset of WaitModes
    HandlerCalls,      \* names of the raw calls the handlers make
    SleepKey, NoWait,  \* see EeThreadScheduler
    MaxCount,          \* bound on the suspend and wakeup counts
    MaxRequested,      \* bound on the threads that have such a request
    Programs,          \* sets of ids that a guest program creates
    MaxQueueSequence,  \* see EeThreadScheduler
    MaxDeferred        \* bound on the closures published without yielding

\* WEF_OR, and WEF_CLEAR or WEF_CLEAR_ALL.
WaitModes == [any : BOOLEAN, clear : {"None", "Bits", "All"}]

ASSUME KernelConstants ==
    /\ MainThread \in ThreadIds
    /\ NoThread \notin ThreadIds
    /\ SleepKey \notin Semas \cup Flags
    /\ Semas \cap Flags = {}
    /\ NoWait \notin {SleepKey} \cup Semas \cup Flags
    /\ {MaxCount, MaxQueueSequence} \subseteq Nat \ {0}
    /\ Modes \subseteq WaitModes
    /\ Programs \subseteq SUBSET ((ThreadIds \cup Semas \cup Flags) \ {MainThread})
    /\ MaxSema \in Nat \ {0}
    /\ MaxDeferred \in Nat
    /\ LowestPriority \in Nat \ {0}

VARIABLES
    threads, readyQueues, waitQueues, currentThreadId, nextQueueSequence,
    infos,      \* state.threads: id -> the guest-visible thread state
    program,    \* the ids this guest program creates; never changes
    fresh,      \* its thread ids no CreateThread has returned yet
    tails,      \* what a suspended fiber does first when it is dispatched
    semas,      \* SemaInfo of every id
    flags,      \* EventFlagInfo of every id
    queue,      \* m_publications: closures of the thread that ran last
    phase,      \* where the executor loop is
    policy,     \* reschedule policy of the closure applied last
    prior,      \* the thread whose dispatch ended at this boundary
    draining,   \* a closure's loop over the waiters of its object
    failed      \* the exception that ended the executor

schedulerVars ==
    <<threads, readyQueues, waitQueues, currentThreadId, nextQueueSequence>>
ids == <<program, fresh>>
objects == <<semas, flags>>
loop == <<phase, policy, prior>>
vars == <<schedulerVars, infos, ids, tails, objects, queue, loop, draining,
          failed>>

Keys == {SleepKey} \cup Semas \cup Flags

WaitCompletions == {"Satisfied", "Released", "ObjectDeleted"}

Sched == INSTANCE EeThreadScheduler
           WITH Generations <- {1}, WaitKeys <- Keys,
                Completions <- WaitCompletions

Handle(t) == [id |-> t, generation |-> 1]

Known(t) == t \in DOMAIN threads

-----------------------------------------------------------------------------
(* EeThreadGuestState and the wait completion of a ThreadInfo.  linked is   *)
(* membership of the queue of wait, which is NoWait without a wait reason;  *)
(* started and waitCompletionPending follow from these.                     *)

GuestStates ==
    [status : {"Run", "Ready", "Wait", "Suspend", "WaitSuspend", "Dormant"},
     wait : Keys \cup {NoWait}, linked : BOOLEAN,
     wakeups : 0 .. MaxCount, suspends : 0 .. MaxCount,
     priority : 0 .. LowestPriority,
     pending : WaitCompletions \cup {"None"}]

DormantGuest(p) ==
    [status |-> "Dormant", wait |-> NoWait, linked |-> FALSE, wakeups |-> 0,
     suspends |-> 0, priority |-> p, pending |-> "None"]

RunningGuest(p) == [DormantGuest(p) EXCEPT !.status = "Run"]

\* block().
BlockedGuest(g, key) ==
    [g EXCEPT !.status = IF g.suspends > 0 THEN "WaitSuspend" ELSE "Wait",
              !.wait = key, !.linked = TRUE, !.pending = "None"]

IsWaitingOn(g, key) ==
    g.status \in {"Wait", "WaitSuspend"} /\ g.wait = key /\ g.linked

\* Mutant: a suspended waiter becomes READY.
ReadiedGuest(g, completion, retain) ==
    [g EXCEPT !.status = "Ready", !.linked = FALSE,
              !.wait = IF retain THEN @ ELSE NoWait, !.pending = completion]

\* releaseWait(); DeleteSema retains the wait reason until the thread runs.
ReleasedGuest(g, completion, retain) ==
    [g EXCEPT !.status = IF g.suspends > 0 THEN "Suspend" ELSE "Ready",
              !.linked = FALSE, !.wait = IF retain THEN @ ELSE NoWait,
              !.pending = completion]

\* finishWait() and the reset of the pending completion.
FinishedGuest(g, key) ==
    LET published == /\ ~ g.linked
                     /\ g.status \in {"Ready", "Suspend"}
                     /\ g.wait \in {key, NoWait}
        taken == [g EXCEPT !.pending = "None"]
    IN  IF published \/ (g.linked /\ g.wait = key)
        THEN [taken EXCEPT
                !.status = IF g.suspends > 0 THEN "Suspend" ELSE "Ready",
                !.linked = FALSE, !.wait = NoWait]
        ELSE taken

SuspendedGuest(g) ==
    [g EXCEPT !.suspends = @ + 1,
              !.status = IF g.linked THEN "WaitSuspend" ELSE "Suspend"]

ResumedGuest(g) ==
    [g EXCEPT !.suspends = @ - 1,
              !.status = IF g.suspends > 1 THEN @
                         ELSE IF g.linked THEN "Wait" ELSE "Ready"]

\* publishRunningAtGuestBoundary().
DispatchedGuest(g) ==
    IF g.status = "Ready" /\ g.suspends = 0
    THEN [g EXCEPT !.status = "Run", !.wait = NoWait]
    ELSE g

\* isValid(): commit() drops a transition to a state that is not.
GuestValid(g) ==
    /\ g.linked => g.wait # NoWait
    /\ g.linked <=> g.status \in {"Wait", "WaitSuspend"}
    /\ g.status \in {"Run", "Dormant"} => g.wait = NoWait
    /\ (g.suspends > 0) <=> (g.status \in {"Suspend", "WaitSuspend"})
    /\ g.status = "Dormant" => g.wakeups = 0

-----------------------------------------------------------------------------
(* What a fiber does first when it is dispatched.                           *)

NoTail == [kind |-> "None", on |-> NoWait]
BlockedTail(key) == [kind |-> "Blocked", on |-> key]
RunTail == [kind |-> "Run", on |-> NoWait]          \* not suspended, publish
SuspendTail == [kind |-> "Suspend", on |-> NoWait]  \* publish RUN
DeleteTail(t) == [kind |-> "Delete", on |-> t]      \* erase the ThreadInfo

Tails ==
    [kind : {"None", "Run", "Suspend"}, on : {NoWait}]
      \cup [kind : {"Blocked"}, on : Keys]
      \cup [kind : {"Delete"}, on : ThreadIds]

NoDrain == [call |-> "None", on |-> NoWait, rest |-> <<>>]

DeadSema == [live |-> FALSE, count |-> 0, waiters |-> 0]
NewFlag(bits, multi) ==
    [live |-> TRUE, used |-> TRUE, bits |-> bits, multi |-> multi,
     requests |-> [t \in {} |-> NoThread]]
DeadFlag(used) == [NewFlag({}, FALSE) EXCEPT !.live = FALSE, !.used = used]

LiveSemas == {s \in Semas : semas[s].live}
LiveFlags == {f \in Flags : flags[f].live}

Init ==
    /\ threads = [t \in {MainThread} |-> Sched!FreshRecord(1, 0, "Running")]
    /\ readyQueues = [p \in 0 .. LowestPriority |-> <<>>]
    /\ waitQueues = [w \in Keys |-> <<>>]
    /\ currentThreadId = MainThread
    /\ nextQueueSequence = 1
    /\ infos = [t \in {MainThread} |-> RunningGuest(0)]
    /\ program \in Programs
    /\ fresh = program \cap ThreadIds
    /\ tails = [t \in ThreadIds |-> NoTail]
    /\ semas = [s \in Semas |-> DeadSema]
    /\ flags = [f \in Flags |-> DeadFlag(FALSE)]
    /\ queue = <<>>
    /\ phase = "Guest"
    /\ policy = "None"
    /\ prior = MainThread
    /\ draining = NoDrain
    /\ failed = "None"

-----------------------------------------------------------------------------
(* Closures.  The one at the head of the queue was published by prior; a    *)
(* raw call of a handler is applied at once, with prior as its caller.      *)

AnyMode == [any |-> FALSE, clear |-> "None"]

Call(name, on) ==
    [call |-> name, on |-> on, level |-> 0, bits |-> {}, mode |-> AnyMode,
     policy |-> "None"]

Blocked(t) == threads[t].state \in {"Waiting", "WaitSuspended"}

Active(t) == Known(t) /\ threads[t].state # "Dormant"

\* The mirror and the object of a thread that the scheduler has on key.
WaiterLost(t, key) ==
    \/ t \notin DOMAIN infos
    \/ ~ IsWaitingOn(infos[t], key)
    \/ key \in Semas /\ semas[key].waiters = 0
    \/ key \in Flags /\ t \notin DOMAIN flags[key].requests

\* schedulerThreadGuestStatus().
StatusOf ==
    [Running |-> "Run", Ready |-> "Ready", Waiting |-> "Wait",
     Suspended |-> "Suspend", WaitSuspended |-> "WaitSuspend",
     Dormant |-> "Dormant"]

LinksAgree(t) ==
    /\ infos[t].suspends = threads[t].suspendCount
    /\ infos[t].linked <=> Blocked(t)

\* eventFlagSatisfied() and applyEventFlagClear().
Satisfied(bits, request) ==
    IF request.mode.any THEN request.bits \cap bits # {}
                        ELSE request.bits \subseteq bits

Cleared(bits, request) ==
    CASE request.mode.clear = "All" -> {}
      [] request.mode.clear = "Bits" -> bits \ request.bits
      [] OTHER -> bits

WaitOrder(key) == [i \in DOMAIN waitQueues[key] |-> waitQueues[key][i].id]

\* The waiter of an object that no longer waits there.
DropWaiter(t, key) ==
    /\ semas' = IF key \in Semas THEN [semas EXCEPT ![key].waiters = @ - 1]
                                 ELSE semas
    /\ flags' = IF key \in Flags
                THEN [flags EXCEPT ![key].requests =
                        [u \in DOMAIN @ \ {t} |-> @[u]]]
                ELSE flags

\* releaseWaitThread() of the scheduler with its mirror.
Resolve(t, completion, retain) ==
    /\ Sched!ReleaseWaitThread(Handle(t), completion, retain)
    /\ infos' = [infos EXCEPT ![t] = ReleasedGuest(@, completion, retain)]
    /\ UNCHANGED tails

\* blockCurrentThread() with its mirror.
BlockOn(key) ==
    /\ Sched!BlockCurrentThread(key)
    /\ infos' = [infos EXCEPT ![prior] = BlockedGuest(@, key)]
    /\ tails' = [tails EXCEPT ![prior] = BlockedTail(key)]

\* The wait ends at once; the fiber goes on without giving up the CPU.
GoOn(g) ==
    /\ infos' = [infos EXCEPT ![prior] = g]
    /\ tails' = [tails EXCEPT ![prior] = RunTail]

StartDrain(name, key) ==
    draining' = IF waitQueues[key] = <<>> THEN NoDrain
                ELSE [call |-> name, on |-> key, rest |-> WaitOrder(key)]

Idle == UNCHANGED <<schedulerVars, infos, tails>>

-----------------------------------------------------------------------------
(* Semaphores and event flags.                                              *)

SignalSema(s) ==
    /\ UNCHANGED <<tails, flags, draining>>
    /\ IF ~ semas[s].live \/ semas[s].count >= MaxSema
       THEN UNCHANGED <<schedulerVars, infos, semas>>
       ELSE IF waitQueues[s] = <<>>
       THEN /\ semas' = [semas EXCEPT ![s].count = @ + 1]
            /\ UNCHANGED <<schedulerVars, infos>>
       ELSE LET t == Head(waitQueues[s]).id IN
            /\ Sched!WakeOne(s)
            /\ infos' = [infos EXCEPT ![t] = ReleasedGuest(@, "Satisfied", FALSE)]
            /\ semas' = [semas EXCEPT ![s].waiters = @ - 1]

WaitSema(s) ==
    /\ UNCHANGED <<flags, draining>>
    /\ IF semas[s].live /\ semas[s].count = 0
       THEN /\ BlockOn(s)
            /\ semas' = [semas EXCEPT ![s].waiters = @ + 1]
       ELSE /\ GoOn([infos[prior] EXCEPT !.pending = "None"])
            /\ semas' = [semas EXCEPT ![s].count = IF @ > 0 THEN @ - 1 ELSE @]
            /\ UNCHANGED schedulerVars

DeleteSema(s) ==
    /\ semas' = [semas EXCEPT ![s].live = FALSE, ![s].count = 0]
    /\ StartDrain("DeleteSema", s)
    /\ UNCHANGED flags
    /\ Idle

\* Mutant: the waiters are not looked at.
SetEventFlagOnly(f, bits) ==
    /\ flags' = [flags EXCEPT ![f].bits = @ \cup bits]
    /\ UNCHANGED <<semas, draining>>
    /\ Idle

SetEventFlag(f, bits) ==
    /\ flags' = [flags EXCEPT ![f].bits = @ \cup bits]
    /\ StartDrain("SetEventFlag", f)
    /\ UNCHANGED semas
    /\ Idle

WaitEventFlag(f, bits, mode) ==
    LET request == [bits |-> bits, mode |-> mode]
        occupied == ~ flags[f].multi /\ DOMAIN flags[f].requests # {}
        satisfied == Satisfied(flags[f].bits, request)
    IN  /\ UNCHANGED <<semas, draining>>
        /\ IF occupied \/ satisfied
           THEN /\ GoOn([infos[prior] EXCEPT !.pending = "None"])
                /\ flags' = IF occupied THEN flags
                            ELSE [flags EXCEPT ![f].bits = Cleared(@, request)]
                /\ UNCHANGED schedulerVars
           ELSE /\ BlockOn(f)
                /\ flags' = [flags EXCEPT ![f].requests =
                                [t \in DOMAIN @ \cup {prior} |->
                                   IF t = prior THEN request ELSE @[t]]]

DeleteEventFlag(f) ==
    /\ flags' = [flags EXCEPT ![f].live = FALSE, ![f].bits = {}]
    /\ StartDrain("DeleteEventFlag", f)
    /\ UNCHANGED semas
    /\ Idle

-----------------------------------------------------------------------------
(* Threads.                                                                 *)

CreateThread(t, level) ==
    /\ Sched!AddDormantThread(t, 1, level)
    /\ UNCHANGED <<infos, tails, objects, draining>>

\* changeThreadPriority(); a thread that has the priority already stays put.
MovePriority(t, level) ==
    IF threads[t].priority = level
    THEN UNCHANGED schedulerVars
    ELSE Sched!ChangeThreadPriority(Handle(t), level)

InitThread(t) ==
    /\ MovePriority(t, 1)
    /\ UNCHANGED <<infos, tails, objects, draining>>

StartThread(t) ==
    /\ Sched!StartThread(Handle(t))
    /\ UNCHANGED <<infos, tails, objects, draining>>

DeleteThread(t) ==
    /\ UNCHANGED <<infos, objects, draining>>
    /\ IF Known(t) /\ ~ Active(t)
       THEN /\ Sched!DeleteThread(Handle(t))
            /\ tails' = [tails EXCEPT ![prior] = DeleteTail(t)]
       ELSE UNCHANGED <<schedulerVars, tails>>

ExitDeleteThread(t) ==
    /\ Sched!DeleteThread(Handle(t))
    /\ UNCHANGED <<infos, tails, objects, draining>>

\* Mutant: the object keeps its waiter.
TerminateThreadOnly(t) ==
    /\ UNCHANGED <<objects, draining>>
    /\ IF Active(t)
       THEN /\ Sched!TerminateThread(Handle(t))
            /\ infos' = [infos EXCEPT ![t] = DormantGuest(@.priority)]
            /\ tails' = [tails EXCEPT ![t] = NoTail]
       ELSE UNCHANGED <<schedulerVars, infos, tails>>

\* applyEeExecutorThreadTermination().
TerminateThread(t) ==
    /\ UNCHANGED draining
    /\ IF Active(t)
       THEN /\ Sched!TerminateThread(Handle(t))
            /\ infos' = [infos EXCEPT ![t] = DormantGuest(@.priority)]
            /\ tails' = [tails EXCEPT ![t] = NoTail]
            /\ DropWaiter(t, threads[t].wait)
       ELSE UNCHANGED <<schedulerVars, infos, tails, objects>>

\* A thread that suspends itself publishes RUN once it is dispatched again.
SuspendThread(t) ==
    /\ tails' = IF t = prior /\ phase # "Interrupts"
                THEN [tails EXCEPT ![t] = SuspendTail] ELSE tails
    /\ UNCHANGED <<objects, draining>>
    /\ IF Active(t)
       THEN /\ Sched!SuspendThread(Handle(t))
            /\ infos' = [infos EXCEPT ![t] = SuspendedGuest(@)]
       ELSE UNCHANGED <<schedulerVars, infos>>

ResumeThread(t) ==
    /\ UNCHANGED <<tails, objects, draining>>
    /\ IF Active(t) /\ threads[t].suspendCount # 0
       THEN /\ Sched!ResumeThread(Handle(t))
            /\ infos' = [infos EXCEPT ![t] = ResumedGuest(@)]
       ELSE UNCHANGED <<schedulerVars, infos>>

SleepThread ==
    /\ UNCHANGED <<objects, draining>>
    /\ IF threads[prior].wakeupCount # 0
       THEN /\ Sched!ConsumeWakeup
            /\ GoOn([infos[prior] EXCEPT !.wakeups = @ - 1, !.status = "Run",
                                         !.wait = NoWait])
       ELSE BlockOn(SleepKey)

\* applyEeExecutorThreadWake().
WakeupThread(t) ==
    /\ UNCHANGED <<tails, objects, draining>>
    /\ IF ~ Active(t) \/ (threads[t].wait # SleepKey
                            /\ threads[t].wakeupCount = MaxCount)
       THEN UNCHANGED <<schedulerVars, infos>>
       ELSE /\ Sched!WakeThread(Handle(t))
            /\ IF threads[t].wait = SleepKey
               THEN infos' = [infos EXCEPT ![t] =
                                ReleasedGuest(@, "Satisfied", FALSE)]
               ELSE infos' = [infos EXCEPT ![t].wakeups = @ + 1]

CancelWakeupThread(t) ==
    /\ UNCHANGED <<tails, objects, draining>>
    /\ IF Known(t)
       THEN /\ Sched!CancelWakeups(Handle(t))
            /\ infos' = [infos EXCEPT ![t].wakeups = 0]
       ELSE UNCHANGED <<schedulerVars, infos>>

ChangeThreadPriority(t, level) ==
    /\ UNCHANGED <<tails, objects, draining>>
    /\ IF Active(t)
       THEN /\ MovePriority(t, level)
            /\ infos' = [infos EXCEPT ![t].priority = level]
       ELSE UNCHANGED <<schedulerVars, infos>>

\* Rotation of a level other than the caller's own.
RotateThreadReadyQueue(level) ==
    LET own == prior # NoThread /\ Known(prior)
                 /\ threads[prior].priority = level
    IN  /\ UNCHANGED <<infos, tails, objects, draining>>
        /\ IF own \/ Len(readyQueues[level]) < 2
           THEN UNCHANGED schedulerVars
           ELSE Sched!RotateReadyQueue(level)

\* Mutant: the object keeps its waiter.
ReleaseWaitOnly(t) ==
    /\ UNCHANGED <<objects, draining>>
    /\ IF Known(t) /\ Blocked(t) THEN Resolve(t, "Released", FALSE)
       ELSE UNCHANGED <<schedulerVars, infos, tails>>

ReleaseWaitThread(t) ==
    /\ UNCHANGED draining
    /\ IF Known(t) /\ Blocked(t)
       THEN /\ Resolve(t, "Released", FALSE)
            /\ DropWaiter(t, threads[t].wait)
       ELSE UNCHANGED <<schedulerVars, infos, tails, objects>>

-----------------------------------------------------------------------------
(* The exception a closure throws, or "None".                               *)

\* A blocking call whose caller is not the scheduler's current thread.
\* WaitSema and WaitEventFlag throw; SleepThread makes no such check, puts the
\* wrong thread to sleep and goes on, and the model ends there.
ForeignBlock(c) ==
    /\ currentThreadId # prior
    /\ \/ c.call = "SleepThread"
       \/ c.call = "WaitSema" /\ semas[c.on].live /\ semas[c.on].count = 0
       \/ /\ c.call = "WaitEventFlag"
          /\ flags[c.on].multi \/ DOMAIN flags[c.on].requests = {}
          /\ ~ Satisfied(flags[c.on].bits, [bits |-> c.bits, mode |-> c.mode])

\* TerminateThread compares the two states of its target.
StatusDiverged(c) ==
    /\ c.call = "TerminateThread"
    /\ Active(c.on)
    /\ \/ infos[c.on].status # StatusOf[threads[c.on].state]
       \/ infos[c.on].suspends # threads[c.on].suspendCount

\* A thread to be taken from its wait, or an object without waiters, differs
\* between the scheduler, the mirror and the object.
WaitDiverged(c) ==
    LET t == c.on IN
    \/ /\ c.call = "TerminateThread"
       /\ Active(t) /\ Blocked(t) /\ WaiterLost(t, threads[t].wait)
    \/ /\ c.call = "ReleaseWaitThread"
       /\ Known(t) /\ Blocked(t) /\ WaiterLost(t, infos[t].wait)
    \/ /\ c.call = "WakeupThread"
       /\ Active(t) /\ threads[t].wait = SleepKey /\ WaiterLost(t, SleepKey)
    \/ /\ c.call = "SignalSema"
       /\ semas[t].live /\ semas[t].count < MaxSema
       /\ IF waitQueues[t] = <<>> THEN semas[t].waiters # 0
          ELSE WaiterLost(Head(waitQueues[t]).id, t)
    \/ /\ c.call = "DeleteSema"
       /\ waitQueues[t] = <<>> /\ semas[t].waiters # 0
    \/ /\ c.call = "DeleteEventFlag"
       /\ waitQueues[t] = <<>> /\ DOMAIN flags[t].requests # {}

\* Counts, links or priorities that a closure compares differ.
CountsDiverged(c) ==
    LET t == c.on IN
    \/ /\ c.call \in {"SuspendThread", "ResumeThread"}
       /\ Active(t) /\ ~ LinksAgree(t)
    \/ /\ c.call = "CancelWakeupThread"
       /\ Known(t) /\ infos[t].wakeups # threads[t].wakeupCount
    \/ /\ c.call = "SleepThread"
       /\ threads[prior].wakeupCount # 0 /\ infos[prior].wakeups = 0
    \/ /\ c.call = "ChangeThreadPriority"
       /\ Active(t) /\ infos[t].priority # threads[t].priority

\* A record a closure needs is missing, or is there when it must not be.
RecordLost(c) ==
    \/ c.call = "CreateThread" /\ Known(c.on)
    \/ c.call \in {"InitThread", "ExitDeleteThread"} /\ ~ Known(c.on)
    \/ c.call \in {"StartThread", "ExitDeleteThread"} /\ Active(c.on)
    \/ /\ c.call \in {"SleepThread", "WaitSema", "WaitEventFlag"}
       /\ ~ Known(prior)

Exception(c) ==
    IF RecordLost(c) THEN "RecordLost"
    ELSE IF ForeignBlock(c) THEN "ForeignBlock"
    ELSE IF StatusDiverged(c) THEN "StatusDiverged"
    ELSE IF WaitDiverged(c) THEN "WaitDiverged"
    ELSE IF CountsDiverged(c) THEN "CountsDiverged"
    ELSE "None"

Throw(reason) ==
    /\ failed' = reason
    /\ phase' = "Stopped"
    /\ draining' = NoDrain
    /\ UNCHANGED <<schedulerVars, infos, ids, tails, objects, policy, prior>>

Apply(c) ==
    \/ c.call = "SignalSema" /\ SignalSema(c.on)
    \/ c.call = "WaitSema" /\ WaitSema(c.on)
    \/ c.call = "DeleteSema" /\ DeleteSema(c.on)
    \/ c.call = "SetEventFlag" /\ SetEventFlag(c.on, c.bits)
    \/ c.call = "WaitEventFlag" /\ WaitEventFlag(c.on, c.bits, c.mode)
    \/ c.call = "DeleteEventFlag" /\ DeleteEventFlag(c.on)
    \/ c.call = "CreateThread" /\ CreateThread(c.on, c.level)
    \/ c.call = "InitThread" /\ InitThread(c.on)
    \/ c.call = "StartThread" /\ StartThread(c.on)
    \/ c.call = "DeleteThread" /\ DeleteThread(c.on)
    \/ c.call = "ExitDeleteThread" /\ ExitDeleteThread(c.on)
    \/ c.call = "TerminateThread" /\ TerminateThread(c.on)
    \/ c.call = "SuspendThread" /\ SuspendThread(c.on)
    \/ c.call = "ResumeThread" /\ ResumeThread(c.on)
    \/ c.call = "SleepThread" /\ SleepThread
    \/ c.call = "WakeupThread" /\ WakeupThread(c.on)
    \/ c.call = "CancelWakeupThread" /\ CancelWakeupThread(c.on)
    \/ c.call = "ChangeThreadPriority" /\ ChangeThreadPriority(c.on, c.level)
    \/ c.call = "RotateThreadReadyQueue" /\ RotateThreadReadyQueue(c.level)
    \/ c.call = "ReleaseWaitThread" /\ ReleaseWaitThread(c.on)

Take(c) ==
    IF Exception(c) # "None" THEN Throw(Exception(c))
    ELSE /\ Apply(c)
         /\ policy' = c.policy
         /\ phase' = "Reschedule"
         /\ UNCHANGED <<ids, prior, failed>>

-----------------------------------------------------------------------------
(* The checks a syscall makes before it publishes.                          *)

Awake == {t \in DOMAIN infos : infos[t].status # "Dormant"}

\* The bound on suspend and wakeup requests.
MayRequest(t) ==
    LET requested == {u \in DOMAIN infos : infos[u].suspends > 0
                                           \/ infos[u].wakeups > 0}
    IN  Cardinality(requested \cup {t}) <= MaxRequested

\* The calls a thread or a handler can issue raw; a thread issues them as
\* ordinary calls too.
RawCalls(me) ==
    {Call(name, s) : name \in {"SignalSema", "DeleteSema"}, s \in LiveSemas}
    \cup {[Call("SetEventFlag", f) EXCEPT !.bits = bits] :
            f \in LiveFlags, bits \in (SUBSET EventBits) \ {{}}}
    \cup {Call("TerminateThread", t) : t \in Awake \ {me}}
    \cup {Call("WakeupThread", t) :
            t \in {u \in Awake \ {me} : \/ IsWaitingOn(infos[u], SleepKey)
                                        \/ MayRequest(u)}}
    \cup {Call("ReleaseWaitThread", t) :
            t \in {u \in Awake \ {me} :
                    /\ infos[u].linked
                    /\ infos[u].wait \in {SleepKey} \cup LiveSemas
                                                 \cup LiveFlags}}
    \cup {Call("SuspendThread", t) :
            t \in {u \in Awake : infos[u].suspends < MaxCount
                                /\ MayRequest(u)}}
    \cup {Call("ResumeThread", t) :
            t \in {u \in Awake : infos[u].suspends > 0}}
    \cup {Call("CancelWakeupThread", t) : t \in DOMAIN infos}
    \cup {[Call("ChangeThreadPriority", t) EXCEPT !.level = level] :
            t \in Awake, level \in 0 .. LowestPriority}
    \cup {[Call("RotateThreadReadyQueue", NoThread) EXCEPT !.level = level] :
            level \in 0 .. LowestPriority}

\* A wait of an event flag names its bits and its mode.
WaitFlagCall(f, bits, mode) ==
    [Call("WaitEventFlag", f) EXCEPT !.bits = bits, !.mode = mode]

\* The other calls of a thread that publish and yield.
OwnCalls ==
    {Call("SleepThread", SleepKey)}
    \cup {Call("WaitSema", s) : s \in LiveSemas}
    \cup {WaitFlagCall(f, bits, mode) :
            f \in LiveFlags, bits \in (SUBSET EventBits) \ {{}},
            mode \in Modes}
    \cup {Call("DeleteEventFlag", f) : f \in LiveFlags}
    \cup {Call("DeleteThread", t) : t \in DOMAIN infos \ Awake}

\* Only an ordinary call may take the CPU from its caller; a resume asks for
\* it when the thread it resumes becomes runnable.
Policies(c) ==
    CASE c.call \in {"SleepThread", "WaitSema", "WaitEventFlag",
                     "DeleteThread", "CancelWakeupThread",
                     "RotateThreadReadyQueue"} -> {"None"}
      [] c.call = "DeleteEventFlag" -> {"HigherPriorityOnly"}
      [] c.call = "ResumeThread" /\ (infos[c.on].suspends # 1
                                     \/ infos[c.on].status # "Suspend") ->
            {"None"}
      [] OTHER -> {"None", "HigherPriorityOnly"}

Publish(c, p) == queue' = Append(queue, [c EXCEPT !.policy = p])

\* The guest's thread runs; a syscall publishes its closure and yields.  If
\* nothing was published before, nothing runs until the closure is applied.
Syscall ==
    /\ phase = "Guest"
    /\ \E c \in RawCalls(currentThreadId) \cup OwnCalls : \E p \in Policies(c) :
          IF queue = <<>>
          THEN Take([c EXCEPT !.policy = p]) /\ UNCHANGED queue
          ELSE /\ Publish(c, p)
               /\ phase' = "Apply"
               /\ UNCHANGED <<schedulerVars, infos, ids, tails, objects,
                              policy, prior, draining, failed>>

\* StartThread publishes the start in the mirror at once.
SyscallStartThread ==
    /\ phase = "Guest"
    /\ \E t \in DOMAIN infos \ (Awake \cup {MainThread}) :
          /\ infos' = [infos EXCEPT ![t] =
                  [DormantGuest(@.priority) EXCEPT !.status = "Ready"]]
          /\ tails' = [tails EXCEPT ![t] = RunTail]
          /\ Publish(Call("StartThread", t), "HigherPriorityOnly")
    /\ phase' = "Apply"
    /\ UNCHANGED <<schedulerVars, ids, objects, policy, prior, draining,
                   failed>>

\* CreateThread and InitThread publish and go on.
SyscallCreateThread ==
    /\ phase = "Guest"
    /\ Len(queue) < MaxDeferred
    /\ \E t \in fresh, level \in 0 .. LowestPriority :
          /\ infos' = [u \in DOMAIN infos \cup {t} |->
                          IF u = t THEN DormantGuest(level) ELSE infos[u]]
          /\ fresh' = fresh \ {t}
          /\ UNCHANGED program
          /\ Publish([Call("CreateThread", t) EXCEPT !.level = level],
                     "HigherPriorityOnly")
    /\ UNCHANGED <<schedulerVars, tails, objects, loop, draining, failed>>

SyscallInitThread ==
    /\ phase = "Guest"
    /\ Len(queue) < MaxDeferred
    /\ currentThreadId = MainThread
    /\ infos[MainThread].priority # 1
    /\ infos' = [infos EXCEPT ![MainThread].priority = 1]
    /\ Publish(Call("InitThread", MainThread), "HigherPriorityOnly")
    /\ UNCHANGED <<schedulerVars, ids, tails, objects, loop, draining,
                   failed>>

\* The boundary that follows when the fiber ended or merely stopped.
Boundary(reschedule) ==
    /\ policy' = reschedule
    /\ phase' = IF queue' = <<>> THEN "Reschedule" ELSE "Apply"
    /\ UNCHANGED prior

\* ExitThread, and TerminateThread of oneself.
SyscallExitThread ==
    /\ phase = "Guest"
    /\ currentThreadId # MainThread
    /\ Sched!FinishCurrentThread
    /\ infos' = [infos EXCEPT ![currentThreadId] = DormantGuest(@.priority)]
    /\ UNCHANGED <<ids, tails, objects, queue, draining, failed>>
    /\ Boundary("HigherPriorityOnly")

SyscallExitDeleteThread ==
    /\ phase = "Guest"
    /\ currentThreadId # MainThread
    /\ Sched!FinishCurrentThread
    /\ infos' = [t \in DOMAIN infos \ {currentThreadId} |-> infos[t]]
    /\ Publish(Call("ExitDeleteThread", currentThreadId), "None")
    /\ UNCHANGED <<ids, tails, objects, draining, failed>>
    /\ Boundary("HigherPriorityOnly")

\* An ordinary rotation is the boundary's owner-local transition: it is made
\* before any closure and followed by a reschedule of its own.
SyscallRotate ==
    /\ phase = "Guest"
    /\ \E level \in 0 .. LowestPriority : RotateThreadReadyQueue(level)
    /\ phase' = "Reschedule"
    /\ policy' = "EqualOrHigherPriority"
    /\ UNCHANGED <<ids, queue, prior, failed>>

\* The fiber reaches a checkpoint of its time slice.
Checkpoint ==
    /\ phase = "Guest"
    /\ UNCHANGED <<schedulerVars, infos, ids, tails, objects, queue,
                   draining, failed>>
    /\ Boundary("HigherPriorityOnly")

\* The step loop of every thread but the main one publishes RUN.
PublishRunning ==
    /\ phase = "Guest"
    /\ currentThreadId # MainThread
    /\ infos[currentThreadId].status = "Ready"
    /\ infos' = [infos EXCEPT ![currentThreadId] = DispatchedGuest(@)]
    /\ UNCHANGED <<schedulerVars, ids, tails, objects, queue, loop, draining,
                   failed>>

\* The calls that act on an object and never publish.
CreateObject ==
    /\ phase = "Guest"
    /\ \/ /\ \E s \in (Semas \cap program) \ LiveSemas, count \in 0 .. MaxSema :
               semas' = [semas EXCEPT ![s] = [live |-> TRUE, count |-> count,
                                              waiters |-> 0]]
          /\ UNCHANGED flags
       \/ /\ \E f \in Flags \cap program, bits \in SUBSET EventBits, multi \in BOOLEAN :
               /\ ~ flags[f].used
               /\ flags' = [flags EXCEPT ![f] = NewFlag(bits, multi)]
          /\ UNCHANGED semas
    /\ UNCHANGED <<schedulerVars, infos, ids, tails, queue, loop, draining,
                   failed>>

PollSema(s) ==
    /\ semas[s].count > 0
    /\ semas' = [semas EXCEPT ![s].count = @ - 1]
    /\ UNCHANGED flags

PollEventFlag(f, bits, mode) ==
    LET request == [bits |-> bits, mode |-> mode] IN
    /\ flags[f].multi \/ DOMAIN flags[f].requests = {}
    /\ Satisfied(flags[f].bits, request)
    /\ flags' = [flags EXCEPT ![f].bits = Cleared(@, request)]
    /\ UNCHANGED semas

ClearEventFlag(f, bits) ==
    /\ flags' = [flags EXCEPT ![f].bits = @ \cap bits]
    /\ UNCHANGED semas

UseObject ==
    /\ phase \in {"Guest", "Interrupts"}
    /\ draining = NoDrain
    /\ \/ \E s \in LiveSemas : PollSema(s)
       \/ \E f \in LiveFlags, bits \in (SUBSET EventBits) \ {{}},
            mode \in Modes : PollEventFlag(f, bits, mode)
       \/ \E f \in LiveFlags, bits \in SUBSET EventBits :
            ClearEventFlag(f, bits)
    /\ UNCHANGED <<schedulerVars, infos, ids, tails, queue, loop, draining,
                   failed>>

-----------------------------------------------------------------------------
(* The boundary.                                                            *)

\* StartThread adds the missing record before it starts it.
ApplyPublication ==
    LET c == Head(queue) IN
    /\ phase = "Apply"
    /\ IF c.call = "StartThread" /\ ~ Known(c.on)
       THEN /\ CreateThread(c.on, infos[c.on].priority)
            /\ UNCHANGED <<ids, queue, loop, failed>>
       ELSE /\ Take(c)
            /\ queue' = Tail(queue)

\* A closure's loop over the waiters its object had, one waiter a step.
Drain ==
    LET t == Head(draining.rest)
        key == draining.on
        set == draining.call = "SetEventFlag"
        done == Len(draining.rest) = 1
        waiters == IF key \in Semas THEN semas[key].waiters
                   ELSE Cardinality(DOMAIN flags[key].requests)
        lost == \/ WaiterLost(t, key)
                \/ done /\ ~ set /\ waiters # 1
    IN  /\ draining # NoDrain
        /\ UNCHANGED queue
        /\ IF lost THEN Throw("WaitDiverged")
           ELSE
           /\ draining' = IF done THEN NoDrain
                          ELSE [draining EXCEPT !.rest = Tail(@)]
           /\ IF ~ set
              THEN /\ Resolve(t, "ObjectDeleted", key \in Semas)
                   /\ DropWaiter(t, key)
              ELSE LET request == flags[key].requests[t] IN
                   IF ~ Satisfied(flags[key].bits, request)
                   THEN UNCHANGED <<schedulerVars, infos, tails, objects>>
                   ELSE /\ Resolve(t, "Satisfied", FALSE)
                        /\ flags' = [flags EXCEPT
                              ![key].bits = Cleared(@, request),
                              ![key].requests =
                                 [u \in DOMAIN @ \ {t} |-> @[u]]]
                        /\ UNCHANGED semas
           /\ UNCHANGED <<ids, loop, failed>>

Reschedule ==
    /\ phase = "Reschedule"
    /\ draining = NoDrain
    /\ IF currentThreadId = NoThread THEN Sched!SelectNextThread
       ELSE IF Sched!ShouldPreempt(policy) THEN Sched!Preempt(policy)
       ELSE UNCHANGED schedulerVars
    /\ policy' = "None"
    /\ phase' = IF queue = <<>> THEN "Interrupts" ELSE "Apply"
    /\ UNCHANGED <<infos, ids, tails, objects, queue, prior, draining,
                   failed>>

\* A raw call of an interrupt or callback handler.
Interrupt ==
    /\ phase = "Interrupts"
    /\ draining = NoDrain
    /\ UNCHANGED queue
    /\ \E c \in {d \in RawCalls(prior) : d.call \in HandlerCalls} :
          IF Exception(c) # "None" THEN Throw(Exception(c))
          ELSE Apply(c) /\ UNCHANGED <<ids, loop, failed>>

\* After the pass a thread is selected if there is none; without a ready
\* thread the executor waits for the next interrupt.
Select ==
    /\ phase = "Interrupts"
    /\ draining = NoDrain
    /\ currentThreadId = NoThread
    /\ Sched!SelectNextThread
    /\ IF currentThreadId' = NoThread
       THEN prior' = NoThread /\ UNCHANGED phase
       ELSE phase' = "Dispatch" /\ UNCHANGED prior
    /\ UNCHANGED <<infos, ids, tails, objects, queue, policy, draining,
                   failed>>

\* consumeWaitCompletion(), then the rest of the fiber's syscall.
Dispatch ==
    LET me == currentThreadId
        tail == tails[me]
        g == infos[me]
        finished == IF tail.kind = "Blocked" THEN FinishedGuest(g, tail.on)
                    ELSE g
        unfinished == /\ tail.kind = "Blocked" /\ tail.on \in Flags
                      /\ g.pending = "None"
        suspended == /\ tail.kind \in {"Blocked", "Run"}
                     /\ g.suspends > 0 \/ g.status = "WaitSuspend"
    IN  /\ \/ phase = "Dispatch"
           \/ /\ phase = "Interrupts"
              /\ draining = NoDrain
              /\ currentThreadId # NoThread
        /\ UNCHANGED queue
        /\ IF unfinished THEN Throw("NoCompletion")
           ELSE IF suspended THEN Throw("ResumedSuspended")
           ELSE IF tail.kind = "Delete" /\ Known(tail.on)
           THEN Throw("DeletedLive")
           ELSE
           /\ IF threads[me].completedWait # Sched!NoCompletion
              THEN Sched!ConsumeWaitCompletion(Handle(me))
              ELSE UNCHANGED schedulerVars
           /\ infos' = CASE tail.kind = "None" -> infos
                        [] tail.kind = "Delete" ->
                             [t \in DOMAIN infos \ {tail.on} |-> infos[t]]
                        [] OTHER -> [infos EXCEPT ![me] =
                                       DispatchedGuest(finished)]
           /\ tails' = [tails EXCEPT ![me] = NoTail]
           /\ phase' = "Guest"
           /\ prior' = me
           /\ UNCHANGED <<ids, objects, policy, draining, failed>>

Stopped ==
    /\ phase = "Stopped"
    /\ UNCHANGED vars

Next ==
    \/ Syscall \/ SyscallStartThread \/ SyscallCreateThread
    \/ SyscallInitThread \/ SyscallExitThread \/ SyscallExitDeleteThread
    \/ SyscallRotate \/ Checkpoint \/ PublishRunning
    \/ CreateObject \/ UseObject
    \/ ApplyPublication \/ Reschedule \/ Interrupt \/ Select
    \/ Dispatch \/ Drain \/ Stopped

Spec == Init /\ [][Next]_vars

-----------------------------------------------------------------------------
(* What the two pictures of a thread have to agree on.                      *)

InFlight(t, calls) ==
    \E i \in DOMAIN queue : queue[i].call \in calls /\ queue[i].on = t

\* Every transition leaves a state that isValid() accepts: commit() would drop
\* it, and the mirror would miss a step of the scheduler.
MirrorValid ==
    /\ infos \in [DOMAIN infos -> GuestStates]
    /\ \A t \in DOMAIN infos : GuestValid(infos[t])
    /\ tails \in [ThreadIds -> Tails]

\* A wait and its completion: the scheduler's result is the one the fiber will
\* find in its ThreadInfo, and it is about the object the fiber waits for.
WaitAgrees(t) ==
    LET r == threads[t] IN
    /\ infos[t].linked <=> Blocked(t)
    /\ Blocked(t) => infos[t].wait = r.wait
    /\ Blocked(t) => tails[t] = BlockedTail(r.wait)
    /\ tails[t].kind = "Blocked" /\ ~ Blocked(t) =>
         /\ infos[t].pending # "None"
         /\ r.completedWait = [wait |-> tails[t].on,
                               completion |-> infos[t].pending]

CountsAgree(t) ==
    /\ infos[t].suspends = threads[t].suspendCount
    /\ infos[t].wakeups = threads[t].wakeupCount
    /\ (infos[t].status = "Dormant") <=> (threads[t].state = "Dormant")
    /\ \/ infos[t].priority = threads[t].priority
       \/ InFlight(t, {"InitThread"})

\* The scheduler, the guest-visible state, the semaphores and the event flags
\* are kept by separate code in every syscall.  At every step they describe
\* the same waits, counts and priorities, except for a thread whose creation,
\* start or deletion is still published; whether an active thread is RUN or
\* READY is the one thing they may disagree on.
MirrorAgrees ==
    /\ \A t \in DOMAIN threads :
          \/ InFlight(t, {"StartThread", "ExitDeleteThread"})
          \/ t \in DOMAIN infos /\ WaitAgrees(t) /\ CountsAgree(t)
    /\ \A t \in DOMAIN infos \ DOMAIN threads :
          infos[t].status = "Dormant" \/ InFlight(t, {"StartThread"})
    /\ \A s \in Semas : semas[s].waiters = Len(waitQueues[s])
    /\ \A f \in Flags :
          DOMAIN flags[f].requests = ToSet(WaitOrder(f))

\* No thread is left waiting for what it could have: a semaphore with a free
\* count or a deleted object has no waiter, and every waiter of an event flag
\* waits for bits that are not set.
NoStrandedWaiter ==
    draining = NoDrain =>
      /\ \A s \in Semas : waitQueues[s] # <<>> =>
            semas[s].live /\ semas[s].count = 0
      /\ \A f \in Flags : \A t \in DOMAIN flags[f].requests :
            flags[f].live /\ ~ Satisfied(flags[f].bits, flags[f].requests[t])

\* The executor's own consistency checks hold, with three exceptions.
\* TerminateThread finds a READY or RUNNING target whose mirror shows the
\* other of the two; a blocking call is applied while another thread, as
\* urgent as its caller or more so, is current, after a creation or promotion
\* published before it; and the thread of a DeleteThread is started anew before
\* its record is erased.
FailsOnlyAsReported ==
    /\ failed \in {"None", "StatusDiverged", "ForeignBlock", "DeletedLive"}
    /\ failed = "StatusDiverged" =>
          \E t \in DOMAIN threads :
             \/ threads[t].state = "Ready" /\ infos[t].status = "Run"
             \/ threads[t].state = "Running" /\ infos[t].status = "Ready"
    /\ failed = "ForeignBlock" =>
          /\ currentThreadId \in DOMAIN threads \ {prior}
          /\ threads[currentThreadId].priority <= threads[prior].priority
=============================================================================
