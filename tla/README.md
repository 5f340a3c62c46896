# A TLA+ model of the PS2Recomp runtime

PS2Recomp translates a PlayStation 2 executable into C++ ahead of time and runs
the result on a runtime that plays the console: guest threads and kernel calls,
the Emotion Engine's clock and devices, the VU and GS coprocessors, the IOP and
the host's screen, sound and debugger.  The translation is a sequential compiler
and the graphics are arithmetic.  What is hard to get right, and hard to test, is
the runtime's *control*: one thread that executes the guest and is interrupted at
boundaries, host threads that publish work to it, workers that run behind it, and
an event clock everything hangs on.  These modules model that control.

Paths below are relative to `ps2xRuntime/` (`src/lib/` and `include/runtime/`)
unless they say otherwise.  `PROJECT.json` maps each definition to the lines it
stands for.

## 1. Inventory

### The parts of the runtime and how they interact

```
 debugger, UI, IOP host threads          guest code (C++ generated by ps2xRecomp)
        | publish / pause / stop               | checkpoint, syscall, MMIO
        v                                      v
 EeRuntimeExecutor  ---- boundary ---->  EeSchedulerExecutor -> EeThreadScheduler
        | resumes one continuation at a time          ^ wakes, blocks, rotates
        v                                             |
 execution backend (fibers or threads)        kernel syscalls (Sync, Thread, ...)
                                                      ^ callbacks of due events
 EeTimeline / EeEventScheduler <---- timed devices: DMA, VIF1/VU1, counters, VSync
        |
        v  owned command packets                 completions (futures, counters)
 GIF arbiter -> ThreadedGsExecutor -> SPSC ring -> GS worker -> presentation
 VIF1        -> threaded VU1 executor -> SPSC ring -> VU1 worker
```

| part | state it keeps | operations | what makes it hard | correct when |
|---|---|---|---|---|
| **EE thread scheduler** `ee_thread_scheduler.cpp` | a record per guest thread, ready queues per priority, wait queues per object, the current thread | add, start, delete, select, yield, block, sleep, wake, release, suspend, resume, terminate, priority, rotate, consume results | any operation may follow any other; a thread is in one of six states and two queue families; queues are rebuilt from sequence numbers after a load | every thread is queued exactly where its state says; queues are in sequence order; wait results are kept; the CPU is never left idle or given to the wrong thread |
| **EE event scheduler and timeline** `ee_event_scheduler.*`, `ee_timing.h` | one slot per event source, a cached earliest deadline, sequence numbers, the clock | schedule, cancel, reset, snapshot, restore, service due | callbacks schedule, cancel and unwind by exception inside the service loop; tokens outlive events; the clock saturates | the cache is exact; tokens match their event only; a boundary serves what is due in order and always comes back |
| **EE runtime executor** `ee_runtime_executor.cpp` | publication queues, lifecycle flags, wake and control generations | start, publish, publishAt, invokeAtBoundary, notify, pause, resume, step, stop | host threads act between any two steps of the loop; it sleeps on a copied generation | nothing published is lost or reordered; pauses are acknowledged truthfully; a stop ends it |
| **EE boundary executor** `ee_scheduler_executor.cpp` | debugger atomics, the consequence stages of one boundary | process a boundary, apply the debugger's control | atomics read and written in the middle of a boundary | as above; a boundary is bounded |
| **Bounded SPSC queue** `ps2_spsc_queue.h` | slots, two cursors | tryEmplace, tryPop | lock-free, acquire/release, wrap-around | a FIFO of exactly its capacity |
| **Threaded GS executor** `ps2_gs_command_stream.cpp` | ring, payload budget, generation floor, lifecycle flags, processor identity | submit, cancel before a generation, shut down, worker | backpressure on two resources, closing while somebody waits, a worker that fails, two ways of identifying commands | every accepted command resolves, in order; the budget balances; a stop is clean |
| **GS publication journal** `ps2_runtime.cpp:3475-3800` | pending submissions, field counters | submit batch, field marker, reap | limits on lead and on pending work; a result that throws | the lead is bounded and nothing is consumed twice |
| **VSync** `ps2_runtime.cpp` | field parity, edge events, waiters | two edges, CSR writes, waits | two events per field and guest code that acknowledges them late | no field is skipped or doubled |
| **Kernel thread and synchronisation syscalls** `Kernel/Syscalls/Thread.cpp`, `Sync.cpp` | the guest-visible state of each thread, semaphores, event flags | the guest's thread, semaphore and event flag API | a call is a check on the guest's fiber, a closure applied at a boundary and a rest after the next dispatch; other threads and handlers run between; the scheduler, the guest-visible state and the object are changed by separate code in each call | the three describe the same waits; nobody is left waiting for what is there or gone |
| **Other kernel syscalls** `Kernel/Syscalls/` | alarms, handlers, RPC queues | the rest of the guest's kernel API | interrupt variants do not block | causes and requests are answered once |
| **Execution backends** `ee_execution_backend.cpp`, `boost_ee_fiber.cpp` | a continuation per guest thread | create, resume, suspend, cancel, destroy | stacks handed over between host contexts, cancellation by unwinding | one runs at a time, all are unwound at the end |
| **VU1 command stream** `ps2_vu1_command_stream.cpp` | like the GS executor, with memory snapshots | submit, results, reset | results arrive after the EE has gone on | effects are published in order, at their deadline |
| **GS renderer** `ps2_gs_rasterizer.cpp`, `ps2_gs_backend.cpp`, `ps2_gs_vulkan_backend.cpp` | a software queue, a deferred run, a resident device batch, a feedback snapshot in two places | draw, CPU access, flush, present, change mode, shut down | a draw may wait in three places while the CPU and later draws use the same memory; a request to the device may fail anywhere | every draw and read sees the memory of command order |
| **GS memory coherency** `ps2_gs_coherency.cpp` | two generations per page | note a write, complete a copy | a copy in the wrong direction destroys the only newest page | nothing is ever lost |
| **GIF arbiter** `ps2_gif_arbiter.cpp` | a stream and packets per path, future PATH1 reservations | submit, drain, reserve, release | packets split over submissions; reservations outlive resets | path order and priorities |
| **DMA, VIF1, counters, COP0, caches** | channel and parser registers | MMIO writes, event callbacks | stalls and resumptions by other devices | a transfer ends once and raises its interrupt once |
| **Save states** `ps2_runtime_save_state.cpp` and others | a captured image | capture, apply | partial application when a section is bad | what is captured can be restored |
| graphics, VU recompiler, audio, pad, IOP device emulation, telemetry, debugger UI, platform ports | | | data | (numerical; not modelled) |
| **ps2xRecomp, ps2xAnalyzer, ps2xStudio** | | | offline, sequential | (not modelled) |

`PROJECT.json` lists all of them under "components" with what is modelled and why
the rest is not, and under "hazards" the places where this code can go wrong in
ways a test would hardly reach.

### The hazards in short

* *Stale copies.*  The event cache, the executor's wake generation, the ring's
  cursors, device tokens and the control generation are all copies compared later.
* *Orders nobody tests.*  A shutdown between a submission's two admission checks; a
  resume between the count of the last step and its pause; a delayed publication
  falling due while another thread publishes; a thread that runs between the
  application of a kernel call and the end of that call on its caller's fiber.
* *Ends.*  Commands, submissions, publications, pauses and stops each have several
  ways to end, most of them after a failure; somebody waits for every one.
* *Partial failure.*  Guest exceptions unwind through the event service; a command
  that throws fails a whole stream with others behind it.
* *Limits.*  The payload budget, the ring's spare slot, services and consequences per
  boundary, saturating ticks.

## 2. Plan

The order is by importance for the system; each stage has its runs before its proofs.

1. **EeThreadScheduler** - done, proved.
2. **EeEventScheduler** with the timeline, the device tokens and the runtime's
   service boundary - done, proved.
3. **BoundedSpscQueue**, shown to implement **BoundedFifo** - done, proved.
4. **ThreadedGsExecutor**, which uses the FIFO that 3 implements, shown to implement
   **CommandStream** - done, proved.
5. **EeRuntimeExecutor** with the boundary executor, shown to implement
   **BoundaryMailbox** - done, proved.
6. **GifArbiter** with the callers that mask, reserve and reset - done, proved.
7. **GsVramCoherency** and **GsRenderer**, which composes the raster frontend, the router
   and the resident batches with it - done, proved.
8. **EeKernel**: the thread, semaphore and event flag syscalls over EeThreadScheduler -
   done, proved.
9. *Next:* **GsPublicationJournal**, composed with CommandStream: bounded field lead, no deadlock between the journal's lock and backpressure.
10. **ExecutionBackend**: hand-over, cancellation and destruction of continuations,
    the refinement of "Yield" in 5.
11. **VSync and counters** on EeEventScheduler's abstract form.
12. **Vu1CommandStream**: publication at the deadline, the other end of 6's reservations.
13. **Save states**: capture and restore over 1 and 2 (QueueOrder and AlwaysRestorable
    are the halves that exist).

Abstract specifications: BoundedFifo for 3, CommandStream for 4, to be used by 9 and
implemented by 12, and BoundaryMailbox for 5.

Theorems worth proving next: every invariant and every safety property of the runs that
pass is proved for the modules that exist, so the next are those of 9 and 12: that the
journal's lead is bounded over CommandStream, and that the VU1 stream implements
CommandStream as well.

The number of runs is kept small: one safety run per component and one under
fairness where something must end.

## 3. The modules

### EeThreadScheduler (`ee_thread_scheduler.cpp`)

The class has one owner, the executor's thread, so a call is an action.  `threads`
is `m_threads`, `readyQueues[p]` the queue of a priority, `waitQueues[k]` the queue of
a wait object (`<<>>` stands for an erased map entry), `nextQueueSequence` the counter
from which every queue entry takes its number.  A call the code refuses changes
nothing, so refusals are guards.  `TakeNextReady` is the selection loop with the
removal and the record's update, used by every operation that gives the CPU away, and
`CompleteWait` is the common end of a wait, whether satisfied, released or the
partner of a suspension.  Left out: `snapshot`, `restore` and `dispatchOne`.

### EeEventScheduler (`ee_event_scheduler.*`, `ee_timing.h`, `ps2_runtime.cpp`)

`slots`, `next` (the cache) and `nextSequence` are the class; `tokens` is the token each
timed device of `PS2Runtime` keeps, `now` the timeline.  `serviceDue` is split where it
calls the visitor: while a callback runs, any operation may be called, and the callback
may leave by a guest exception (`VisitorThrows`).  `SaveState` and `LoadState` take and
restore the scheduler and the tokens as the save-state code does, discarding the VU
completions.  `watched` is a history variable: some token handed out, and whether its
event is still to come.

### BoundedSpscQueue and BoundedFifo (`ps2_spsc_queue.h`)

Each load, store and slot access is an action.  An acquire load may return an old
cursor: `seenConsumer` and `seenProducer` are what each side last read and a load
moves them forward by any amount up to the stored value.  `BoundedFifo` is the promise:
push at the end below the capacity, pop from the front.

### ThreadedGsExecutor and CommandStream (`ps2_gs_command_stream.*`)

Three actors: the submission that holds `m_submitMutex`, the worker, and the shutdown
that holds `m_shutdownMutex` (others wait for those mutexes and have changed nothing
yet).  Between them every atomic operation interleaves.  `submitting`, `working` and
`closing` are their program counters.  The ring is a sequence, justified by
`RingIsFifo`.  A wait on an epoch is a wait on `spaceMoved`, "it moved since this
submission loaded it", set by every signal.  `processor` is the identity check of
`GsCommandProcessor`: generation, sequence and the last field.  A command is `Draw`,
`Field` or `Reset`; what it does to the GS is outside the model, except that it may throw.

`CommandStream` is what those who submit may rely on: commands are accepted while the
stream is open and carried out one at a time in that order; after a failure or a
cancellation none is begun, and the rest is given up in order, each with the true
reason.  The stream is open until a drain or a cancellation is requested
(`StreamPhase`); it is busy while the worker has judged a command and not resolved it
(`Judged`).  The ring, the budget, the floor and the threads are stutters.

### EeRuntimeExecutor and BoundaryMailbox (`ee_runtime_executor.cpp`, `ee_scheduler_executor.cpp`)

`at` is where `run()` is.  One critical section or one atomic is one action: the loop's
snapshot, taking and applying a publication, the three reads of the debugger's control,
publishing the boundary, waiting, a slice of guest code.  `publish`, `publishAt`, the
clock, `notify` and `requestStop` may happen at any step, and the debugger's calls are
split between their atomics and their critical section.  `due` and `outcome` give, for each
publication in order, when it was or becomes eligible and what became of it; an
`invokeAtBoundary` is a publication somebody waits for.  The scheduler is reduced to
whether a thread is selected.  Reductions: one start of the executor; the debugger makes
one call at a time, while a breakpoint of the guest may come at any moment; the stages
that other subsystems hook into a boundary do not appear.

`BoundaryMailbox` is what a publisher may rely on: a mailbox that opens once and closes
once, delivers a command no earlier than it is due, none while one published before it waits
that is due no later, none after one has failed, and gives up what is left in one step.  It is open while
`m_accepting` is set and closed after a stop (`Phase`).  Taking a publication and moving
a delayed one are stutters, applying one is `Deliver`, `failPending` is `Abandon`.

### EeKernel (`Kernel/Syscalls/Thread.cpp`, `Sync.cpp`)

Composes the syscalls of the dedicated executor with EeThreadScheduler, whose operations
it takes by INSTANCE: every change of the scheduler is one of its actions' bodies.
`infos` is the `ThreadInfo` map (the *mirror*: the `EeThreadGuestState` of each thread and
the completion it has not consumed), `semas` and `flags` are the objects, `queue` the
closures published and not yet applied, `phase` where the executor's loop is, and
`tails[t]` what the fiber of `t` does first when it is dispatched again.

A syscall is modelled in its three parts.  Its checks are the guards of `RawCalls` and
`OwnCalls`; its closure is an operator named after it (`WaitSema`, `TerminateThread`, ...);
the rest after the yield is in `Dispatch`.  `CreateThread` and `InitThread` publish without
yielding, so their closure is applied ahead of the next call's.  When no such closure
waits, nothing runs between a check and its closure, and they are one step.  The
closures that walk over the waiters of an object do it one waiter a step (`Drain`).
Handlers make raw calls while the executor is between the boundary and the dispatch.
The consistency checks that the code makes in its closures are `Exception`: a closure
that would throw ends the executor with the reason in `failed`.

Reductions: ids of threads are not reused (the code comes round to one after 254
creations), handlers make raw calls and do not end the thread they interrupt, the main
thread does not exit, and the legacy path with a host thread per guest thread does not
appear.  `program` is the set of ids the guest program creates, chosen at the start.

### GifArbiter (`ps2_gif_arbiter.cpp`, with its callers)

`arbiter` is the class: a stream per path with its parse position, the packets found
complete, and the places reserved for PATH1.  The actions are the callers in
`ps2_memory.cpp`, the VIF1 interpreter and the runtime: a PATH3 transfer, which waits in
the memory's own queue while PATH3 is masked; DIRECT and DIRECTHL, which VIF1 holds back
until `canAcceptPath2()`; the writers of the two masks; a GIF reset; and the coarse VU1
invocation, which reserves a place when the program starts and publishes or discards
it later.  A word is a quadword; whichever stands where a tag is expected is read as one
(`ParseTag`), and its size is its length in words with the payload.  `Parsed` is the
parse loop, `Reset` the class's reset with the transfers the memory drops beside it,
`Published` what a finished invocation submits.  MSKPATH3 and the reset of VIF1 by FBRST
(`SetVifMask`, `ResetVif1`) let the held packets go when they lift the last mask; a write
of GIF_MODE (`WriteGifMode`) only changes its mask.  After it no mask may be left and the
memory's queue still be full: DIRECT and DIRECTHL go ahead of what is held, and the next
PATH3 transfer flushes it before itself (`ProcessGifPacket`).  The run reaches these
states, with a DIRECTHL packet handed over ahead of held words too.  The fields `arrived`, `lost` and
`handed` of `arbiter` observe which words came (`Received`), what an oversized stream or
a reset drops and what reaches the GS.

Two assumptions stand in `ConstantsAssumption`.  A tag announces no more than a stream
may hold (`Tags`): 32767 loops of 16 registers are 8 MB, the limit is 64 MB, so the branch
for a malformed tag is never taken.  And what an XGKICK gives to PATH1 is whole packets
(`Whole`): `advanceXgkick()` (`src/lib/vu/ps2_vu1_core.cpp:2046-2178`), the only place where
such a packet is made, walks tag by tag with the formula of `gifTagSize()` and submits
when the tag that ends the packet is complete.  PATH2 and PATH3 are cut anywhere.

Two neighbours are left out.  The GIF DMA channel keeps up to 16 quadwords of its own
(`m_gifDma.fifoData`): here a word arrives when the channel submits it, and a wake of the
channel, which a lifted mask may schedule, is a later `ProcessGifPacket`.  The native
upload chains (`ps2_memory.cpp:9947`, `:10142`) hand whole images to the GS beside the arbiter
and ask only for no mask and an empty arbiter, not for an empty `m_path3MaskedFifo`; nothing
but the tests calls them.

### GsVramCoherency (`ps2_gs_coherency.cpp`)

The ledger is one record with the two generations of every page.  A transition is
an operator on it, with what it refuses beside it, so that GsRenderer can use them by
INSTANCE; the actions of the module itself add two images, known by how many
writes they hold, to say what the ledger is for.

### GsRenderer (`ps2_gs_rasterizer.cpp`, `ps2_gs_backend.cpp`, `ps2_gs_vulkan_backend.cpp`)

One thread calls the renderer, but a call is a chain through three layers, each of which
may drain, download, fail or throw and leave the others half done.  So the state is
one record and each function of the code an operator from record to record; `Then`
stops the chain when something threw.  A call names how many device requests will be
served before one fails (`Serves`).  After a call threw only the destructor follows: the
threaded executor stops at the first exception.  A draw is one of ten kinds,
told apart by what the layers ask of it - whether the device can draw it, Hybrid
defers it, the raster workers can queue it, it reads its own frame, its pipeline keeps
order inside a batch.  A page stands for the surface based on it.  `needs` and `feed` are
what a command's memory and snapshot held in command order when it was issued; `misread` and `misfed`
record that it was drawn from anything else.  Left out: pixels and the reasons of
the classification, palettes, counters, verification that finds a difference, an
executor that is unhealthy without having failed a request, the raster workers switched off.
Commands are drawn one after the other; `DrawnFirst` says what the first n of them leave
on a page by counting those that write it, which the lemma `DrawnNext` shows to be the same.
`ConstantsAssumption` asks that a batch and a deferred run hold a command at all.

## 4. The runs

Each property has a mutant, a plausible bug in one mapped definition that TLC shows to
violate it under the run's own configuration; mutants stand before the definition
they change, marked "Mutant".

| run | instance | shows |
|---|---|---|
| `thread_scheduler` | three threads of one generation, two priorities, sleep and one object | `Restorable` (the code's own `validate()` and the rebuilt queues), `CompletionKept`, `CpuRefilled`, `SelectionOrder` |
| `event_scheduler` | two sources, one untracked, one that throws and is discarded by a load; a service limit of two; one load; fairness | `TimelineConsistent` (the cache is exact, every state can be restored), stale tokens are harmless, boundaries drain in order - before, during and after a load; every event is served, cancelled or replaced, unless the runtime stops |
| `spsc_queue` | capacity 3, two values | `ChecksPass` (slot checks never fire), the FIFO is implemented, with its liveness |
| `gs_executor` | ring of 2, budget of 2, a command above it, 4 commands, 3 generations, 2 shutdowns, fairness | budget, order of resolution and publication, field identity, clean stop; CommandStream is implemented; commands, submissions and shutdowns end |
| `gs_executor_floor` | two resets, a raised floor | *violated*: see findings |
| `runtime_executor` | 3 publications, limit 2, 2 control calls, 1 step | `QueuesExact`, `AppliedWhenDue` and `HaltsCleanly`: queued once, applied in order, clean exit, truthful pause; BoundaryMailbox is implemented |
| `runtime_executor_live` | 1 publication, 2 control calls, no steps, fairness | publications, pauses and stops end; a resume is not undone |
| `kernel` | programs of two threads with a semaphore and an event flag, and of three threads; two priorities; one deferred closure; handlers that signal, set and wake | `MirrorValid` (no transition the code would drop), `MirrorAgrees` (scheduler, mirror and objects agree), `NoStrandedWaiter`, `FailsOnlyAsReported` (the code's own checks fail in three ways only: see findings) |
| `gif_arbiter` | streams of 3 words, 4 words in four shapes, a reservation, 3 mask changes or resets, which is enough to lift a mask by GIF_MODE with packets held and set it again | each path's words arrive once and in order; PATH1 keeps its reserved place, DIRECTHL stays behind an IMAGE that was complete and not held back |
| `gs_renderer` | two pages, all ten kinds, batches and runs of 2, 4 calls, 0, 1, 2 or all requests served | `VramExact`, `OneBackendHolds`, `NeverContradicts` |
| `gs_renderer_snapshot` | the same, 3 calls | *violated*: see findings |
| `gs_renderer_fallback` | the same, 3 calls | *violated*: see findings |

**Bounds.**  Capacities are chosen so that the limit is met and passed: sizes above the
budget, one more command than the ring and the worker hold, queues longer than the
limit of a boundary, three threads over two priorities so that an order exists among
equals.  `MaxGeneration`, `MaxSequence`, `MaxTicket`, `MaxPublications`, `MaxControls`,
`MaxTime`, `MaxLoads`, `MaxShutdowns`, `MaxWords`, `MaxInvocations` and `MaxOperations` cap counters that are 64 bits wide or numbers of
calls; they only cut behaviours short.  `MaxCount` is the real limit of two saturating
counters, made small so that it is reached.  In `kernel`, `MaxRequested` bounds the
threads with a suspend or wakeup request at a time, `MaxDeferred` the closures waiting
behind a creation or promotion, `HandlerCalls` the calls that handlers make, and
`Programs` keeps the two kinds of program apart: with two threads both may wait for one
object while a handler signals it, and a third thread is what it takes to run between a
`DeleteThread` and its end.

**Views and symmetry.**  `OrderView` replaces sequence numbers by their rank: every
operation compares them only with each other and takes the next one above all, so states
with equal ranks have the same future, and the properties read their order only.  The
exploration ends by itself far below `MaxQueueSequence`.  Thread ids and generations
are only compared for equality, hence the symmetry; no run with liveness uses symmetry
or a view.

**CHECK_DEADLOCK FALSE** is set where the bounds or a stop legitimately end the
behaviour: an executor that has exited, a GS executor shut down, sequence numbers used up.
The ring runs with deadlock checking.

**Fairness.**  Weak fairness on the steps of a host thread that is running (the
executor's loop, the GS worker, the holder of a mutex): the operating system schedules
them and condition variables and atomic waits wake on their signal.  Guest code is part
of the loop because generated code passes a checkpoint at every back edge.  `Calls` says
that a call that has begun goes on.  Nobody is made to publish, submit, pause or stop.
The ring's consumer keeps popping, which its users do, and its loads are strongly fair
towards the newest value: an atomic store becomes visible in finite time.  For events:
guest code commits cycles, callbacks return or throw, the service loop continues.

## 5. The proofs

*EeThreadScheduler_proofs*, for every set of threads, priorities, wait objects and
generations, assuming only `ConstantsAssumption`:

* `TypeCorrect`: `Spec => []TypeOK`.
* `QueuesInSequenceOrder`: `Spec => []QueueOrder`.
* `ValidAlways`: `Spec => []Valid`.
* `AlwaysRestorable`: `Spec => []Restorable`, the property the run checks, from the two above.
* `CpuAlwaysRefilled`: `Spec => CpuRefilled`.
* `SelectionAlwaysInOrder`: `Spec => SelectionOrder`.
* `CompletionNeverLost`: `Spec => CompletionKept`.

No invariant among them is inductive alone.  The invariant `IInv` says, for each queue, which
set of threads it holds: `QueueHolds(ts, queue, S)` - exactly the threads of S, each once,
with its current generation, in the order of their sequence numbers.  The ready queue
of a priority holds the Ready threads of that priority, the wait queue of an object
those blocked on it, every record is valid and numbered below the next number.  The
lemmas go from one queue (append, remove, take the front) to the two families and then
to "moves" (within a state, to and from Ready, to and from a wait), and each operation is
one or two moves.  `HeldOnce` and `NowhereHeld` turn sets back into the positions that
`validate()` counts.

The three action properties are about the step that gives the CPU away.  Every such
operation first reaches a good state without a running thread; `TakeInOrder` shows what
a selection from such a state does, and `GivenInOrder` that the record changed before
it cannot be the one taken, so the order holds of the state before the whole step too.
`CompletionNeverLost` needs that a blocked or dormant thread has no unread result
(part of `RecordValid`), so that the end of a wait and a start overwrite none.

The last part of the module is for those who call the scheduler: what each operation does
to a record once the choice between Ready and Running is left to it (`Alike`, `Becomes`,
`NothingSeen`), that a reschedule leaves the most urgent thread current (`MostUrgent`),
and that a wait queue is as long as its set of waiters (`WaitersQueued`, `WaitersCounted`).

*EeEventScheduler_proofs*, for every number of sources, clock width and service limit,
any set of throwing, untracked and discarded sources, assuming only
`ConstantsAssumption`: `TimelineAlwaysConsistent` (`Spec => []TimelineConsistent`) and its
parts `TypeCorrect`, `CacheAlwaysEarliest`, `EventsAlwaysConserved`,
`DevicesAlwaysHoldTheirEvent`, `StaleTokensStayStale`, `SnapshotsAlwaysRestorable`,
`BoundaryAlwaysDrains` and `AlwaysServedInOrder` - every safety property the run checks.

The invariant treats the running machine and the last save state alike: both are `Good`,
that is typed, with statistics that balance against the pending slots, tokens that match
and sequence numbers that are distinct and below the counter.  `ScheduleGood` and
`ClearGood` are the two ways an operation changes such books; reset and load have
lemmas of their own (`RanksOrdered`: the sources armed by a reset are numbered apart).
The cache is in the invariant as `next = RecomputeNext(slots)`; `FirstExists` shows, from
the well-foundedness of the naturals, that the scan of a non-empty set of slots finds a
first event.  `WatchedIsOld` adds that a token is not younger than its slot, which is
what makes "never matches again" inductive.  The two action properties read the cache at
the step that ends or continues the service loop.

*BoundedSpscQueue_proofs*, for every capacity and set of values:

* `SlotChecksNeverFail`: `Spec => []SlotsFree`, and `ChecksAlwaysPass`: `Spec => []ChecksPass`.
* `RingIsFifo`: `Spec => IsFifo`, the refinement.

The inductive invariant orders the four cursor values on the ring (what the consumer
saw of the producer lies between the consumer and the producer, and so on,
`CursorsInOrder`), says which slots are occupied (`SlotsMatch`) and what each side
knows in the middle of an operation (`Midway`).  With it, publishing the write cursor is
`Push`, publishing the read cursor is `Pop`, and everything else stutters.

*ThreadedGsExecutor_proofs*, for every ring capacity, payload budget, set of sizes and
number of tickets, generations and shutdowns, assuming only `ConstantsAssumption`:
`BudgetSafe` (`Spec => []BudgetKept`), `StreamSafe` (`[]StreamKept`), `FieldSafe`
(`[]FieldIdentity`), `StopSafe` (`[]StoppedClean`) and `ExecutorIsStream` (`Spec => IsStream`,
the refinement) - every safety property the run checks.

The invariant is about one stream of commands cut in three: resolved, in the worker's
hand, queued.  `TicketsInOrder` says that the tickets run on over the cuts and `Chained`
that generations and sequence numbers do, up to those the next submission will take
(`Newest`, which is one step ahead of the counters between the push and their update).
`Aligned` is the heart: what the processor expects is the item it is given next, or the
floor has moved past what the processor has seen, so that the item is to be skipped; it
is what bounds rejections to skipped resets (`Told`).  `WorkerOK` and `Settled` tie the
worker's place to its verdict, the futures and the completed ticket, `Closed` and
`Signalled` the four flags of the shutdown to what can still be submitted, the latter
so that the worker never finds a signal without an item before the end.  `PayloadBalance`
needs the payload of a sequence to grow and shrink by one item at its ends
(`BytesAppend`, `BytesTail`).

For the refinement every step is either `Aside` - it resolves and judges nothing, and at
most requests a drain or a cancellation - or one of six steps of the stream: the push,
judging an item, resolving it, failing it, and giving up the item in hand or a queued one.  That a step takes the oldest command follows from `TicketsInOrder`
(`HandIsOldest`, `QueueIsOldest`); that the reason given is the true one needs `FailureKnown`:
a command has failed exactly if the worker has met a failure other than that to start.

*EeRuntimeExecutor_proofs*, for every limit of a boundary, any number of publications and
control calls, assuming only `ConstantsAssumption`: `QueuesAlwaysExact`
(`Spec => []QueuesExact`), `AlwaysAppliedWhenDue`, `AlwaysHaltsCleanly` and
`ResumedIsRunning` (`Spec => [](MaxStep = 0 => ResumedMeansRunning)`; with steps it is false) and
`ExecutorIsMailbox` (`Spec => IsMailbox`, the refinement).

The two queues are one `Line`, the order in which what waits will be applied if nothing is
added: promoting delayed publications does not change it, publishing inserts one element
(`EnqueueKeeps`), taking removes the first (`TakeQueues`).  In the line nothing stands
behind what was published later and is due no earlier (`Before`), and `DoneInOrder`
extends that to what has been applied or is in hand, which `AppliedWhenDue` lacks to be
inductive.  `DelayedSorted` makes the publications due at a time the first ones
(`DueFirst`), and `ResumeHeeded` follows a pause that was seen before a resume to the
control generation that stops its acknowledgement.

The refinement needs two facts more: what stands in the queue of the next boundary, or is
in hand, is due (`OnTime`), and a command that threw has ended the loop (`ThrewLast`).  The
order of delivery is `DoneInOrder`, and that `failPending` gives up all that waits and
nothing else is that the two queues hold exactly what is `Queued`.

*EeKernel_proofs*, for every set of threads, semaphores, event flags and wait modes, every
guest program, any number of calls by handlers and any priorities, assuming only
`KernelConstants`: `KernelInvariant` (`Spec => []KInv`), `MirrorAlwaysValid`
(`Spec => []MirrorValid`), `MirrorAlwaysAgrees` (`[]MirrorAgrees`), `NeverStrandsWaiter`
(`[]NoStrandedWaiter`) and `FailsAsReported` (`[]FailsOnlyAsReported`) - every safety
property the run checks.

The module instantiates EeThreadScheduler_proofs, so that every change of the scheduler
keeps the scheduler's own `IInv` (the `Do...` lemmas).  `Match` relates a record, its
`ThreadInfo` and the tail of its fiber; `Counted` the waiters of an object to those the
scheduler has for it, `DrainOK` the loop of a closure to those it has still to look at,
and `NotStranded` says that a waiter is not owed what the object could give.  `Whole`,
these together, is kept by every closure that finds it (a `Close...` lemma each) and by
each step of a loop (`CloseDrain`).  That the loop and the checks of a closure find what
they look for (`NeverWaitDiverged`, `NeverCountsDiverged`, `StatusMatch`) is what leaves
only the three reported exceptions.

None of this is inductive, because `CreateThread`, `InitThread` and what `StartThread` and
`ExitDeleteThread` write ahead of their closure leave the two pictures apart while the
closure waits.  `KInv` says how far: the pictures differ on the threads the queued
closures are about (`Moving`, `Promoted`) and nowhere else, each closure will find what it counts on
(`Owed`), and a caller whose blocking call is queued is still ready or running, with
somebody at least as urgent current if it is not itself (`Overtaken`, by `MostUrgent`
after the reschedule of the closure before).

The attempt corrected two things the small instance had not shown.  `ForeignBlock` had been
described as a more urgent thread being current; it can be an equally urgent one.  When
InitThread promotes the main thread to a priority at which another waits, and a Sleep
follows, the creation queued before the promotion is rescheduled first and gives the CPU
to that other.  And `KernelConstants` had left open that an object of the model has the id
of the main thread, with which the program could have created that thread once more.

*The ledger of GsVramCoherency* (at the end of *GsRenderer_proofs*, which has the lemmas on
page sets it needs), for every set of pages and any number of generations, with no
assumption: `NothingEverLost`: `Vram!Spec => []Vram!NothingLost`.  The invariant is inductive as
it stands: a transition is accepted only when no page of its set would lose its
newest copy, and `Issued` makes a fresh generation larger than any a page has.  Each of
the four transitions has its lemma, which looks at one page inside the set and one
outside it.

*GsRenderer_proofs*, for every set of pages and of the kinds of draw, any limits of a
batch and of a deferred run, any number of calls and any point at which a request fails:
- `RendererInvariant`: `Spec => []RInv`, and from it `VramAlwaysExact` (whoever reads the
  memory sees every draw issued before, and no draw reads anything but the memory of
  command order), `OneBackendAlwaysHolds` (work waits in one backend only) and
  `RendererNeverContradicts` (no check of the code that says "this cannot be" is met).

Why those are not inductive: what a command reads when it is drawn late was decided when
it was queued, batched or deferred, in another layer and under another owner of the page.
`RInv` says what the three layers owe each other between two calls.  `Memory` takes of
each page the copy the ledger does not call older, and `Settled` draws on it what is
queued or batched.  `Agree`: copies of one age are equal.  `QueueOK` and `BatchOK`: what
waits would read the right pages if it were drawn now, from the copy it will be drawn
on.  `Captured`: an image of the frame that the frontend believes to be on the device is
there, or its batch still makes it.  `Whole` adds that drawing the deferred run too gives
the memory of command order.  After a throw only `Shape` is left, and it has to be
enough for the destructor, which may drain and download once more.

The argument goes along one quantity.  Calls that move pages between the copies, or draw
what waits, leave `Settled` as it is (the lemmas with `Goes`); handing a command to
a backend draws it on `Settled` (`Draws`); so a command finds what it needs because
`Settled` showed it when its turn came.  Each function of the code has a lemma of this
form, whether the call threw or not, and the lemmas compose as the functions call each
other.  `RInv` was an invariant of a run with four calls before it was proved.  For the
proof `RenderAll` and `SubmitAllAccelerated` became recursive functions on the
number of commands instead of folds; that such a function exists is proved too.

*GifArbiter_proofs*, for every limit of a stream, any transfers of PATH2 and PATH3 cut
anywhere, any whole packets of PATH1 and any number of words, invocations, mask changes
and resets, assuming only `ConstantsAssumption`:
- `GifArbiterInvariant`: `Spec => []GInv`, and from it `StreamsAlwaysExact` (the packets tile
  the buffers, no path loses, doubles or reorders a word) and `AlwaysHandedInOrder` (PATH1
  keeps its reserved place, DIRECTHL stays behind an IMAGE) - every property the run checks.

`StreamsExact` speaks of the state between two calls, and a call is a chain of
submissions and drains.  So the invariant of the streams, `Exact(a, w)`, is about any arbiter
a the chain passes through and the chunks w still on their way to each path.  A word that
arrives joins w, a submission moves the first chunk of w into its stream, a drain moves
the complete packets to the GS, and each of the three keeps `Exact`; between calls w is
what is held back (`Waiting(fifo)`).  What it adds to the property is the parser: the end of
the last packet, the position of the parser, and that the parser is `Stuck`, so that the
next chunk starts where the last one ended.

`HandedInOrder` needs to know what a queued packet may rely on of those handed over
before: `Behind`, that the end of an IMAGE in the queue is no older than what a PATH2 packet
that has gone may leave behind it - its own arrival, or the oldest packet the memory held
when it was admitted (`since`, from `OldestHeld`) - and `Ahead`, that what has gone from
the other paths is older than the place of the PATH1 words in the buffer.  A packet that is
still held joins the queue later and must be `Behind` by then; that is `Reached`: the held
words, and whatever arrives, are no older than the `since` of any PATH2 word seen so far
(`Path2Words`).  It does not ask whether a mask is set, so that a GIF_MODE write, which leaves
the packets where they are, keeps it.  `GInv` says what holds
between calls: PATH1's buffer is empty (here the whole packets of an XGKICK are needed;
half a packet would be completed by a later program under the wrong place), what
waits in the queue is PATH3 and waits only for a reservation or after the end, and with
a place reserved everything handed over is older than it (`HandedBefore`).

The proof also settles what the sort may rely on.  Its comparator is no strict weak order,
and with arbitrary queues the result would depend on the library.  But PATH2 is only
admitted without a reservation, and then the queue is empty, so a PATH2 packet never
shares the queue with another path (`Apart`).  The comparator is only ever asked about
packets of one path or of PATH1 and PATH3, where it is the order of the paths;
`canAcceptPath2()` asking for IMAGE packets in the queue is a second line of defence.

The library's induction theorems take an operator as a parameter, which the provers
cannot instantiate.  Where a proof needs induction over data (that a sequence of
commands has a total payload, that a set of slots has a first one) it takes the least
counterexample instead, from the well-foundedness of the naturals (`LeastNatural`).

A leaf that needs more than about two seconds names its prover and allows it a minute
(`SMTT(60)`, `ZenonT(60)`), so that the proofs do not depend on the speed of the machine.

**Only model-checked:** all liveness and fairness (outside the prover's reach), and the
three runs that find a disagreement.  No invariant and no safety property of a run that
passes is left without a theorem.

## 6. Findings

`gs_executor_floor` - `cancelPendingBeforeGeneration(g)` skips queued resets below g
without telling the processor, which only accepts a reset to its own generation plus
one.  With two resets queued and the floor raised to the second, the second is turned
down and the executor fails for good, although the header's rule - enqueue the reset
of the new generation before raising the floor - was kept.  With at most one reset
between the processor and the floor the rule is enough.

`gs_renderer_snapshot` - a run of draws that sample their own frame must sample the image
from before its first draw.  The frontend keeps a run together whatever its depth
buffer is; the Vulkan backend starts a new batch and forgets the resident snapshot when
the depth buffer changes, so the next batch captures memory that the run has already
changed.  (Two relatives, seen while modelling: a snapshot taken by the CPU copies all of
memory after fetching only the pages the first draw reads, and a `FeedbackLinear` batch
keeps the snapshot of the run before when the surface changes inside it.)

`gs_renderer_fallback` - when a deferred Hybrid run falls back to software inside a draw
batch and the raster queue holds draws to another frame or depth buffer, queueing its
first draw flushes the router, which finds the run still deferred and resolves it
again, without end.  `gs_renderer` treats such a call as one that does not return.

`kernel` holds with `FailsOnlyAsReported`, which names three ways for the executor to end
or go wrong that the guest's calls can reach:

* *StatusDiverged.*  Nothing tells the mirror that a thread was preempted: it stays RUN
  while the scheduler has the thread READY.  (`publishReady()` exists and nobody calls
  it.)  `TerminateThread` compares the two (`Thread.cpp:312`) and
  throws.
* *ForeignBlock.*  `CreateThread` and `InitThread` publish a closure and go on.  If the
  thread's next call blocks, the boundary applies the first closure, reschedules, and
  applies the blocking closure when another thread, at least as urgent, may be current
  (as urgent, when the creation lost the main thread the CPU and the promotion then
  raised it to that level): `WaitSema` and `WaitEventFlag` throw, and `SleepThread`, which
  does not look, puts the wrong thread to sleep.  The comment at `ee_runtime_executor.cpp:691` has the closure of a syscall applied
  "before considering any alternate READY thread", which is true of the first one only.
* *DeletedLive.*  `DeleteThread` takes the scheduler's record away at the boundary and the
  mirror's when its caller runs again.  A thread that runs in between can start the
  deleted thread, whose record `StartThread` adds anew, and the mirror of a live thread
  is then erased.

The model stops at each of them; everything else it shows is of the behaviours before.

Observations that contradict no document: a resume can be
undone by a boundary that is just counting its last step (the runtime does not use
that operation); more than 1024 publications at one boundary fail the executor; the
GIF arbiter's comparator is no strict weak order, which is harmless only because VIF1 asks
`canAcceptPath2()` first and so a PATH2 packet never meets another path in the queue; PATH3 packets that are held when a write of
GIF_MODE lifts the last mask stay where they are until the next PATH3 transfer or until MSKPATH3 is
set and lifted, and DIRECT and DIRECTHL go ahead of them meanwhile; a GS destroyed while
a deferred run cannot be resolved throws out of its destructor, because only the
backend's own part of the shutdown is guarded.

## 7. Not modelled, and why

Pixel, vector and audio arithmetic, shaders, instruction semantics and generated code
are data transformations without control to check.  The recompiler, the analyzer and the
studio are offline sequential tools.  The debugger's protocol, the HUD and telemetry only
observe.  The interrupt, RPC and alarm syscalls, the execution backends, VSync, DMA, VU1 and save states
have control worth checking and are in the plan.  Most of the repository's lines are
data of this kind, which is why the map covers a small share of them.
