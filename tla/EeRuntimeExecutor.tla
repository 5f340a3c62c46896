-------------------------- MODULE EeRuntimeExecutor --------------------------
(***************************************************************************)
(* The one host thread that runs the guest (ee_runtime_executor.cpp), with  *)
(* the boundary it passes between two slices of guest code and the debugger *)
(* control of that boundary (ee_scheduler_executor.cpp).  Host threads      *)
(* publish commands, pause, resume, step and stop at any moment.            *)
(*                                                                         *)
(* One critical section or one atomic operation is one action.  The thread  *)
(* scheduler is EeThreadScheduler; here only whether it has a thread to run *)
(* matters.  m_wakeGeneration and m_debugControlGeneration are compared     *)
(* only with the loop's last copy of them, so each is whether it has moved  *)
(* since.  An invokeAtBoundary is a publication somebody waits for.         *)
(***************************************************************************)
EXTENDS Integers, SequencesExt

CONSTANTS
    MaxConsequences,    \* kMaximumConsequencesPerBoundary
    MaxStep,            \* largest debugStepBoundaries argument, 0 for no stepping
    MaxPublications,    \* bound on the publications
    MaxControls,        \* bound on the debugger's calls
    MaxTime             \* bound on the steady clock

ASSUME ConstantsAssumption ==
    /\ MaxConsequences \in Nat \ {0}
    /\ {MaxStep, MaxPublications, MaxControls, MaxTime} \subseteq Nat

VARIABLES
    at,                 \* where run() is
    runnable,           \* the scheduler has a selected thread
    prior,              \* priorThreadId has a value
    mustFail,           \* pendingGuestFailure or limitExceeded
    processed,          \* consequencesProcessed of this boundary
    held,               \* the publication being applied, 0 for none
    disposition,        \* of this boundary
    wakeMoved,          \* m_wakeGeneration # the loop's copy
    controlMoved,       \* m_debugControlGeneration # the loop's copy
    accepting,          \* m_acceptingPublications
    running,            \* m_running
    stopRequested,      \* m_stopRequested
    failed,             \* m_failure is set
    pausedAtBoundary,   \* m_pausedAtBoundary
    publications,       \* m_publications
    delayed,            \* m_delayedPublications
    now,                \* the steady clock
    due,                \* when each publication was or becomes eligible
    outcome,            \* what became of each publication
    pauseRequested,     \* m_debugPauseRequested
    stepsRemaining,     \* m_debugStepBoundariesRemaining
    debugStop,          \* m_debugStopRequested
    control,            \* where the debugger's call is
    newPause,           \* its pause is a new request
    lastControl,        \* the last control that took effect (history)
    controls,           \* the debugger's calls so far
    stopping            \* a requestStop() is between its two flags

loopVars == <<at, runnable, prior, mustFail, processed, held, disposition>>
queueVars == <<publications, delayed, due, outcome>>
lifeVars == <<accepting, running, stopRequested, failed, stopping>>
atomicVars == <<pauseRequested, stepsRemaining, debugStop>>
controlVars == <<control, newPause, lastControl, controls>>
vars == <<loopVars, queueVars, lifeVars, atomicVars, controlVars, now,
          wakeMoved, controlMoved, pausedAtBoundary>>

\* run() after the boundary executor's reset; nobody controls an executor that
\* does not run yet.
Init ==
    /\ at = "Setup"
    /\ runnable = FALSE
    /\ prior = FALSE
    /\ mustFail = FALSE
    /\ processed = 0
    /\ held = 0
    /\ disposition = "ResumeGuest"
    /\ wakeMoved = TRUE
    /\ controlMoved = FALSE
    /\ accepting = FALSE
    /\ running = FALSE
    /\ stopRequested = FALSE
    /\ failed = FALSE
    /\ pausedAtBoundary = FALSE
    /\ publications = <<>>
    /\ delayed = <<>>
    /\ now = 0
    /\ due = <<>>
    /\ outcome = <<>>
    /\ pauseRequested = FALSE
    /\ stepsRemaining = 0
    /\ debugStop = FALSE
    /\ control = "None"
    /\ newPause = FALSE
    /\ lastControl = "None"
    /\ controls = 0
    /\ stopping = FALSE

-----------------------------------------------------------------------------
(* The publication queues.                                                  *)

\* How many of the delayed publications, which stand in the order of their
\* deadlines, are due at a time.
DueBy(time) ==
    CHOOSE n \in 0 .. Len(delayed) :
        /\ \A i \in 1 .. n : due[delayed[i]] <= time
        /\ n < Len(delayed) => due[delayed[n + 1]] > time

Ripe == SubSeq(delayed, 1, DueBy(now))

Unripe == SubSeq(delayed, DueBy(now) + 1, Len(delayed))

Eligible == publications \o Ripe

HasQueued == ~ stopRequested /\ Eligible # <<>>

Admitted ==
    /\ accepting /\ ~ stopRequested /\ ~ failed
    /\ Len(outcome) < MaxPublications

Ticket == Len(outcome) + 1

\* Mutant: a publication overtakes the delayed ones that are due.
PublishAhead ==
    /\ Admitted
    /\ publications' = Append(publications, Ticket)
    /\ due' = Append(due, now)
    /\ outcome' = Append(outcome, "Queued")
    /\ wakeMoved' = TRUE
    /\ UNCHANGED <<delayed, loopVars, lifeVars, atomicVars, controlVars, now,
                   controlMoved, pausedAtBoundary>>

Publish ==
    /\ Admitted
    /\ publications' = Append(Eligible, Ticket)
    /\ delayed' = Unripe
    /\ due' = Append(due, now)
    /\ outcome' = Append(outcome, "Queued")
    /\ wakeMoved' = TRUE
    /\ UNCHANGED <<loopVars, lifeVars, atomicVars, controlVars, now,
                   controlMoved, pausedAtBoundary>>

\* Mutant: it is inserted before those of its own deadline.
PublishAtLowerBound(deadline) ==
    /\ Admitted
    /\ delayed' = InsertAt(delayed, DueBy(deadline - 1) + 1, Ticket)
    /\ due' = Append(due, deadline)
    /\ outcome' = Append(outcome, "Queued")
    /\ wakeMoved' = TRUE
    /\ UNCHANGED <<publications, loopVars, lifeVars, atomicVars, controlVars,
                   now, controlMoved, pausedAtBoundary>>

\* A deadline that has passed goes to publish().  The clock is read before the
\* lock is taken, so the deadline may have passed by the time it is inserted.
PublishAt(deadline) ==
    /\ Admitted
    /\ delayed' = InsertAt(delayed, DueBy(deadline) + 1, Ticket)
    /\ due' = Append(due, deadline)
    /\ outcome' = Append(outcome, "Queued")
    /\ wakeMoved' = TRUE
    /\ UNCHANGED <<publications, loopVars, lifeVars, atomicVars, controlVars,
                   now, controlMoved, pausedAtBoundary>>

Tick ==
    /\ now < MaxTime
    /\ now' = now + 1
    /\ UNCHANGED <<loopVars, queueVars, lifeVars, atomicVars, controlVars,
                   wakeMoved, controlMoved, pausedAtBoundary>>

\* Hooks published work without publish().
Notify ==
    /\ wakeMoved' = TRUE
    /\ UNCHANGED <<loopVars, queueVars, lifeVars, atomicVars, controlVars, now,
                   controlMoved, pausedAtBoundary>>

-----------------------------------------------------------------------------
(* Debugger control and stop.                                               *)

CanControl ==
    /\ control = "None"
    /\ running
    /\ controls < MaxControls

DebugRequestPause ==
    /\ CanControl
    /\ stepsRemaining' = 0
    /\ newPause' = ~ pauseRequested
    /\ pauseRequested' = TRUE
    /\ control' = "PauseLock"
    /\ lastControl' = "Pause"
    /\ controls' = controls + 1
    /\ UNCHANGED <<loopVars, queueVars, lifeVars, debugStop, now, wakeMoved,
                   controlMoved, pausedAtBoundary>>

\* Mutant: an idle executor is left asleep.
PauseWithoutWake ==
    /\ control = "PauseLock"
    /\ control' = "None"
    /\ controlMoved' = (controlMoved \/ newPause)
    /\ pausedAtBoundary' = (pausedAtBoundary /\ ~ newPause)
    /\ newPause' = FALSE
    /\ UNCHANGED <<loopVars, queueVars, lifeVars, atomicVars, lastControl,
                   controls, now, wakeMoved>>

PublishPause ==
    /\ control = "PauseLock"
    /\ control' = "None"
    /\ controlMoved' = (controlMoved \/ newPause)
    /\ pausedAtBoundary' = (pausedAtBoundary /\ ~ newPause)
    /\ newPause' = FALSE
    /\ wakeMoved' = TRUE
    /\ UNCHANGED <<loopVars, queueVars, lifeVars, atomicVars, lastControl,
                   controls, now>>

DebugResume ==
    /\ CanControl
    /\ stepsRemaining' = 0
    /\ pauseRequested' = FALSE
    /\ control' = "ResumeLock"
    /\ lastControl' = "Resume"
    /\ controls' = controls + 1
    /\ UNCHANGED <<loopVars, queueVars, lifeVars, debugStop, newPause, now,
                   wakeMoved, controlMoved, pausedAtBoundary>>

DebugStepBoundaries(count) ==
    /\ CanControl
    /\ ~ debugStop
    /\ stepsRemaining' = count
    /\ control' = "StepClear"
    /\ controls' = controls + 1
    /\ UNCHANGED <<loopVars, queueVars, lifeVars, pauseRequested, debugStop,
                   newPause, lastControl, now, wakeMoved, controlMoved,
                   pausedAtBoundary>>

StepClearsPause ==
    /\ control = "StepClear"
    /\ pauseRequested' = FALSE
    /\ control' = "StepLock"
    /\ lastControl' = "Step"
    /\ UNCHANGED <<loopVars, queueVars, lifeVars, stepsRemaining, debugStop,
                   newPause, controls, now, wakeMoved, controlMoved,
                   pausedAtBoundary>>

PublishResume ==
    /\ control \in {"ResumeLock", "StepLock"}
    /\ control' = "None"
    /\ controlMoved' = TRUE
    /\ pausedAtBoundary' = FALSE
    /\ wakeMoved' = TRUE
    /\ UNCHANGED <<loopVars, queueVars, lifeVars, atomicVars, newPause,
                   lastControl, controls, now>>

RequestStop ==
    /\ ~ stopping
    /\ stopRequested' = TRUE
    /\ accepting' = FALSE
    /\ wakeMoved' = TRUE
    /\ stopping' = TRUE
    /\ UNCHANGED <<loopVars, queueVars, running, failed, atomicVars,
                   controlVars, now, controlMoved, pausedAtBoundary>>

DebugRequestStop ==
    /\ stopping
    /\ debugStop' = TRUE
    /\ stopping' = FALSE
    /\ UNCHANGED <<loopVars, queueVars, accepting, running, stopRequested,
                   failed, pauseRequested, stepsRemaining, controlVars, now,
                   wakeMoved, controlMoved, pausedAtBoundary>>

-----------------------------------------------------------------------------
(* run(): setup and loop.                                                   *)

SetupDone(selected) ==
    /\ at = "Setup"
    /\ at' = "Snapshot"
    /\ runnable' = selected
    /\ running' = TRUE
    /\ accepting' = ~ stopRequested
    /\ UNCHANGED <<prior, mustFail, processed, held, disposition, queueVars,
                   stopRequested, failed, stopping, atomicVars, controlVars,
                   now, wakeMoved, controlMoved, pausedAtBoundary>>

SetupThrows ==
    /\ at = "Setup"
    /\ at' = "Failing"
    /\ UNCHANGED <<runnable, prior, mustFail, processed, held, disposition,
                   queueVars, lifeVars, atomicVars, controlVars, now, wakeMoved,
                   controlMoved, pausedAtBoundary>>

SnapshotLoopState ==
    /\ at = "Snapshot"
    /\ wakeMoved' = FALSE
    /\ controlMoved' = FALSE
    /\ at' = IF stopRequested /\ ~ prior THEN "JoinAll" ELSE "Consequences"
    /\ processed' = 0
    /\ UNCHANGED <<runnable, prior, mustFail, held, disposition, queueVars,
                   lifeVars, atomicVars, controlVars, now, pausedAtBoundary>>

TakePublication ==
    /\ at = "Consequences"
    /\ processed < MaxConsequences
    /\ HasQueued
    /\ held' = Head(Eligible)
    /\ publications' = Tail(Eligible)
    /\ delayed' = Unripe
    /\ at' = "Applying"
    /\ UNCHANGED <<runnable, prior, mustFail, processed, disposition, due,
                   outcome, lifeVars, atomicVars, controlVars, now, wakeMoved,
                   controlMoved, pausedAtBoundary>>

\* The command may wake, block or select a thread.
ApplyPublication(selected) ==
    /\ at = "Applying"
    /\ outcome' = [outcome EXCEPT ![held] = "Applied"]
    /\ runnable' = selected
    /\ processed' = processed + 1
    /\ held' = 0
    /\ at' = "Consequences"
    /\ UNCHANGED <<prior, mustFail, disposition, publications, delayed, due,
                   lifeVars, atomicVars, controlVars, now, wakeMoved,
                   controlMoved, pausedAtBoundary>>

PublicationThrows ==
    /\ at = "Applying"
    /\ outcome' = [outcome EXCEPT ![held] = "Threw"]
    /\ held' = 0
    /\ at' = "Failing"
    /\ UNCHANGED <<runnable, prior, mustFail, processed, disposition,
                   publications, delayed, due, lifeVars, atomicVars,
                   controlVars, now, wakeMoved, controlMoved, pausedAtBoundary>>

\* The limit is reached with a consequence left: the executor fails once it has
\* published the boundary.
LimitExceeded ==
    /\ at = "Consequences"
    /\ processed = MaxConsequences
    /\ HasQueued
    /\ mustFail' = TRUE
    /\ at' = "DebugStop"
    /\ UNCHANGED <<runnable, prior, processed, held, disposition, queueVars,
                   lifeVars, atomicVars, controlVars, now, wakeMoved,
                   controlMoved, pausedAtBoundary>>

EndConsequences ==
    /\ at = "Consequences"
    /\ ~ HasQueued
    /\ at' = "DebugStop"
    /\ UNCHANGED <<runnable, prior, mustFail, processed, held, disposition,
                   queueVars, lifeVars, atomicVars, controlVars, now, wakeMoved,
                   controlMoved, pausedAtBoundary>>

-----------------------------------------------------------------------------
(* applyDebugControl.                                                       *)

CheckDebugStop ==
    /\ at = "DebugStop"
    /\ disposition' = IF debugStop THEN "StopRequested" ELSE "ResumeGuest"
    /\ at' = IF debugStop THEN "Publish" ELSE "DebugPause"
    /\ UNCHANGED <<runnable, prior, mustFail, processed, held, queueVars,
                   lifeVars, atomicVars, controlVars, now, wakeMoved,
                   controlMoved, pausedAtBoundary>>

CheckDebugPause ==
    /\ at = "DebugPause"
    /\ disposition' = IF pauseRequested THEN "Paused" ELSE "ResumeGuest"
    /\ at' = IF pauseRequested THEN "Publish" ELSE "Steps"
    /\ UNCHANGED <<runnable, prior, mustFail, processed, held, queueVars,
                   lifeVars, atomicVars, controlVars, now, wakeMoved,
                   controlMoved, pausedAtBoundary>>

CountStep ==
    /\ at = "Steps"
    /\ stepsRemaining' = IF stepsRemaining = 0 THEN 0 ELSE stepsRemaining - 1
    /\ at' = IF stepsRemaining = 1 THEN "LastStep" ELSE "Publish"
    /\ UNCHANGED <<runnable, prior, mustFail, processed, held, disposition,
                   queueVars, lifeVars, pauseRequested, debugStop, controlVars,
                   now, wakeMoved, controlMoved, pausedAtBoundary>>

PauseAfterLastStep ==
    /\ at = "LastStep"
    /\ pauseRequested' = TRUE
    /\ disposition' = "Paused"
    /\ at' = "Publish"
    /\ UNCHANGED <<runnable, prior, mustFail, processed, held, queueVars,
                   lifeVars, stepsRemaining, debugStop, controlVars, now,
                   wakeMoved, controlMoved, pausedAtBoundary>>

-----------------------------------------------------------------------------
\* Where the loop goes from a published boundary.
AfterBoundary ==
    CASE mustFail -> "Failing"
      [] ~ mustFail /\ disposition = "StopRequested" -> "JoinAll"
      [] ~ mustFail /\ disposition = "Paused" -> "Waiting"
      [] ~ mustFail /\ disposition = "ResumeGuest" ->
            IF ~ runnable THEN "Waiting"
            ELSE IF stopRequested THEN "JoinAll" ELSE "Guest"

\* Mutant: a pause is acknowledged and never withdrawn by the loop.
PublishBoundarySticky ==
    /\ at = "Publish"
    /\ pausedAtBoundary' =
         (pausedAtBoundary \/ (~ controlMoved /\ disposition = "Paused"))
    /\ prior' = FALSE
    /\ at' = AfterBoundary
    /\ UNCHANGED <<runnable, mustFail, processed, held, disposition,
                   queueVars, lifeVars, atomicVars, controlVars, now, wakeMoved,
                   controlMoved>>

\* Mutant: a boundary that began before a control call acknowledges it.
PublishBoundaryStale ==
    /\ at = "Publish"
    /\ pausedAtBoundary' = (disposition = "Paused")
    /\ prior' = FALSE
    /\ at' = AfterBoundary
    /\ UNCHANGED <<runnable, mustFail, processed, held, disposition,
                   queueVars, lifeVars, atomicVars, controlVars, now, wakeMoved,
                   controlMoved>>

PublishBoundary ==
    /\ at = "Publish"
    /\ pausedAtBoundary' = (~ controlMoved /\ disposition = "Paused")
    /\ prior' = FALSE
    /\ at' = AfterBoundary
    /\ UNCHANGED <<runnable, mustFail, processed, held, disposition,
                   queueVars, lifeVars, atomicVars, controlVars, now, wakeMoved,
                   controlMoved>>

WaitForWork ==
    /\ at = "Waiting"
    /\ stopRequested \/ wakeMoved \/ Ripe # <<>>
    /\ at' = "Snapshot"
    /\ UNCHANGED <<runnable, prior, mustFail, processed, held, disposition,
                   queueVars, lifeVars, atomicVars, controlVars, now, wakeMoved,
                   controlMoved, pausedAtBoundary>>

-----------------------------------------------------------------------------
(* A slice of guest code, and how it ends.                                  *)

Yield(selected) ==
    /\ at = "Guest"
    /\ runnable' = selected
    /\ prior' = TRUE
    /\ at' = "Snapshot"
    /\ UNCHANGED <<mustFail, processed, held, disposition, queueVars,
                   lifeVars, atomicVars, controlVars, now, wakeMoved,
                   controlMoved, pausedAtBoundary>>

GuestThrows ==
    /\ at = "Guest"
    /\ mustFail' = TRUE
    /\ prior' = TRUE
    /\ at' = "Snapshot"
    /\ UNCHANGED <<runnable, processed, held, disposition, queueVars, lifeVars,
                   atomicVars, controlVars, now, wakeMoved, controlMoved,
                   pausedAtBoundary>>

GuestStops ==
    /\ at = "Guest"
    /\ stopRequested' = TRUE
    /\ accepting' = FALSE
    /\ debugStop' = TRUE
    /\ wakeMoved' = TRUE
    /\ prior' = TRUE
    /\ at' = "Snapshot"
    /\ UNCHANGED <<runnable, mustFail, processed, held, disposition,
                   queueVars, running, failed, stopping, pauseRequested,
                   stepsRemaining, controlVars, now, controlMoved,
                   pausedAtBoundary>>

\* A breakpoint: the guest's own thread requests the pause and runs on to its
\* next checkpoint.
Breakpoint ==
    /\ at = "Guest"
    /\ controls < MaxControls
    /\ controls' = controls + 1
    /\ stepsRemaining' = 0
    /\ pauseRequested' = TRUE
    /\ controlMoved' = (controlMoved \/ ~ pauseRequested)
    /\ pausedAtBoundary' = (pausedAtBoundary /\ pauseRequested)
    /\ wakeMoved' = TRUE
    /\ lastControl' = "Pause"
    /\ UNCHANGED <<loopVars, queueVars, lifeVars, debugStop, control, newPause,
                   now>>

-----------------------------------------------------------------------------
(* run(): the ways out.                                                     *)

\* Mutant: publications are still accepted while a failed executor drains.
FailAccepting ==
    /\ at = "Failing"
    /\ failed' = TRUE
    /\ stopRequested' = TRUE
    /\ at' = "JoinAll"
    /\ UNCHANGED <<runnable, prior, mustFail, processed, held, disposition,
                   queueVars, accepting, running, stopping, atomicVars,
                   controlVars, now, wakeMoved, controlMoved,
                   pausedAtBoundary>>

Fail ==
    /\ at = "Failing"
    /\ failed' = TRUE
    /\ stopRequested' = TRUE
    /\ accepting' = FALSE
    /\ at' = "JoinAll"
    /\ UNCHANGED <<runnable, prior, mustFail, processed, held, disposition,
                   queueVars, running, stopping, atomicVars, controlVars, now,
                   wakeMoved, controlMoved, pausedAtBoundary>>

JoinAll(throws) ==
    /\ at = "JoinAll"
    /\ failed' = (failed \/ throws)
    /\ at' = "FailPending"
    /\ UNCHANGED <<runnable, prior, mustFail, processed, held, disposition,
                   queueVars, accepting, running, stopRequested, stopping,
                   atomicVars, controlVars, now, wakeMoved, controlMoved,
                   pausedAtBoundary>>

FailPendingPublications ==
    /\ at = "FailPending"
    /\ outcome' = [t \in DOMAIN outcome |->
                     IF t \in Range(publications \o delayed)
                     THEN "Abandoned" ELSE outcome[t]]
    /\ publications' = <<>>
    /\ delayed' = <<>>
    /\ at' = "Finish"
    /\ UNCHANGED <<runnable, prior, mustFail, processed, held, disposition,
                   due, lifeVars, atomicVars, controlVars, now, wakeMoved,
                   controlMoved, pausedAtBoundary>>

Finish ==
    /\ at = "Finish"
    /\ running' = FALSE
    /\ accepting' = FALSE
    /\ pausedAtBoundary' = FALSE
    /\ at' = "Exited"
    /\ UNCHANGED <<runnable, prior, mustFail, processed, held, disposition,
                   queueVars, stopRequested, failed, stopping, atomicVars,
                   controlVars, now, wakeMoved, controlMoved>>

-----------------------------------------------------------------------------
Loop ==
    \/ \E selected \in BOOLEAN : SetupDone(selected)
    \/ SetupThrows
    \/ SnapshotLoopState
    \/ TakePublication \/ PublicationThrows
    \/ \E selected \in BOOLEAN : ApplyPublication(selected)
    \/ LimitExceeded \/ EndConsequences
    \/ CheckDebugStop \/ CheckDebugPause \/ CountStep \/ PauseAfterLastStep
    \/ PublishBoundary \/ WaitForWork
    \/ \E selected \in BOOLEAN : Yield(selected)
    \/ GuestThrows \/ GuestStops
    \/ Fail
    \/ \E throws \in BOOLEAN : JoinAll(throws)
    \/ FailPendingPublications \/ Finish

\* The rest of a call that has begun.
Calls ==
    \/ PublishPause \/ StepClearsPause \/ PublishResume \/ DebugRequestStop

Next ==
    \/ Loop
    \/ Calls
    \/ Publish
    \/ \E deadline \in 1 .. MaxTime : PublishAt(deadline)
    \/ Tick
    \/ Notify
    \/ DebugRequestPause \/ DebugResume \/ Breakpoint
    \/ \E count \in 1 .. MaxStep : DebugStepBoundaries(count)
    \/ RequestStop

Spec == Init /\ [][Next]_vars

\* The executor's thread runs, guest code reaches a checkpoint, calls that
\* have begun end and time passes.
FairSpec ==
    /\ Spec
    /\ WF_vars(Loop)
    /\ WF_vars(Calls)
    /\ WF_vars(Tick)

-----------------------------------------------------------------------------
Outcomes == {"Queued", "Applied", "Threw", "Abandoned"}

Tickets == 1 .. MaxPublications

TypeOK ==
    /\ at \in {"Setup", "Snapshot", "Consequences", "Applying", "DebugStop",
               "DebugPause", "Steps", "LastStep", "Publish", "Waiting",
               "Guest", "Failing", "JoinAll", "FailPending", "Finish",
               "Exited"}
    /\ runnable \in BOOLEAN /\ prior \in BOOLEAN /\ mustFail \in BOOLEAN
    /\ wakeMoved \in BOOLEAN /\ controlMoved \in BOOLEAN
    /\ accepting \in BOOLEAN /\ running \in BOOLEAN
    /\ stopRequested \in BOOLEAN /\ failed \in BOOLEAN /\ stopping \in BOOLEAN
    /\ pausedAtBoundary \in BOOLEAN /\ pauseRequested \in BOOLEAN
    /\ debugStop \in BOOLEAN /\ newPause \in BOOLEAN
    /\ processed \in 0 .. MaxConsequences
    /\ held \in {0} \cup Tickets
    /\ disposition \in {"ResumeGuest", "Paused", "StopRequested"}
    /\ publications \in Seq(Tickets)
    /\ delayed \in Seq(Tickets)
    /\ now \in 0 .. MaxTime
    /\ due \in Seq(0 .. MaxTime) /\ Len(due) = Len(outcome)
    /\ outcome \in Seq(Outcomes) /\ Len(outcome) <= MaxPublications
    /\ stepsRemaining \in 0 .. MaxStep
    /\ control \in {"None", "PauseLock", "ResumeLock", "StepClear", "StepLock"}
    /\ lastControl \in {"None", "Pause", "Resume", "Step"}
    /\ controls \in 0 .. MaxControls

\* A publication is in exactly one place until it is resolved, and the delayed
\* ones stand in the order of their deadlines.
QueuedOnce ==
    /\ {t \in DOMAIN outcome : outcome[t] = "Queued"}
         = Range(publications) \cup Range(delayed) \cup ({held} \ {0})
    /\ IsInjective(publications \o delayed)
    /\ held \notin Range(publications \o delayed)
    /\ \A i, j \in DOMAIN delayed : i < j =>
          \/ due[delayed[i]] < due[delayed[j]]
          \/ /\ due[delayed[i]] = due[delayed[j]]
             /\ delayed[i] < delayed[j]

\* A command that was published first and is due no later is applied first,
\* whichever of publish() and the executor moved a delayed one to the queue.
AppliedWhenDue ==
    \A t, u \in DOMAIN outcome :
        t < u /\ due[t] <= due[u] /\ outcome[u] \in {"Applied", "Threw"}
            => outcome[t] \in {"Applied", "Threw"}

\* "A pause request alone is not an acknowledgement while a continuation is
\* still running" (ee_runtime_executor.h): no guest code runs while the
\* executor reports that it is paused, also when it has been woken by a resume
\* that has not yet withdrawn the acknowledgement.
PausedMeansHalted ==
    pausedAtBoundary => at # "Guest"

\* Once debugResume() has returned, debugPaused() is false until the next
\* pause.  With debugStepBoundaries() this does not hold: a boundary that has
\* counted the last step sets the pause after the resume has cleared it.
ResumedMeansRunning ==
    lastControl = "Resume" /\ control = "None" => ~ pausedAtBoundary

\* The executor leaves no publication behind and takes no more.
ExitsClean ==
    at = "Exited" =>
        /\ ~ accepting
        /\ \A t \in DOMAIN outcome : outcome[t] # "Queued"

\* The state is well typed and every publication is in exactly one place.
QueuesExact == TypeOK /\ QueuedOnce

\* A pause acknowledges a halted guest, and an executor that ends leaves nothing
\* behind.
HaltsCleanly == PausedMeansHalted /\ ExitsClean

\* Every publication is applied or abandoned, so every invokeAtBoundary()
\* returns.
EveryPublicationEnds ==
    \A t \in Tickets :
        t \in DOMAIN outcome
            ~> t \in DOMAIN outcome /\ outcome[t] # "Queued"

\* A pause that is not overtaken by another control is acknowledged.
PauseIsAcknowledged ==
    lastControl = "Pause" /\ control = "None"
        ~> \/ pausedAtBoundary
           \/ lastControl # "Pause" \/ control # "None"
           \/ stopRequested

\* "idle and paused executors stop immediately" (ee_runtime_executor.h): the
\* executor ends after a stop, whatever it is doing.
StopEnds == stopRequested ~> at = "Exited"

\* Publications, pauses and stops are all answered.
RequestsAnswered == EveryPublicationEnds /\ PauseIsAcknowledged /\ StopEnds

Phase ==
    IF accepting THEN "Open" ELSE IF stopRequested THEN "Closed" ELSE "New"

Mailbox == INSTANCE BoundaryMailbox WITH phase <- Phase

\* Whatever thread moves a publication and whichever way the executor ends, its
\* publishers see the mailbox: nothing is applied early, out of order or after a
\* failure, nothing is accepted outside the open phase, and what is left is
\* given up at once.
IsMailbox == Mailbox!Spec
=============================================================================
