-------------------------- MODULE ThreadedGsExecutor --------------------------
(***************************************************************************)
(* The threaded GS executor of ps2_gs_command_stream.cpp with the command   *)
(* processor its worker drives.  Submissions hold m_submitMutex from their  *)
(* first check to their work signal, also while they wait for space, so at  *)
(* most one is under way; shutdowns hold m_shutdownMutex until they have    *)
(* joined the worker, so the same is true of them.  Every other step is an  *)
(* atomic operation and interleaves.                                        *)
(*                                                                         *)
(* The command queue is the FIFO that BoundedSpscQueue is shown to be.  A   *)
(* read of a cursor or counter that returns an old value is the same read   *)
(* made earlier: nothing else separates the two.  m_spaceEpoch only serves  *)
(* to tell whether it moved since the submission last loaded it.  The       *)
(* number of a field marker, which the EE counts upwards, is its ticket.    *)
(***************************************************************************)
EXTENDS Integers, SequencesExt

CONSTANTS
    Capacity,           \* m_options.queueCapacity
    PayloadCapacity,    \* m_options.payloadCapacityBytes
    Sizes,              \* payload sizes a submission may have
    MayThrow,           \* kinds whose processing may throw
    MaxTicket,          \* bound on the submissions
    MaxGeneration,      \* bound on the generations
    MaxShutdowns        \* bound on the calls of shutdown()

ASSUME ConstantsAssumption ==
    /\ {Capacity, PayloadCapacity, MaxGeneration} \subseteq Nat \ {0}
    /\ Sizes \subseteq Nat
    /\ {MaxTicket, MaxShutdowns} \subseteq Nat

\* Reset stands for RestoreReplayState too, Draw for every command that
\* neither starts a generation nor marks a field.
Kinds == {"Draw", "Field", "Reset"}

Modes == {"Drain", "Cancel"}

VARIABLES
    submitting,         \* where the holder of m_submitMutex is, "None" if free
    draft,              \* its command
    generation,         \* m_generation
    sequence,           \* m_nextSequence
    ticket,             \* m_nextTicket
    queue,              \* m_queue
    queuedPayload,      \* m_queuedPayloadBytes
    spaceMoved,         \* m_spaceEpoch differs from the submission's load of it
    workSignals,        \* m_workSignals
    accepting,          \* m_accepting
    drainRequested,     \* m_drainRequested
    cancelRequested,    \* m_cancelRequested
    floor,              \* m_minimumAcceptedGeneration
    started,            \* m_started
    failed,             \* m_fatalFailure is set
    workerExited,       \* m_workerExited
    working,            \* where the worker is
    hand,               \* the item it has popped, as a sequence of 0 or 1
    verdict,            \* how processing that item ended
    processor,          \* m_processor: generation, sequence and field completed
    completedTicket,    \* m_completedTickets
    completedField,     \* m_lastCompletedFieldSequence
    outcome,            \* of each ticket's future
    closing,            \* where the holder of m_shutdownMutex is
    mode,               \* its argument
    shutdowns           \* calls of shutdown() so far

submitVars == <<submitting, draft, generation, sequence, ticket>>
workerVars == <<working, hand, verdict, processor, completedTicket,
                completedField>>
lifeVars == <<accepting, drainRequested, cancelRequested, started, failed,
              workerExited>>
closeVars == <<closing, mode, shutdowns>>
vars == <<submitVars, queue, queuedPayload, spaceMoved, workSignals, floor,
          outcome, workerVars, lifeVars, closeVars>>

NoDraft == [kind |-> "Draw", bytes |-> 0]

Init ==
    /\ submitting = "None"
    /\ draft = NoDraft
    /\ generation = 1
    /\ sequence = 0
    /\ ticket = 0
    /\ queue = <<>>
    /\ queuedPayload = 0
    /\ spaceMoved = FALSE
    /\ workSignals = 0
    /\ accepting = TRUE
    /\ drainRequested = FALSE
    /\ cancelRequested = FALSE
    /\ floor = 1
    /\ started = FALSE
    /\ failed = FALSE
    /\ workerExited = FALSE
    /\ working = "NotStarted"
    /\ hand = <<>>
    /\ verdict = "None"
    /\ processor = [generation |-> 1, sequence |-> 0, field |-> 0]
    /\ completedTicket = 0
    /\ completedField = 0
    /\ outcome = <<>>
    /\ closing = "None"
    /\ mode = "Drain"
    /\ shutdowns = 0

-----------------------------------------------------------------------------
(* submitAsync.  A submission that finds the executor closed before it      *)
(* locks m_submitMutex throws and changes nothing.                          *)

StartsGeneration(kind) == kind = "Reset"

Submit(kind, bytes) ==
    /\ submitting = "None"
    /\ accepting
    /\ ticket < MaxTicket
    /\ StartsGeneration(kind) => generation < MaxGeneration
    /\ submitting' = "Start"
    /\ draft' = [kind |-> kind, bytes |-> bytes]
    /\ UNCHANGED <<generation, sequence, ticket, queue, queuedPayload,
                   spaceMoved, workSignals, floor, outcome, workerVars,
                   lifeVars, closeVars>>

\* The submission throws.
GiveUp ==
    /\ submitting' = "None"
    /\ draft' = NoDraft
    /\ UNCHANGED <<generation, sequence, ticket, queue, queuedPayload, floor,
                   outcome, spaceMoved, workSignals, workerVars, closeVars>>

\* ensureStarted, then the check of the payload against the whole budget.
EnsureStarted ==
    /\ submitting = "Start"
    /\ started \/ accepting
    /\ started' = TRUE
    /\ working' = IF started THEN working ELSE "Idle"
    /\ IF draft.bytes > PayloadCapacity
       THEN submitting' = "None" /\ draft' = NoDraft
       ELSE submitting' = "Check" /\ UNCHANGED draft
    /\ UNCHANGED <<generation, sequence, ticket, queue, queuedPayload,
                   spaceMoved, workSignals, floor, outcome, hand, verdict,
                   processor, completedTicket, completedField, accepting,
                   drainRequested, cancelRequested, failed, workerExited,
                   closeVars>>

StartRefused ==
    /\ submitting = "Start"
    /\ ~ started /\ ~ accepting
    /\ GiveUp
    /\ UNCHANGED lifeVars

\* The host has no thread to give.
StartFails ==
    /\ submitting = "Start"
    /\ ~ started /\ accepting
    /\ failed' = TRUE
    /\ accepting' = FALSE
    /\ GiveUp
    /\ UNCHANGED <<drainRequested, cancelRequested, started, workerExited>>

CheckAdmission ==
    /\ submitting = "Check"
    /\ accepting
    /\ submitting' = "Load"
    /\ UNCHANGED <<draft, generation, sequence, ticket, queue, queuedPayload,
                   spaceMoved, workSignals, floor, outcome, workerVars,
                   lifeVars, closeVars>>

AdmissionClosed ==
    /\ submitting \in {"Check", "Recheck"}
    /\ ~ accepting
    /\ GiveUp
    /\ UNCHANGED lifeVars

LoadSpaceEpoch ==
    /\ submitting = "Load"
    /\ spaceMoved' = FALSE
    /\ submitting' = "Try"
    /\ UNCHANGED <<draft, generation, sequence, ticket, queue, queuedPayload,
                   workSignals, floor, outcome, workerVars, lifeVars, closeVars>>

Fits ==
    /\ Len(queue) < Capacity
    /\ draft.bytes <= PayloadCapacity - queuedPayload

ReservePayload ==
    /\ submitting = "Try"
    /\ Fits
    /\ queuedPayload' = queuedPayload + draft.bytes
    /\ submitting' = "Push"
    /\ UNCHANGED <<draft, generation, sequence, ticket, queue, spaceMoved,
                   workSignals, floor, outcome, workerVars, lifeVars, closeVars>>

NoSpace ==
    /\ submitting = "Try"
    /\ ~ Fits
    /\ submitting' = "Recheck"
    /\ UNCHANGED <<draft, generation, sequence, ticket, queue, queuedPayload,
                   spaceMoved, workSignals, floor, outcome, workerVars,
                   lifeVars, closeVars>>

\* Mutant: the second look at m_accepting is left out.
RecheckUnconditionally ==
    /\ submitting = "Recheck"
    /\ submitting' = "Wait"
    /\ UNCHANGED <<draft, generation, sequence, ticket, queue, queuedPayload,
                   spaceMoved, workSignals, floor, outcome, workerVars,
                   lifeVars, closeVars>>

RecheckAdmission ==
    /\ submitting = "Recheck"
    /\ accepting
    /\ submitting' = "Wait"
    /\ UNCHANGED <<draft, generation, sequence, ticket, queue, queuedPayload,
                   spaceMoved, workSignals, floor, outcome, workerVars,
                   lifeVars, closeVars>>

WaitForSpace ==
    /\ submitting = "Wait"
    /\ spaceMoved
    /\ submitting' = "Check"
    /\ UNCHANGED <<draft, generation, sequence, ticket, queue, queuedPayload,
                   spaceMoved, workSignals, floor, outcome, workerVars,
                   lifeVars, closeVars>>

\* The item a submission enqueues: its identity is that of the mutex-protected
\* counters, which only move once it is in the queue.
NewItem ==
    LET starts == StartsGeneration(draft.kind)
    IN [ticket |-> ticket + 1,
        generation |-> IF starts THEN generation + 1 ELSE generation,
        sequence |-> IF starts THEN 1 ELSE sequence + 1,
        kind |-> draft.kind, bytes |-> draft.bytes]

Enqueue ==
    /\ submitting = "Push"
    /\ queue' = Append(queue, NewItem)
    /\ outcome' = Append(outcome, "Pending")
    /\ submitting' = "Publish"
    /\ UNCHANGED <<draft, generation, sequence, ticket, queuedPayload,
                   spaceMoved, workSignals, floor, workerVars, lifeVars,
                   closeVars>>

PublishSubmission ==
    /\ submitting = "Publish"
    /\ generation' = NewItem.generation
    /\ sequence' = NewItem.sequence
    /\ ticket' = NewItem.ticket
    /\ submitting' = "Signal"
    /\ UNCHANGED <<draft, queue, queuedPayload, spaceMoved, workSignals, floor,
                   outcome, workerVars, lifeVars, closeVars>>

SignalWork ==
    /\ submitting = "Signal"
    /\ workSignals' = workSignals + 1
    /\ submitting' = "None"
    /\ draft' = NoDraft
    /\ UNCHANGED <<generation, sequence, ticket, queue, queuedPayload,
                   spaceMoved, floor, outcome, workerVars, lifeVars, closeVars>>

-----------------------------------------------------------------------------
\* cancelPendingBeforeGeneration, which refuses generations not yet submitted.
RaiseFloor(least) ==
    /\ submitting = "None"
    /\ least <= generation
    /\ least > floor
    /\ floor' = least
    /\ UNCHANGED <<submitVars, queue, queuedPayload, spaceMoved, workSignals,
                   outcome, workerVars, lifeVars, closeVars>>

-----------------------------------------------------------------------------
(* GsCommandProcessor::process.                                             *)

Accepts(item) ==
    IF StartsGeneration(item.kind)
    THEN /\ item.generation = processor.generation + 1
         /\ item.sequence = 1
    ELSE /\ item.generation = processor.generation
         /\ item.sequence = processor.sequence + 1

\* The processor once it has taken up an item, and once it has carried it out.
Begun(item) ==
    IF StartsGeneration(item.kind)
    THEN [generation |-> item.generation, sequence |-> 0, field |-> 0]
    ELSE processor

Done(item) ==
    [Begun(item) EXCEPT !.sequence = item.sequence,
                        !.field = IF item.kind = "Field" THEN item.ticket
                                                         ELSE @]

-----------------------------------------------------------------------------
(* workerMain.                                                              *)

Item == Head(hand)

AcquireWorkSignal ==
    /\ working = "Idle"
    /\ workSignals > 0
    /\ workSignals' = workSignals - 1
    /\ working' = "Awake"
    /\ UNCHANGED <<submitVars, queue, queuedPayload, spaceMoved, floor, outcome,
                   hand, verdict, processor, completedTicket, completedField,
                   lifeVars, closeVars>>

\* A step of the worker that only moves it on.
MoveOn(step) ==
    /\ working' = step
    /\ UNCHANGED <<submitVars, queue, queuedPayload, spaceMoved, workSignals,
                   floor, outcome, hand, verdict, processor, completedTicket,
                   completedField, lifeVars, closeVars>>

CheckCancel ==
    /\ working = "Awake"
    /\ MoveOn(IF cancelRequested THEN "Cancelling" ELSE "Popping")

Pop ==
    /\ working = "Popping"
    /\ queue # <<>>
    /\ hand' = <<Head(queue)>>
    /\ queue' = Tail(queue)
    /\ working' = "Popped"
    /\ UNCHANGED <<submitVars, queuedPayload, spaceMoved, workSignals, floor,
                   outcome, verdict, processor, completedTicket, completedField,
                   lifeVars, closeVars>>

PopNothing ==
    /\ working = "Popping"
    /\ queue = <<>>
    /\ MoveOn("Empty")

CheckDrain ==
    /\ working = "Empty"
    /\ MoveOn(IF drainRequested THEN "Exiting" ELSE "Idle")

SignalSlot ==
    /\ working = "Popped"
    /\ spaceMoved' = TRUE
    /\ working' = "Holding"
    /\ UNCHANGED <<submitVars, queue, queuedPayload, workSignals, floor,
                   outcome, hand, verdict, processor, completedTicket,
                   completedField, lifeVars, closeVars>>

\* Mutant: the payload of the item that was held is not given back.
CancelHeldKeepsPayload ==
    /\ working = "Holding"
    /\ cancelRequested
    /\ verdict' = "Cancelled"
    /\ outcome' = [outcome EXCEPT ![Item.ticket] = "Cancelled"]
    /\ working' = "Released"
    /\ UNCHANGED <<submitVars, queue, queuedPayload, spaceMoved, workSignals,
                   floor, hand, processor, completedTicket, completedField,
                   lifeVars, closeVars>>

CancelHeld ==
    /\ working = "Holding"
    /\ cancelRequested
    /\ verdict' = "Cancelled"
    /\ outcome' = [outcome EXCEPT ![Item.ticket] = "Cancelled"]
    /\ working' = "Release"
    /\ UNCHANGED <<submitVars, queue, queuedPayload, spaceMoved, workSignals,
                   floor, hand, processor, completedTicket, completedField,
                   lifeVars, closeVars>>

\* Mutant: a cancellation that arrives while the item is held is ignored.
JudgeRegardless(how, effect, step) ==
    /\ working = "Holding"
    /\ verdict' = how
    /\ processor' = effect
    /\ working' = step
    /\ UNCHANGED <<submitVars, queue, queuedPayload, spaceMoved, workSignals,
                   floor, outcome, hand, completedTicket, completedField,
                   lifeVars, closeVars>>

\* What carrying out the item does to the processor, and how it ends.
Judge(how, effect, step) ==
    /\ working = "Holding"
    /\ ~ cancelRequested
    /\ verdict' = how
    /\ processor' = effect
    /\ working' = step
    /\ UNCHANGED <<submitVars, queue, queuedPayload, spaceMoved, workSignals,
                   floor, outcome, hand, completedTicket, completedField,
                   lifeVars, closeVars>>

SkipStale ==
    /\ working = "Holding"
    /\ Item.generation < floor
    /\ Judge("Stale", processor, "Publish")

Process ==
    /\ working = "Holding"
    /\ Item.generation >= floor
    /\ Accepts(Item)
    /\ Judge("Completed", Done(Item), "Publish")

ProcessThrows ==
    /\ working = "Holding"
    /\ Item.generation >= floor
    /\ Accepts(Item)
    /\ Item.kind \in MayThrow
    /\ Judge("Threw", Begun(Item), "Fail")

Reject ==
    /\ working = "Holding"
    /\ Item.generation >= floor
    /\ ~ Accepts(Item)
    /\ Judge("Rejected", processor, "Fail")

\* Mutant: the presented field keeps its number over a reset.
PublishWithoutReset ==
    /\ working = "Publish"
    /\ completedTicket' = Item.ticket
    /\ completedField' =
         IF Item.kind = "Field" /\ verdict = "Completed" THEN Item.ticket
                                                         ELSE completedField
    /\ working' = "Resolve"
    /\ UNCHANGED <<submitVars, queue, queuedPayload, spaceMoved, workSignals,
                   floor, outcome, hand, verdict, processor, lifeVars, closeVars>>

PublishResult ==
    /\ working = "Publish"
    /\ completedTicket' = Item.ticket
    /\ completedField' =
         CASE Item.kind = "Field" /\ verdict = "Completed" -> Item.ticket
           [] Item.kind = "Reset" -> 0
           [] OTHER -> completedField
    /\ working' = "Resolve"
    /\ UNCHANGED <<submitVars, queue, queuedPayload, spaceMoved, workSignals,
                   floor, outcome, hand, verdict, processor, lifeVars, closeVars>>

ResolveItem ==
    /\ working = "Resolve"
    /\ outcome' = [outcome EXCEPT ![Item.ticket] = verdict]
    /\ working' = "Release"
    /\ UNCHANGED <<submitVars, queue, queuedPayload, spaceMoved, workSignals,
                   floor, hand, verdict, processor, completedTicket,
                   completedField, lifeVars, closeVars>>

\* releasePayload: first the bytes, then the signal.
ReleasePayload ==
    /\ working = "Release"
    /\ queuedPayload' = queuedPayload - Item.bytes
    /\ working' = "Released"
    /\ UNCHANGED <<submitVars, queue, spaceMoved, workSignals, floor, outcome,
                   hand, verdict, processor, completedTicket, completedField,
                   lifeVars, closeVars>>

SignalPayload ==
    /\ working = "Released"
    /\ spaceMoved' = TRUE
    /\ completedTicket' = IF verdict = "Cancelled" THEN Item.ticket
                                                   ELSE completedTicket
    /\ working' = IF verdict \in {"Completed", "Stale"} THEN "Idle"
                                                        ELSE "Cancelling"
    /\ hand' = <<>>
    /\ verdict' = "None"
    /\ UNCHANGED <<submitVars, queue, queuedPayload, workSignals, floor,
                   outcome, processor, completedField, lifeVars, closeVars>>

FailItem ==
    /\ working = "Fail"
    /\ outcome' = [outcome EXCEPT ![Item.ticket] = verdict]
    /\ completedTicket' = Item.ticket
    /\ working' = "Record"
    /\ UNCHANGED <<submitVars, queue, queuedPayload, spaceMoved, workSignals,
                   floor, hand, verdict, processor, completedField, lifeVars,
                   closeVars>>

\* recordFatalFailure: close, wake the submission, wait for it, cancel.
RecordFailure ==
    /\ working = "Record"
    /\ failed' = TRUE
    /\ accepting' = FALSE
    /\ working' = "Wake"
    /\ UNCHANGED <<submitVars, queue, queuedPayload, spaceMoved, workSignals,
                   floor, outcome, hand, verdict, processor, completedTicket,
                   completedField, drainRequested, cancelRequested, started,
                   workerExited, closeVars>>

WakeAfterFailure ==
    /\ working = "Wake"
    /\ spaceMoved' = TRUE
    /\ working' = "Quiesce"
    /\ UNCHANGED <<submitVars, queue, queuedPayload, workSignals, floor,
                   outcome, hand, verdict, processor, completedTicket,
                   completedField, lifeVars, closeVars>>

QuiesceAfterFailure ==
    /\ working = "Quiesce"
    /\ submitting = "None"
    /\ cancelRequested' = TRUE
    /\ workSignals' = workSignals + 1
    /\ working' = "Release"
    /\ UNCHANGED <<submitVars, queue, queuedPayload, spaceMoved, floor, outcome,
                   hand, verdict, processor, completedTicket, completedField,
                   accepting, drainRequested, started, failed, workerExited,
                   closeVars>>

\* One round of cancelQueued.
\* Mutant: the newest item is cancelled first.
CancelNewest ==
    /\ working = "Cancelling"
    /\ queue # <<>>
    /\ queue' = Front(queue)
    /\ outcome' = [outcome EXCEPT ![Last(queue).ticket] =
                       IF failed THEN "Failed" ELSE "Cancelled"]
    /\ queuedPayload' = queuedPayload - Last(queue).bytes
    /\ completedTicket' = Last(queue).ticket
    /\ spaceMoved' = TRUE
    /\ UNCHANGED <<submitVars, workSignals, floor, working, hand, verdict,
                   processor, completedField, lifeVars, closeVars>>

CancelQueued ==
    /\ working = "Cancelling"
    /\ queue # <<>>
    /\ queue' = Tail(queue)
    /\ outcome' = [outcome EXCEPT ![Head(queue).ticket] =
                       IF failed THEN "Failed" ELSE "Cancelled"]
    /\ queuedPayload' = queuedPayload - Head(queue).bytes
    /\ completedTicket' = Head(queue).ticket
    /\ spaceMoved' = TRUE
    /\ UNCHANGED <<submitVars, workSignals, floor, working, hand, verdict,
                   processor, completedField, lifeVars, closeVars>>

AllCancelled ==
    /\ working = "Cancelling"
    /\ queue = <<>>
    /\ MoveOn("Exiting")

Exit ==
    /\ working = "Exiting"
    /\ workerExited' = TRUE
    /\ spaceMoved' = TRUE
    /\ working' = "Exited"
    /\ UNCHANGED <<submitVars, queue, queuedPayload, workSignals, floor,
                   outcome, hand, verdict, processor, completedTicket,
                   completedField, accepting, drainRequested, cancelRequested,
                   started, failed, closeVars>>

-----------------------------------------------------------------------------
(* shutdown.                                                                *)

Shutdown(how) ==
    /\ closing = "None"
    /\ shutdowns < MaxShutdowns
    /\ closing' = "Close"
    /\ mode' = how
    /\ shutdowns' = shutdowns + 1
    /\ UNCHANGED <<submitVars, queue, queuedPayload, spaceMoved, workSignals,
                   floor, outcome, workerVars, lifeVars>>

CloseAdmission ==
    /\ closing = "Close"
    /\ accepting' = FALSE
    /\ closing' = "Wake"
    /\ UNCHANGED <<submitVars, queue, queuedPayload, spaceMoved, workSignals,
                   floor, outcome, workerVars, drainRequested, cancelRequested,
                   started, failed, workerExited, mode, shutdowns>>

WakeProducer ==
    /\ closing = "Wake"
    /\ spaceMoved' = TRUE
    /\ closing' = "Quiesce"
    /\ UNCHANGED <<submitVars, queue, queuedPayload, workSignals, floor,
                   outcome, workerVars, lifeVars, mode, shutdowns>>

\* Mutant: m_submitMutex is not passed through.
DoNotQuiesce ==
    /\ closing = "Quiesce"
    /\ closing' = "Request"
    /\ UNCHANGED <<submitVars, queue, queuedPayload, spaceMoved, workSignals,
                   floor, outcome, workerVars, lifeVars, mode, shutdowns>>

QuiesceProducer ==
    /\ closing = "Quiesce"
    /\ submitting = "None"
    /\ closing' = "Request"
    /\ UNCHANGED <<submitVars, queue, queuedPayload, spaceMoved, workSignals,
                   floor, outcome, workerVars, lifeVars, mode, shutdowns>>

RequestStop ==
    /\ closing = "Request"
    /\ cancelRequested' = (cancelRequested \/ mode = "Cancel")
    /\ drainRequested' = (drainRequested \/ mode = "Drain")
    /\ workerExited' = (workerExited \/ ~ started)
    /\ closing' = "Signal"
    /\ UNCHANGED <<submitVars, queue, queuedPayload, spaceMoved, workSignals,
                   floor, outcome, workerVars, accepting, started, failed, mode,
                   shutdowns>>

SignalStop ==
    /\ closing = "Signal"
    /\ workSignals' = workSignals + 1
    /\ closing' = "Join"
    /\ UNCHANGED <<submitVars, queue, queuedPayload, spaceMoved, floor, outcome,
                   workerVars, lifeVars, mode, shutdowns>>

Join ==
    /\ closing = "Join"
    /\ working \in {"NotStarted", "Exited"}
    /\ closing' = "None"
    /\ UNCHANGED <<submitVars, queue, queuedPayload, spaceMoved, workSignals,
                   floor, outcome, workerVars, lifeVars, mode, shutdowns>>

-----------------------------------------------------------------------------
Submitter ==
    \/ EnsureStarted \/ StartRefused \/ StartFails
    \/ CheckAdmission \/ AdmissionClosed \/ LoadSpaceEpoch
    \/ ReservePayload \/ NoSpace \/ RecheckAdmission \/ WaitForSpace
    \/ Enqueue \/ PublishSubmission \/ SignalWork

Worker ==
    \/ AcquireWorkSignal \/ CheckCancel
    \/ Pop \/ PopNothing \/ CheckDrain \/ SignalSlot
    \/ CancelHeld \/ SkipStale \/ Process \/ ProcessThrows \/ Reject
    \/ PublishResult \/ ResolveItem \/ ReleasePayload \/ SignalPayload
    \/ FailItem \/ RecordFailure \/ WakeAfterFailure \/ QuiesceAfterFailure
    \/ CancelQueued \/ AllCancelled \/ Exit

Closer ==
    \/ CloseAdmission \/ WakeProducer \/ QuiesceProducer
    \/ RequestStop \/ SignalStop \/ Join

Next ==
    \/ \E kind \in Kinds, bytes \in Sizes : Submit(kind, bytes)
    \/ \E least \in 2 .. MaxGeneration : RaiseFloor(least)
    \/ \E how \in Modes : Shutdown(how)
    \/ Submitter
    \/ Worker
    \/ Closer

Spec == Init /\ [][Next]_vars

\* The threads that are inside the executor are scheduled.  Nothing obliges
\* anybody to submit, to raise the floor or to shut down.
FairSpec ==
    /\ Spec
    /\ WF_vars(Submitter)
    /\ WF_vars(Worker)
    /\ WF_vars(Closer)

-----------------------------------------------------------------------------
Items ==
    [ticket : 1 .. MaxTicket, generation : 1 .. MaxGeneration,
     sequence : 1 .. MaxTicket, kind : Kinds, bytes : Sizes]

Outcomes ==
    {"Completed", "Stale", "Cancelled", "Rejected", "Threw", "Failed"}

\* Types, with the two bounds the executor exists to keep: queued commands
\* and their payload bytes.
TypeOK ==
    /\ submitting \in {"None", "Start", "Check", "Load", "Try", "Recheck",
                       "Wait", "Push", "Publish", "Signal"}
    /\ draft \in [kind : Kinds, bytes : Sizes \cup {0}]
    /\ generation \in 1 .. MaxGeneration
    /\ sequence \in 0 .. MaxTicket
    /\ ticket \in 0 .. MaxTicket
    /\ queue \in Seq(Items) /\ Len(queue) <= Capacity
    /\ queuedPayload \in 0 .. PayloadCapacity
    /\ workSignals \in 0 .. MaxTicket + MaxShutdowns + 1
    /\ spaceMoved \in BOOLEAN /\ accepting \in BOOLEAN
    /\ drainRequested \in BOOLEAN /\ cancelRequested \in BOOLEAN
    /\ started \in BOOLEAN /\ failed \in BOOLEAN /\ workerExited \in BOOLEAN
    /\ floor \in 1 .. MaxGeneration
    /\ working \in {"NotStarted", "Idle", "Awake", "Popping", "Empty",
                    "Popped", "Holding", "Publish", "Resolve", "Release",
                    "Released", "Fail", "Record", "Wake", "Quiesce",
                    "Cancelling", "Exiting", "Exited"}
    /\ hand \in Seq(Items) /\ Len(hand) <= 1
    /\ verdict \in {"None"} \cup Outcomes
    /\ processor \in [generation : 1 .. MaxGeneration,
                      sequence : 0 .. MaxTicket, field : 0 .. MaxTicket]
    /\ completedTicket \in 0 .. MaxTicket
    /\ completedField \in 0 .. MaxTicket
    /\ outcome \in Seq({"Pending"} \cup Outcomes) /\ Len(outcome) <= MaxTicket
    /\ closing \in {"None", "Close", "Wake", "Quiesce", "Request", "Signal",
                    "Join"}
    /\ mode \in Modes
    /\ shutdowns \in 0 .. MaxShutdowns

Accepted == DOMAIN outcome

\* The payload of a sequence of items.
Bytes(items) ==
    LET upTo[n \in 0 .. Len(items)] ==
            IF n = 0 THEN 0 ELSE upTo[n - 1] + items[n].bytes
    IN  upTo[Len(items)]

\* m_queuedPayloadBytes is at every moment the payload of the commands in the
\* queue, of the one the worker has not yet released and of the one about to
\* be enqueued, whichever way a command ends: completed, stale, cancelled in
\* hand, cancelled in the queue or failed.
PayloadBalance ==
    queuedPayload =
        Bytes(queue)
        + (IF working = "Released" THEN 0 ELSE Bytes(hand))
        + (IF submitting = "Push" THEN draft.bytes ELSE 0)

\* Futures resolve in submission order, and once one command was cancelled or
\* failed none submitted later is carried out: what reaches the GS is a prefix
\* of what was submitted.
ResolvedInOrder ==
    \A t \in Accepted : outcome[t] # "Pending" =>
        \A u \in 1 .. t - 1 :
            \/ outcome[u] \in {"Completed", "Stale"}
            \/ outcome[u] # "Pending" /\ outcome[t] \in {"Cancelled", "Failed"}

\* Whoever waited for a future finds its ticket among the completed ones.
PublishedFirst ==
    \A t \in Accepted :
        outcome[t] \in {"Completed", "Stale"} => completedTicket >= t

\* The field the UI thread is told to present is the one the processor has
\* latched, none after a reset; only while the worker carries out the next
\* command, once it has failed, or when a reset was skipped do they differ.
FieldIdentity ==
    \/ completedField = processor.field
    \/ working = "Publish"
    \/ verdict = "Threw" \/ failed
    \/ floor > processor.generation + 1

\* When the worker is gone nothing is left in the queue or on its way there
\* and every accepted command is resolved, carried out unless a cancellation
\* was asked for.
StoppedClean ==
    workerExited =>
        /\ queue = <<>> /\ hand = <<>>
        /\ submitting \notin {"Load", "Try", "Push", "Publish", "Signal"}
        /\ \A t \in Accepted :
              \/ outcome[t] \in {"Completed", "Stale"}
              \/ outcome[t] # "Pending" /\ cancelRequested

\* The processor turns down only commands of a generation whose predecessor's
\* reset was skipped for the floor.
RejectsOnlySkipped ==
    (\E t \in Accepted : outcome[t] = "Rejected")
        => floor > processor.generation + 1

\* The state is well typed, within its two bounds, and the payload account is
\* exact.
BudgetKept == TypeOK /\ PayloadBalance

\* What reaches the GS, and what waiters are told of it, follows the order of
\* submission; commands are turned down only behind a skipped reset.
StreamKept == ResolvedInOrder /\ PublishedFirst /\ RejectsOnlySkipped

\* "Commands below this generation complete as typed stale results [...]
\* Lifecycle code must enqueue the corresponding reset or restore command at
\* the new generation before relying on this floor." (ps2_gs_command_stream.h):
\* a floor is only raised to a generation that was enqueued, so no command is
\* turned down.
FloorAdmitsItsGeneration ==
    \A t \in Accepted : outcome[t] # "Rejected"

\* Every accepted command is resolved.
EveryCommandResolves ==
    \A t \in 1 .. MaxTicket :
        t \in Accepted ~> t \in Accepted /\ outcome[t] # "Pending"

\* A submission ends, also when it waits for space and the executor fails or is
\* shut down meanwhile.
EverySubmissionEnds == submitting # "None" ~> submitting = "None"

\* shutdown() returns.
EveryShutdownEnds == closing # "None" ~> closing = "None"

\* Futures, submissions and shutdowns all end.
EveryCallEnds ==
    EveryCommandResolves /\ EverySubmissionEnds /\ EveryShutdownEnds

StreamPhase ==
    IF cancelRequested THEN "Cancelling"
    ELSE IF drainRequested THEN "Draining" ELSE "Open"

Judged == working \in {"Publish", "Resolve", "Fail"}

Stream == INSTANCE CommandStream WITH phase <- StreamPhase, busy <- Judged

\* To those who submit, the threads, the ring, the budget, the floor and the ways
\* to stop are one stream: nothing is accepted once a stop is requested, nothing
\* is begun after a failure or a cancellation, and what is given up is told the
\* true reason, in order.
IsStream == Stream!Spec
=============================================================================
