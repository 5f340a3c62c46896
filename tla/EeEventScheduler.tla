-------------------------- MODULE EeEventScheduler --------------------------
(***************************************************************************)
(* The fixed-source event scheduler of the Emotion Engine timeline          *)
(* (ee_event_scheduler.{h,cpp}) together with the two parts of PS2Runtime   *)
(* that drive it: the devices, each holding the token of its scheduled      *)
(* event, and serviceEeEventsAtTick, the boundary at which due events run.  *)
(*                                                                         *)
(* All of it runs under guest execution ownership, so a call is one action. *)
(* The service loop is split at the visitor, because the device callback it *)
(* runs may call any scheduler operation or unwind with a guest exception.  *)
(***************************************************************************)
EXTENDS Integers, FiniteSets

CONSTANTS
    LastSource,         \* kEeEventSourceCount - 1; 0 is served first
    MaxTick,            \* numeric_limits<uint64_t>::max() of an EeTick
    MaximumServices,    \* kMaximumServicesPerBoundary
    Untracked,          \* sources scheduled without keeping a token
    Throwing,           \* sources whose callback may raise a guest exception
    Discarded,          \* sources a state load cancels (VU completion)
    NoService,          \* guest code is running, not serviceDue
    LoopHead,           \* serviceDue is about to take the next event
    MaxGeneration,      \* bound on a slot's generation (uint64 in the code)
    MaxSequence,        \* bound on m_nextSequence (uint64 in the code)
    MaxLoads            \* bound on the save states loaded

Sources == 0 .. LastSource
Ticks == 0 .. MaxTick

ASSUME ConstantsAssumption ==
    /\ LastSource \in Nat
    /\ MaxTick \in Nat
    /\ MaximumServices \in Nat \ {0}
    /\ Untracked \subseteq Sources
    /\ Throwing \subseteq Sources
    /\ Discarded \subseteq Sources
    /\ NoService \notin Sources
    /\ LoopHead \notin Sources
    /\ NoService # LoopHead
    /\ MaxGeneration \in Nat \ {0}
    /\ MaxSequence \in Nat \ {0}
    /\ MaxLoads \in Nat

VARIABLES
    slots,          \* m_slots
    next,           \* m_hasPending, m_nextDeadline and m_nextSource
    nextSequence,   \* m_nextSequence
    statistics,     \* m_statistics
    servicing,      \* m_servicing
    serviceTick,    \* m_serviceTick
    serviced,       \* result.serviced of the running serviceDue
    running,        \* the source whose callback runs, LoopHead or NoService
    now,            \* EeTimeline::m_now
    tokens,         \* generation of the token each device holds, 0 for none
    stopRequested,  \* requestStop() after an exceeded service limit
    saved,          \* the last save state taken
    loads,          \* save states loaded so far
    watched         \* history: one token handed out, and whether its event
                    \* is still to come

schedulerVars == <<slots, next, nextSequence>>
serviceVars == <<servicing, serviceTick, serviced, running>>
vars == <<schedulerVars, statistics, serviceVars, now, tokens, stopRequested,
          saved, loads, watched>>

-----------------------------------------------------------------------------
IdleSlot(g) == [deadline |-> 0, generation |-> g, sequence |-> 0,
                pending |-> FALSE]

ZeroStatistics == [scheduled |-> 0, replaced |-> 0, cancelled |-> 0,
                   serviced |-> 0, sameTickReschedules |-> 0]

NoTokens == [s \in Sources |-> 0]

NoToken == [source |-> 0, generation |-> 0, live |-> FALSE]

PendingSources(sl) == {s \in Sources : sl[s].pending}

\* Service order: earlier deadline first, then the lower source index.
Precedes(sl, a, b) ==
    \/ sl[a].deadline < sl[b].deadline
    \/ sl[a].deadline = sl[b].deadline /\ a < b

\* Mutant: the scan keeps the last of several equal deadlines.
RecomputeLastOfTies(sl) ==
    IF PendingSources(sl) = {}
    THEN [hasPending |-> FALSE, deadline |-> MaxTick, source |-> 0]
    ELSE LET last == CHOOSE a \in PendingSources(sl) :
                       \A b \in PendingSources(sl) \ {a} :
                          \/ sl[a].deadline < sl[b].deadline
                          \/ sl[a].deadline = sl[b].deadline /\ b < a
         IN  [hasPending |-> TRUE, deadline |-> sl[last].deadline,
              source |-> last]

\* recomputeNext: one scan in source order.
RecomputeNext(sl) ==
    IF PendingSources(sl) = {}
    THEN [hasPending |-> FALSE, deadline |-> MaxTick, source |-> 0]
    ELSE LET first == CHOOSE a \in PendingSources(sl) :
                        \A b \in PendingSources(sl) \ {a} : Precedes(sl, a, b)
         IN  [hasPending |-> TRUE, deadline |-> sl[first].deadline,
              source |-> first]

SaturatingAdd(tick, delta) ==
    IF delta > MaxTick - tick THEN MaxTick ELSE tick + delta

DeadlineDue(tick) == next.hasPending /\ tick >= next.deadline

\* The event of the watched token of s is over.
Ended(s) == [watched EXCEPT !.live = @ /\ watched.source # s]

Snapshot == [slots |-> slots, nextSequence |-> nextSequence,
             statistics |-> statistics, now |-> now, tokens |-> tokens]

Init ==
    /\ slots = [s \in Sources |-> IdleSlot(0)]
    /\ next = RecomputeNext(slots)
    /\ nextSequence = 0
    /\ statistics = ZeroStatistics
    /\ servicing = FALSE
    /\ serviceTick = 0
    /\ serviced = 0
    /\ running = NoService
    /\ now = 0
    /\ tokens = NoTokens
    /\ stopRequested = FALSE
    /\ saved = Snapshot
    /\ loads = 0
    /\ watched = NoToken

\* Guest code, or the callback of a device, is running.
CanCall == ~ stopRequested /\ running # LoopHead

-----------------------------------------------------------------------------
(* Scheduling and cancelling.                                               *)

Numbered(s) ==
    slots[s].generation < MaxGeneration /\ nextSequence < MaxSequence

ScheduleAbsolute(s, deadline) ==
    LET generation == slots[s].generation + 1 IN
    /\ Numbered(s)
    /\ slots' = [slots EXCEPT ![s] =
           [deadline |-> deadline, generation |-> generation,
            sequence |-> nextSequence + 1, pending |-> TRUE]]
    /\ nextSequence' = nextSequence + 1
    /\ statistics' =
         [statistics EXCEPT
            !.scheduled = @ + 1,
            !.replaced = IF slots[s].pending THEN @ + 1 ELSE @,
            !.sameTickReschedules =
                IF servicing /\ deadline <= serviceTick THEN @ + 1 ELSE @]
    /\ next' = RecomputeNext(slots')
    /\ tokens' = IF s \in Untracked THEN tokens
                                    ELSE [tokens EXCEPT ![s] = generation]
    /\ \/ watched' = [source |-> s, generation |-> generation, live |-> TRUE]
       \/ watched' = Ended(s)

\* The schedule of a DMA channel, a VU or VSync, and of DmacCompletion.
DeviceSchedule(s, deadline) ==
    /\ CanCall
    /\ ScheduleAbsolute(s, deadline)
    /\ UNCHANGED <<serviceVars, now, stopRequested, saved, loads>>

\* The refresh of the COP0 and counter schedules leaves an event alone that is
\* already due at the right tick.
DeviceRefresh(s, deadline) ==
    /\ CanCall
    /\ s \notin Untracked
    /\ IF slots[s].pending /\ slots[s].deadline = deadline
       THEN /\ tokens' = [tokens EXCEPT ![s] = slots[s].generation]
            /\ UNCHANGED <<schedulerVars, statistics, watched>>
       ELSE ScheduleAbsolute(s, deadline)
    /\ UNCHANGED <<serviceVars, now, stopRequested, saved, loads>>

Cancel(s) ==
    /\ slots[s].pending
    /\ slots[s].generation < MaxGeneration
    /\ slots' = [slots EXCEPT ![s].pending = FALSE, ![s].generation = @ + 1]
    /\ statistics' = [statistics EXCEPT !.cancelled = @ + 1]
    /\ next' = RecomputeNext(slots')
    /\ watched' = Ended(s)
    /\ UNCHANGED nextSequence

\* The cancelXxxEvent functions: by token, and a device without a token has
\* nothing to cancel.
DeviceCancel(s) ==
    /\ CanCall
    /\ tokens[s] # 0
    /\ IF slots[s].generation = tokens[s] /\ slots[s].pending
       THEN Cancel(s)
       ELSE UNCHANGED <<schedulerVars, statistics, watched>>
    /\ tokens' = [tokens EXCEPT ![s] = 0]
    /\ UNCHANGED <<serviceVars, now, stopRequested, saved, loads>>

\* A refresh that finds no next deadline cancels by source.
DeviceCancelSource(s) ==
    /\ CanCall
    /\ s \notin Untracked
    /\ Cancel(s)
    /\ tokens' = [tokens EXCEPT ![s] = 0]
    /\ UNCHANGED <<serviceVars, now, stopRequested, saved, loads>>

\* Mutant: reset() gives the slots their first generation again.
ResetRestartsGenerations(rearmed) ==
    LET sources == DOMAIN rearmed
    IN  /\ running = NoService
        /\ ~ stopRequested
        /\ slots' = [s \in Sources |->
              IF s \in sources
              THEN [deadline |-> rearmed[s], generation |-> 1,
                    sequence |-> Cardinality({r \in sources : r <= s}),
                    pending |-> TRUE]
              ELSE IdleSlot(0)]
        /\ nextSequence' = Cardinality(sources)
        /\ next' = RecomputeNext(slots')
        /\ statistics' =
              [ZeroStatistics EXCEPT !.scheduled = Cardinality(sources)]
        /\ serviceTick' = 0
        /\ now' = 0
        /\ tokens' = [s \in Sources |->
              IF s \in sources \ Untracked THEN slots'[s].generation ELSE 0]
        /\ watched' = [watched EXCEPT !.live = FALSE]
        /\ UNCHANGED <<servicing, serviced, running, stopRequested, saved,
                       loads>>

\* resetEeTiming: the devices cancel, reset() invalidates every generation, and
\* the sources that stay configured are armed again from tick 0.
Reset(rearmed) ==
    LET sources == DOMAIN rearmed
        cleared(s) == slots[s].generation
                        + IF tokens[s] # 0 /\ slots[s].pending THEN 2 ELSE 1
    IN  /\ running = NoService
        /\ ~ stopRequested
        /\ Cardinality(sources) <= MaxSequence
        /\ \A s \in Sources : cleared(s) < MaxGeneration
        /\ slots' = [s \in Sources |->
              IF s \in sources
              THEN [deadline |-> rearmed[s], generation |-> cleared(s) + 1,
                    sequence |-> Cardinality({r \in sources : r <= s}),
                    pending |-> TRUE]
              ELSE IdleSlot(cleared(s))]
        /\ nextSequence' = Cardinality(sources)
        /\ next' = RecomputeNext(slots')
        /\ statistics' =
              [ZeroStatistics EXCEPT !.scheduled = Cardinality(sources)]
        /\ serviceTick' = 0
        /\ now' = 0
        /\ tokens' = [s \in Sources |->
              IF s \in sources \ Untracked THEN slots'[s].generation ELSE 0]
        /\ watched' = [watched EXCEPT !.live = FALSE]
        /\ UNCHANGED <<servicing, serviced, running, stopRequested, saved,
                       loads>>

-----------------------------------------------------------------------------
(* Time and the service boundary.                                           *)

\* EeTimeline::advance at the end of a basic block, or of an idle wait, which
\* goes straight to the next deadline.
Advance(elapsed) ==
    /\ running = NoService
    /\ ~ stopRequested
    /\ now' = SaturatingAdd(now, elapsed)
    /\ UNCHANGED <<schedulerVars, statistics, serviceVars, tokens,
                   stopRequested, saved, loads, watched>>

\* serviceEeEventsAtTick: only a due boundary enters serviceDue.
BeginService ==
    /\ running = NoService
    /\ ~ stopRequested
    /\ DeadlineDue(now)
    /\ ~ servicing
    /\ servicing' = TRUE
    /\ serviceTick' = now
    /\ serviced' = 0
    /\ running' = LoopHead
    /\ UNCHANGED <<schedulerVars, statistics, now, tokens,
                   stopRequested, saved, loads, watched>>

\* takeNextDue, and the entry of the callback: a device gives up its token when
\* the service is for the event it scheduled, and otherwise ignores it.
TakeNextDue ==
    LET s == next.source IN
    /\ running = LoopHead
    /\ serviced < MaximumServices
    /\ DeadlineDue(serviceTick)
    /\ slots' = [slots EXCEPT ![s].pending = FALSE]
    /\ next' = RecomputeNext(slots')
    /\ statistics' = [statistics EXCEPT !.serviced = @ + 1]
    /\ tokens' = IF slots[s].generation = tokens[s]
                 THEN [tokens EXCEPT ![s] = 0] ELSE tokens
    /\ running' = s
    /\ watched' = Ended(s)
    /\ UNCHANGED <<nextSequence, servicing, serviceTick, serviced, now,
                   stopRequested, saved, loads>>

VisitorReturns ==
    /\ running \in Sources
    /\ running' = LoopHead
    /\ serviced' = serviced + 1
    /\ UNCHANGED <<schedulerVars, statistics, servicing, serviceTick, now,
                   tokens, stopRequested, saved, loads, watched>>

\* Mutant: the exception leaves m_servicing set.
ThrowKeepsServicing ==
    /\ running \in Throwing
    /\ running' = NoService
    /\ UNCHANGED <<schedulerVars, statistics, servicing, serviceTick, serviced,
                   now, tokens, stopRequested, saved, loads, watched>>

\* A pending COP0 exception unwinds through serviceDue into guest code; what
\* is still due waits for the next boundary.
VisitorThrows ==
    /\ running \in Throwing
    /\ running' = NoService
    /\ servicing' = FALSE
    /\ UNCHANGED <<schedulerVars, statistics, serviceTick, serviced, now,
                   tokens, stopRequested, saved, loads, watched>>

\* Mutant: work left over by the service limit is not reported.
EndServiceSilently ==
    /\ running = LoopHead
    /\ serviced = MaximumServices \/ ~ DeadlineDue(serviceTick)
    /\ running' = NoService
    /\ servicing' = FALSE
    /\ UNCHANGED <<schedulerVars, statistics, serviceTick, serviced,
                   now, tokens, stopRequested, saved, loads, watched>>

\* The loop ends; due work left over by the limit stops the runtime.
EndService ==
    /\ running = LoopHead
    /\ serviced = MaximumServices \/ ~ DeadlineDue(serviceTick)
    /\ running' = NoService
    /\ servicing' = FALSE
    /\ stopRequested' = DeadlineDue(serviceTick)
    /\ UNCHANGED <<schedulerVars, statistics, serviceTick, serviced,
                   now, tokens, saved, loads, watched>>

-----------------------------------------------------------------------------
(* Save states.                                                             *)

\* What restore() asks of a snapshot.
Restorable(state) ==
    LET pending == PendingSources(state.slots) IN
    /\ \A s \in pending :
          /\ state.slots[s].generation # 0
          /\ state.slots[s].sequence # 0
          /\ state.slots[s].sequence <= state.nextSequence
    /\ \A a, b \in pending :
          a # b => state.slots[a].sequence # state.slots[b].sequence

SaveState ==
    /\ running = NoService
    /\ ~ stopRequested
    /\ loads < MaxLoads
    /\ saved' = Snapshot
    /\ UNCHANGED <<schedulerVars, statistics, serviceVars, now, tokens,
                   stopRequested, loads, watched>>

\* Mutant: the device of a dropped completion keeps its token.
LoadKeepsTokens ==
    LET dropped == {s \in Discarded : saved.slots[s].pending}
    IN  /\ loads < MaxLoads
        /\ \A s \in dropped : saved.slots[s].generation < MaxGeneration
        /\ Restorable(saved)
        /\ slots' = [s \in Sources |->
              IF s \in dropped
              THEN [saved.slots[s] EXCEPT !.pending = FALSE,
                                          !.generation = @ + 1]
              ELSE saved.slots[s]]
        /\ next' = RecomputeNext(slots')
        /\ nextSequence' = saved.nextSequence
        /\ statistics' = [saved.statistics EXCEPT
                            !.cancelled = @ + Cardinality(dropped)]
        /\ now' = saved.now
        /\ tokens' = saved.tokens
        /\ servicing' = FALSE
        /\ serviceTick' = 0
        /\ serviced' = 0
        /\ running' = NoService
        /\ stopRequested' = FALSE
        /\ loads' = loads + 1
        /\ watched' = NoToken
        /\ UNCHANGED saved

\* A new process loads the state, wherever the old one was when it ended, and
\* drops the VU completions, whose work is not part of the state.
LoadState ==
    LET dropped == {s \in Discarded : saved.slots[s].pending}
    IN  /\ loads < MaxLoads
        /\ \A s \in dropped : saved.slots[s].generation < MaxGeneration
        /\ Restorable(saved)
        /\ slots' = [s \in Sources |->
              IF s \in dropped
              THEN [saved.slots[s] EXCEPT !.pending = FALSE,
                                          !.generation = @ + 1]
              ELSE saved.slots[s]]
        /\ next' = RecomputeNext(slots')
        /\ nextSequence' = saved.nextSequence
        /\ statistics' = [saved.statistics EXCEPT
                            !.cancelled = @ + Cardinality(dropped)]
        /\ now' = saved.now
        /\ tokens' = [s \in Sources |->
              IF s \in Discarded THEN 0 ELSE saved.tokens[s]]
        /\ servicing' = FALSE
        /\ serviceTick' = 0
        /\ serviced' = 0
        /\ running' = NoService
        /\ stopRequested' = FALSE
        /\ loads' = loads + 1
        /\ watched' = NoToken
        /\ UNCHANGED saved

-----------------------------------------------------------------------------
Next ==
    \/ \E s \in Sources, deadline \in Ticks :
          DeviceSchedule(s, deadline) \/ DeviceRefresh(s, deadline)
    \/ \E s \in Sources : DeviceCancel(s) \/ DeviceCancelSource(s)
    \/ \E elapsed \in Ticks \ {0} : Advance(elapsed)
    \/ \E sources \in SUBSET Sources : \E rearmed \in [sources -> Ticks] :
          Reset(rearmed)
    \/ BeginService
    \/ TakeNextDue
    \/ VisitorReturns
    \/ VisitorThrows
    \/ EndService
    \/ SaveState
    \/ LoadState

Spec == Init /\ [][Next]_vars

\* Guest code keeps running: every basic block commits at least one cycle and
\* ends at a boundary, callbacks return, and the service loop goes on.
Fairness ==
    /\ WF_vars(\E elapsed \in Ticks \ {0} : Advance(elapsed))
    /\ WF_vars(BeginService)
    /\ WF_vars(TakeNextDue)
    /\ WF_vars(VisitorReturns \/ VisitorThrows)
    /\ WF_vars(EndService)

FairSpec == Spec /\ Fairness

-----------------------------------------------------------------------------
Slots == [deadline : Ticks, generation : 0 .. MaxGeneration,
          sequence : 0 .. MaxSequence, pending : BOOLEAN]

Statistics == [scheduled : Nat, replaced : Nat, cancelled : Nat,
               serviced : Nat, sameTickReschedules : Nat]

TypeOK ==
    /\ slots \in [Sources -> Slots]
    /\ next \in [hasPending : BOOLEAN, deadline : Ticks, source : Sources]
    /\ nextSequence \in 0 .. MaxSequence
    /\ statistics \in Statistics
    /\ servicing \in BOOLEAN
    /\ serviceTick \in Ticks
    /\ serviced \in 0 .. MaximumServices
    /\ running \in Sources \cup {NoService, LoopHead}
    /\ now \in Ticks
    /\ tokens \in [Sources -> 0 .. MaxGeneration]
    /\ stopRequested \in BOOLEAN
    /\ loads \in 0 .. MaxLoads
    /\ watched \in [source : Sources, generation : 0 .. MaxGeneration,
                    live : BOOLEAN]

\* The cache answers every deadline test of the generated code, so after any
\* operation, also one made by a callback in the middle of the service loop,
\* it names the earliest pending event, ties going to the lower source.
CacheIsEarliest ==
    /\ next.hasPending <=> PendingSources(slots) # {}
    /\ next.hasPending =>
          /\ next.source \in PendingSources(slots)
          /\ next.deadline = slots[next.source].deadline
          /\ \A s \in PendingSources(slots) \ {next.source} :
                Precedes(slots, next.source, s)

\* No scheduled event is lost or counted twice: each is still pending or was
\* replaced, cancelled or serviced exactly once.
EventsConserved ==
    statistics.scheduled =
        statistics.replaced + statistics.cancelled + statistics.serviced
          + Cardinality(PendingSources(slots))

\* A device holds a token exactly while its event is pending, and the token is
\* that event's.  Otherwise the service would be ignored as stale and the
\* device would never finish.
DevicesHoldTheirEvent ==
    \A s \in Sources \ Untracked :
        tokens[s] = IF slots[s].pending THEN slots[s].generation ELSE 0

\* A token whose event was serviced, cancelled, replaced or reset never matches
\* a later event of its source, so it cannot cancel replacement work.
StaleTokenNeverMatches ==
    LET s == watched.source IN
    slots[s].pending /\ slots[s].generation = watched.generation
      => watched.live

\* A save state taken now would be accepted by restore().
AlwaysRestorable == Restorable(Snapshot)

\* The timeline and the devices agree: the state is well typed, no event is lost
\* or counted twice, the cached deadline is the earliest, every device holds
\* the token of its event and the state can be saved.
TimelineConsistent ==
    /\ TypeOK
    /\ EventsConserved
    /\ CacheIsEarliest
    /\ DevicesHoldTheirEvent
    /\ AlwaysRestorable

\* A boundary that ends normally leaves nothing due at its tick behind, unless
\* the runtime is told to stop.
BoundaryDrainsStep ==
    running = LoopHead /\ running' = NoService /\ ~ stopRequested'
      /\ loads' = loads =>
      \A s \in Sources : slots[s].pending => slots[s].deadline > serviceTick

BoundaryDrains == [][BoundaryDrainsStep]_vars

\* Events are served in order of deadline and then of source, events scheduled
\* by earlier callbacks of the same boundary included.
ServedInOrderStep ==
    running = LoopHead /\ running' \in Sources =>
      \A s \in PendingSources(slots) \ {running'} :
        Precedes(slots, running', s)

ServedInOrder == [][ServedInOrderStep]_vars

\* Every scheduled event comes to an end, also when guest exceptions interrupt
\* the boundaries that serve it, unless the runtime stops.
EventResolved ==
    \A s \in Sources : \A n \in 1 .. MaxSequence :
        (slots[s].pending /\ slots[s].sequence = n)
          ~> (stopRequested \/ ~ slots[s].pending \/ slots[s].sequence # n)
=============================================================================
