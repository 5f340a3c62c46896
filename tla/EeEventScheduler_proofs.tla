---------------------- MODULE EeEventScheduler_proofs ----------------------
(***************************************************************************)
(* Proofs about EeEventScheduler, for every number of sources, every width  *)
(* of the clock and every service limit.                                    *)
(***************************************************************************)
EXTENDS EeEventScheduler, FiniteSetTheorems, WellFoundedInduction, TLAPS

-----------------------------------------------------------------------------
(* The next event: recomputeNext finds the earliest one.                     *)

LEMMA LeastNatural ==
    ASSUME NEW T \in SUBSET Nat, T # {}
    PROVE  \E x \in T : \A y \in T : x <= y
  <1> DEFINE R == {pair \in Nat \X Nat : pair[1] < pair[2]}
  <1>1. IsWellFoundedOn(R, Nat)
    BY NatLessThanWellFounded DEF OpToRel
  <1>2. \A a, b \in Nat : a < b => <<a, b>> \in R
    OBVIOUS
  <1> HIDE DEF R
  <1>3. PICK x \in T : \A y \in T : ~ (<<y, x>> \in R)
    BY <1>1, WFMin
  <1>4. \A y \in T : ~ (y < x)
    BY <1>2, <1>3
  <1> QED BY <1>4

LEMMA SourcesAndTicks ==
    /\ Sources \subseteq Nat /\ 0 \in Sources
    /\ Ticks \subseteq Nat /\ MaxTick \in Ticks /\ 0 \in Ticks
    /\ LastSource \in Nat /\ MaxTick \in Nat
    /\ MaxGeneration \in Nat /\ MaxSequence \in Nat
  BY ConstantsAssumption DEF Sources, Ticks

LEMMA FirstExists ==
    ASSUME NEW sl \in [Sources -> Slots], PendingSources(sl) # {}
    PROVE  \E a \in PendingSources(sl) :
              \A b \in PendingSources(sl) \ {a} : Precedes(sl, a, b)
  <1> DEFINE P == PendingSources(sl)
             D == {sl[s].deadline : s \in P}
  <1>1. P \subseteq Sources /\ P # {}
    BY DEF PendingSources
  <1>2. \A s \in P : sl[s].deadline \in Nat /\ s \in Nat
    BY <1>1, SourcesAndTicks DEF Slots
  <1> HIDE DEF P
  <1>3. D \in SUBSET Nat /\ D # {}
    BY <1>1, <1>2
  <1>4. PICK d \in D : \A e \in D : d <= e
    BY <1>3, LeastNatural
  <1> DEFINE E == {s \in P : sl[s].deadline = d}
  <1>5. E \in SUBSET Nat /\ E # {}
    BY <1>2, <1>4
  <1>6. PICK a \in E : \A b \in E : a <= b
    BY <1>5, LeastNatural
  <1>7. ASSUME NEW b \in P \ {a} PROVE Precedes(sl, a, b)
    <2>1. sl[a].deadline = d /\ d <= sl[b].deadline
      BY <1>4, <1>6
    <2>2. sl[b].deadline = d => a <= b
      BY <1>6
    <2> QED BY <1>2, <1>6, <2>1, <2>2 DEF Precedes
  <1> QED BY <1>6, <1>7 DEF P

\* What the cache says of the slots.
Earliest(n, sl) ==
    /\ n \in [hasPending : BOOLEAN, deadline : Ticks, source : Sources]
    /\ n.hasPending <=> PendingSources(sl) # {}
    /\ n.hasPending =>
          /\ n.source \in PendingSources(sl)
          /\ n.deadline = sl[n.source].deadline
          /\ \A s \in PendingSources(sl) \ {n.source} : Precedes(sl, n.source, s)

LEMMA RecomputeFindsEarliest ==
    ASSUME NEW sl \in [Sources -> Slots]
    PROVE  Earliest(RecomputeNext(sl), sl)
  <1>1. CASE PendingSources(sl) = {}
    BY <1>1, SourcesAndTicks DEF Earliest, RecomputeNext
  <1>2. CASE PendingSources(sl) # {}
    <2> DEFINE first == CHOOSE a \in PendingSources(sl) :
                          \A b \in PendingSources(sl) \ {a} : Precedes(sl, a, b)
    <2>1. /\ first \in PendingSources(sl)
          /\ \A b \in PendingSources(sl) \ {first} : Precedes(sl, first, b)
      BY <1>2, FirstExists
    <2>2. RecomputeNext(sl) = [hasPending |-> TRUE, deadline |-> sl[first].deadline,
                               source |-> first]
      BY <1>2 DEF RecomputeNext
    <2>3. first \in Sources /\ sl[first].deadline \in Ticks
      BY <2>1 DEF PendingSources, Slots
    <2> HIDE DEF first
    <2> QED BY <1>2, <2>1, <2>2, <2>3 DEF Earliest
  <1> QED BY <1>1, <1>2

-----------------------------------------------------------------------------
(* The books: slots sl, sequence counter seq, statistics st and tokens tk,   *)
(* of the running machine or of a save state.                                *)

Balanced(sl, st) ==
    st.scheduled = st.replaced + st.cancelled + st.serviced
                     + Cardinality(PendingSources(sl))

Held(sl, tk) ==
    \A s \in Sources \ Untracked :
        tk[s] = IF sl[s].pending THEN sl[s].generation ELSE 0

Keyed(sl, seq) ==
    /\ \A s \in PendingSources(sl) : /\ sl[s].generation # 0
                                     /\ sl[s].sequence # 0
                                     /\ sl[s].sequence <= seq
    /\ \A a, b \in PendingSources(sl) : a # b => sl[a].sequence # sl[b].sequence

Good(sl, seq, st, tk) ==
    /\ sl \in [Sources -> Slots]
    /\ seq \in 0 .. MaxSequence
    /\ st \in Statistics
    /\ tk \in [Sources -> 0 .. MaxGeneration]
    /\ Balanced(sl, st)
    /\ Held(sl, tk)
    /\ Keyed(sl, seq)

LEMMA PendingFinite ==
    ASSUME NEW sl
    PROVE  /\ IsFiniteSet(PendingSources(sl))
           /\ Cardinality(PendingSources(sl)) \in Nat
  <1>1. IsFiniteSet(Sources)
    BY FS_Interval, SourcesAndTicks DEF Sources
  <1>2. PendingSources(sl) \subseteq Sources
    BY DEF PendingSources
  <1> QED BY <1>1, <1>2, FS_Subset, FS_CardinalityType

\* A new event of s, which replaces the one pending.
LEMMA ScheduleGood ==
    ASSUME NEW sl, NEW seq, NEW st, NEW tk, Good(sl, seq, st, tk),
           NEW s \in Sources, NEW r \in Slots, NEW st2 \in Statistics, NEW tk2,
           r.pending, r.generation # 0, r.sequence = seq + 1, seq < MaxSequence,
           st2.scheduled = st.scheduled + 1,
           st2.replaced = IF sl[s].pending THEN st.replaced + 1 ELSE st.replaced,
           st2.cancelled = st.cancelled,
           st2.serviced = st.serviced,
           tk2 = IF s \in Untracked THEN tk ELSE [tk EXCEPT ![s] = r.generation]
    PROVE  Good([sl EXCEPT ![s] = r], seq + 1, st2, tk2)
  <1> DEFINE sl2 == [sl EXCEPT ![s] = r]
             P == PendingSources(sl)
  <1>1. sl2 \in [Sources -> Slots] /\ seq + 1 \in 0 .. MaxSequence
    BY SourcesAndTicks DEF Good
  <1>2. tk2 \in [Sources -> 0 .. MaxGeneration]
    BY DEF Good, Slots
  <1>3. PendingSources(sl2) = P \cup {s}
    BY DEF PendingSources, Good
  <1>4. Balanced(sl2, st2)
    <2>1. Cardinality(P \cup {s}) = IF s \in P THEN Cardinality(P)
                                             ELSE Cardinality(P) + 1
      BY PendingFinite, FS_AddElement
    <2>2. s \in P <=> sl[s].pending
      BY DEF PendingSources
    <2>3. /\ st.scheduled \in Nat /\ st.replaced \in Nat
          /\ st.cancelled \in Nat /\ st.serviced \in Nat
          /\ Cardinality(P) \in Nat
      BY PendingFinite DEF Good, Statistics
    <2>4. st.scheduled = st.replaced + st.cancelled + st.serviced + Cardinality(P)
      BY DEF Good, Balanced
    <2>5. Cardinality(PendingSources(sl2))
            = IF sl[s].pending THEN Cardinality(P) ELSE Cardinality(P) + 1
      BY <1>3, <2>1, <2>2
    <2> HIDE DEF P, sl2
    <2> QED BY <2>3, <2>4, <2>5 DEF Balanced
  <1>5. Held(sl2, tk2)
    BY DEF Held, Good
  <1>6. Keyed(sl2, seq + 1)
    <2>1. /\ \A a \in P : /\ sl[a].generation # 0 /\ sl[a].sequence # 0
                          /\ sl[a].sequence <= seq /\ sl[a].sequence \in Nat
          /\ \A a, b \in P : a # b => sl[a].sequence # sl[b].sequence
      BY SourcesAndTicks DEF Good, Keyed, Slots, PendingSources
    <2>2. /\ \A a \in P \ {s} : sl2[a] = sl[a]
          /\ sl2[s] = r /\ seq \in Nat
      BY SourcesAndTicks DEF PendingSources, Good
    <2> HIDE DEF P, sl2
    <2> QED BY <1>3, <2>1, <2>2 DEF Keyed
  <1> QED BY <1>1, <1>2, <1>4, <1>5, <1>6 DEF Good

\* The pending event of s is cancelled or serviced.
LEMMA ClearGood ==
    ASSUME NEW sl, NEW seq, NEW st, NEW tk, Good(sl, seq, st, tk),
           NEW s \in Sources, NEW r \in Slots, NEW st2 \in Statistics,
           NEW tk2 \in [Sources -> 0 .. MaxGeneration],
           sl[s].pending, ~ r.pending,
           st2.scheduled = st.scheduled,
           st2.replaced = st.replaced,
           st2.cancelled + st2.serviced = st.cancelled + st.serviced + 1,
           s \notin Untracked => tk2[s] = 0,
           \A u \in Sources \ {s} : tk2[u] = tk[u]
    PROVE  Good([sl EXCEPT ![s] = r], seq, st2, tk2)
  <1> DEFINE sl2 == [sl EXCEPT ![s] = r]
             P == PendingSources(sl)
  <1>1. sl2 \in [Sources -> Slots]
    BY DEF Good
  <1>2. PendingSources(sl2) = P \ {s} /\ s \in P
    BY DEF PendingSources, Good
  <1>3. Balanced(sl2, st2)
    <2>1. Cardinality(P \ {s}) = Cardinality(P) - 1
      BY <1>2, PendingFinite, FS_RemoveElement
    <2>2. /\ st.scheduled \in Nat /\ st.replaced \in Nat
          /\ st.cancelled \in Nat /\ st.serviced \in Nat
          /\ st2.cancelled \in Nat /\ st2.serviced \in Nat
          /\ Cardinality(P) \in Nat
      BY PendingFinite DEF Good, Statistics
    <2>3. st.scheduled = st.replaced + st.cancelled + st.serviced + Cardinality(P)
      BY DEF Good, Balanced
    <2>4. Cardinality(PendingSources(sl2)) = Cardinality(P) - 1
      BY <1>2, <2>1
    <2> HIDE DEF P, sl2
    <2> QED BY <2>2, <2>3, <2>4 DEF Balanced
  <1>4. Held(sl2, tk2)
    BY DEF Held, Good
  <1>5. Keyed(sl2, seq)
    <2>1. \A a \in P \ {s} : sl2[a] = sl[a]
      BY DEF PendingSources, Good
    <2>2. Keyed(sl, seq)
      BY DEF Good
    <2> HIDE DEF sl2
    <2> QED BY <1>2, <2>1, <2>2 DEF Keyed
  <1> QED BY <1>1, <1>3, <1>4, <1>5 DEF Good

-----------------------------------------------------------------------------
(* The inductive invariant.  Beside the books of the machine and of the last *)
(* save state it says that the cache is what a fresh scan would give, and    *)
(* that the watched token is not younger than the slot it names.             *)

Books == Good(slots, nextSequence, statistics, tokens)

SavedBooks ==
    /\ Good(saved.slots, saved.nextSequence, saved.statistics, saved.tokens)
    /\ saved.now \in Ticks

WatchedIsOld ==
    /\ watched \in [source : Sources, generation : 0 .. MaxGeneration,
                    live : BOOLEAN]
    /\ watched.generation <= slots[watched.source].generation
    /\ StaleTokenNeverMatches

Core == Books /\ next = RecomputeNext(slots) /\ WatchedIsOld

ServiceTypes ==
    /\ servicing \in BOOLEAN
    /\ serviceTick \in Ticks
    /\ serviced \in 0 .. MaximumServices
    /\ running \in Sources \cup {NoService, LoopHead}
    /\ running \in Sources => serviced < MaximumServices
    /\ now \in Ticks
    /\ stopRequested \in BOOLEAN
    /\ loads \in 0 .. MaxLoads

IInv == Core /\ SavedBooks /\ ServiceTypes

LEMMA InitIInv == Init => IInv
  <1> SUFFICES ASSUME Init PROVE IInv
    OBVIOUS
  <1>1. PendingSources(slots) = {}
    BY DEF Init, PendingSources, IdleSlot
  <1>2. slots \in [Sources -> Slots]
    BY SourcesAndTicks DEF Init, Slots, IdleSlot
  <1>3. Good(slots, nextSequence, statistics, tokens)
    <2>1. Balanced(slots, statistics)
      BY <1>1, FS_EmptySet DEF Init, Balanced, ZeroStatistics
    <2>2. statistics \in Statistics
      BY DEF Init, ZeroStatistics, Statistics
    <2>3. Held(slots, tokens)
      BY DEF Init, Held, IdleSlot, NoTokens
    <2>4. Keyed(slots, nextSequence)
      BY <1>1 DEF Keyed
    <2> QED BY <1>2, <2>1, <2>2, <2>3, <2>4, SourcesAndTicks
            DEF Init, Good, NoTokens
  <1>4. SavedBooks
    BY <1>3, SourcesAndTicks DEF Init, SavedBooks, Snapshot
  <1>5. WatchedIsOld
    BY <1>2, SourcesAndTicks
    DEF Init, WatchedIsOld, StaleTokenNeverMatches, NoToken, IdleSlot, Slots
  <1>6. ServiceTypes
    <2>1. 0 \in 0 .. MaximumServices /\ 0 \in 0 .. MaxLoads
      BY ConstantsAssumption
    <2>2. NoService \notin Sources
      BY ConstantsAssumption
    <2> QED BY <2>1, <2>2, SourcesAndTicks DEF Init, ServiceTypes
  <1> QED BY <1>3, <1>4, <1>5, <1>6 DEF IInv, Core, Books, Init

LEMMA SlotType ==
    ASSUME IInv, NEW s \in Sources
    PROVE  /\ slots \in [Sources -> Slots]
           /\ slots[s].generation \in Nat /\ slots[s].generation <= MaxGeneration
           /\ slots[s] \in Slots
           /\ slots[s].pending \in BOOLEAN
           /\ slots[s].deadline \in Ticks
           /\ slots[s].sequence \in 0 .. MaxSequence
           /\ nextSequence \in Nat
           /\ statistics \in Statistics
           /\ tokens \in [Sources -> 0 .. MaxGeneration]
  BY SourcesAndTicks DEF IInv, Core, Books, Good, Slots

\* A slot that moves on to a later generation, or is no longer pending, leaves
\* the watched token behind.
LEMMA WatchedStep ==
    ASSUME IInv, NEW s \in Sources, NEW r \in Slots,
           slots' = [slots EXCEPT ![s] = r],
           slots[s].generation <= r.generation,
           r.pending => slots[s].generation < r.generation,
           watched' = Ended(s)
    PROVE  WatchedIsOld'
  <1>1. /\ watched \in [source : Sources, generation : 0 .. MaxGeneration,
                        live : BOOLEAN]
        /\ watched.generation <= slots[watched.source].generation
        /\ StaleTokenNeverMatches
    BY DEF IInv, Core, WatchedIsOld
  <1>2. /\ watched' \in [source : Sources, generation : 0 .. MaxGeneration,
                         live : BOOLEAN]
        /\ watched'.source = watched.source
        /\ watched'.generation = watched.generation
        /\ watched'.live = (watched.live /\ watched.source # s)
    BY <1>1 DEF Ended
  <1>3. /\ watched.generation \in Nat /\ r.generation \in Nat
        /\ slots[s].generation \in Nat /\ slots \in [Sources -> Slots]
    BY <1>1, SlotType, SourcesAndTicks DEF Slots
  <1>4. CASE watched.source = s
    BY <1>1, <1>2, <1>3, <1>4 DEF WatchedIsOld, StaleTokenNeverMatches
  <1>5. CASE watched.source # s
    BY <1>1, <1>2, <1>3, <1>5 DEF WatchedIsOld, StaleTokenNeverMatches
  <1> QED BY <1>4, <1>5

LEMMA ScheduleStep ==
    ASSUME IInv, NEW s \in Sources, NEW deadline \in Ticks,
           ScheduleAbsolute(s, deadline)
    PROVE  Core'
  <1> DEFINE r == [deadline |-> deadline, generation |-> slots[s].generation + 1,
                   sequence |-> nextSequence + 1, pending |-> TRUE]
  <1>1. slots[s].generation < MaxGeneration /\ nextSequence < MaxSequence
    BY DEF ScheduleAbsolute, Numbered
  <1>2. /\ r \in Slots /\ r.pending /\ r.generation # 0
        /\ r.sequence = nextSequence + 1
        /\ r.generation = slots[s].generation + 1
    BY <1>1, SlotType, SourcesAndTicks DEF Slots
  <1>3. /\ slots' = [slots EXCEPT ![s] = r]
        /\ nextSequence' = nextSequence + 1
        /\ next' = RecomputeNext(slots')
        /\ tokens' = IF s \in Untracked THEN tokens
                     ELSE [tokens EXCEPT ![s] = r.generation]
        /\ \/ watched' = [source |-> s, generation |-> r.generation, live |-> TRUE]
           \/ watched' = Ended(s)
    BY <1>2 DEF ScheduleAbsolute
  <1>4. /\ statistics' \in Statistics
        /\ statistics'.scheduled = statistics.scheduled + 1
        /\ statistics'.replaced = IF slots[s].pending THEN statistics.replaced + 1
                                  ELSE statistics.replaced
        /\ statistics'.cancelled = statistics.cancelled
        /\ statistics'.serviced = statistics.serviced
    <2> DEFINE more == IF slots[s].pending THEN statistics.replaced + 1
                                           ELSE statistics.replaced
               same == IF servicing /\ deadline <= serviceTick
                       THEN statistics.sameTickReschedules + 1
                       ELSE statistics.sameTickReschedules
    <2>1. statistics \in Statistics
      BY SlotType
    <2>2. more \in Nat /\ same \in Nat
      BY <2>1 DEF Statistics
    <2>3. statistics' = [statistics EXCEPT !.scheduled = @ + 1, !.replaced = more,
                                           !.sameTickReschedules = same]
      BY <2>1 DEF ScheduleAbsolute, Statistics
    <2> HIDE DEF more, same
    <2>4. /\ statistics' \in Statistics
          /\ statistics'.scheduled = statistics.scheduled + 1
          /\ statistics'.replaced = more
          /\ statistics'.cancelled = statistics.cancelled
          /\ statistics'.serviced = statistics.serviced
      <3>1. statistics' = [scheduled |-> statistics.scheduled + 1,
                           replaced |-> more, cancelled |-> statistics.cancelled,
                           serviced |-> statistics.serviced,
                           sameTickReschedules |-> same]
        BY <2>1, <2>3 DEF Statistics
      <3> QED BY <2>1, <2>2, <3>1 DEF Statistics
    <2> QED BY <2>4 DEF more
  <1> HIDE DEF r
  <1>5. Books'
    BY <1>1, <1>2, <1>3, <1>4, ScheduleGood DEF IInv, Core, Books
  <1>6. WatchedIsOld'
    <2>1. CASE watched' = Ended(s)
      <3>1. slots[s].generation < r.generation /\ slots[s].generation <= r.generation
        BY <1>2, SlotType
      <3> QED BY <1>2, <1>3, <2>1, <3>1, WatchedStep
    <2>2. CASE watched' = [source |-> s, generation |-> r.generation, live |-> TRUE]
      BY <1>2, <1>3, <2>2, SlotType, SourcesAndTicks
      DEF WatchedIsOld, StaleTokenNeverMatches, Slots
    <2> QED BY <1>3, <2>1, <2>2
  <1> QED BY <1>3, <1>5, <1>6 DEF Core

LEMMA CancelStep ==
    ASSUME IInv, NEW s \in Sources, Cancel(s), tokens' = [tokens EXCEPT ![s] = 0]
    PROVE  Core'
  <1> DEFINE r == [slots[s] EXCEPT !.pending = FALSE, !.generation = @ + 1]
  <1>1. slots[s].pending /\ slots[s].generation < MaxGeneration
    BY DEF Cancel
  <1>2. r \in Slots /\ ~ r.pending /\ r.generation = slots[s].generation + 1
    <2>1. /\ slots[s] \in Slots
          /\ slots[s].generation + 1 \in 0 .. MaxGeneration
      BY <1>1, SlotType, SourcesAndTicks
    <2> QED BY <2>1 DEF Slots
  <1>3. /\ slots' = [slots EXCEPT ![s] = r]
        /\ nextSequence' = nextSequence
        /\ next' = RecomputeNext(slots')
        /\ watched' = Ended(s)
    BY SlotType DEF Cancel
  <1>4. /\ statistics' \in Statistics
        /\ statistics'.scheduled = statistics.scheduled
        /\ statistics'.replaced = statistics.replaced
        /\ statistics'.cancelled + statistics'.serviced
             = statistics.cancelled + statistics.serviced + 1
    <2>1. statistics \in Statistics
      BY SlotType
    <2>2. statistics' = [statistics EXCEPT !.cancelled = @ + 1]
      BY DEF Cancel
    <2> QED BY <2>1, <2>2 DEF Statistics
  <1>5. /\ tokens' \in [Sources -> 0 .. MaxGeneration]
        /\ tokens'[s] = 0 /\ \A u \in Sources \ {s} : tokens'[u] = tokens[u]
    BY SlotType, SourcesAndTicks
  <1> HIDE DEF r
  <1>6. Books'
    BY <1>1, <1>2, <1>3, <1>4, <1>5, ClearGood DEF IInv, Core, Books
  <1>7. WatchedIsOld'
    <2>1. slots[s].generation < r.generation /\ slots[s].generation <= r.generation
      BY <1>2, SlotType
    <2> QED BY <1>2, <1>3, <2>1, WatchedStep
  <1> QED BY <1>3, <1>6, <1>7 DEF Core

LEMMA CoreFrame ==
    ASSUME IInv, UNCHANGED <<slots, next, nextSequence, statistics, tokens, watched>>
    PROVE  Core'
  BY DEF IInv, Core, Books, WatchedIsOld, StaleTokenNeverMatches

\* The operations of devices leave the service loop and the save state alone.
LEMMA RestFrame ==
    ASSUME IInv, UNCHANGED <<serviceVars, now, stopRequested, saved, loads>>
    PROVE  SavedBooks' /\ ServiceTypes'
  BY DEF IInv, SavedBooks, ServiceTypes, serviceVars

LEMMA DeviceScheduleStep ==
    ASSUME IInv, NEW s \in Sources, NEW deadline \in Ticks,
           DeviceSchedule(s, deadline)
    PROVE  IInv'
  BY ScheduleStep, RestFrame DEF DeviceSchedule, IInv

LEMMA DeviceRefreshStep ==
    ASSUME IInv, NEW s \in Sources, NEW deadline \in Ticks,
           DeviceRefresh(s, deadline)
    PROVE  IInv'
  <1>1. SavedBooks' /\ ServiceTypes'
    BY RestFrame DEF DeviceRefresh
  <1>2. CASE slots[s].pending /\ slots[s].deadline = deadline
    <2>1. /\ s \notin Untracked
          /\ tokens' = [tokens EXCEPT ![s] = slots[s].generation]
          /\ UNCHANGED <<slots, next, nextSequence, statistics, watched>>
      BY <1>2 DEF DeviceRefresh, schedulerVars
    <2>2. tokens[s] = slots[s].generation
      BY <1>2, <2>1 DEF IInv, Core, Books, Good, Held
    <2>3. tokens' = tokens
      BY <2>1, <2>2, SlotType
    <2> QED BY <1>1, <2>1, <2>3, CoreFrame DEF IInv
  <1>3. CASE ~ (slots[s].pending /\ slots[s].deadline = deadline)
    BY <1>1, <1>3, ScheduleStep DEF DeviceRefresh, IInv
  <1> QED BY <1>2, <1>3

LEMMA DeviceCancelStep ==
    ASSUME IInv, NEW s \in Sources, DeviceCancel(s)
    PROVE  IInv'
  <1>1. SavedBooks' /\ ServiceTypes'
    BY RestFrame DEF DeviceCancel
  <1>2. CASE slots[s].generation = tokens[s] /\ slots[s].pending
    BY <1>1, <1>2, CancelStep DEF DeviceCancel, IInv
  <1>3. CASE ~ (slots[s].generation = tokens[s] /\ slots[s].pending)
    <2>1. /\ tokens[s] # 0
          /\ tokens' = [tokens EXCEPT ![s] = 0]
          /\ UNCHANGED <<slots, next, nextSequence, statistics, watched>>
      BY <1>3 DEF DeviceCancel, schedulerVars
    <2>2. s \in Untracked
      BY <1>3, <2>1 DEF IInv, Core, Books, Good, Held
    <2>3. /\ tokens' \in [Sources -> 0 .. MaxGeneration]
          /\ \A u \in Sources \ Untracked : tokens'[u] = tokens[u]
      BY <2>1, <2>2, SlotType, SourcesAndTicks
    <2>4. Books'
      BY <2>1, <2>3 DEF IInv, Core, Books, Good, Held
    <2> QED BY <1>1, <2>1, <2>4
            DEF IInv, Core, WatchedIsOld, StaleTokenNeverMatches
  <1> QED BY <1>2, <1>3

LEMMA DeviceCancelSourceStep ==
    ASSUME IInv, NEW s \in Sources, DeviceCancelSource(s)
    PROVE  IInv'
  BY CancelStep, RestFrame DEF DeviceCancelSource, IInv

LEMMA AdvanceStep ==
    ASSUME IInv, NEW elapsed \in Ticks \ {0}, Advance(elapsed)
    PROVE  IInv'
  <1>1. Core' /\ SavedBooks'
    BY CoreFrame DEF Advance, IInv, SavedBooks, schedulerVars
  <1>2. SaturatingAdd(now, elapsed) \in Ticks
    BY ConstantsAssumption DEF IInv, ServiceTypes, SaturatingAdd, Ticks
  <1> QED BY <1>1, <1>2 DEF Advance, IInv, ServiceTypes, serviceVars

LEMMA BeginStep ==
    ASSUME IInv, BeginService
    PROVE  IInv'
  <1>1. Core' /\ SavedBooks'
    BY CoreFrame DEF BeginService, IInv, SavedBooks, schedulerVars
  <1>2. 0 \in 0 .. MaximumServices /\ LoopHead \notin Sources
    BY ConstantsAssumption
  <1> QED BY <1>1, <1>2 DEF BeginService, IInv, ServiceTypes

\* What is due is the cached event.
LEMMA DueIsPending ==
    ASSUME IInv, NEW tick, DeadlineDue(tick)
    PROVE  next.source \in Sources /\ slots[next.source].pending
  BY SlotType, SourcesAndTicks, RecomputeFindsEarliest
  DEF IInv, Core, Books, Good, DeadlineDue, Earliest, PendingSources

LEMMA TakeStep ==
    ASSUME IInv, TakeNextDue
    PROVE  IInv'
  <1> DEFINE s == next.source
             r == [slots[s] EXCEPT !.pending = FALSE]
  <1>1. s \in Sources /\ slots[s].pending
    BY DueIsPending DEF TakeNextDue
  <1>2. slots[s] \in Slots /\ slots[s].generation \in Nat
    BY <1>1, SlotType
  <1>3. r \in Slots /\ ~ r.pending /\ r.generation = slots[s].generation
    BY <1>2 DEF Slots
  <1>4. /\ slots' = [slots EXCEPT ![s] = r]
        /\ next' = RecomputeNext(slots')
        /\ nextSequence' = nextSequence
        /\ watched' = Ended(s)
    BY <1>1, SlotType DEF TakeNextDue
  <1>5. /\ statistics' \in Statistics
        /\ statistics'.scheduled = statistics.scheduled
        /\ statistics'.replaced = statistics.replaced
        /\ statistics'.cancelled + statistics'.serviced
             = statistics.cancelled + statistics.serviced + 1
    BY <1>1, SlotType, SMTT(60) DEF TakeNextDue, Statistics
  <1>6. /\ tokens' \in [Sources -> 0 .. MaxGeneration]
        /\ s \notin Untracked => tokens'[s] = 0
        /\ \A u \in Sources \ {s} : tokens'[u] = tokens[u]
    <2>1. tokens \in [Sources -> 0 .. MaxGeneration] /\ 0 \in 0 .. MaxGeneration
      BY <1>1, SlotType, SourcesAndTicks
    <2>2. s \notin Untracked => tokens[s] = slots[s].generation
      BY <1>1 DEF IInv, Core, Books, Good, Held
    <2>3. tokens' = IF slots[s].generation = tokens[s]
                    THEN [tokens EXCEPT ![s] = 0] ELSE tokens
      BY DEF TakeNextDue
    <2> QED BY <1>1, <2>1, <2>2, <2>3
  <1>7. SavedBooks' /\ ServiceTypes'
    BY <1>1 DEF TakeNextDue, IInv, SavedBooks, ServiceTypes
  <1>8. slots[s].generation <= r.generation
    BY <1>2, <1>3
  <1> HIDE DEF s, r
  <1>9. Books'
    BY <1>1, <1>3, <1>4, <1>5, <1>6, ClearGood DEF IInv, Core, Books
  <1>10. WatchedIsOld'
    BY <1>1, <1>3, <1>4, <1>8, WatchedStep
  <1> QED BY <1>4, <1>7, <1>9, <1>10 DEF IInv, Core

LEMMA ReturnStep ==
    ASSUME IInv, VisitorReturns
    PROVE  IInv'
  <1>1. Core' /\ SavedBooks'
    BY CoreFrame DEF VisitorReturns, IInv, SavedBooks, schedulerVars
  <1>2. serviced + 1 \in 0 .. MaximumServices /\ LoopHead \notin Sources
    BY ConstantsAssumption DEF VisitorReturns, IInv, ServiceTypes
  <1> QED BY <1>1, <1>2 DEF VisitorReturns, IInv, ServiceTypes

LEMMA ThrowStep ==
    ASSUME IInv, VisitorThrows
    PROVE  IInv'
  <1>1. Core' /\ SavedBooks'
    BY CoreFrame DEF VisitorThrows, IInv, SavedBooks, schedulerVars
  <1> QED BY <1>1, ConstantsAssumption DEF VisitorThrows, IInv, ServiceTypes

LEMMA EndStep ==
    ASSUME IInv, EndService
    PROVE  IInv'
  <1>1. Core' /\ SavedBooks'
    BY CoreFrame DEF EndService, IInv, SavedBooks, schedulerVars
  <1>2. DeadlineDue(serviceTick) \in BOOLEAN
    BY SlotType, SourcesAndTicks, RecomputeFindsEarliest
    DEF DeadlineDue, IInv, Core, Books, Good, Earliest
  <1> QED BY <1>1, <1>2, ConstantsAssumption DEF EndService, IInv, ServiceTypes

LEMMA SaveStep ==
    ASSUME IInv, SaveState
    PROVE  IInv'
  <1>1. Core'
    BY CoreFrame DEF SaveState, schedulerVars
  <1>2. SavedBooks'
    BY DEF SaveState, Snapshot, SavedBooks, IInv, Core, Books, ServiceTypes
  <1> QED BY <1>1, <1>2 DEF SaveState, IInv, ServiceTypes, serviceVars

-----------------------------------------------------------------------------
(* reset() numbers the sources it arms from 1 on, in their own order.        *)

Rank(sources, s) == Cardinality({r \in sources : r <= s})

LEMMA RanksOrdered ==
    ASSUME NEW sources \in SUBSET Sources
    PROVE  /\ IsFiniteSet(sources) /\ Cardinality(sources) \in Nat
           /\ \A s \in sources : /\ Rank(sources, s) \in Nat \ {0}
                                 /\ Rank(sources, s) <= Cardinality(sources)
           /\ \A a, b \in sources :
                 a # b => Rank(sources, a) # Rank(sources, b)
  <1> DEFINE Upto(s) == {r \in sources : r <= s}
  <1>1. IsFiniteSet(Sources)
    BY FS_Interval, SourcesAndTicks DEF Sources
  <1>2. IsFiniteSet(sources) /\ Cardinality(sources) \in Nat
    BY <1>1, FS_Subset, FS_CardinalityType
  <1>3. \A s \in sources : Upto(s) \in SUBSET sources
    OBVIOUS
  <1>4. \A s \in sources : /\ IsFiniteSet(Upto(s))
                           /\ Cardinality(Upto(s)) \in Nat
                           /\ Cardinality(Upto(s)) <= Cardinality(sources)
    BY <1>2, <1>3, FS_Subset, FS_CardinalityType
  <1>5. \A s \in sources : s \in Upto(s)
    BY SourcesAndTicks
  <1>6. \A s \in sources : Cardinality(Upto(s)) # 0
    BY <1>4, <1>5, FS_EmptySet
  <1>7. ASSUME NEW a \in sources, NEW b \in sources, a < b
        PROVE  Cardinality(Upto(a)) # Cardinality(Upto(b))
    <2>1. a \in Nat /\ b \in Nat
      BY SourcesAndTicks
    <2>2. Upto(a) \in SUBSET Upto(b)
      <3>1. \A r \in sources : r \in Nat
        BY SourcesAndTicks
      <3>2. \A r \in sources : r <= a => r <= b
        BY <1>7, <2>1, <3>1
      <3> QED BY <3>2
    <2>3. Upto(a) # Upto(b)
      BY <1>5, <1>7, <2>1
    <2> HIDE DEF Upto
    <2> QED BY <1>4, <2>2, <2>3, FS_Subset
  <1>8. \A a, b \in sources : a # b => a < b \/ b < a
    BY SourcesAndTicks
  <1> QED BY <1>2, <1>4, <1>6, <1>7, <1>8 DEF Rank

LEMMA ResetStep ==
    ASSUME IInv, NEW sources \in SUBSET Sources, NEW rearmed \in [sources -> Ticks],
           Reset(rearmed)
    PROVE  IInv'
  <1> DEFINE cleared(s) == slots[s].generation
                             + IF tokens[s] # 0 /\ slots[s].pending THEN 2 ELSE 1
  <1>1. /\ DOMAIN rearmed = sources
        /\ Cardinality(sources) <= MaxSequence
        /\ \A s \in Sources : cleared(s) < MaxGeneration
        /\ slots' = [s \in Sources |->
              IF s \in sources
              THEN [deadline |-> rearmed[s], generation |-> cleared(s) + 1,
                    sequence |-> Rank(sources, s), pending |-> TRUE]
              ELSE IdleSlot(cleared(s))]
        /\ nextSequence' = Cardinality(sources)
        /\ next' = RecomputeNext(slots')
        /\ statistics' = [ZeroStatistics EXCEPT !.scheduled = Cardinality(sources)]
        /\ serviceTick' = 0 /\ now' = 0
        /\ tokens' = [s \in Sources |->
              IF s \in sources \ Untracked THEN slots'[s].generation ELSE 0]
        /\ watched' = [watched EXCEPT !.live = FALSE]
        /\ UNCHANGED <<servicing, serviced, running, stopRequested, saved, loads>>
    BY DEF Reset, Rank
  <1>2. \A s \in Sources : /\ cleared(s) \in Nat /\ cleared(s) + 1 \in Nat
                           /\ cleared(s) + 1 <= MaxGeneration
                           /\ slots[s].generation < cleared(s)
    BY <1>1, SlotType, SourcesAndTicks
  <1> HIDE DEF cleared
  <1>3. \A s \in Sources :
           /\ slots'[s].generation
                = IF s \in sources THEN cleared(s) + 1 ELSE cleared(s)
           /\ slots'[s].pending <=> s \in sources
           /\ slots'[s].sequence = IF s \in sources THEN Rank(sources, s) ELSE 0
           /\ slots'[s].deadline = IF s \in sources THEN rearmed[s] ELSE 0
           /\ slots'[s] \in [deadline : Ticks, generation : 0 .. MaxGeneration,
                             sequence : 0 .. MaxSequence, pending : BOOLEAN]
    <2> SUFFICES ASSUME NEW s \in Sources
                 PROVE  /\ slots'[s].generation
                             = IF s \in sources THEN cleared(s) + 1 ELSE cleared(s)
                        /\ slots'[s].pending <=> s \in sources
                        /\ slots'[s].sequence
                             = IF s \in sources THEN Rank(sources, s) ELSE 0
                        /\ slots'[s].deadline
                             = IF s \in sources THEN rearmed[s] ELSE 0
                        /\ slots'[s] \in [deadline : Ticks,
                                          generation : 0 .. MaxGeneration,
                                          sequence : 0 .. MaxSequence,
                                          pending : BOOLEAN]
      OBVIOUS
    <2>1. CASE s \in sources
      <3>1. slots'[s] = [deadline |-> rearmed[s], generation |-> cleared(s) + 1,
                         sequence |-> Rank(sources, s), pending |-> TRUE]
        BY <1>1, <2>1
      <3>2. /\ rearmed[s] \in Ticks
            /\ cleared(s) + 1 \in 0 .. MaxGeneration
            /\ Rank(sources, s) \in 0 .. MaxSequence
        BY <1>1, <1>2, <2>1, RanksOrdered, SourcesAndTicks
      <3> QED BY <2>1, <3>1, <3>2
    <2>2. CASE s \notin sources
      <3>1. slots'[s] = IdleSlot(cleared(s))
        BY <1>1, <2>2
      <3>2. cleared(s) \in 0 .. MaxGeneration /\ 0 \in Ticks /\ 0 \in 0 .. MaxSequence
        BY <1>1, <1>2, SourcesAndTicks
      <3> QED BY <2>2, <3>1, <3>2 DEF IdleSlot
    <2> QED BY <2>1, <2>2
  <1>4. slots' \in [Sources -> Slots]
    BY <1>1, <1>3 DEF Slots
  <1>5. PendingSources(slots') = sources
    BY <1>3 DEF PendingSources
  <1>6. Books'
    <2>1. nextSequence' \in 0 .. MaxSequence
      BY <1>1, RanksOrdered, SourcesAndTicks
    <2>2. statistics' \in Statistics /\ Balanced(slots', statistics')
      <3>1. statistics' = [scheduled |-> Cardinality(sources), replaced |-> 0,
                           cancelled |-> 0, serviced |-> 0,
                           sameTickReschedules |-> 0]
        BY <1>1 DEF ZeroStatistics
      <3> QED BY <1>5, <3>1, RanksOrdered DEF Statistics, Balanced
    <2>3. tokens' \in [Sources -> 0 .. MaxGeneration]
      BY <1>1, <1>3, SourcesAndTicks
    <2>4. Held(slots', tokens')
      BY <1>1, <1>3 DEF Held
    <2>5. Keyed(slots', nextSequence')
      <3>1. \A s \in sources : /\ slots'[s].generation # 0
                               /\ slots'[s].sequence = Rank(sources, s)
        BY <1>2, <1>3
      <3>2. /\ \A s \in sources : Rank(sources, s) # 0
                                  /\ Rank(sources, s) <= nextSequence'
            /\ \A a, b \in sources : a # b => Rank(sources, a) # Rank(sources, b)
        BY <1>1, RanksOrdered
      <3> QED BY <1>5, <3>1, <3>2 DEF Keyed
    <2> QED BY <1>4, <2>1, <2>2, <2>3, <2>4, <2>5 DEF Books, Good
  <1>7. WatchedIsOld'
    <2>1. /\ watched \in [source : Sources, generation : 0 .. MaxGeneration,
                          live : BOOLEAN]
          /\ watched.generation <= slots[watched.source].generation
      BY DEF IInv, Core, WatchedIsOld
    <2>2. /\ watched.source \in Sources
          /\ watched.generation \in Nat
          /\ slots[watched.source].generation \in Nat
      <3>1. watched.source \in Sources /\ watched.generation \in 0 .. MaxGeneration
        BY <2>1
      <3>2. slots[watched.source].generation \in Nat
        BY <3>1, SlotType
      <3> QED BY <3>1, <3>2, SourcesAndTicks
    <2>3. watched.generation < slots'[watched.source].generation
      BY <1>2, <1>3, <2>1, <2>2
    <2>4. slots'[watched.source].generation \in Nat
      BY <1>2, <1>3, <2>2
    <2>5. /\ watched' \in [source : Sources, generation : 0 .. MaxGeneration,
                           live : BOOLEAN]
          /\ watched'.source = watched.source
          /\ watched'.generation = watched.generation
      BY <1>1, <2>1
    <2> QED BY <2>2, <2>3, <2>4, <2>5 DEF WatchedIsOld, StaleTokenNeverMatches
  <1>8. SavedBooks' /\ ServiceTypes'
    BY <1>1, SourcesAndTicks DEF IInv, SavedBooks, ServiceTypes
  <1> QED BY <1>1, <1>6, <1>7, <1>8 DEF IInv, Core

-----------------------------------------------------------------------------
(* Loading a state drops the events whose work it does not contain.          *)

LEMMA LoadsType ==
    ASSUME IInv
    PROVE  loads \in Nat /\ MaxLoads \in Nat /\ loads <= MaxLoads
  <1>1. loads \in 0 .. MaxLoads
    BY DEF IInv, ServiceTypes
  <1> QED BY <1>1, ConstantsAssumption

LEMMA LoadStep ==
    ASSUME IInv, LoadState
    PROVE  IInv'
  <1> DEFINE sl == saved.slots
             dropped == {s \in Discarded : sl[s].pending}
  <1>1. /\ loads < MaxLoads
        /\ \A s \in dropped : sl[s].generation < MaxGeneration
        /\ slots' = [s \in Sources |->
              IF s \in dropped
              THEN [sl[s] EXCEPT !.pending = FALSE, !.generation = @ + 1]
              ELSE sl[s]]
        /\ next' = RecomputeNext(slots')
        /\ nextSequence' = saved.nextSequence
        /\ statistics' = [saved.statistics EXCEPT
                            !.cancelled = @ + Cardinality(dropped)]
        /\ now' = saved.now
        /\ tokens' = [s \in Sources |->
              IF s \in Discarded THEN 0 ELSE saved.tokens[s]]
        /\ servicing' = FALSE /\ serviceTick' = 0 /\ serviced' = 0
        /\ running' = NoService /\ stopRequested' = FALSE
        /\ loads' = loads + 1
        /\ watched' = NoToken
        /\ saved' = saved
    BY DEF LoadState
  <1>2. /\ sl \in [Sources -> Slots]
        /\ saved.nextSequence \in 0 .. MaxSequence
        /\ saved.statistics \in Statistics
        /\ saved.tokens \in [Sources -> 0 .. MaxGeneration]
        /\ Balanced(sl, saved.statistics)
        /\ Held(sl, saved.tokens)
        /\ Keyed(sl, saved.nextSequence)
    BY DEF IInv, SavedBooks, Good
  <1>3. dropped \subseteq PendingSources(sl)
    BY ConstantsAssumption DEF PendingSources
  <1>4. \A s \in Sources : s \in dropped => s \in Discarded /\ sl[s].pending
    OBVIOUS
  <1>5. \A s \in Sources \ dropped : s \in Discarded => ~ sl[s].pending
    OBVIOUS
  <1> HIDE DEF sl, dropped
  <1>6. ASSUME NEW s \in dropped
        PROVE  /\ s \in Sources
               /\ slots'[s] \in Slots
               /\ ~ slots'[s].pending
    <2>1. s \in Sources
      BY <1>3 DEF PendingSources
    <2>2. sl[s] \in Slots
      BY <1>2, <2>1
    <2>3. sl[s].generation + 1 \in 0 .. MaxGeneration
      <3>1. sl[s].generation < MaxGeneration
        BY <1>1
      <3>2. sl[s].generation \in 0 .. MaxGeneration
        BY <2>2 DEF Slots
      <3> QED BY <3>1, <3>2, SourcesAndTicks
    <2>4. slots'[s] = [sl[s] EXCEPT !.pending = FALSE, !.generation = @ + 1]
      BY <1>1, <2>1
    <2> QED BY <2>1, <2>2, <2>3, <2>4 DEF Slots
  <1>7. \A s \in Sources \ dropped : slots'[s] = sl[s] /\ sl[s] \in Slots
    BY <1>1, <1>2
  <1>8. slots' \in [Sources -> Slots]
    BY <1>1, <1>6, <1>7
  <1>9. PendingSources(slots') = PendingSources(sl) \ dropped
    BY <1>6, <1>7 DEF PendingSources
  <1>10. Balanced(slots', statistics') /\ statistics' \in Statistics
    <2> DEFINE P == PendingSources(sl)
               st == saved.statistics
    <2>1. IsFiniteSet(P) /\ Cardinality(P) \in Nat
      BY PendingFinite
    <2>2. P \cap dropped = dropped
      BY <1>3
    <2>3. IsFiniteSet(dropped) /\ Cardinality(dropped) \in Nat
      BY <1>3, <2>1, FS_Subset, FS_CardinalityType
    <2>4. Cardinality(PendingSources(slots')) = Cardinality(P) - Cardinality(dropped)
      BY <1>9, <2>1, <2>2, FS_Difference
    <2>5. st.scheduled = st.replaced + st.cancelled + st.serviced + Cardinality(P)
      BY <1>2 DEF Balanced
    <2> HIDE DEF P, st
    <2>6. st \in Statistics
          /\ statistics' = [st EXCEPT !.cancelled = @ + Cardinality(dropped)]
      BY <1>1, <1>2 DEF st
    <2>7. /\ statistics' \in Statistics
          /\ statistics'.scheduled = st.scheduled
          /\ statistics'.replaced = st.replaced
          /\ statistics'.cancelled = st.cancelled + Cardinality(dropped)
          /\ statistics'.serviced = st.serviced
          /\ st.scheduled \in Nat /\ st.replaced \in Nat
          /\ st.cancelled \in Nat /\ st.serviced \in Nat
      BY <2>3, <2>6 DEF Statistics
    <2> QED BY <2>1, <2>3, <2>4, <2>5, <2>7 DEF Balanced
  <1>11. Held(slots', tokens')
    <2> SUFFICES ASSUME NEW s \in Sources \ Untracked
                 PROVE  tokens'[s] = IF slots'[s].pending THEN slots'[s].generation
                                                          ELSE 0
      BY DEF Held
    <2>1. CASE s \in dropped
      BY <1>1, <1>4, <1>6, <2>1
    <2>2. CASE s \notin dropped
      BY <1>1, <1>2, <1>5, <1>7, <2>2 DEF Held
    <2> QED BY <2>1, <2>2
  <1>12. Keyed(slots', nextSequence')
    <2>1. \A s \in PendingSources(slots') :
             s \in PendingSources(sl) /\ slots'[s] = sl[s]
      BY <1>7, <1>9 DEF PendingSources
    <2>2. Keyed(sl, saved.nextSequence) /\ nextSequence' = saved.nextSequence
      BY <1>1, <1>2
    <2> QED BY <2>1, <2>2 DEF Keyed
  <1>13. tokens' \in [Sources -> 0 .. MaxGeneration]
    <2>1. tokens' = [s \in Sources |->
                       IF s \in Discarded THEN 0 ELSE saved.tokens[s]]
      BY <1>1
    <2>2. \A s \in Sources : saved.tokens[s] \in 0 .. MaxGeneration
      BY <1>2
    <2> QED BY <2>1, <2>2, SourcesAndTicks
  <1>14. Books'
    BY <1>1, <1>2, <1>8, <1>10, <1>11, <1>12, <1>13 DEF Books, Good
  <1>15. WatchedIsOld'
    <2>1. slots'[0] \in Slots
      BY <1>8, SourcesAndTicks
    <2>2. slots'[0].pending => slots'[0].generation # 0
      BY <1>12, SourcesAndTicks DEF Keyed, PendingSources
    <2>3. slots'[0].generation \in Nat
      BY <2>1, SourcesAndTicks DEF Slots
    <2>4. /\ watched' \in [source : Sources, generation : 0 .. MaxGeneration,
                           live : BOOLEAN]
          /\ watched'.source = 0 /\ watched'.generation = 0
      <3>1. watched' = NoToken
        BY <1>1
      <3> QED BY <3>1, SourcesAndTicks DEF NoToken
    <2> QED BY <2>2, <2>3, <2>4 DEF WatchedIsOld, StaleTokenNeverMatches
  <1>16. SavedBooks'
    BY <1>1 DEF IInv, SavedBooks
  <1>17. ServiceTypes'
    <2>1. /\ 0 \in 0 .. MaximumServices /\ NoService \notin Sources
          /\ loads + 1 \in 0 .. MaxLoads
      <3>1. loads < MaxLoads
        BY <1>1
      <3> QED BY <3>1, LoadsType, ConstantsAssumption
    <2>2. saved.now \in Ticks /\ 0 \in Ticks
      BY SourcesAndTicks DEF IInv, SavedBooks
    <2> QED BY <1>1, <2>1, <2>2 DEF ServiceTypes
  <1> QED BY <1>1, <1>14, <1>15, <1>16, <1>17 DEF IInv, Core

-----------------------------------------------------------------------------
(* The invariant is inductive.                                               *)

LEMMA NextStep == IInv /\ [Next]_vars => IInv'
  <1> SUFFICES ASSUME IInv, [Next]_vars PROVE IInv'
    OBVIOUS
  <1>1. CASE UNCHANGED vars
    <2>1. Core'
      BY <1>1, CoreFrame DEF vars, schedulerVars
    <2>2. SavedBooks' /\ ServiceTypes'
      BY <1>1, RestFrame DEF vars
    <2> QED BY <2>1, <2>2 DEF IInv
  <1>2. ASSUME NEW s \in Sources, NEW deadline \in Ticks,
               DeviceSchedule(s, deadline) \/ DeviceRefresh(s, deadline)
        PROVE  IInv'
    BY <1>2, DeviceScheduleStep, DeviceRefreshStep
  <1>3. ASSUME NEW s \in Sources, DeviceCancel(s) \/ DeviceCancelSource(s)
        PROVE  IInv'
    BY <1>3, DeviceCancelStep, DeviceCancelSourceStep
  <1>4. ASSUME NEW elapsed \in Ticks \ {0}, Advance(elapsed)
        PROVE  IInv'
    BY <1>4, AdvanceStep
  <1>5. ASSUME NEW sources \in SUBSET Sources, NEW rearmed \in [sources -> Ticks],
               Reset(rearmed)
        PROVE  IInv'
    BY <1>5, ResetStep
  <1>6. CASE BeginService
    BY <1>6, BeginStep
  <1>7. CASE TakeNextDue
    BY <1>7, TakeStep
  <1>8. CASE VisitorReturns
    BY <1>8, ReturnStep
  <1>9. CASE VisitorThrows
    BY <1>9, ThrowStep
  <1>10. CASE EndService
    BY <1>10, EndStep
  <1>11. CASE SaveState
    BY <1>11, SaveStep
  <1>12. CASE LoadState
    BY <1>12, LoadStep
  <1> QED
    BY <1>1, <1>2, <1>3, <1>4, <1>5, <1>6, <1>7, <1>8, <1>9, <1>10, <1>11, <1>12
    DEF Next

LEMMA InvariantAlways == Spec => []IInv
  BY InitIInv, NextStep, PTL DEF Spec

-----------------------------------------------------------------------------
(* What the invariant says in the terms of the code.                         *)

LEMMA CacheFacts ==
    ASSUME IInv
    PROVE  Earliest(next, slots)
  BY RecomputeFindsEarliest DEF IInv, Core, Books, Good

\* Type correctness: every counter, tick and generation stays in its range.
THEOREM TypeCorrect == Spec => []TypeOK
  <1>1. IInv => TypeOK
    BY CacheFacts
    DEF IInv, Core, Books, Good, WatchedIsOld, ServiceTypes, Earliest, TypeOK
  <1> QED BY <1>1, InvariantAlways, PTL

\* The deadline the generated code tests is always that of the earliest event,
\* whatever callbacks, guest exceptions, resets and loads came before.
THEOREM CacheAlwaysEarliest == Spec => []CacheIsEarliest
  <1>1. IInv => CacheIsEarliest
    BY CacheFacts DEF Earliest, CacheIsEarliest
  <1> QED BY <1>1, InvariantAlways, PTL

\* Every event ever scheduled is pending, or was replaced, cancelled or
\* serviced once, save states included.
THEOREM EventsAlwaysConserved == Spec => []EventsConserved
  <1>1. IInv => EventsConserved
    BY DEF IInv, Core, Books, Good, Balanced, EventsConserved
  <1> QED BY <1>1, InvariantAlways, PTL

\* A device has a token exactly while its event is pending, and the right one.
THEOREM DevicesAlwaysHoldTheirEvent == Spec => []DevicesHoldTheirEvent
  <1>1. IInv => DevicesHoldTheirEvent
    BY DEF IInv, Core, Books, Good, Held, DevicesHoldTheirEvent
  <1> QED BY <1>1, InvariantAlways, PTL

\* A token outlives its event without ever matching a later one.
THEOREM StaleTokensStayStale == Spec => []StaleTokenNeverMatches
  <1>1. IInv => StaleTokenNeverMatches
    BY DEF IInv, Core, WatchedIsOld
  <1> QED BY <1>1, InvariantAlways, PTL

\* restore() accepts the snapshot of every reachable state.
THEOREM SnapshotsAlwaysRestorable == Spec => []AlwaysRestorable
  <1>1. IInv => AlwaysRestorable
    BY DEF IInv, Core, Books, Good, Keyed, AlwaysRestorable, Restorable, Snapshot
  <1> QED BY <1>1, InvariantAlways, PTL

\* All of it together, at every moment of a service loop, across guest
\* exceptions, resets and loads.
THEOREM TimelineAlwaysConsistent == Spec => []TimelineConsistent
  BY TypeCorrect, EventsAlwaysConserved, CacheAlwaysEarliest,
     DevicesAlwaysHoldTheirEvent, SnapshotsAlwaysRestorable, PTL
  DEF TimelineConsistent

\* A boundary that ends normally and does not stop the runtime leaves nothing
\* due behind.
THEOREM BoundaryAlwaysDrains == Spec => BoundaryDrains
  <1>1. IInv /\ [Next]_vars => [BoundaryDrainsStep]_vars
    <2> SUFFICES ASSUME IInv, Next, running = LoopHead, running' = NoService,
                        ~ stopRequested', loads' = loads,
                        NEW s \in Sources, slots[s].pending
                 PROVE  slots[s].deadline > serviceTick
      BY DEF BoundaryDrainsStep, vars, serviceVars
    <2>1. EndService
      <3>1. loads + 1 # loads
        BY LoadsType
      <3>2. NoService \notin Sources /\ LoopHead \notin Sources
            /\ NoService # LoopHead /\ Throwing \subseteq Sources
        BY ConstantsAssumption
      <3>3. \A t \in Sources, deadline \in Ticks :
               ~ DeviceSchedule(t, deadline) /\ ~ DeviceRefresh(t, deadline)
        BY DEF DeviceSchedule, DeviceRefresh, CanCall
      <3>4. \A t \in Sources : ~ DeviceCancel(t) /\ ~ DeviceCancelSource(t)
        BY DEF DeviceCancel, DeviceCancelSource, CanCall
      <3>5. /\ \A elapsed \in Ticks \ {0} : ~ Advance(elapsed)
            /\ \A sources \in SUBSET Sources :
                  \A rearmed \in [sources -> Ticks] : ~ Reset(rearmed)
            /\ ~ BeginService /\ ~ SaveState
        BY <3>2 DEF Advance, Reset, BeginService, SaveState
      <3>6. ~ VisitorReturns /\ ~ VisitorThrows
        BY <3>2 DEF VisitorReturns, VisitorThrows
      <3>7. ~ TakeNextDue
        BY <3>2, DueIsPending DEF TakeNextDue
      <3>8. ~ LoadState
        BY <3>1 DEF LoadState
      <3> QED BY <3>3, <3>4, <3>5, <3>6, <3>7, <3>8 DEF Next
    <2>2. ~ DeadlineDue(serviceTick)
      BY <2>1 DEF EndService
    <2>3. /\ next.hasPending
          /\ next.deadline = slots[next.source].deadline
          /\ s # next.source => Precedes(slots, next.source, s)
      BY CacheFacts DEF Earliest, PendingSources
    <2>4. /\ next.deadline \in Nat /\ serviceTick \in Nat
          /\ slots[s].deadline \in Nat
      BY CacheFacts, SlotType, SourcesAndTicks DEF Earliest, IInv, ServiceTypes
    <2>5. next.deadline > serviceTick
      BY <2>2, <2>3, <2>4 DEF DeadlineDue
    <2> QED BY <2>3, <2>4, <2>5 DEF Precedes
  <1> QED BY <1>1, InvariantAlways, PTL DEF Spec, BoundaryDrains

\* Events run in the order of their deadlines and, at one tick, of their
\* sources, the ones scheduled during the boundary included.
THEOREM AlwaysServedInOrder == Spec => ServedInOrder
  <1>1. IInv /\ [Next]_vars => [ServedInOrderStep]_vars
    <2> SUFFICES ASSUME IInv, Next, running = LoopHead, running' \in Sources
                 PROVE  \A s \in PendingSources(slots) \ {running'} :
                           Precedes(slots, running', s)
      BY DEF ServedInOrderStep
    <2>1. TakeNextDue
      BY ConstantsAssumption
      DEF Next, DeviceSchedule, DeviceRefresh, DeviceCancel,
          DeviceCancelSource, Advance, Reset, BeginService,
          VisitorReturns, VisitorThrows, EndService, SaveState, LoadState,
          serviceVars, CanCall
    <2>2. running' = next.source /\ next.hasPending
      BY <2>1 DEF TakeNextDue, DeadlineDue
    <2> QED BY <2>2, CacheFacts DEF Earliest
  <1> QED BY <1>1, InvariantAlways, PTL DEF Spec, ServedInOrder
=============================================================================
