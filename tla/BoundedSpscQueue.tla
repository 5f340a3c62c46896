--------------------------- MODULE BoundedSpscQueue ---------------------------
(***************************************************************************)
(* The single-producer single-consumer ring of ps2_spsc_queue.h, at the     *)
(* granularity of its atomic operations.  The producer owns the write       *)
(* cursor and the consumer the read cursor; each reads the other's with an  *)
(* acquire load, which may return an older value than the one last stored,  *)
(* never one older than what it has read before.  So each side keeps what   *)
(* it has seen of the other, and a load moves that forward by any amount.   *)
(* One slot more than the capacity tells a full ring from an empty one.     *)
(***************************************************************************)
EXTENDS Integers, Sequences

CONSTANTS
    Capacity,       \* capacity()
    Items,          \* the values pushed
    Vacant          \* a slot without value

ASSUME ConstantsAssumption ==
    /\ Capacity \in Nat \ {0}
    /\ Vacant \notin Items

Positions == 0 .. Capacity

VARIABLES
    slots,          \* m_slots
    producer,       \* m_producer
    consumer,       \* m_consumer
    seenConsumer,   \* the read cursor as the producer last loaded it
    seenProducer,   \* the write cursor as the consumer last loaded it
    pushing,        \* where the producer is in tryEmplace
    popping,        \* where the consumer is in tryPop
    taken,          \* the value tryPop has moved out of its slot
    popped          \* the result of the last tryPop, empty for nullopt

producerVars == <<producer, seenConsumer, pushing>>
consumerVars == <<consumer, seenProducer, popping, taken, popped>>
vars == <<slots, producerVars, consumerVars>>

Init ==
    /\ slots = [i \in Positions |-> Vacant]
    /\ producer = 0
    /\ consumer = 0
    /\ seenConsumer = 0
    /\ seenProducer = 0
    /\ pushing = "Idle"
    /\ popping = "Idle"
    /\ taken = Vacant
    /\ popped = <<>>

-----------------------------------------------------------------------------
AdvanceBy(position, n) ==
    IF position + n > Capacity THEN position + n - Capacity - 1
                               ELSE position + n

Advance(position) == AdvanceBy(position, 1)

\* Entries from one cursor up to another.
Distance(from, to) == IF from <= to THEN to - from
                                    ELSE to - from + Capacity + 1

\* Mutant: the spare slot is used as well.
FullOneLate == Distance(seenConsumer, producer) > Capacity

Full == Advance(producer) = seenConsumer

\* Mutant: the last entry is left behind.
EmptyOneEarly == consumer = seenProducer \/ Advance(consumer) = seenProducer

Empty == consumer = seenProducer

\* The positions a load of a cursor may return: not older than the last one.
Readable(seen, latest) ==
    {AdvanceBy(seen, n) : n \in 0 .. Distance(seen, latest)}

-----------------------------------------------------------------------------
(* tryEmplace.                                                              *)

LoadConsumer(seen) ==
    /\ pushing = "Idle"
    /\ seen \in Readable(seenConsumer, consumer)
    /\ seenConsumer' = seen
    /\ pushing' = "Loaded"
    /\ UNCHANGED <<slots, producer, consumerVars>>

PushFull ==
    /\ pushing = "Loaded"
    /\ Full
    /\ pushing' = "Idle"
    /\ UNCHANGED <<slots, producer, seenConsumer, consumerVars>>

\* The occupied-slot check throws; SlotsFree says it never does.
Emplace(item) ==
    /\ pushing = "Loaded"
    /\ ~ Full
    /\ slots[producer] = Vacant
    /\ slots' = [slots EXCEPT ![producer] = item]
    /\ pushing' = "Emplaced"
    /\ UNCHANGED <<producer, seenConsumer, consumerVars>>

PublishPush ==
    /\ pushing = "Emplaced"
    /\ producer' = Advance(producer)
    /\ pushing' = "Idle"
    /\ UNCHANGED <<slots, seenConsumer, consumerVars>>

-----------------------------------------------------------------------------
(* tryPop.                                                                  *)

LoadProducer(seen) ==
    /\ popping = "Idle"
    /\ seen \in Readable(seenProducer, producer)
    /\ seenProducer' = seen
    /\ popping' = "Loaded"
    /\ UNCHANGED <<slots, producerVars, consumer, taken, popped>>

PopEmpty ==
    /\ popping = "Loaded"
    /\ Empty
    /\ popping' = "Idle"
    /\ popped' = <<>>
    /\ UNCHANGED <<slots, producerVars, consumer, seenProducer, taken>>

\* Mutant: the slot keeps the moved-from value.
TakeWithoutReset ==
    /\ popping = "Loaded"
    /\ ~ Empty
    /\ slots[consumer] # Vacant
    /\ taken' = slots[consumer]
    /\ popping' = "Taken"
    /\ UNCHANGED <<slots, producerVars, consumer, seenProducer, popped>>

Take ==
    /\ popping = "Loaded"
    /\ ~ Empty
    /\ slots[consumer] # Vacant
    /\ taken' = slots[consumer]
    /\ slots' = [slots EXCEPT ![consumer] = Vacant]
    /\ popping' = "Taken"
    /\ UNCHANGED <<producerVars, consumer, seenProducer, popped>>

ReleaseSlot ==
    /\ popping = "Taken"
    /\ consumer' = Advance(consumer)
    /\ popping' = "Idle"
    /\ popped' = <<taken>>
    /\ taken' = Vacant
    /\ UNCHANGED <<slots, producerVars, seenProducer>>

-----------------------------------------------------------------------------
TryEmplace ==
    \/ \E seen \in Positions : LoadConsumer(seen)
    \/ PushFull
    \/ \E item \in Items : Emplace(item)
    \/ PublishPush

TryPop ==
    \/ \E seen \in Positions : LoadProducer(seen)
    \/ PopEmpty
    \/ Take
    \/ ReleaseSlot

Next == TryEmplace \/ TryPop

Spec == Init /\ [][Next]_vars

\* The owner of a queue keeps calling tryPop, every call ends, and of infinitely
\* many loads one returns the latest value: a store becomes visible to the other
\* side in finite time.
FairSpec ==
    /\ Spec
    /\ WF_vars(PublishPush)
    /\ SF_vars(LoadProducer(producer))
    /\ WF_vars(\E seen \in Positions : LoadProducer(seen))
    /\ WF_vars(PopEmpty \/ Take \/ ReleaseSlot)

-----------------------------------------------------------------------------
TypeOK ==
    /\ slots \in [Positions -> Items \cup {Vacant}]
    /\ producer \in Positions
    /\ consumer \in Positions
    /\ seenConsumer \in Positions
    /\ seenProducer \in Positions
    /\ pushing \in {"Idle", "Loaded", "Emplaced"}
    /\ popping \in {"Idle", "Loaded", "Taken"}
    /\ taken \in Items \cup {Vacant}
    /\ popped \in {<<>>} \cup {<<item>> : item \in Items}

\* The value of the entry the consumer is taking is in taken, of the others in
\* their slots.
EntryAt(position) ==
    IF popping = "Taken" /\ position = consumer THEN taken
                                                ELSE slots[position]

Contents ==
    [n \in 1 .. Distance(consumer, producer) |->
        EntryAt(AdvanceBy(consumer, n - 1))]

\* The two logic_error checks of the ring never fire: with whatever old cursor values the
\* two sides work, the producer only reaches vacant slots and the consumer
\* only published ones.
SlotsFree ==
    /\ pushing = "Loaded" /\ ~ Full => slots[producer] = Vacant
    /\ popping = "Loaded" /\ ~ Empty => slots[consumer] # Vacant

\* The state is well typed and no check of the ring fails.
ChecksPass == TypeOK /\ SlotsFree

Fifo == INSTANCE BoundedFifo WITH queue <- Contents

\* The ring is a bounded first-in first-out buffer: publishing a cursor is the
\* one step at which an entry appears or disappears.
IsFifo == Fifo!Spec

\* And what is pushed is popped, if the consumer keeps asking.
IsFairFifo == Fifo!FairSpec
=============================================================================
