------------------------ MODULE BoundedSpscQueue_proofs ------------------------
(***************************************************************************)
(* The ring implements a bounded FIFO, for every capacity and every set of  *)
(* items.  The invariant says where the four cursors lie on the ring        *)
(* relative to each other, and that a slot holds a value exactly when it is *)
(* in the stretch the consumer has yet to release or the producer is about  *)
(* to publish it.                                                           *)
(***************************************************************************)
EXTENDS BoundedSpscQueue, SequenceTheorems, TLAPS

\* What each side has seen of the other lies behind the truth, and not so far
\* behind that it would have been overtaken.
CursorsInOrder ==
    /\ Distance(seenConsumer, consumer) + Distance(consumer, producer)
         = Distance(seenConsumer, producer)
    /\ Distance(consumer, seenProducer) + Distance(seenProducer, producer)
         = Distance(consumer, producer)

Occupied(i) ==
    \/ /\ Distance(consumer, i) < Distance(consumer, producer)
       /\ ~ (popping = "Taken" /\ i = consumer)
    \/ pushing = "Emplaced" /\ i = producer

SlotsMatch == \A i \in Positions : slots[i] # Vacant <=> Occupied(i)

Midway ==
    /\ pushing = "Emplaced" => ~ Full
    /\ popping = "Taken" => ~ Empty
    /\ taken # Vacant <=> popping = "Taken"

IInv == TypeOK /\ CursorsInOrder /\ SlotsMatch /\ Midway

\* The ring starts with every cursor at 0 and every slot vacant.
LEMMA InitInv == Init => IInv
  <1> USE ConstantsAssumption DEF Positions
  <1> SUFFICES ASSUME Init PROVE IInv
    OBVIOUS
  <1>1. TypeOK
    BY DEF Init, TypeOK
  <1>2. CursorsInOrder
    BY DEF Init, CursorsInOrder, Distance
  <1>3. SlotsMatch
    BY DEF Init, SlotsMatch, Occupied, Distance
  <1>4. Midway
    BY DEF Init, Midway
  <1> QED BY <1>1, <1>2, <1>3, <1>4 DEF IInv

\* A cursor never leaves the ring.
LEMMA AdvanceByType ==
  \A i \in Positions : \A n \in 0 .. Capacity + 1 : AdvanceBy(i, n) \in Positions
  BY ConstantsAssumption DEF Positions, AdvanceBy

\* One step and then n - 1 are n steps, and fewer than a round.
LEMMA AdvanceTwice ==
  ASSUME NEW i \in Positions, NEW n \in 1 .. Capacity
  PROVE  /\ AdvanceBy(Advance(i), n - 1) = AdvanceBy(i, n)
         /\ AdvanceBy(i, n) # i
  BY ConstantsAssumption DEF Positions, AdvanceBy, Advance

\* The positions a load may return lie between the last one read and the latest
\* one stored.
LEMMA ReadableBetween ==
  ASSUME NEW seen \in Positions, NEW latest \in Positions,
         NEW read \in Readable(seen, latest)
  PROVE  /\ read \in Positions
         /\ Distance(seen, read) + Distance(read, latest)
              = Distance(seen, latest)
  BY ConstantsAssumption DEF Readable, Positions, AdvanceBy, Distance

\* Of three positions in order on the ring, the middle one is at most as far.
LEMMA InOrder ==
  ASSUME NEW a \in Positions, NEW b \in Positions, NEW c \in Positions,
         NEW d \in Positions,
         Distance(a, c) + Distance(c, d) = Distance(a, d),
         Distance(a, b) + Distance(b, c) = Distance(a, c)
  PROVE  Distance(b, c) + Distance(c, d) = Distance(b, d)
  BY ConstantsAssumption DEF Positions, Distance

\* The invariant is inductive.
LEMMA NextInv == IInv /\ [Next]_vars => IInv'
  <1> USE ConstantsAssumption
  <1> SUFFICES ASSUME IInv, [Next]_vars PROVE IInv'
    OBVIOUS
  <1>1. ASSUME NEW seen \in Positions, LoadConsumer(seen) PROVE IInv'
    <2>1. TypeOK'
      BY <1>1 DEF IInv, TypeOK, LoadConsumer, consumerVars
    <2>2. CursorsInOrder'
      <3>1. Distance(seenConsumer, seen) + Distance(seen, consumer)
              = Distance(seenConsumer, consumer)
        BY <1>1, ReadableBetween DEF LoadConsumer, IInv, TypeOK
      <3> QED BY <1>1, <3>1, InOrder
              DEF LoadConsumer, consumerVars, IInv, TypeOK, CursorsInOrder
    <2>3. SlotsMatch'
      BY <1>1 DEF LoadConsumer, consumerVars, IInv, SlotsMatch, Occupied
    <2>4. Midway'
      BY <1>1 DEF LoadConsumer, consumerVars, IInv, Midway, Empty
    <2> QED BY <2>1, <2>2, <2>3, <2>4 DEF IInv
  <1>2. ASSUME PushFull PROVE IInv'
    BY <1>2 DEF PushFull, consumerVars, IInv, TypeOK, CursorsInOrder,
                SlotsMatch, Occupied, Midway, Full, Empty
  <1>3. ASSUME NEW item \in Items, Emplace(item) PROVE IInv'
    <2>1. TypeOK'
      BY <1>3 DEF IInv, TypeOK, Emplace, consumerVars
    <2>2. CursorsInOrder'
      BY <1>3 DEF IInv, CursorsInOrder, Emplace, consumerVars
    <2>3. SlotsMatch'
      BY <1>3 DEF IInv, TypeOK, SlotsMatch, Occupied, Emplace, consumerVars
    <2>4. Midway'
      BY <1>3 DEF IInv, Midway, Full, Empty, Emplace, consumerVars
    <2> QED BY <2>1, <2>2, <2>3, <2>4 DEF IInv
  <1>4. ASSUME PublishPush PROVE IInv'
    <2> USE <1>4 DEF IInv, PublishPush, consumerVars, Advance, AdvanceBy
    <2>1. TypeOK'
      BY DEF TypeOK, Positions
    <2>2. CursorsInOrder'
      BY DEF TypeOK, CursorsInOrder, Distance, Midway, Full, Positions
    <2>3. SlotsMatch'
      <3>1. Distance(consumer, producer') = Distance(consumer, producer) + 1
        BY DEF TypeOK, CursorsInOrder, Distance, Midway, Full, Positions
      <3>2. ASSUME NEW i \in Positions
            PROVE  Distance(consumer, i) < Distance(consumer, producer')
                     <=> \/ Distance(consumer, i) < Distance(consumer, producer)
                         \/ i = producer
        BY <3>1 DEF TypeOK, Distance, Positions
      <3>3. ~ (popping = "Taken" /\ consumer = producer)
        BY DEF TypeOK, CursorsInOrder, Distance, Midway, Empty, Positions
      <3>4. /\ slots' = slots /\ consumer' = consumer /\ popping' = popping
            /\ pushing = "Emplaced" /\ pushing' = "Idle"
        OBVIOUS
      <3> HIDE DEF PublishPush, Advance, AdvanceBy
      <3>5. ASSUME NEW i \in Positions
            PROVE  (slots[i] # Vacant <=> Occupied(i))'
        BY <3>2, <3>3, <3>4 DEF SlotsMatch, Occupied
      <3> QED BY <3>5 DEF SlotsMatch
    <2>4. Midway'
      BY DEF TypeOK, Midway, Empty, Full
    <2> QED BY <2>1, <2>2, <2>3, <2>4
  <1>5. ASSUME NEW seen \in Positions, LoadProducer(seen) PROVE IInv'
    <2>1. TypeOK'
      BY <1>5 DEF IInv, TypeOK, LoadProducer, producerVars
    <2>2. CursorsInOrder'
      <3>1. Distance(seenProducer, seen) + Distance(seen, producer)
              = Distance(seenProducer, producer)
        BY <1>5, ReadableBetween DEF LoadProducer, IInv, TypeOK
      <3> QED BY <1>5, <3>1
              DEF LoadProducer, producerVars, IInv, TypeOK, CursorsInOrder,
                  Distance, Positions
    <2>3. SlotsMatch'
      BY <1>5 DEF LoadProducer, producerVars, IInv, SlotsMatch, Occupied
    <2>4. Midway'
      BY <1>5 DEF LoadProducer, producerVars, IInv, Midway, Full
    <2> QED BY <2>1, <2>2, <2>3, <2>4 DEF IInv
  <1>6. ASSUME PopEmpty PROVE IInv'
    BY <1>6 DEF PopEmpty, producerVars, IInv, TypeOK, CursorsInOrder,
                SlotsMatch, Occupied, Midway, Full, Empty
  <1>7. ASSUME Take PROVE IInv'
    <2> USE <1>7 DEF IInv, Take, producerVars
    <2>1. TypeOK'
      BY DEF TypeOK
    <2>2. CursorsInOrder'
      BY DEF CursorsInOrder
    <2>3. SlotsMatch'
      BY DEF TypeOK, SlotsMatch, Occupied, CursorsInOrder, Distance, Midway,
             Full, Advance, AdvanceBy, Empty, Positions
    <2>4. Midway'
      BY DEF Midway, Full, Empty
    <2> QED BY <2>1, <2>2, <2>3, <2>4
  <1>8. ASSUME ReleaseSlot PROVE IInv'
    <2> USE <1>8 DEF IInv, ReleaseSlot, producerVars, Advance, AdvanceBy
    <2>1. TypeOK'
      BY DEF TypeOK, Positions, Midway
    <2>2. CursorsInOrder'
      BY DEF TypeOK, CursorsInOrder, Distance, Midway, Empty, Positions
    <2>3. SlotsMatch'
      BY DEF TypeOK, SlotsMatch, Occupied, CursorsInOrder, Distance, Midway,
             Full, Empty, Positions
    <2>4. Midway'
      BY DEF TypeOK, Midway, Full, Empty
    <2> QED BY <2>1, <2>2, <2>3, <2>4
  <1>9. ASSUME UNCHANGED vars PROVE IInv'
    BY <1>9 DEF vars, producerVars, consumerVars, IInv, TypeOK, CursorsInOrder,
                SlotsMatch, Occupied, Midway, Full, Empty
  <1> QED BY <1>1, <1>2, <1>3, <1>4, <1>5, <1>6, <1>7, <1>8, <1>9
          DEF Next, TryEmplace, TryPop

LEMMA InvariantAlways == Spec => []IInv
  BY InitInv, NextInv, PTL DEF Spec

\* The checks tryEmplace and tryPop make before they touch a slot never fail,
\* although both decide on cursor values that may be out of date: the producer
\* never reaches an occupied slot and the consumer never an empty one.
THEOREM SlotChecksNeverFail == Spec => []SlotsFree
  <1>1. IInv => SlotsFree
    <2> SUFFICES ASSUME IInv PROVE SlotsFree
      OBVIOUS
    <2>1. ASSUME pushing = "Loaded", ~ Full PROVE slots[producer] = Vacant
      <3>1. ~ Occupied(producer)
        BY <2>1, ConstantsAssumption
           DEF Occupied, IInv, TypeOK, Distance, Positions
      <3> QED BY <3>1 DEF IInv, TypeOK, SlotsMatch
    <2>2. ASSUME popping = "Loaded", ~ Empty PROVE slots[consumer] # Vacant
      <3>1. Distance(consumer, consumer) < Distance(consumer, producer)
        BY <2>2, ConstantsAssumption
           DEF IInv, TypeOK, CursorsInOrder, Distance, Empty, Positions
      <3> QED BY <2>2, <3>1 DEF IInv, TypeOK, SlotsMatch, Occupied
    <2> QED BY <2>1, <2>2 DEF SlotsFree
  <1> QED BY <1>1, InvariantAlways, PTL

\* For every capacity the ring is well typed and its checks pass.
THEOREM ChecksAlwaysPass == Spec => []ChecksPass
  <1>1. IInv => TypeOK
    BY DEF IInv
  <1> QED BY <1>1, SlotChecksNeverFail, InvariantAlways, PTL DEF ChecksPass

-----------------------------------------------------------------------------
(* Refinement of BoundedFifo.                                               *)

Held == Distance(consumer, producer)

ContentsAreEntries ==
  /\ Held \in 0 .. Capacity
  /\ Contents \in Seq(Items)
  /\ Len(Contents) = Held
  /\ \A n \in 1 .. Held :
        Contents[n] = EntryAt(AdvanceBy(consumer, n - 1))

\* The entries form a sequence no longer than the capacity.
LEMMA ContentsSeq == IInv => ContentsAreEntries
  <1> SUFFICES ASSUME IInv PROVE ContentsAreEntries
    OBVIOUS
  <1>1. Held \in 0 .. Capacity
    BY ConstantsAssumption DEF IInv, TypeOK, Held, Distance, Positions
  <1>2. ASSUME NEW n \in 1 .. Held
        PROVE  EntryAt(AdvanceBy(consumer, n - 1)) \in Items
    <2> DEFINE i == AdvanceBy(consumer, n - 1)
    <2>1. /\ i \in Positions
          /\ Distance(consumer, i) < Held
      BY <1>1, ConstantsAssumption
         DEF IInv, TypeOK, Held, Distance, AdvanceBy, Positions
    <2> HIDE DEF i
    <2>2. ASSUME popping = "Taken", i = consumer PROVE EntryAt(i) \in Items
      BY <2>2 DEF IInv, TypeOK, Midway, EntryAt
    <2>3. ASSUME ~ (popping = "Taken" /\ i = consumer) PROVE EntryAt(i) \in Items
      BY <2>1, <2>3 DEF IInv, TypeOK, SlotsMatch, Occupied, EntryAt, Held
    <2> QED BY <2>2, <2>3 DEF i
  <1>3. Contents = [n \in 1 .. Held |-> EntryAt(AdvanceBy(consumer, n - 1))]
    BY DEF Contents, Held
  <1> HIDE DEF Contents, Held
  <1>4. Contents \in [1 .. Held -> Items]
    BY <1>2, <1>3
  <1>5. Held \in Nat
    BY <1>1, ConstantsAssumption
  <1>6. Contents \in Seq(Items)
    BY <1>4, <1>5, SeqDef
  <1>7. Len(Contents) = Held
    BY <1>3, <1>5, <1>6, LenProperties
  <1> QED BY <1>1, <1>3, <1>6, <1>7 DEF ContentsAreEntries

\* Steps that move no entry over the edge leave the sequence alone.
LEMMA ContentsKept ==
  ASSUME IInv, IInv', UNCHANGED <<producer, consumer>>,
         \A n \in 1 .. Held :
            EntryAt(AdvanceBy(consumer, n - 1))'
              = EntryAt(AdvanceBy(consumer, n - 1))
  PROVE  Contents' = Contents
  <1>1. Held' = Held
    BY DEF Held, Distance
  <1>2. Contents = [n \in 1 .. Held |-> EntryAt(AdvanceBy(consumer, n - 1))]
    BY DEF Contents, Held
  <1>3. Contents' = [n \in 1 .. Held' |-> EntryAt(AdvanceBy(consumer, n - 1))']
    BY DEF Contents, Held
  <1> QED BY <1>1, <1>2, <1>3

\* The empty ring is the empty queue.
LEMMA InitFifo == Init => Fifo!Init
  <1> SUFFICES ASSUME Init PROVE Contents = <<>> /\ popped = <<>>
    BY DEF Fifo!Init
  <1>1. IInv
    BY InitInv
  <1>2. Held = 0
    BY DEF Init, Held, Distance
  <1> HIDE DEF Init
  <1>3. Contents = <<>>
    BY <1>1, <1>2, ContentsSeq, EmptySeq DEF ContentsAreEntries
  <1> QED BY <1>3 DEF Init

\* Publishing the write cursor appends the emplaced value.
LEMMA PublishIsPush ==
  ASSUME IInv, IInv', PublishPush
  PROVE  \E item \in Items : Fifo!Push(item)
  <1> DEFINE item == slots[producer]
  <1>1. /\ slots' = slots /\ consumer' = consumer /\ popping' = popping
        /\ taken' = taken /\ popped' = popped
        /\ pushing = "Emplaced" /\ producer' = Advance(producer)
    BY DEF PublishPush, consumerVars
  <1>2. item \in Items
    BY <1>1 DEF IInv, TypeOK, SlotsMatch, Occupied
  <1>3. Held' = Held + 1 /\ Held < Capacity
    BY <1>1, ConstantsAssumption
       DEF IInv, TypeOK, CursorsInOrder, Distance, Midway, Full, Positions,
           Held, Advance, AdvanceBy
  <1>4. AdvanceBy(consumer, Held) = producer
    BY ConstantsAssumption DEF IInv, TypeOK, Held, Distance, AdvanceBy, Positions
  <1>5. ~ (popping = "Taken" /\ producer = consumer)
    BY ConstantsAssumption DEF IInv, TypeOK, CursorsInOrder, Distance, Midway,
                               Empty, Positions
  <1>6. EntryAt(AdvanceBy(consumer, Held)) = item
    BY <1>4, <1>5 DEF EntryAt
  <1>7. /\ Contents \in Seq(Items) /\ Len(Contents) = Held
        /\ Contents' \in Seq(Items) /\ Len(Contents') = Held + 1
        /\ \A n \in 1 .. Held :
              Contents[n] = EntryAt(AdvanceBy(consumer, n - 1))
        /\ \A n \in 1 .. Held + 1 :
              Contents'[n] = EntryAt(AdvanceBy(consumer, n - 1))
        /\ Held \in 0 .. Capacity
    <2>1. ContentsAreEntries /\ ContentsAreEntries'
      BY ContentsSeq, PTL
    <2>2. \A n : EntryAt(AdvanceBy(consumer, n - 1))'
                    = EntryAt(AdvanceBy(consumer, n - 1))
      BY <1>1 DEF EntryAt, AdvanceBy
    <2> QED BY <1>3, <2>1, <2>2 DEF ContentsAreEntries
  <1> HIDE DEF item, Contents, Held
  <1>8. Contents' = Append(Contents, item)
    <2>1. /\ Append(Contents, item) \in Seq(Items)
          /\ Len(Append(Contents, item)) = Held + 1
          /\ \A n \in 1 .. Held : Append(Contents, item)[n] = Contents[n]
          /\ Append(Contents, item)[Held + 1] = item
      BY <1>2, <1>7, AppendProperties
    <2>2. ASSUME NEW n \in 1 .. Held + 1
          PROVE  Contents'[n] = Append(Contents, item)[n]
      <3>1. CASE n \in 1 .. Held
        BY <1>7, <2>1, <3>1
      <3>2. CASE n = Held + 1
        <4>1. n - 1 = Held
          BY <1>7, <3>2
        <4> QED BY <1>6, <1>7, <2>1, <3>2, <4>1
      <3> QED BY <1>7, <3>1, <3>2
    <2> QED BY <1>7, <2>1, <2>2, SeqEqual
  <1> QED BY <1>1, <1>2, <1>3, <1>7, <1>8 DEF Fifo!Push

\* Releasing the slot removes the value taken from it.
LEMMA ReleaseIsPop ==
  ASSUME IInv, IInv', ReleaseSlot
  PROVE  Fifo!Pop
  <1>1. /\ slots' = slots /\ producer' = producer /\ popping = "Taken"
        /\ popping' = "Idle" /\ consumer' = Advance(consumer)
        /\ popped' = <<taken>>
    BY DEF ReleaseSlot, producerVars
  <1>2. Held' = Held - 1 /\ Held # 0
    BY <1>1, ConstantsAssumption
       DEF IInv, TypeOK, CursorsInOrder, Distance, Midway, Empty, Positions,
           Held, Advance, AdvanceBy
  <1>3. /\ Contents \in Seq(Items) /\ Len(Contents) = Held
        /\ \A n \in 1 .. Held :
              Contents[n] = EntryAt(AdvanceBy(consumer, n - 1))
        /\ Held \in 0 .. Capacity
    BY ContentsSeq DEF ContentsAreEntries
  <1>4. /\ Contents' \in Seq(Items) /\ Len(Contents') = Held - 1
        /\ \A n \in 1 .. Held - 1 :
              Contents'[n] = EntryAt(AdvanceBy(consumer, n - 1))'
    <2>1. ContentsAreEntries'
      BY ContentsSeq, PTL
    <2> QED BY <1>2, <2>1 DEF ContentsAreEntries
  <1>5. ASSUME NEW n \in 1 .. Held - 1
        PROVE  Contents'[n] = Contents[n + 1]
    <2>1. /\ AdvanceBy(consumer, n - 1)' = AdvanceBy(consumer, n)
          /\ AdvanceBy(consumer, n) # consumer
      <3>1. n \in 1 .. Capacity
        BY <1>3, ConstantsAssumption
      <3> QED BY <1>1, <3>1, AdvanceTwice DEF IInv, TypeOK, AdvanceBy
    <2>2. Contents'[n] = slots[AdvanceBy(consumer, n)]
      BY <1>1, <1>4, <2>1 DEF EntryAt
    <2>3. Contents[n + 1] = EntryAt(AdvanceBy(consumer, n))
      <3>1. n + 1 \in 1 .. Held /\ (n + 1) - 1 = n
        BY <1>3, ConstantsAssumption
      <3> QED BY <1>3, <3>1
    <2> QED BY <2>1, <2>2, <2>3 DEF EntryAt
  <1>6. Contents[1] = taken
    <2>1. AdvanceBy(consumer, 0) = consumer
      BY ConstantsAssumption DEF IInv, TypeOK, AdvanceBy, Positions
    <2>2. 1 \in 1 .. Held
      BY <1>2, <1>3, ConstantsAssumption
    <2>3. Contents[1] = EntryAt(AdvanceBy(consumer, 0))
      BY <1>3, <2>2
    <2> QED BY <1>1, <2>1, <2>3 DEF EntryAt
  <1> HIDE DEF Contents, Held
  <1>7. Contents # <<>>
    BY <1>2, <1>3, EmptySeq
  <1>8. /\ Head(Contents) = taken
        /\ Tail(Contents) \in Seq(Items)
        /\ Len(Tail(Contents)) = Held - 1
        /\ \A n \in 1 .. Held - 1 : Tail(Contents)[n] = Contents[n + 1]
    BY <1>3, <1>6, <1>7, HeadTailProperties
  <1>9. Contents' = Tail(Contents)
    BY <1>4, <1>5, <1>8, SeqEqual
  <1> QED BY <1>1, <1>7, <1>8, <1>9 DEF Fifo!Pop

\* Every step of the ring is a step of the FIFO or leaves it alone.
LEMMA NextFifo == IInv /\ IInv' /\ [Next]_vars => [Fifo!Next]_Fifo!vars
  <1> SUFFICES ASSUME IInv, IInv', [Next]_vars
               PROVE  \/ \E item \in Items : Fifo!Push(item)
                      \/ Fifo!Pop
                      \/ Fifo!PopNothing
                      \/ Contents' = Contents /\ popped' = popped
    BY DEF Fifo!Next, Fifo!vars
  <1>1. ASSUME NEW seen \in Positions, LoadConsumer(seen) \/ LoadProducer(seen)
        PROVE  Contents' = Contents /\ popped' = popped
    <2>1. \A i : EntryAt(i)' = EntryAt(i)
      BY <1>1 DEF LoadConsumer, LoadProducer, producerVars, consumerVars, EntryAt
    <2> QED BY <1>1, <2>1, ContentsKept
            DEF LoadConsumer, LoadProducer, producerVars, consumerVars
  <1>2. ASSUME PushFull PROVE Contents' = Contents /\ popped' = popped
    <2>1. \A i : EntryAt(i)' = EntryAt(i)
      BY <1>2 DEF PushFull, consumerVars, EntryAt
    <2> QED BY <1>2, <2>1, ContentsKept DEF PushFull, consumerVars
  <1>3. ASSUME NEW item \in Items, Emplace(item)
        PROVE  Contents' = Contents /\ popped' = popped
    <2>1. ASSUME NEW n \in 1 .. Held
          PROVE  AdvanceBy(consumer, n - 1) \in Positions \ {producer}
      BY <2>1, ConstantsAssumption
         DEF IInv, TypeOK, Held, Distance, AdvanceBy, Positions
    <2>2. UNCHANGED <<producer, consumer, popped>>
      BY <1>3 DEF Emplace, consumerVars
    <2>3. ASSUME NEW n \in 1 .. Held
          PROVE  EntryAt(AdvanceBy(consumer, n - 1))'
                   = EntryAt(AdvanceBy(consumer, n - 1))
      BY <1>3, <2>1, <2>2 DEF EntryAt, AdvanceBy, Emplace, consumerVars,
                              IInv, TypeOK
    <2> QED BY <2>2, <2>3, ContentsKept
  <1>4. ASSUME PublishPush PROVE \E item \in Items : Fifo!Push(item)
    BY <1>4, PublishIsPush
  <1>5. ASSUME PopEmpty PROVE Fifo!PopNothing
    <2>1. \A i : EntryAt(i)' = EntryAt(i)
      BY <1>5 DEF PopEmpty, producerVars, EntryAt
    <2> QED BY <1>5, <2>1, ContentsKept
            DEF PopEmpty, producerVars, Fifo!PopNothing
  <1>6. ASSUME Take PROVE Contents' = Contents /\ popped' = popped
    <2>1. ASSUME NEW n \in 1 .. Held
          PROVE  AdvanceBy(consumer, n - 1) \in Positions
      BY <2>1, ConstantsAssumption
         DEF IInv, TypeOK, Held, Distance, AdvanceBy, Positions
    <2>2. UNCHANGED <<producer, consumer, popped>>
      BY <1>6 DEF Take, producerVars
    <2>3. ASSUME NEW n \in 1 .. Held
          PROVE  EntryAt(AdvanceBy(consumer, n - 1))'
                   = EntryAt(AdvanceBy(consumer, n - 1))
      BY <1>6, <2>1, <2>2 DEF EntryAt, AdvanceBy, Take, producerVars,
                              IInv, TypeOK
    <2> QED BY <2>2, <2>3, ContentsKept
  <1>7. ASSUME ReleaseSlot PROVE Fifo!Pop
    BY <1>7, ReleaseIsPop
  <1>8. ASSUME UNCHANGED vars PROVE Contents' = Contents /\ popped' = popped
    <2>1. \A i : EntryAt(i)' = EntryAt(i)
      BY <1>8 DEF vars, producerVars, consumerVars, EntryAt
    <2> QED BY <1>8, <2>1, ContentsKept DEF vars, producerVars, consumerVars
  <1> QED BY <1>1, <1>2, <1>3, <1>4, <1>5, <1>6, <1>7, <1>8
          DEF Next, TryEmplace, TryPop

\* The ring implements the bounded first-in first-out buffer whatever cursor
\* values its loads return: tryPush and tryPop lose, repeat and reorder nothing
\* and hold exactly Capacity entries.
THEOREM RingIsFifo == Spec => IsFifo
  <1>1. Fifo!Init /\ [][Fifo!Next]_Fifo!vars => IsFifo
    BY DEF IsFifo, Fifo!Spec
  <1> QED BY <1>1, InitFifo, NextFifo, InvariantAlways, PTL DEF Spec
=============================================================================
