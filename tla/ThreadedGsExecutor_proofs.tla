----------------------- MODULE ThreadedGsExecutor_proofs -----------------------
(***************************************************************************)
(* The threaded GS executor keeps its budget, the order of the stream, the  *)
(* identity of the presented field and its promise at the end, for every    *)
(* capacity, payload budget and number of submissions.                      *)
(***************************************************************************)
EXTENDS ThreadedGsExecutor, SequenceTheorems, WellFoundedInduction, TLAPS

-----------------------------------------------------------------------------
(* The inductive invariant.  First the types, by kind.                       *)

SeqTypes ==
    /\ queue \in Seq(Items) /\ Len(queue) <= Capacity
    /\ hand \in Seq(Items) /\ Len(hand) <= 1
    /\ outcome \in Seq({"Pending"} \cup Outcomes) /\ Len(outcome) <= MaxTicket

RecordTypes ==
    /\ draft \in [kind : Kinds, bytes : Sizes \cup {0}]
    /\ processor \in [generation : 1 .. MaxGeneration,
                      sequence : 0 .. MaxTicket, field : 0 .. MaxTicket]

NumberTypes ==
    /\ generation \in 1 .. MaxGeneration
    /\ sequence \in 0 .. MaxTicket
    /\ ticket \in 0 .. MaxTicket
    /\ queuedPayload \in 0 .. PayloadCapacity
    /\ workSignals \in 0 .. MaxTicket + MaxShutdowns + 1
    /\ floor \in 1 .. MaxGeneration
    /\ completedTicket \in 0 .. MaxTicket
    /\ completedField \in 0 .. MaxTicket
    /\ shutdowns \in 0 .. MaxShutdowns

PlaceTypes ==
    /\ submitting \in {"None", "Start", "Check", "Load", "Try", "Recheck",
                       "Wait", "Push", "Publish", "Signal"}
    /\ working \in {"NotStarted", "Idle", "Awake", "Popping", "Empty",
                    "Popped", "Holding", "Publish", "Resolve", "Release",
                    "Released", "Fail", "Record", "Wake", "Quiesce",
                    "Cancelling", "Exiting", "Exited"}
    /\ verdict \in {"None"} \cup Outcomes
    /\ closing \in {"None", "Close", "Wake", "Quiesce", "Request", "Signal",
                    "Join"}
    /\ mode \in Modes

FlagTypes ==
    /\ spaceMoved \in BOOLEAN /\ accepting \in BOOLEAN
    /\ drainRequested \in BOOLEAN /\ cancelRequested \in BOOLEAN
    /\ started \in BOOLEAN /\ failed \in BOOLEAN /\ workerExited \in BOOLEAN

\* Tickets up to Popped have been taken out of the queue.
Popped == Len(outcome) - Len(queue)

\* The generation and sequence number of the newest item enqueued: those of the
\* counters, except between the push and the update of the counters.
Newest ==
    IF submitting = "Publish"
    THEN [generation |-> NewItem.generation, sequence |-> NewItem.sequence]
    ELSE [generation |-> generation, sequence |-> sequence]

\* The submission under way can still get its ticket and its generation.
SubmissionOK ==
    /\ sequence <= ticket
    /\ floor <= generation
    /\ submitting \notin {"None", "Signal"} =>
           /\ ticket < MaxTicket
           /\ StartsGeneration(draft.kind) => generation < MaxGeneration
    /\ submitting # "None" => draft.bytes \in Sizes
    /\ submitting = "Push" => Len(queue) < Capacity
    /\ Len(outcome) = ticket + (IF submitting = "Publish" THEN 1 ELSE 0)
    /\ ~ started => /\ submitting \in {"None", "Start"}
                    /\ ticket = 0
    /\ working = "NotStarted" <=> ~ started

\* The tickets of the queue are the last ones given, in order; the one before
\* them is in the worker's hand.
TicketsInOrder ==
    /\ \A i \in 1 .. Len(queue) : queue[i].ticket = Popped + i
    /\ hand # <<>> => Item.ticket = Popped
    /\ Popped >= Len(hand)

\* An item and the one enqueued after it.
Follows(item, next) ==
    IF StartsGeneration(next.kind)
    THEN next.generation = item.generation + 1
    ELSE /\ next.generation = item.generation
         /\ next.sequence = item.sequence + 1

FirstOfGeneration(item) ==
    StartsGeneration(item.kind) => item.sequence = 1

\* Generations and sequence numbers continue from item to item.
Chained ==
    /\ \A i \in 1 .. Len(queue) : FirstOfGeneration(queue[i])
    /\ \A i \in 1 .. Len(queue) - 1 : Follows(queue[i], queue[i + 1])
    /\ hand # <<>> => FirstOfGeneration(Item)
    /\ hand # <<>> /\ queue # <<>> => Follows(Item, queue[1])
    /\ queue # <<>> =>
           /\ queue[Len(queue)].generation = Newest.generation
           /\ queue[Len(queue)].sequence = Newest.sequence
    /\ hand # <<>> /\ queue = <<>> =>
           /\ Item.generation = Newest.generation
           /\ Item.sequence = Newest.sequence

\* The worker has met a reason not to carry out anything more.
Turned ==
    \/ working \in {"Record", "Wake", "Quiesce", "Cancelling", "Exiting",
                    "Exited"}
    \/ /\ working \in {"Release", "Released"}
       /\ verdict \notin {"Completed", "Stale"}

\* What the worker holds, how far it has got with it and what it has told.
WorkerOK ==
    /\ hand = <<>> <=> working \in {"NotStarted", "Idle", "Awake", "Popping",
                                    "Empty", "Cancelling", "Exiting", "Exited"}
    /\ verdict = "None" <=> hand = <<>> \/ working \in {"Popped", "Holding"}
    /\ working \in {"Publish", "Resolve"} => verdict \in {"Completed", "Stale"}
    /\ working \in {"Fail", "Record", "Wake", "Quiesce"} =>
           verdict \in {"Threw", "Rejected"}
    /\ verdict # "Failed"
    /\ verdict \in {"Threw", "Rejected"} =>
           failed \/ working \in {"Fail", "Record"}
    /\ failed => working = "NotStarted" \/ Turned
    /\ completedTicket =
           IF \/ working \in {"Popped", "Holding", "Publish", "Fail"}
              \/ verdict = "Cancelled"
           THEN Popped - 1 ELSE Popped

\* The futures: those up to the item in hand are resolved, in hand it is once
\* the worker has done so, and they are carried out unless the worker turned.
Settled ==
    /\ \A t \in Accepted :
          outcome[t] = "Pending" <=>
              \/ t > Popped
              \/ t = Popped /\ working \in {"Popped", "Holding", "Publish",
                                            "Resolve", "Fail"}
    /\ \A t \in Accepted :
          outcome[t] \in {"Cancelled", "Failed", "Rejected", "Threw"} =>
              /\ Turned
              /\ cancelRequested \/ working \in {"Record", "Wake", "Quiesce"}
    /\ working \in {"Release", "Released", "Record", "Wake", "Quiesce"} =>
           outcome[Popped] = verdict

\* What the processor expects is the item it is given next, unless the floor
\* has moved beyond what it has seen and it is to skip up to the floor.
Ready(item) ==
    \/ Accepts(item)
    \/ LET before == IF StartsGeneration(item.kind) THEN item.generation - 1
                                                    ELSE item.generation
       IN  processor.generation <= before /\ before < floor

Aligned ==
    /\ working \in {"Popped", "Holding"} => Ready(Item)
    /\ working \notin {"Popped", "Holding", "Fail"} /\ ~ Turned =>
           IF queue # <<>>
           THEN Ready(queue[1])
           ELSE /\ processor.generation = Newest.generation
                /\ processor.sequence = Newest.sequence

SkippedReset == floor > processor.generation + 1

Told ==
    /\ verdict = "Rejected" => SkippedReset
    /\ (\E t \in Accepted : outcome[t] = "Rejected") => SkippedReset
    /\ working = "Publish" =>
           CASE Item.kind = "Field" /\ verdict = "Completed" ->
                    processor.field = Item.ticket
             [] Item.kind = "Reset" ->
                    processor.field = 0 \/ SkippedReset
             [] OTHER -> completedField = processor.field \/ SkippedReset

\* A stop is requested once nothing can be submitted any more.
Closed ==
    /\ failed \/ closing \notin {"None", "Close"}
           \/ working \in {"Wake", "Quiesce"} => ~ accepting
    /\ closing \in {"Request", "Signal", "Join"} => submitting = "None"
    /\ drainRequested \/ cancelRequested \/ workerExited =>
           ~ accepting /\ submitting = "None"
    /\ closing = "Signal" => drainRequested \/ cancelRequested
    /\ working = "Cancelling" => cancelRequested
    /\ working \in {"Release", "Released"} =>
           verdict \in {"Completed", "Stale"} \/ cancelRequested
    /\ working \in {"Exiting", "Exited"} => drainRequested \/ cancelRequested
    /\ working \in {"Empty", "Exiting", "Exited"} =>
           queue = <<>> /\ ~ accepting /\ submitting = "None"
    /\ workerExited => working \in {"NotStarted", "Exited"}

\* No work signal is given without an item before a stop is requested; how many
\* there can be at most.
Signalled ==
    /\ \/ drainRequested \/ cancelRequested
       \/ workSignals
            + (IF working \in {"Awake", "Popping"} THEN 1 ELSE 0)
            + (IF submitting \in {"Publish", "Signal"} THEN 1 ELSE 0)
            <= Len(queue)
    /\ workSignals <=
           ticket - (IF submitting = "Signal" THEN 1 ELSE 0)
           + shutdowns
           - (IF closing \in {"Close", "Wake", "Quiesce", "Request", "Signal"}
              THEN 1 ELSE 0)
           + (IF \/ working \in {"Cancelling", "Exiting", "Exited"}
                 \/ /\ working \in {"Release", "Released"}
                    /\ verdict \in {"Threw", "Rejected"}
              THEN 1 ELSE 0)
    /\ closing \in {"Close", "Wake", "Quiesce", "Request", "Signal"}
           => shutdowns > 0

IInv ==
    /\ SeqTypes /\ RecordTypes /\ NumberTypes /\ PlaceTypes /\ FlagTypes
    /\ PayloadBalance
    /\ SubmissionOK
    /\ TicketsInOrder
    /\ Chained
    /\ WorkerOK
    /\ Settled
    /\ Aligned
    /\ Told
    /\ FieldIdentity
    /\ Closed
    /\ Signalled
    /\ ResolvedInOrder

-----------------------------------------------------------------------------
(* The payload of a sequence of items: what the worker takes from the front  *)
(* and the submission adds at the back changes it by just that item.         *)

\* Every set of natural numbers has a least one.
LEMMA LeastNatural ==
    ASSUME NEW T \in SUBSET Nat, T # {}
    PROVE  \E x \in T : \A y \in T : x <= y
  <1> DEFINE R == {pair \in Nat \X Nat : pair[1] < pair[2]}
  <1>1. IsWellFoundedOn(R, Nat)
    BY NatLessThanWellFounded DEF OpToRel
  <1>2. \A a, b \in Nat : a < b => <<a, b>> \in R
    OBVIOUS
  <1> HIDE DEF R
  <1>3. PICK x \in T : \A y \in T : ~ (<<y, x>> \in R)
    BY <1>1, WFMin
  <1>4. \A y \in T : ~ (y < x)
    BY <1>2, <1>3
  <1> QED BY <1>4

\* Every sequence of items has its table of running totals, and only one.
IsTotal(upTo, items, n) ==
    /\ upTo = [k \in 0 .. n |-> upTo[k]]
    /\ upTo[0] = 0
    /\ \A k \in 1 .. n : upTo[k] = upTo[k - 1] + items[k].bytes

LEMMA ItemBytes ==
    ASSUME NEW items \in Seq(Items)
    PROVE  /\ Len(items) \in Nat
           /\ \A i \in 1 .. Len(items) : items[i].bytes \in Nat
  <1>1. \A item \in Items : item.bytes \in Nat
    BY ConstantsAssumption DEF Items
  <1>2. Len(items) \in Nat /\ \A i \in 1 .. Len(items) : items[i] \in Items
    BY LenProperties, ElementOfSeq
  <1> QED BY <1>1, <1>2

LEMMA TotalExists ==
    ASSUME NEW items \in Seq(Items)
    PROVE  \E upTo : IsTotal(upTo, items, Len(items))
  <1> DEFINE Bad == {n \in 0 .. Len(items) : ~ \E upTo : IsTotal(upTo, items, n)}
  <1>1. Len(items) \in Nat
    BY ItemBytes
  <1>2. SUFFICES ASSUME Bad # {} PROVE FALSE
    BY <1>1
  <1>3. PICK n \in Bad : \A m \in Bad : n <= m
    <2>1. Bad \in SUBSET Nat
      BY <1>1
    <2> HIDE DEF Bad
    <2> QED BY <1>2, <2>1, LeastNatural
  <1>4. n # 0
    <2>1. IsTotal([k \in 0 .. 0 |-> 0], items, 0)
      BY DEF IsTotal
    <2> QED BY <2>1
  <1>5. n - 1 \in 0 .. Len(items) /\ n - 1 \notin Bad
    BY <1>1, <1>3, <1>4
  <1>6. PICK upTo : IsTotal(upTo, items, n - 1)
    BY <1>5
  <1> DEFINE next == [k \in 0 .. n |-> IF k = n THEN upTo[n - 1] + items[n].bytes
                                              ELSE upTo[k]]
  <1>7. IsTotal(next, items, n)
    <2>1. n \in 1 .. Len(items)
      BY <1>1, <1>3, <1>4
    <2>2. next[0] = 0
      BY <1>6, <2>1, <1>1 DEF IsTotal
    <2>3. ASSUME NEW k \in 1 .. n
          PROVE  next[k] = next[k - 1] + items[k].bytes
      <3>1. CASE k = n
        BY <1>1, <2>1, <3>1
      <3>2. CASE k # n
        <4>1. k \in 1 .. n - 1 /\ k - 1 # n /\ k - 1 \in 0 .. n
          BY <1>1, <2>1, <3>2
        <4>2. next[k] = upTo[k] /\ next[k - 1] = upTo[k - 1]
          BY <3>2, <4>1
        <4>3. upTo[k] = upTo[k - 1] + items[k].bytes
          BY <1>6, <4>1 DEF IsTotal
        <4> QED BY <4>2, <4>3
      <3> QED BY <3>1, <3>2
    <2>4. next = [k \in 0 .. n |-> next[k]]
      OBVIOUS
    <2> HIDE DEF next
    <2> QED BY <2>2, <2>3, <2>4 DEF IsTotal
  <1> QED BY <1>7

LEMMA BytesAre ==
    ASSUME NEW items \in Seq(Items), NEW upTo,
           IsTotal(upTo, items, Len(items))
    PROVE  /\ Bytes(items) = upTo[Len(items)]
           /\ \A n \in 0 .. Len(items) : upTo[n] \in Nat
  <1> DEFINE Defines(f) ==
               f = [n \in 0 .. Len(items) |->
                       IF n = 0 THEN 0 ELSE f[n - 1] + items[n].bytes]
             f == CHOOSE g : Defines(g)
  <1>1. Len(items) \in Nat
    BY ItemBytes
  <1>2. Defines(upTo)
    <2>1. \A n \in 0 .. Len(items) :
            upTo[n] = IF n = 0 THEN 0 ELSE upTo[n - 1] + items[n].bytes
      <3> TAKE n \in 0 .. Len(items)
      <3>1. CASE n = 0
        BY <3>1 DEF IsTotal
      <3>2. CASE n # 0
        <4>1. n \in 1 .. Len(items)
          BY <1>1, <3>2
        <4> QED BY <3>2, <4>1 DEF IsTotal
      <3> QED BY <3>1, <3>2
    <2> QED BY <2>1 DEF IsTotal
  <1>3. Defines(f)
    BY <1>2
  <1>4. Bytes(items) = f[Len(items)]
    BY DEF Bytes
  <1> HIDE DEF f
  <1> DEFINE Bad == {n \in 0 .. Len(items) : f[n] # upTo[n] \/ upTo[n] \notin Nat}
  <1>5. Bad = {}
    <2>1. SUFFICES ASSUME Bad # {} PROVE FALSE
      OBVIOUS
    <2>2. PICK n \in Bad : \A m \in Bad : n <= m
      <3>1. Bad \in SUBSET Nat
        BY <1>1
      <3> HIDE DEF Bad
      <3> QED BY <2>1, <3>1, LeastNatural
    <2>3. n # 0
      BY <1>1, <1>2, <1>3, <2>2
    <2>4. n - 1 \in 0 .. Len(items) /\ n - 1 \notin Bad
      BY <1>1, <2>2, <2>3
    <2>5. f[n] = f[n - 1] + items[n].bytes
      BY <1>1, <1>3, <2>2, <2>3
    <2>6. upTo[n] = upTo[n - 1] + items[n].bytes
      BY <1>1, <1>2, <2>2, <2>3
    <2>7. items[n].bytes \in Nat
      BY <1>1, <2>2, <2>3, ItemBytes
    <2> QED BY <2>2, <2>4, <2>5, <2>6, <2>7
  <1> QED BY <1>1, <1>4, <1>5

LEMMA BytesType ==
    ASSUME NEW items \in Seq(Items)
    PROVE  Bytes(items) \in Nat
  BY TotalExists, BytesAre, ItemBytes

LEMMA BytesEmpty == Bytes(<<>>) = 0
  <1>1. PICK upTo : IsTotal(upTo, <<>>, 0)
    BY TotalExists, EmptySeq
  <1> QED BY <1>1, BytesAre, EmptySeq DEF IsTotal

LEMMA BytesAppend ==
    ASSUME NEW items \in Seq(Items), NEW item \in Items
    PROVE  Bytes(Append(items, item)) = Bytes(items) + item.bytes
  <1> DEFINE n == Len(items)
             longer == Append(items, item)
  <1>1. n \in Nat
    BY ItemBytes
  <1>2. /\ longer \in Seq(Items) /\ Len(longer) = n + 1
        /\ \A i \in 1 .. n : longer[i] = items[i]
        /\ longer[n + 1] = item
    BY AppendProperties
  <1> HIDE DEF longer
  <1>3. PICK upTo : IsTotal(upTo, items, n)
    BY TotalExists
  <1> DEFINE next == [k \in 0 .. n + 1 |-> IF k = n + 1 THEN upTo[n] + item.bytes
                                                      ELSE upTo[k]]
  <1>4. IsTotal(next, longer, n + 1)
    <2>1. next[0] = 0
      BY <1>1, <1>3 DEF IsTotal
    <2>2. ASSUME NEW k \in 1 .. n + 1
          PROVE  next[k] = next[k - 1] + longer[k].bytes
      <3>1. CASE k = n + 1
        BY <1>1, <1>2, <3>1
      <3>2. CASE k # n + 1
        <4>1. k \in 1 .. n /\ k - 1 # n + 1 /\ k - 1 \in 0 .. n + 1
          BY <1>1, <3>2
        <4>2. next[k] = upTo[k] /\ next[k - 1] = upTo[k - 1]
          BY <3>2, <4>1
        <4>3. upTo[k] = upTo[k - 1] + items[k].bytes
          BY <1>3, <4>1 DEF IsTotal
        <4> QED BY <1>2, <4>1, <4>2, <4>3
      <3> QED BY <3>1, <3>2
    <2>3. next = [k \in 0 .. n + 1 |-> next[k]]
      OBVIOUS
    <2> HIDE DEF next
    <2> QED BY <2>1, <2>2, <2>3 DEF IsTotal
  <1>5. Bytes(longer) = next[n + 1]
    BY <1>2, <1>4, BytesAre
  <1>6. Bytes(items) = upTo[n]
    BY <1>3, BytesAre
  <1> QED BY <1>1, <1>5, <1>6 DEF longer

LEMMA BytesTail ==
    ASSUME NEW items \in Seq(Items), items # <<>>
    PROVE  Bytes(items) = Head(items).bytes + Bytes(Tail(items))
  <1> DEFINE n == Len(items) - 1
             rest == Tail(items)
  <1>1. n \in Nat /\ Len(items) = n + 1
    BY ItemBytes, EmptySeq
  <1>2. /\ rest \in Seq(Items) /\ Len(rest) = n
        /\ \A i \in 1 .. n : rest[i] = items[i + 1]
        /\ Head(items) = items[1]
    BY HeadTailProperties
  <1> HIDE DEF rest, n
  <1>3. PICK upTo : IsTotal(upTo, items, n + 1)
    BY <1>1, TotalExists
  <1>4. /\ Bytes(items) = upTo[n + 1]
        /\ \A k \in 0 .. n + 1 : upTo[k] \in Nat
    BY <1>1, <1>3, BytesAre
  <1>5. items[1].bytes \in Nat /\ upTo[1] = items[1].bytes
    BY <1>1, <1>3, ItemBytes DEF IsTotal
  <1> DEFINE next == [k \in 0 .. n |-> upTo[k + 1] - items[1].bytes]
  <1>6. IsTotal(next, rest, n)
    <2>1. next[0] = 0
      BY <1>1, <1>5
    <2>2. ASSUME NEW k \in 1 .. n PROVE next[k] = next[k - 1] + rest[k].bytes
      <3>1. upTo[k + 1] = upTo[k] + items[k + 1].bytes
        BY <1>1, <1>3 DEF IsTotal
      <3>2. items[k + 1].bytes \in Nat /\ rest[k] = items[k + 1]
        BY <1>1, <1>2, ItemBytes
      <3> QED BY <1>1, <1>4, <1>5, <3>1, <3>2
    <2> QED BY <2>1, <2>2 DEF IsTotal
  <1>7. Bytes(rest) = next[n]
    BY <1>2, <1>6, BytesAre
  <1> QED BY <1>1, <1>2, <1>4, <1>5, <1>7 DEF rest
-----------------------------------------------------------------------------
(* What the types say of the sequences.                                      *)

LEMMA TypeParts ==
    TypeOK <=> /\ SeqTypes /\ RecordTypes /\ NumberTypes /\ PlaceTypes
               /\ FlagTypes
  BY DEF TypeOK, SeqTypes, RecordTypes, NumberTypes, PlaceTypes, FlagTypes

LEMMA ItemFields ==
    ASSUME NEW item \in Items
    PROVE  /\ item.ticket \in 1 .. MaxTicket
           /\ item.generation \in 1 .. MaxGeneration
           /\ item.sequence \in 1 .. MaxTicket
           /\ item.kind \in Kinds
           /\ item.bytes \in Sizes /\ item.bytes \in Nat
  BY ConstantsAssumption DEF Items

LEMMA Bounds ==
    /\ Capacity \in Nat /\ PayloadCapacity \in Nat /\ MaxGeneration \in Nat
    /\ MaxTicket \in Nat /\ MaxShutdowns \in Nat
    /\ \A size \in Sizes : size \in Nat
  BY ConstantsAssumption

LEMMA SeqFacts ==
    ASSUME SeqTypes
    PROVE  /\ Len(queue) \in Nat /\ queue = <<>> <=> Len(queue) = 0
           /\ \A i \in 1 .. Len(queue) : queue[i] \in Items
           /\ Len(hand) \in Nat
           /\ IF hand = <<>> THEN Len(hand) = 0
                             ELSE hand = <<Item>> /\ Len(hand) = 1 /\ Item \in Items
           /\ Len(outcome) \in Nat /\ DOMAIN outcome = 1 .. Len(outcome)
           /\ \A t \in 1 .. Len(outcome) : outcome[t] \in {"Pending"} \cup Outcomes
           /\ Popped \in Int
  <1>1. /\ Len(queue) \in Nat /\ queue = <<>> <=> Len(queue) = 0
        /\ \A i \in 1 .. Len(queue) : queue[i] \in Items
    BY EmptySeq, LenProperties, ElementOfSeq DEF SeqTypes
  <1>2. /\ Len(hand) \in Nat
        /\ IF hand = <<>> THEN Len(hand) = 0
                          ELSE hand = <<Item>> /\ Len(hand) = 1 /\ Item \in Items
    <2>1. CASE hand = <<>>
      BY <2>1, EmptySeq
    <2>2. CASE hand # <<>>
      <3>1. Len(hand) \in Nat /\ Len(hand) = 1 /\ hand \in Seq(Items)
        <4>1. hand \in Seq(Items) /\ Len(hand) <= 1
          BY DEF SeqTypes
        <4>2. Len(hand) \in Nat \ {0}
          BY <2>2, <4>1, EmptySeq
        <4>3. \A n \in Nat \ {0} : n <= 1 => n = 1
          OBVIOUS
        <4> QED BY <4>1, <4>2, <4>3
      <3>2. Item = hand[1] /\ hand[1] \in Items
        BY <3>1, ElementOfSeq DEF Item
      <3>3. hand = <<Item>>
        <4>1. <<Item>> \in Seq(Items) /\ Len(<<Item>>) = 1 /\ <<Item>>[1] = Item
          BY <3>2
        <4> QED BY <3>1, <3>2, <4>1, SeqEqual
      <3> QED BY <2>2, <3>1, <3>2, <3>3
    <2> QED BY <2>1, <2>2
  <1>3. /\ Len(outcome) \in Nat /\ DOMAIN outcome = 1 .. Len(outcome)
        /\ \A t \in 1 .. Len(outcome) : outcome[t] \in {"Pending"} \cup Outcomes
    BY LenProperties, ElementOfSeq DEF SeqTypes
  <1> QED BY <1>1, <1>2, <1>3 DEF Popped

LEMMA QueueBytes ==
    ASSUME SeqTypes
    PROVE  Bytes(queue) \in Nat /\ Bytes(hand) \in Nat
  BY BytesType DEF SeqTypes

LEMMA HandBytes ==
    ASSUME SeqTypes, hand # <<>>
    PROVE  Bytes(hand) = Item.bytes
  <1>1. hand \in Seq(Items) /\ hand = <<Item>> /\ Item \in Items
    BY SeqFacts DEF SeqTypes
  <1>2. Tail(hand) = <<>>
    BY <1>1
  <1>3. Bytes(hand) = Item.bytes + 0
    BY <1>1, <1>2, BytesTail, BytesEmpty DEF Item
  <1> QED BY <1>1, <1>3, ItemFields

\* An item that is skipped, or turned down, though the processor was ready for
\* what comes: the floor is beyond it.
LEMMA ReadySkips ==
    ASSUME RecordTypes, NumberTypes, NEW item \in Items, Ready(item),
           item.generation < floor
    PROVE  /\ processor.generation <= item.generation
           /\ StartsGeneration(item.kind) => SkippedReset
  <1>1. /\ processor.generation \in Int /\ floor \in Int
        /\ item.generation \in Int
    BY ItemFields, Bounds DEF RecordTypes, NumberTypes
  <1> QED BY <1>1 DEF Ready, Accepts, SkippedReset

LEMMA ReadyRejected ==
    ASSUME RecordTypes, NumberTypes, NEW item \in Items, Ready(item),
           FirstOfGeneration(item), ~ Accepts(item), item.generation >= floor
    PROVE  SkippedReset
  <1>1. /\ processor.generation \in Int /\ floor \in Int
        /\ item.generation \in Int
    BY ItemFields, Bounds DEF RecordTypes, NumberTypes
  <1> QED BY <1>1 DEF Ready, Accepts, SkippedReset, FirstOfGeneration

LEMMA ProcessorFields ==
    ASSUME RecordTypes, NEW item \in Items
    PROVE  /\ Done(item).generation = IF StartsGeneration(item.kind)
                                      THEN item.generation
                                      ELSE processor.generation
           /\ Done(item).sequence = item.sequence
           /\ Done(item).field = IF item.kind = "Field" THEN item.ticket
                                 ELSE IF item.kind = "Reset" THEN 0
                                 ELSE processor.field
           /\ {Begun(item), Done(item)} \subseteq
                 [generation : 1 .. MaxGeneration, sequence : 0 .. MaxTicket,
                  field : 0 .. MaxTicket]
  <1>1. /\ item.generation \in 1 .. MaxGeneration
        /\ item.sequence \in 0 .. MaxTicket
        /\ item.ticket \in 0 .. MaxTicket
        /\ 0 \in 0 .. MaxTicket
    BY ItemFields, Bounds
  <1> DEFINE R == [generation : 1 .. MaxGeneration, sequence : 0 .. MaxTicket,
                   field : 0 .. MaxTicket]
             begun == Begun(item)
  <1>2. /\ begun \in R
        /\ begun.generation = IF StartsGeneration(item.kind)
                              THEN item.generation ELSE processor.generation
        /\ begun.field = IF StartsGeneration(item.kind)
                         THEN 0 ELSE processor.field
    BY <1>1 DEF RecordTypes, Begun
  <1>3. Done(item) = [begun EXCEPT !.sequence = item.sequence,
                                   !.field = IF item.kind = "Field"
                                             THEN item.ticket ELSE @]
    BY DEF Done
  <1> HIDE DEF begun
  <1>4. /\ Done(item) \in R
        /\ Done(item).generation = begun.generation
        /\ Done(item).sequence = item.sequence
        /\ Done(item).field = IF item.kind = "Field" THEN item.ticket
                              ELSE begun.field
    BY <1>1, <1>2, <1>3
  <1> QED BY <1>2, <1>4 DEF begun, StartsGeneration

\* A future is resolved.
LEMMA Resolves ==
    ASSUME SeqTypes, NEW t \in 1 .. Len(outcome), NEW v \in Outcomes,
           outcome' = [outcome EXCEPT ![t] = v]
    PROVE  /\ outcome' \in Seq({"Pending"} \cup Outcomes)
           /\ Len(outcome') = Len(outcome)
           /\ DOMAIN outcome' = 1 .. Len(outcome)
           /\ \A u \in 1 .. Len(outcome) :
                 outcome'[u] = IF u = t THEN v ELSE outcome[u]
  <1>1. outcome \in Seq({"Pending"} \cup Outcomes)
    BY DEF SeqTypes
  <1> DEFINE S == {"Pending"} \cup Outcomes
  <1>2. v \in S /\ outcome \in Seq(S)
    BY <1>1
  <1> HIDE DEF S
  <1>3. /\ outcome' \in Seq(S) /\ Len(outcome') = Len(outcome)
        /\ \A u \in 1 .. Len(outcome) :
              outcome'[u] = IF u = t THEN v ELSE outcome[u]
    BY <1>2, ExceptSeq
  <1>4. DOMAIN outcome' = 1 .. Len(outcome)
    BY <1>3, LenProperties
  <1> QED BY <1>3, <1>4 DEF S

\* The oldest unresolved future is resolved: the order is kept if everything
\* before it was carried out, or if it is not carried out itself.
LEMMA ResolvesInOrder ==
    ASSUME SeqTypes, ResolvedInOrder, NEW t \in 1 .. Len(outcome),
           NEW v \in Outcomes, outcome' = [outcome EXCEPT ![t] = v],
           \A u \in 1 .. Len(outcome) : u > t => outcome[u] = "Pending",
           \A u \in 1 .. t - 1 : outcome[u] # "Pending",
           \/ v \in {"Cancelled", "Failed"}
           \/ \A u \in 1 .. t - 1 : outcome[u] \in {"Completed", "Stale"}
    PROVE  ResolvedInOrder'
  <1>1. /\ Len(outcome) \in Nat /\ DOMAIN outcome = 1 .. Len(outcome)
        /\ DOMAIN outcome' = 1 .. Len(outcome)
        /\ \A u \in 1 .. Len(outcome) :
              outcome'[u] = IF u = t THEN v ELSE outcome[u]
    BY SeqFacts, Resolves
  <1>2. SUFFICES ASSUME NEW x \in 1 .. Len(outcome), outcome'[x] # "Pending",
                        NEW u \in 1 .. x - 1
                 PROVE  \/ outcome'[u] \in {"Completed", "Stale"}
                        \/ /\ outcome'[u] # "Pending"
                           /\ outcome'[x] \in {"Cancelled", "Failed"}
    BY <1>1 DEF ResolvedInOrder, Accepted
  <1>3. x <= t /\ u \in 1 .. t - 1 /\ u \in 1 .. Len(outcome) /\ u # t
    BY <1>1, <1>2
  <1>4. CASE x = t
    BY <1>1, <1>3, <1>4
  <1>5. CASE x # t
    BY <1>1, <1>2, <1>3, <1>5 DEF ResolvedInOrder, Accepted
  <1> QED BY <1>4, <1>5

-----------------------------------------------------------------------------
(* A conjunct is kept by every step that leaves what it reads unchanged.     *)

LEMMA SeqTypesFrame ==
    ASSUME SeqTypes,
           UNCHANGED <<queue, hand, outcome>>
    PROVE  SeqTypes'
  BY DEF SeqTypes

LEMMA RecordTypesFrame ==
    ASSUME RecordTypes,
           UNCHANGED <<draft, processor>>
    PROVE  RecordTypes'
  BY DEF RecordTypes

LEMMA NumberTypesFrame ==
    ASSUME NumberTypes,
           UNCHANGED <<generation, sequence, ticket, queuedPayload, workSignals,
                       floor, completedTicket, completedField, shutdowns>>
    PROVE  NumberTypes'
  BY DEF NumberTypes

LEMMA PlaceTypesFrame ==
    ASSUME PlaceTypes,
           UNCHANGED <<submitting, working, verdict, closing, mode>>
    PROVE  PlaceTypes'
  BY DEF PlaceTypes

LEMMA FlagTypesFrame ==
    ASSUME FlagTypes,
           UNCHANGED <<spaceMoved, accepting, drainRequested, cancelRequested,
                       started, failed, workerExited>>
    PROVE  FlagTypes'
  BY DEF FlagTypes

LEMMA PayloadBalanceFrame ==
    ASSUME PayloadBalance,
           UNCHANGED <<queuedPayload, queue, working, hand, submitting, draft>>
    PROVE  PayloadBalance'
  BY DEF PayloadBalance

LEMMA SubmissionOKFrame ==
    ASSUME SubmissionOK,
           UNCHANGED <<sequence, ticket, floor, generation, submitting, draft,
                       queue, outcome, started, working>>
    PROVE  SubmissionOK'
  BY DEF SubmissionOK, StartsGeneration

LEMMA TicketsInOrderFrame ==
    ASSUME TicketsInOrder,
           UNCHANGED <<queue, outcome, hand>>
    PROVE  TicketsInOrder'
  BY DEF TicketsInOrder, Popped, Item

LEMMA ChainedFrame ==
    ASSUME Chained,
           UNCHANGED <<queue, hand, submitting, draft, generation, sequence,
                       ticket>>
    PROVE  Chained'
  BY DEF Chained, Newest, NewItem, Item

LEMMA WorkerOKFrame ==
    ASSUME WorkerOK,
           UNCHANGED <<hand, working, verdict, failed, completedTicket, outcome,
                       queue>>
    PROVE  WorkerOK'
  BY DEF WorkerOK, Popped, Turned

LEMMA SettledFrame ==
    ASSUME Settled,
           UNCHANGED <<outcome, queue, working, verdict, cancelRequested>>
    PROVE  Settled'
  BY DEF Settled, Accepted, Turned, Popped

LEMMA AlignedFrame ==
    ASSUME Aligned,
           UNCHANGED <<working, verdict, hand, queue, processor, floor,
                       submitting, draft, generation, sequence, ticket>>
    PROVE  Aligned'
  BY DEF Aligned, Ready, Accepts, Turned, Newest, NewItem, Item

LEMMA ToldFrame ==
    ASSUME Told,
           UNCHANGED <<verdict, floor, processor, outcome, working, hand,
                       completedField>>
    PROVE  Told'
  BY DEF Told, SkippedReset, Accepted, Item

LEMMA FieldIdentityFrame ==
    ASSUME FieldIdentity,
           UNCHANGED <<completedField, processor, working, verdict, failed, floor>>
    PROVE  FieldIdentity'
  BY DEF FieldIdentity

LEMMA ClosedFrame ==
    ASSUME Closed,
           UNCHANGED <<failed, closing, working, accepting, submitting,
                       drainRequested, cancelRequested, workerExited, verdict,
                       queue>>
    PROVE  Closed'
  BY DEF Closed

LEMMA SignalledFrame ==
    ASSUME Signalled,
           UNCHANGED <<drainRequested, cancelRequested, workSignals, working,
                       submitting, queue, ticket, shutdowns, closing, verdict>>
    PROVE  Signalled'
  BY DEF Signalled

LEMMA ResolvedInOrderFrame ==
    ASSUME ResolvedInOrder,
           UNCHANGED <<outcome>>
    PROVE  ResolvedInOrder'
  BY DEF ResolvedInOrder, Accepted

-----------------------------------------------------------------------------
(* submitAsync, cancelPendingBeforeGeneration and the start of shutdown.     *)

LEMMA SubmitKeeps ==
    ASSUME IInv, NEW kind \in Kinds, NEW bytes \in Sizes, Submit(kind, bytes)
    PROVE  IInv'
  <1> USE DEF IInv, submitVars, workerVars, lifeVars, closeVars
  <1>1. PayloadBalance'
    BY DEF Submit, PayloadBalance
  <1>2. SubmissionOK'
    BY DEF Submit, SubmissionOK, StartsGeneration
  <1>3. Chained'
    BY DEF Submit, Chained, Newest, NewItem, Item
  <1>4. Aligned'
    BY DEF Submit, Aligned, Ready, Accepts, Turned, Newest, NewItem, Item
  <1>5. Closed'
    BY DEF Submit, Closed
  <1>6. Signalled'
    BY SeqFacts, Bounds DEF Submit, Signalled, NumberTypes, SubmissionOK,
       WorkerOK
  <1>7. RecordTypes'
    BY DEF Submit, RecordTypes, NoDraft, Kinds
  <1>8. PlaceTypes'
    BY DEF Submit, PlaceTypes, Outcomes, Modes
  <1>9. /\ TicketsInOrder' /\ WorkerOK' /\ Settled' /\ Told'
        /\ FieldIdentity' /\ ResolvedInOrder' /\ SeqTypes' /\ NumberTypes'
        /\ FlagTypes'
    BY TicketsInOrderFrame, WorkerOKFrame, SettledFrame, ToldFrame,
       FieldIdentityFrame, ResolvedInOrderFrame, SeqTypesFrame,
       NumberTypesFrame, FlagTypesFrame DEF Submit
  <1> QED BY <1>1, <1>2, <1>3, <1>4, <1>5, <1>6, <1>7, <1>8, <1>9 DEF IInv

LEMMA RaiseFloorKeeps ==
    ASSUME IInv, NEW least \in 2 .. MaxGeneration, RaiseFloor(least)
    PROVE  IInv'
  <1> USE DEF IInv, submitVars, workerVars, lifeVars, closeVars
  <1>1. floor' > floor /\ floor \in Int /\ floor' \in Int /\ processor.generation \in Int
    BY Bounds DEF RaiseFloor, NumberTypes, RecordTypes
  <1>2. SkippedReset => SkippedReset'
    BY <1>1 DEF RaiseFloor, SkippedReset
  <1>3. \A item \in Items : Ready(item) => Ready(item)'
    BY <1>1, ItemFields, Bounds DEF RaiseFloor, Ready, Accepts
  <1>4. SubmissionOK'
    BY Bounds DEF RaiseFloor, SubmissionOK, StartsGeneration, NumberTypes
  <1>5. Aligned'
    <2>1. queue # <<>> => queue[1] \in Items
      BY SeqFacts
    <2>2. working \in {"Popped", "Holding"} => Item \in Items
      BY SeqFacts DEF WorkerOK
    <2> QED BY <1>3, <2>1, <2>2 DEF RaiseFloor, Aligned, Turned, Newest, NewItem, Item
  <1>6. Told'
    BY <1>2 DEF RaiseFloor, Told, Accepted, Item
  <1>7. FieldIdentity'
    BY <1>1 DEF RaiseFloor, FieldIdentity
  <1>8. NumberTypes'
    BY SeqFacts, ItemFields, Bounds DEF RaiseFloor, NumberTypes, SubmissionOK
  <1>9. /\ PayloadBalance' /\ TicketsInOrder' /\ Chained' /\ WorkerOK'
        /\ Settled' /\ Closed' /\ Signalled' /\ ResolvedInOrder' /\ SeqTypes'
        /\ RecordTypes' /\ PlaceTypes' /\ FlagTypes'
    BY PayloadBalanceFrame, TicketsInOrderFrame, ChainedFrame, WorkerOKFrame,
       SettledFrame, ClosedFrame, SignalledFrame, ResolvedInOrderFrame,
       SeqTypesFrame, RecordTypesFrame, PlaceTypesFrame, FlagTypesFrame DEF RaiseFloor
  <1> QED BY <1>4, <1>5, <1>6, <1>7, <1>8, <1>9 DEF IInv

LEMMA ShutdownKeeps ==
    ASSUME IInv, NEW how \in Modes, Shutdown(how)
    PROVE  IInv'
  <1> USE DEF IInv, submitVars, workerVars, lifeVars, closeVars
  <1>1. Closed'
    BY DEF Shutdown, Closed
  <1>2. Signalled'
    BY SeqFacts, Bounds DEF Shutdown, Signalled, NumberTypes, SubmissionOK,
       WorkerOK
  <1>3. NumberTypes'
    BY SeqFacts, ItemFields, Bounds, SMTT(60) DEF Shutdown, NumberTypes, SubmissionOK
  <1>4. PlaceTypes'
    BY DEF Shutdown, PlaceTypes, Outcomes, Modes
  <1>5. /\ PayloadBalance' /\ SubmissionOK' /\ TicketsInOrder' /\ Chained'
        /\ WorkerOK' /\ Settled' /\ Aligned' /\ Told' /\ FieldIdentity'
        /\ ResolvedInOrder' /\ SeqTypes' /\ RecordTypes' /\ FlagTypes'
    BY PayloadBalanceFrame, SubmissionOKFrame, TicketsInOrderFrame,
       ChainedFrame, WorkerOKFrame, SettledFrame, AlignedFrame, ToldFrame,
       FieldIdentityFrame, ResolvedInOrderFrame, SeqTypesFrame,
       RecordTypesFrame, FlagTypesFrame DEF Shutdown
  <1> QED BY <1>1, <1>2, <1>3, <1>4, <1>5 DEF IInv

LEMMA EnsureStartedKeeps ==
    ASSUME IInv, EnsureStarted
    PROVE  IInv'
  <1> USE DEF IInv, submitVars, workerVars, lifeVars, closeVars
  <1>1. PayloadBalance'
    BY DEF EnsureStarted, PayloadBalance, SubmissionOK
  <1>2. SubmissionOK'
    BY DEF EnsureStarted, SubmissionOK, StartsGeneration
  <1>3. Chained'
    BY DEF EnsureStarted, Chained, Newest, NewItem, Item
  <1>4. WorkerOK'
    BY DEF EnsureStarted, WorkerOK, Popped, Turned, SubmissionOK, Closed,
       PlaceTypes
  <1>5. Settled'
    BY DEF EnsureStarted, Settled, Accepted, Turned, Popped, SubmissionOK
  <1>6. Aligned'
    BY DEF EnsureStarted, Aligned, Ready, Accepts, Turned, Newest, NewItem,
       Item, SubmissionOK
  <1>7. Told'
    BY DEF EnsureStarted, Told, SkippedReset, Accepted, Item
  <1>8. FieldIdentity'
    BY DEF EnsureStarted, FieldIdentity, SubmissionOK
  <1>9. Closed'
    BY DEF EnsureStarted, Closed
  <1>10. Signalled'
    BY SeqFacts, Bounds DEF EnsureStarted, Signalled, NumberTypes,
       SubmissionOK
  <1>11. RecordTypes'
    BY DEF EnsureStarted, RecordTypes, NoDraft, Kinds
  <1>12. PlaceTypes'
    BY DEF EnsureStarted, PlaceTypes, Outcomes, Modes
  <1>13. FlagTypes'
    BY Zenon DEF EnsureStarted, FlagTypes
  <1>14. /\ TicketsInOrder' /\ ResolvedInOrder' /\ SeqTypes' /\ NumberTypes'
    BY TicketsInOrderFrame, ResolvedInOrderFrame, SeqTypesFrame,
       NumberTypesFrame DEF EnsureStarted
  <1> QED BY <1>1, <1>2, <1>3, <1>4, <1>5, <1>6, <1>7, <1>8, <1>9, <1>10,
             <1>11, <1>12, <1>13, <1>14 DEF IInv

LEMMA StartRefusedKeeps ==
    ASSUME IInv, StartRefused
    PROVE  IInv'
  <1> USE DEF IInv, submitVars, workerVars, lifeVars, closeVars
  <1>1. PayloadBalance'
    BY DEF StartRefused, GiveUp, PayloadBalance
  <1>2. SubmissionOK'
    BY DEF StartRefused, GiveUp, SubmissionOK, StartsGeneration
  <1>3. Chained'
    BY DEF StartRefused, GiveUp, Chained, Newest, NewItem, Item
  <1>4. Aligned'
    BY DEF StartRefused, GiveUp, Aligned, Ready, Accepts, Turned, Newest,
       NewItem, Item
  <1>5. Closed'
    BY DEF StartRefused, GiveUp, Closed
  <1>6. Signalled'
    BY SeqFacts, Bounds DEF StartRefused, GiveUp, Signalled, NumberTypes,
       SubmissionOK, WorkerOK
  <1>7. RecordTypes'
    BY DEF StartRefused, GiveUp, RecordTypes, NoDraft, Kinds
  <1>8. PlaceTypes'
    BY DEF StartRefused, GiveUp, PlaceTypes, Outcomes, Modes
  <1>9. /\ TicketsInOrder' /\ WorkerOK' /\ Settled' /\ Told'
        /\ FieldIdentity' /\ ResolvedInOrder' /\ SeqTypes' /\ NumberTypes'
        /\ FlagTypes'
    BY TicketsInOrderFrame, WorkerOKFrame, SettledFrame, ToldFrame,
       FieldIdentityFrame, ResolvedInOrderFrame, SeqTypesFrame,
       NumberTypesFrame, FlagTypesFrame DEF StartRefused, GiveUp
  <1> QED BY <1>1, <1>2, <1>3, <1>4, <1>5, <1>6, <1>7, <1>8, <1>9 DEF IInv

LEMMA StartFailsKeeps ==
    ASSUME IInv, StartFails
    PROVE  IInv'
  <1> USE DEF IInv, submitVars, workerVars, lifeVars, closeVars
  <1>1. PayloadBalance'
    BY DEF StartFails, GiveUp, PayloadBalance
  <1>2. SubmissionOK'
    BY DEF StartFails, GiveUp, SubmissionOK, StartsGeneration
  <1>3. Chained'
    BY DEF StartFails, GiveUp, Chained, Newest, NewItem, Item
  <1>4. WorkerOK'
    BY DEF StartFails, GiveUp, WorkerOK, Popped, Turned, SubmissionOK, Closed,
       PlaceTypes
  <1>5. Aligned'
    BY DEF StartFails, GiveUp, Aligned, Ready, Accepts, Turned, Newest,
       NewItem, Item
  <1>6. FieldIdentity'
    BY DEF StartFails, GiveUp, FieldIdentity
  <1>7. Closed'
    BY DEF StartFails, GiveUp, Closed
  <1>8. Signalled'
    BY SeqFacts, Bounds DEF StartFails, GiveUp, Signalled, NumberTypes,
       SubmissionOK, WorkerOK
  <1>9. RecordTypes'
    BY DEF StartFails, GiveUp, RecordTypes, NoDraft, Kinds
  <1>10. PlaceTypes'
    BY DEF StartFails, GiveUp, PlaceTypes, Outcomes, Modes
  <1>11. FlagTypes'
    BY Zenon DEF StartFails, GiveUp, FlagTypes
  <1>12. /\ TicketsInOrder' /\ Settled' /\ Told' /\ ResolvedInOrder'
         /\ SeqTypes' /\ NumberTypes'
    BY TicketsInOrderFrame, SettledFrame, ToldFrame, ResolvedInOrderFrame,
       SeqTypesFrame, NumberTypesFrame DEF StartFails, GiveUp
  <1> QED BY <1>1, <1>2, <1>3, <1>4, <1>5, <1>6, <1>7, <1>8, <1>9, <1>10,
             <1>11, <1>12 DEF IInv

LEMMA CheckAdmissionKeeps ==
    ASSUME IInv, CheckAdmission
    PROVE  IInv'
  <1> USE DEF IInv, submitVars, workerVars, lifeVars, closeVars
  <1>1. PayloadBalance'
    BY DEF CheckAdmission, PayloadBalance
  <1>2. SubmissionOK'
    BY DEF CheckAdmission, SubmissionOK, StartsGeneration
  <1>3. Chained'
    BY DEF CheckAdmission, Chained, Newest, NewItem, Item
  <1>4. Aligned'
    BY DEF CheckAdmission, Aligned, Ready, Accepts, Turned, Newest, NewItem,
       Item
  <1>5. Closed'
    BY DEF CheckAdmission, Closed
  <1>6. Signalled'
    BY SeqFacts, Bounds DEF CheckAdmission, Signalled, NumberTypes,
       SubmissionOK, WorkerOK
  <1>7. PlaceTypes'
    BY DEF CheckAdmission, PlaceTypes, Outcomes, Modes
  <1>8. /\ TicketsInOrder' /\ WorkerOK' /\ Settled' /\ Told'
        /\ FieldIdentity' /\ ResolvedInOrder' /\ SeqTypes' /\ RecordTypes'
        /\ NumberTypes' /\ FlagTypes'
    BY TicketsInOrderFrame, WorkerOKFrame, SettledFrame, ToldFrame,
       FieldIdentityFrame, ResolvedInOrderFrame, SeqTypesFrame,
       RecordTypesFrame, NumberTypesFrame, FlagTypesFrame DEF CheckAdmission
  <1> QED BY <1>1, <1>2, <1>3, <1>4, <1>5, <1>6, <1>7, <1>8 DEF IInv

LEMMA AdmissionClosedKeeps ==
    ASSUME IInv, AdmissionClosed
    PROVE  IInv'
  <1> USE DEF IInv, submitVars, workerVars, lifeVars, closeVars
  <1>1. PayloadBalance'
    BY DEF AdmissionClosed, GiveUp, PayloadBalance
  <1>2. SubmissionOK'
    BY DEF AdmissionClosed, GiveUp, SubmissionOK, StartsGeneration
  <1>3. Chained'
    BY DEF AdmissionClosed, GiveUp, Chained, Newest, NewItem, Item
  <1>4. Aligned'
    BY DEF AdmissionClosed, GiveUp, Aligned, Ready, Accepts, Turned, Newest,
       NewItem, Item
  <1>5. Closed'
    BY DEF AdmissionClosed, GiveUp, Closed
  <1>6. Signalled'
    BY SeqFacts, Bounds DEF AdmissionClosed, GiveUp, Signalled, NumberTypes,
       SubmissionOK, WorkerOK
  <1>7. RecordTypes'
    BY DEF AdmissionClosed, GiveUp, RecordTypes, NoDraft, Kinds
  <1>8. PlaceTypes'
    BY DEF AdmissionClosed, GiveUp, PlaceTypes, Outcomes, Modes
  <1>9. /\ TicketsInOrder' /\ WorkerOK' /\ Settled' /\ Told'
        /\ FieldIdentity' /\ ResolvedInOrder' /\ SeqTypes' /\ NumberTypes'
        /\ FlagTypes'
    BY TicketsInOrderFrame, WorkerOKFrame, SettledFrame, ToldFrame,
       FieldIdentityFrame, ResolvedInOrderFrame, SeqTypesFrame,
       NumberTypesFrame, FlagTypesFrame DEF AdmissionClosed, GiveUp
  <1> QED BY <1>1, <1>2, <1>3, <1>4, <1>5, <1>6, <1>7, <1>8, <1>9 DEF IInv

LEMMA LoadSpaceEpochKeeps ==
    ASSUME IInv, LoadSpaceEpoch
    PROVE  IInv'
  <1> USE DEF IInv, submitVars, workerVars, lifeVars, closeVars
  <1>1. PayloadBalance'
    BY DEF LoadSpaceEpoch, PayloadBalance
  <1>2. SubmissionOK'
    BY DEF LoadSpaceEpoch, SubmissionOK, StartsGeneration
  <1>3. Chained'
    BY DEF LoadSpaceEpoch, Chained, Newest, NewItem, Item
  <1>4. Aligned'
    BY DEF LoadSpaceEpoch, Aligned, Ready, Accepts, Turned, Newest, NewItem,
       Item
  <1>5. Closed'
    BY DEF LoadSpaceEpoch, Closed
  <1>6. Signalled'
    BY SeqFacts, Bounds DEF LoadSpaceEpoch, Signalled, NumberTypes,
       SubmissionOK, WorkerOK
  <1>7. PlaceTypes'
    BY DEF LoadSpaceEpoch, PlaceTypes, Outcomes, Modes
  <1>8. FlagTypes'
    BY Zenon DEF LoadSpaceEpoch, FlagTypes
  <1>9. /\ TicketsInOrder' /\ WorkerOK' /\ Settled' /\ Told'
        /\ FieldIdentity' /\ ResolvedInOrder' /\ SeqTypes' /\ RecordTypes'
        /\ NumberTypes'
    BY TicketsInOrderFrame, WorkerOKFrame, SettledFrame, ToldFrame,
       FieldIdentityFrame, ResolvedInOrderFrame, SeqTypesFrame,
       RecordTypesFrame, NumberTypesFrame DEF LoadSpaceEpoch
  <1> QED BY <1>1, <1>2, <1>3, <1>4, <1>5, <1>6, <1>7, <1>8, <1>9 DEF IInv

LEMMA ReservePayloadKeeps ==
    ASSUME IInv, ReservePayload
    PROVE  IInv'
  <1> USE DEF IInv, submitVars, workerVars, lifeVars, closeVars
  <1>1. PayloadBalance'
    BY QueueBytes, Bounds, SMTT(60) DEF ReservePayload, PayloadBalance, RecordTypes,
       NumberTypes, SeqTypes
  <1>2. SubmissionOK'
    BY DEF ReservePayload, SubmissionOK, StartsGeneration, Fits
  <1>3. Chained'
    BY DEF ReservePayload, Chained, Newest, NewItem, Item
  <1>4. Aligned'
    BY DEF ReservePayload, Aligned, Ready, Accepts, Turned, Newest, NewItem,
       Item
  <1>5. Closed'
    BY DEF ReservePayload, Closed
  <1>6. Signalled'
    BY SeqFacts, Bounds DEF ReservePayload, Signalled, NumberTypes,
       SubmissionOK, WorkerOK
  <1>7. NumberTypes'
    BY Bounds DEF ReservePayload, NumberTypes, RecordTypes, Fits
  <1>8. PlaceTypes'
    BY DEF ReservePayload, PlaceTypes, Outcomes, Modes
  <1>9. /\ TicketsInOrder' /\ WorkerOK' /\ Settled' /\ Told'
        /\ FieldIdentity' /\ ResolvedInOrder' /\ SeqTypes' /\ RecordTypes'
        /\ FlagTypes'
    BY TicketsInOrderFrame, WorkerOKFrame, SettledFrame, ToldFrame,
       FieldIdentityFrame, ResolvedInOrderFrame, SeqTypesFrame,
       RecordTypesFrame, FlagTypesFrame DEF ReservePayload
  <1> QED BY <1>1, <1>2, <1>3, <1>4, <1>5, <1>6, <1>7, <1>8, <1>9 DEF IInv

LEMMA NoSpaceKeeps ==
    ASSUME IInv, NoSpace
    PROVE  IInv'
  <1> USE DEF IInv, submitVars, workerVars, lifeVars, closeVars
  <1>1. PayloadBalance'
    BY DEF NoSpace, PayloadBalance
  <1>2. SubmissionOK'
    BY DEF NoSpace, SubmissionOK, StartsGeneration
  <1>3. Chained'
    BY DEF NoSpace, Chained, Newest, NewItem, Item
  <1>4. Aligned'
    BY DEF NoSpace, Aligned, Ready, Accepts, Turned, Newest, NewItem, Item
  <1>5. Closed'
    BY DEF NoSpace, Closed
  <1>6. Signalled'
    BY SeqFacts, Bounds DEF NoSpace, Signalled, NumberTypes, SubmissionOK,
       WorkerOK
  <1>7. PlaceTypes'
    BY DEF NoSpace, PlaceTypes, Outcomes, Modes
  <1>8. /\ TicketsInOrder' /\ WorkerOK' /\ Settled' /\ Told'
        /\ FieldIdentity' /\ ResolvedInOrder' /\ SeqTypes' /\ RecordTypes'
        /\ NumberTypes' /\ FlagTypes'
    BY TicketsInOrderFrame, WorkerOKFrame, SettledFrame, ToldFrame,
       FieldIdentityFrame, ResolvedInOrderFrame, SeqTypesFrame,
       RecordTypesFrame, NumberTypesFrame, FlagTypesFrame DEF NoSpace
  <1> QED BY <1>1, <1>2, <1>3, <1>4, <1>5, <1>6, <1>7, <1>8 DEF IInv

LEMMA RecheckAdmissionKeeps ==
    ASSUME IInv, RecheckAdmission
    PROVE  IInv'
  <1> USE DEF IInv, submitVars, workerVars, lifeVars, closeVars
  <1>1. PayloadBalance'
    BY DEF RecheckAdmission, PayloadBalance
  <1>2. SubmissionOK'
    BY DEF RecheckAdmission, SubmissionOK, StartsGeneration
  <1>3. Chained'
    BY DEF RecheckAdmission, Chained, Newest, NewItem, Item
  <1>4. Aligned'
    BY DEF RecheckAdmission, Aligned, Ready, Accepts, Turned, Newest, NewItem,
       Item
  <1>5. Closed'
    BY DEF RecheckAdmission, Closed
  <1>6. Signalled'
    BY SeqFacts, Bounds DEF RecheckAdmission, Signalled, NumberTypes,
       SubmissionOK, WorkerOK
  <1>7. PlaceTypes'
    BY DEF RecheckAdmission, PlaceTypes, Outcomes, Modes
  <1>8. /\ TicketsInOrder' /\ WorkerOK' /\ Settled' /\ Told'
        /\ FieldIdentity' /\ ResolvedInOrder' /\ SeqTypes' /\ RecordTypes'
        /\ NumberTypes' /\ FlagTypes'
    BY TicketsInOrderFrame, WorkerOKFrame, SettledFrame, ToldFrame,
       FieldIdentityFrame, ResolvedInOrderFrame, SeqTypesFrame,
       RecordTypesFrame, NumberTypesFrame, FlagTypesFrame DEF RecheckAdmission
  <1> QED BY <1>1, <1>2, <1>3, <1>4, <1>5, <1>6, <1>7, <1>8 DEF IInv

LEMMA WaitForSpaceKeeps ==
    ASSUME IInv, WaitForSpace
    PROVE  IInv'
  <1> USE DEF IInv, submitVars, workerVars, lifeVars, closeVars
  <1>1. PayloadBalance'
    BY DEF WaitForSpace, PayloadBalance
  <1>2. SubmissionOK'
    BY DEF WaitForSpace, SubmissionOK, StartsGeneration
  <1>3. Chained'
    BY DEF WaitForSpace, Chained, Newest, NewItem, Item
  <1>4. Aligned'
    BY DEF WaitForSpace, Aligned, Ready, Accepts, Turned, Newest, NewItem,
       Item
  <1>5. Closed'
    BY DEF WaitForSpace, Closed
  <1>6. Signalled'
    BY SeqFacts, Bounds DEF WaitForSpace, Signalled, NumberTypes,
       SubmissionOK, WorkerOK
  <1>7. PlaceTypes'
    BY DEF WaitForSpace, PlaceTypes, Outcomes, Modes
  <1>8. /\ TicketsInOrder' /\ WorkerOK' /\ Settled' /\ Told'
        /\ FieldIdentity' /\ ResolvedInOrder' /\ SeqTypes' /\ RecordTypes'
        /\ NumberTypes' /\ FlagTypes'
    BY TicketsInOrderFrame, WorkerOKFrame, SettledFrame, ToldFrame,
       FieldIdentityFrame, ResolvedInOrderFrame, SeqTypesFrame,
       RecordTypesFrame, NumberTypesFrame, FlagTypesFrame DEF WaitForSpace
  <1> QED BY <1>1, <1>2, <1>3, <1>4, <1>5, <1>6, <1>7, <1>8 DEF IInv

LEMMA EnqueueKeeps ==
    ASSUME IInv, Enqueue
    PROVE  IInv'
  <1> USE DEF IInv, submitVars, workerVars, lifeVars, closeVars
  <1>1. NewItem \in Items /\ FirstOfGeneration(NewItem)
    BY Bounds DEF Enqueue, SubmissionOK, NumberTypes, RecordTypes, NewItem, Items,
                  StartsGeneration, FirstOfGeneration
  <1>2. /\ queue' \in Seq(Items) /\ Len(queue') = Len(queue) + 1
        /\ \A i \in 1 .. Len(queue) : queue'[i] = queue[i]
        /\ queue'[Len(queue) + 1] = NewItem /\ queue' # <<>>
    BY <1>1, AppendProperties DEF Enqueue, SeqTypes
  <1>3. /\ outcome' \in Seq({"Pending"} \cup Outcomes) /\ Len(outcome') = Len(outcome) + 1
        /\ \A t \in 1 .. Len(outcome) : outcome'[t] = outcome[t]
        /\ outcome'[Len(outcome) + 1] = "Pending"
        /\ DOMAIN outcome' = 1 .. Len(outcome) + 1
    <2>1. outcome \in Seq({"Pending"} \cup Outcomes)
      BY DEF SeqTypes
    <2> QED BY <2>1, AppendProperties, LenProperties DEF Enqueue
  <1>4. /\ Len(queue) \in Nat /\ Len(outcome) \in Nat /\ DOMAIN outcome = 1 .. Len(outcome)
        /\ Popped' = Popped /\ Popped \in Int /\ Popped <= Len(outcome) /\ Item' = Item
        /\ UNCHANGED <<working, verdict, cancelRequested, processor, floor, hand>>
        /\ submitting = "Push" /\ submitting' = "Publish"
    BY <1>2, <1>3, SeqFacts DEF Enqueue, Popped, Item
  <1>5. PayloadBalance'
    <2>1. Bytes(queue') = Bytes(queue) + NewItem.bytes
      BY <1>1, BytesAppend DEF Enqueue, SeqTypes
    <2>2. /\ NewItem.bytes = draft.bytes /\ draft.bytes \in Nat
          /\ Bytes(queue) \in Nat /\ Bytes(hand) \in Nat
      BY QueueBytes, Bounds DEF NewItem, RecordTypes
    <2> QED BY <1>4, <2>1, <2>2 DEF Enqueue, PayloadBalance
  <1>6. SubmissionOK'
    BY <1>3, <1>4, Bounds DEF Enqueue, SubmissionOK, NumberTypes, StartsGeneration
  <1>7. TicketsInOrder'
    <2>1. NewItem.ticket = Popped + Len(queue) + 1
      <3>1. NewItem.ticket = ticket + 1 /\ Len(outcome) = ticket
        BY <1>4, Bounds DEF SubmissionOK, NewItem, NumberTypes
      <3> QED BY <1>4, <3>1 DEF Popped
    <2>2. ASSUME NEW i \in 1 .. Len(queue) + 1
          PROVE  queue'[i].ticket = Popped + i
      <3>1. CASE i = Len(queue) + 1
        BY <1>2, <1>4, <2>1, <3>1
      <3>2. CASE i \in 1 .. Len(queue)
        BY <1>2, <3>2 DEF TicketsInOrder
      <3> QED BY <1>4, <3>1, <3>2
    <2> QED BY <1>2, <1>4, <2>2 DEF TicketsInOrder
  <1>8. Chained'
    <2>1. /\ NewItem' = NewItem /\ Newest'.generation = NewItem.generation
          /\ Newest'.sequence = NewItem.sequence
      BY DEF Enqueue, Newest, NewItem
    <2>2. /\ Newest.generation = generation /\ Newest.sequence = sequence
          /\ \A item : item.generation = generation /\ item.sequence = sequence
                     => Follows(item, NewItem)
      BY <1>4 DEF Newest, NewItem, Follows
    <2>3. \A i \in 1 .. Len(queue') : FirstOfGeneration(queue'[i])
      BY <1>1, <1>2, <1>4 DEF Chained
    <2>4. ASSUME NEW i \in 1 .. Len(queue') - 1
          PROVE  Follows(queue'[i], queue'[i + 1])
      <3>1. CASE i = Len(queue)
        BY <1>2, <1>4, <2>2, <3>1 DEF Chained
      <3>2. CASE i # Len(queue)
        <4>1. i \in 1 .. Len(queue) - 1 /\ i \in 1 .. Len(queue)
              /\ i + 1 \in 1 .. Len(queue)
          BY <1>2, <1>4, <3>2
        <4> QED BY <1>2, <4>1 DEF Chained
      <3> QED BY <3>1, <3>2
    <2>5. hand # <<>> => Follows(Item, queue'[1])
      <3>1. CASE queue = <<>>
        <4>1. Len(queue) = 0
          BY <3>1, SeqFacts
        <4> QED BY <1>2, <1>4, <2>2, <3>1, <4>1 DEF Chained
      <3>2. CASE queue # <<>>
        <4>1. 1 \in 1 .. Len(queue)
          BY <3>2, SeqFacts
        <4> QED BY <1>2, <3>2, <4>1 DEF Chained
      <3> QED BY <3>1, <3>2
    <2>6. hand # <<>> => FirstOfGeneration(Item)
      BY DEF Chained
    <2> QED BY <1>2, <1>4, <2>1, <2>3, <2>4, <2>5, <2>6 DEF Chained
  <1>9. WorkerOK'
    BY <1>4 DEF Enqueue, WorkerOK, Turned
  <1>10. Settled'
    <2>1. \A t \in 1 .. Len(outcome) + 1 :
             t = Len(outcome) + 1 \/ t \in 1 .. Len(outcome)
      BY <1>4
    <2>2. Len(outcome) + 1 > Popped /\ Len(outcome) + 1 # Popped
      BY <1>4
    <2>3. Turned' <=> Turned
      BY <1>4 DEF Turned
    <2>5. working \in {"Release", "Released", "Record", "Wake", "Quiesce"} =>
             outcome'[Popped] = verdict
      <3>1. working \in {"Release", "Released", "Record", "Wake", "Quiesce"} =>
               Popped \in 1 .. Len(outcome)
        BY <1>4, SeqFacts DEF WorkerOK, TicketsInOrder
      <3> QED BY <1>3, <3>1 DEF Settled
    <2> HIDE DEF IInv
    <2>4. ASSUME NEW t \in Accepted'
          PROVE  /\ outcome'[t] = "Pending" <=>
                       \/ t > Popped
                       \/ t = Popped /\ working \in {"Popped", "Holding",
                                             "Publish", "Resolve", "Fail"}
                 /\ outcome'[t] \in {"Cancelled", "Failed", "Rejected", "Threw"}
                       => /\ Turned
                          /\ \/ cancelRequested
                             \/ working \in {"Record", "Wake", "Quiesce"}
      <3>1. CASE t = Len(outcome) + 1
        BY <1>3, <2>2, <3>1
      <3>2. CASE t \in 1 .. Len(outcome)
        BY <1>3, <1>4, <3>2 DEF IInv, Settled, Accepted
      <3> QED BY <1>3, <2>1, <3>1, <3>2 DEF Accepted
    <2> QED BY <1>4, <2>3, <2>4, <2>5 DEF Settled
  <1>11. Aligned'
    <2>1. queue = <<>> => queue'[1] = NewItem
      BY <1>2, SeqFacts
    <2>2. queue # <<>> => queue'[1] = queue[1]
      BY <1>2, SeqFacts
    <2>3. (Turned' <=> Turned) /\ \A item : Ready(item)' <=> Ready(item)
      BY <1>4 DEF Turned, Ready, Accepts
    <2>4. /\ processor.generation = generation /\ processor.sequence = sequence
          => Accepts(NewItem)
      BY DEF Accepts, NewItem
    <2>5. Newest.generation = generation /\ Newest.sequence = sequence
      BY <1>4 DEF Newest
    <2> HIDE DEF IInv
    <2> QED BY <1>2, <1>4, <2>1, <2>2, <2>3, <2>4, <2>5 DEF IInv, Aligned, Ready
  <1>12. Told'
    BY <1>3, <1>4 DEF Told, Accepted, SkippedReset, Enqueue
  <1>13. Closed'
    BY DEF Enqueue, Closed
  <1>14. Signalled'
    BY <1>2, <1>4, Bounds DEF Enqueue, Signalled, NumberTypes
  <1>15. ResolvedInOrder'
    <2>1. \A t \in 1 .. Len(outcome) + 1 :
             t = Len(outcome) + 1 \/ t \in 1 .. Len(outcome)
      BY <1>4
    <2>2. ASSUME NEW t \in Accepted', outcome'[t] # "Pending", NEW u \in 1 .. t - 1
          PROVE  /\ t \in Accepted /\ outcome'[t] = outcome[t]
                 /\ outcome'[u] = outcome[u]
      BY <1>3, <1>4, <2>1, <2>2 DEF Accepted
    <2> HIDE DEF IInv
    <2> QED BY <2>2 DEF IInv, ResolvedInOrder
  <1>16. SeqTypes'
    BY <1>2, <1>3, <1>4, Bounds DEF Enqueue, SeqTypes, SubmissionOK, NumberTypes
  <1>17. PlaceTypes'
    BY DEF Enqueue, PlaceTypes, Outcomes, Modes
  <1>18. /\ FieldIdentity' /\ RecordTypes' /\ NumberTypes' /\ FlagTypes'
    BY FieldIdentityFrame, RecordTypesFrame, NumberTypesFrame, FlagTypesFrame DEF Enqueue
  <1> QED BY <1>5, <1>6, <1>7, <1>8, <1>9, <1>10, <1>11, <1>12, <1>13, <1>14,
             <1>15, <1>16, <1>17, <1>18 DEF IInv

LEMMA PublishSubmissionKeeps ==
    ASSUME IInv, PublishSubmission
    PROVE  IInv'
  <1> USE DEF IInv, submitVars, workerVars, lifeVars, closeVars
  <1>1. PayloadBalance'
    BY DEF PublishSubmission, PayloadBalance
  <1>2. SubmissionOK'
    BY SeqFacts, Bounds DEF PublishSubmission, SubmissionOK, StartsGeneration,
       NumberTypes, NewItem
  <1>3. Chained'
    BY DEF PublishSubmission, Chained, Newest, NewItem, Item
  <1>4. Aligned'
    BY DEF PublishSubmission, Aligned, Ready, Accepts, Turned, Newest,
       NewItem, Item
  <1>5. Closed'
    BY DEF PublishSubmission, Closed
  <1>6. Signalled'
    BY SeqFacts, Bounds DEF PublishSubmission, Signalled, NumberTypes, NewItem
  <1>7. NumberTypes'
    BY Bounds DEF PublishSubmission, NumberTypes, SubmissionOK, NewItem
  <1>8. PlaceTypes'
    BY DEF PublishSubmission, PlaceTypes, Outcomes, Modes
  <1>9. /\ TicketsInOrder' /\ WorkerOK' /\ Settled' /\ Told'
        /\ FieldIdentity' /\ ResolvedInOrder' /\ SeqTypes' /\ RecordTypes'
        /\ FlagTypes'
    BY TicketsInOrderFrame, WorkerOKFrame, SettledFrame, ToldFrame,
       FieldIdentityFrame, ResolvedInOrderFrame, SeqTypesFrame,
       RecordTypesFrame, FlagTypesFrame DEF PublishSubmission
  <1> QED BY <1>1, <1>2, <1>3, <1>4, <1>5, <1>6, <1>7, <1>8, <1>9 DEF IInv

LEMMA SignalWorkKeeps ==
    ASSUME IInv, SignalWork
    PROVE  IInv'
  <1> USE DEF IInv, submitVars, workerVars, lifeVars, closeVars
  <1>1. PayloadBalance'
    BY DEF SignalWork, PayloadBalance
  <1>2. SubmissionOK'
    BY DEF SignalWork, SubmissionOK, StartsGeneration
  <1>3. Chained'
    BY DEF SignalWork, Chained, Newest, NewItem, Item
  <1>4. Aligned'
    BY DEF SignalWork, Aligned, Ready, Accepts, Turned, Newest, NewItem, Item
  <1>5. Closed'
    BY DEF SignalWork, Closed
  <1>6. Signalled'
    BY SeqFacts, Bounds DEF SignalWork, Signalled, NumberTypes, SubmissionOK,
       WorkerOK
  <1>7. RecordTypes'
    BY DEF SignalWork, RecordTypes, NoDraft, Kinds
  <1>8. NumberTypes'
    BY <1>6, Bounds DEF SignalWork, NumberTypes, SubmissionOK, Signalled,
       Closed, WorkerOK
  <1>9. PlaceTypes'
    BY DEF SignalWork, PlaceTypes, Outcomes, Modes
  <1>10. /\ TicketsInOrder' /\ WorkerOK' /\ Settled' /\ Told'
         /\ FieldIdentity' /\ ResolvedInOrder' /\ SeqTypes' /\ FlagTypes'
    BY TicketsInOrderFrame, WorkerOKFrame, SettledFrame, ToldFrame,
       FieldIdentityFrame, ResolvedInOrderFrame, SeqTypesFrame, FlagTypesFrame DEF SignalWork
  <1> QED BY <1>1, <1>2, <1>3, <1>4, <1>5, <1>6, <1>7, <1>8, <1>9, <1>10 DEF IInv

-----------------------------------------------------------------------------
(* workerMain.                                                               *)

LEMMA AcquireWorkSignalKeeps ==
    ASSUME IInv, AcquireWorkSignal
    PROVE  IInv'
  <1> USE DEF IInv, submitVars, workerVars, lifeVars, closeVars
  <1>1. PayloadBalance'
    BY DEF AcquireWorkSignal, PayloadBalance
  <1>2. SubmissionOK'
    BY DEF AcquireWorkSignal, SubmissionOK, StartsGeneration
  <1>3. WorkerOK'
    BY DEF AcquireWorkSignal, WorkerOK, Popped, Turned
  <1>4. Settled'
    BY DEF AcquireWorkSignal, Settled, Accepted, Turned, Popped
  <1>5. Aligned'
    BY DEF AcquireWorkSignal, Aligned, Ready, Accepts, Turned, Newest,
       NewItem, Item
  <1>6. Told'
    BY DEF AcquireWorkSignal, Told, SkippedReset, Accepted, Item
  <1>7. FieldIdentity'
    BY DEF AcquireWorkSignal, FieldIdentity
  <1>8. Closed'
    BY DEF AcquireWorkSignal, Closed
  <1>9. Signalled'
    BY SeqFacts, Bounds DEF AcquireWorkSignal, Signalled, NumberTypes,
       SubmissionOK, WorkerOK
  <1>10. NumberTypes'
    BY SeqFacts, ItemFields, Bounds, SMTT(60) DEF AcquireWorkSignal, NumberTypes,
       SubmissionOK
  <1>11. PlaceTypes'
    BY DEF AcquireWorkSignal, PlaceTypes, Outcomes, Modes
  <1>12. /\ TicketsInOrder' /\ Chained' /\ ResolvedInOrder' /\ SeqTypes'
         /\ RecordTypes' /\ FlagTypes'
    BY TicketsInOrderFrame, ChainedFrame, ResolvedInOrderFrame, SeqTypesFrame,
       RecordTypesFrame, FlagTypesFrame DEF AcquireWorkSignal
  <1> QED BY <1>1, <1>2, <1>3, <1>4, <1>5, <1>6, <1>7, <1>8, <1>9, <1>10,
             <1>11, <1>12 DEF IInv

LEMMA CheckCancelKeeps ==
    ASSUME IInv, CheckCancel
    PROVE  IInv'
  <1> USE DEF IInv, submitVars, workerVars, lifeVars, closeVars
  <1>1. PayloadBalance'
    BY DEF CheckCancel, MoveOn, PayloadBalance
  <1>2. SubmissionOK'
    BY DEF CheckCancel, MoveOn, SubmissionOK, StartsGeneration
  <1>3. WorkerOK'
    BY DEF CheckCancel, MoveOn, WorkerOK, Popped, Turned
  <1>4. Settled'
    BY DEF CheckCancel, MoveOn, Settled, Accepted, Turned, Popped
  <1>5. Aligned'
    BY DEF CheckCancel, MoveOn, Aligned, Ready, Accepts, Turned, Newest,
       NewItem, Item
  <1>6. Told'
    BY DEF CheckCancel, MoveOn, Told, SkippedReset, Accepted, Item
  <1>7. FieldIdentity'
    BY DEF CheckCancel, MoveOn, FieldIdentity
  <1>8. Closed'
    BY DEF CheckCancel, MoveOn, Closed
  <1>9. Signalled'
    BY SeqFacts, Bounds DEF CheckCancel, MoveOn, Signalled, NumberTypes,
       SubmissionOK, WorkerOK
  <1>10. PlaceTypes'
    BY DEF CheckCancel, MoveOn, PlaceTypes, Outcomes, Modes
  <1>11. /\ TicketsInOrder' /\ Chained' /\ ResolvedInOrder' /\ SeqTypes'
         /\ RecordTypes' /\ NumberTypes' /\ FlagTypes'
    BY TicketsInOrderFrame, ChainedFrame, ResolvedInOrderFrame, SeqTypesFrame,
       RecordTypesFrame, NumberTypesFrame, FlagTypesFrame DEF CheckCancel, MoveOn
  <1> QED BY <1>1, <1>2, <1>3, <1>4, <1>5, <1>6, <1>7, <1>8, <1>9, <1>10,
             <1>11 DEF IInv

LEMMA PopKeeps ==
    ASSUME IInv, Pop
    PROVE  IInv'
  <1> USE DEF IInv, submitVars, workerVars, lifeVars, closeVars
  <1>1. /\ queue \in Seq(Items) /\ queue[1] \in Items /\ Head(queue) = queue[1]
        /\ queue' \in Seq(Items) /\ Len(queue) \in Nat \ {0}
        /\ Len(queue') = Len(queue) - 1
        /\ \A i \in 1 .. Len(queue) - 1 : queue'[i] = queue[i + 1]
    <2>1. queue \in Seq(Items) /\ queue # <<>> /\ queue' = Tail(queue)
      BY DEF Pop, SeqTypes
    <2>2. Len(queue) \in Nat \ {0} /\ 1 \in 1 .. Len(queue)
      BY <2>1, SeqFacts
    <2> QED BY <2>1, <2>2, SeqFacts, HeadTailProperties
  <1>2. /\ hand = <<>> /\ hand' = <<queue[1]>> /\ hand' # <<>> /\ Len(hand') = 1
        /\ Item' = queue[1] /\ hand' \in Seq(Items) /\ Len(hand) = 0
    BY <1>1, SeqFacts DEF Pop, WorkerOK, Item
  <1>3. /\ Len(outcome) \in Nat /\ DOMAIN outcome = 1 .. Len(outcome)
        /\ Popped' = Popped + 1 /\ Popped \in Int
        /\ working = "Popping" /\ working' = "Popped" /\ verdict = "None"
        /\ UNCHANGED <<outcome, verdict, processor, floor, submitting, failed>>
    <2>1. /\ Len(outcome) \in Nat /\ DOMAIN outcome = 1 .. Len(outcome)
          /\ Popped \in Int
      BY SeqFacts
    <2>2. /\ working = "Popping" /\ working' = "Popped" /\ verdict = "None"
          /\ UNCHANGED <<outcome, verdict, processor, floor, submitting, failed>>
      BY <1>2 DEF Pop, WorkerOK
    <2>3. Popped' = Popped + 1
      BY <1>1, <2>1, <2>2 DEF Popped
    <2> QED BY <2>1, <2>2, <2>3
  <1>4. PayloadBalance'
    <2>1. Bytes(queue) = queue[1].bytes + Bytes(queue')
      BY <1>1, BytesTail DEF Pop
    <2>2. Bytes(hand) = 0 /\ Bytes(hand') = queue[1].bytes
      <3>1. Tail(<<queue[1]>>) = <<>> /\ Head(<<queue[1]>>) = queue[1]
        BY <1>1
      <3>2. Bytes(hand') = queue[1].bytes + 0
        BY <1>2, <3>1, BytesEmpty, BytesTail
      <3> QED BY <1>1, <1>2, <3>2, BytesEmpty, ItemFields
    <2>3. queue[1].bytes \in Nat /\ Bytes(queue') \in Nat /\ draft.bytes \in Nat
      BY <1>1, ItemFields, BytesType, Bounds DEF RecordTypes
    <2> QED BY <1>3, <2>1, <2>2, <2>3 DEF Pop, PayloadBalance
  <1>5. SubmissionOK'
    BY <1>1, <1>3, Bounds DEF Pop, SubmissionOK, StartsGeneration
  <1>6. TicketsInOrder'
    <2>1. queue[1].ticket = Popped + 1
      BY <1>1 DEF TicketsInOrder
    <2>2. ASSUME NEW i \in 1 .. Len(queue')
          PROVE  queue'[i].ticket = Popped' + i
      <3>1. i \in 1 .. Len(queue) - 1 /\ i + 1 \in 1 .. Len(queue)
        BY <1>1
      <3>2. queue[i + 1].ticket = Popped + (i + 1)
        BY <3>1 DEF TicketsInOrder
      <3>3. Popped + (i + 1) = Popped' + i
        BY <1>3
      <3> QED BY <1>1, <3>1, <3>2, <3>3
    <2> QED BY <1>2, <1>3, <2>1, <2>2 DEF TicketsInOrder
  <1>7. Chained'
    <2>1. /\ Newest' = Newest /\ FirstOfGeneration(queue[1])
      BY <1>1, <1>3 DEF Pop, Newest, NewItem, Chained
    <2>2. \A i \in 1 .. Len(queue') : FirstOfGeneration(queue'[i])
      BY <1>1 DEF Chained
    <2>3. ASSUME NEW i \in 1 .. Len(queue') - 1
          PROVE  Follows(queue'[i], queue'[i + 1])
      <3>1. /\ i \in 1 .. Len(queue) - 1 /\ i + 1 \in 1 .. Len(queue) - 1
            /\ i + 1 \in 1 .. Len(queue)
        BY <1>1
      <3> QED BY <1>1, <3>1 DEF Chained
    <2>4. queue' # <<>> => 1 \in 1 .. Len(queue) - 1 /\ Len(queue') \in 1 .. Len(queue) - 1
      BY <1>1, EmptySeq
    <2>5. queue' # <<>> => Follows(queue[1], queue'[1])
      BY <1>1, <2>4 DEF Chained
    <2>6. queue' # <<>> => queue'[Len(queue')] = queue[Len(queue)]
      BY <1>1, <2>4
    <2>7. queue' = <<>> => Len(queue) = 1
      BY <1>1, EmptySeq
    <2>8. /\ queue[Len(queue)].generation = Newest.generation
          /\ queue[Len(queue)].sequence = Newest.sequence
      BY DEF Pop, Chained
    <2> HIDE DEF IInv
    <2> QED BY <1>2, <2>1, <2>2, <2>3, <2>5, <2>6, <2>7, <2>8 DEF Chained
  <1>8. WorkerOK'
    BY <1>2, <1>3 DEF Pop, WorkerOK, Turned
  <1>9. Settled'
    BY <1>3 DEF Pop, Settled, Accepted, Turned
  <1>10. Aligned'
    BY <1>1, <1>2, <1>3 DEF Pop, Aligned, Turned, Ready, Accepts
  <1>11. Told'
    BY <1>3 DEF Told, SkippedReset, Accepted
  <1>12. FieldIdentity'
    BY <1>3 DEF Pop, FieldIdentity
  <1>13. Closed'
    BY DEF Pop, Closed
  <1>14. Signalled'
    BY <1>1, <1>3, Bounds DEF Pop, Signalled, NumberTypes
  <1>15. SeqTypes'
    BY <1>1, <1>2, <1>3, Bounds DEF SeqTypes
  <1>16. PlaceTypes'
    BY DEF Pop, PlaceTypes, Outcomes, Modes
  <1>17. /\ ResolvedInOrder' /\ RecordTypes' /\ NumberTypes' /\ FlagTypes'
    BY ResolvedInOrderFrame, RecordTypesFrame, NumberTypesFrame,
       FlagTypesFrame DEF Pop
  <1> QED BY <1>4, <1>5, <1>6, <1>7, <1>8, <1>9, <1>10, <1>11, <1>12, <1>13,
             <1>14, <1>15, <1>16, <1>17 DEF IInv

LEMMA PopNothingKeeps ==
    ASSUME IInv, PopNothing
    PROVE  IInv'
  <1> USE DEF IInv, submitVars, workerVars, lifeVars, closeVars
  <1>1. PayloadBalance'
    BY DEF PopNothing, MoveOn, PayloadBalance
  <1>2. SubmissionOK'
    BY DEF PopNothing, MoveOn, SubmissionOK, StartsGeneration
  <1>3. WorkerOK'
    BY DEF PopNothing, MoveOn, WorkerOK, Popped, Turned
  <1>4. Settled'
    BY DEF PopNothing, MoveOn, Settled, Accepted, Turned, Popped
  <1>5. Aligned'
    BY DEF PopNothing, MoveOn, Aligned, Ready, Accepts, Turned, Newest,
       NewItem, Item
  <1>6. Told'
    BY DEF PopNothing, MoveOn, Told, SkippedReset, Accepted, Item
  <1>7. FieldIdentity'
    BY DEF PopNothing, MoveOn, FieldIdentity
  <1>8. Closed'
    BY SeqFacts, Bounds DEF PopNothing, MoveOn, Closed, Signalled, NumberTypes
  <1>9. Signalled'
    BY SeqFacts, Bounds DEF PopNothing, MoveOn, Signalled, NumberTypes,
       SubmissionOK, WorkerOK
  <1>10. PlaceTypes'
    BY DEF PopNothing, MoveOn, PlaceTypes, Outcomes, Modes
  <1>11. /\ TicketsInOrder' /\ Chained' /\ ResolvedInOrder' /\ SeqTypes'
         /\ RecordTypes' /\ NumberTypes' /\ FlagTypes'
    BY TicketsInOrderFrame, ChainedFrame, ResolvedInOrderFrame, SeqTypesFrame,
       RecordTypesFrame, NumberTypesFrame, FlagTypesFrame DEF PopNothing, MoveOn
  <1> QED BY <1>1, <1>2, <1>3, <1>4, <1>5, <1>6, <1>7, <1>8, <1>9, <1>10,
             <1>11 DEF IInv

LEMMA CheckDrainKeeps ==
    ASSUME IInv, CheckDrain
    PROVE  IInv'
  <1> USE DEF IInv, submitVars, workerVars, lifeVars, closeVars
  <1>1. PayloadBalance'
    BY DEF CheckDrain, MoveOn, PayloadBalance
  <1>2. SubmissionOK'
    BY DEF CheckDrain, MoveOn, SubmissionOK, StartsGeneration
  <1>3. WorkerOK'
    BY DEF CheckDrain, MoveOn, WorkerOK, Popped, Turned
  <1>4. Settled'
    BY DEF CheckDrain, MoveOn, Settled, Accepted, Turned, Popped
  <1>5. Aligned'
    BY DEF CheckDrain, MoveOn, Aligned, Ready, Accepts, Turned, Newest,
       NewItem, Item
  <1>6. Told'
    BY DEF CheckDrain, MoveOn, Told, SkippedReset, Accepted, Item
  <1>7. FieldIdentity'
    BY DEF CheckDrain, MoveOn, FieldIdentity
  <1>8. Closed'
    BY DEF CheckDrain, MoveOn, Closed
  <1>9. Signalled'
    BY SeqFacts, Bounds DEF CheckDrain, MoveOn, Signalled, NumberTypes,
       SubmissionOK, WorkerOK
  <1>10. PlaceTypes'
    BY DEF CheckDrain, MoveOn, PlaceTypes, Outcomes, Modes
  <1>11. /\ TicketsInOrder' /\ Chained' /\ ResolvedInOrder' /\ SeqTypes'
         /\ RecordTypes' /\ NumberTypes' /\ FlagTypes'
    BY TicketsInOrderFrame, ChainedFrame, ResolvedInOrderFrame, SeqTypesFrame,
       RecordTypesFrame, NumberTypesFrame, FlagTypesFrame DEF CheckDrain, MoveOn
  <1> QED BY <1>1, <1>2, <1>3, <1>4, <1>5, <1>6, <1>7, <1>8, <1>9, <1>10,
             <1>11 DEF IInv

LEMMA SignalSlotKeeps ==
    ASSUME IInv, SignalSlot
    PROVE  IInv'
  <1> USE DEF IInv, submitVars, workerVars, lifeVars, closeVars
  <1>1. PayloadBalance'
    BY DEF SignalSlot, PayloadBalance
  <1>2. SubmissionOK'
    BY DEF SignalSlot, SubmissionOK, StartsGeneration
  <1>3. WorkerOK'
    BY DEF SignalSlot, WorkerOK, Popped, Turned
  <1>4. Settled'
    BY DEF SignalSlot, Settled, Accepted, Turned, Popped
  <1>5. Aligned'
    BY DEF SignalSlot, Aligned, Ready, Accepts, Turned, Newest, NewItem, Item
  <1>6. Told'
    BY DEF SignalSlot, Told, SkippedReset, Accepted, Item
  <1>7. FieldIdentity'
    BY DEF SignalSlot, FieldIdentity
  <1>8. Closed'
    BY DEF SignalSlot, Closed
  <1>9. Signalled'
    BY SeqFacts, Bounds DEF SignalSlot, Signalled, NumberTypes, SubmissionOK,
       WorkerOK
  <1>10. PlaceTypes'
    BY DEF SignalSlot, PlaceTypes, Outcomes, Modes
  <1>11. FlagTypes'
    BY Zenon DEF SignalSlot, FlagTypes
  <1>12. /\ TicketsInOrder' /\ Chained' /\ ResolvedInOrder' /\ SeqTypes'
         /\ RecordTypes' /\ NumberTypes'
    BY TicketsInOrderFrame, ChainedFrame, ResolvedInOrderFrame, SeqTypesFrame,
       RecordTypesFrame, NumberTypesFrame DEF SignalSlot
  <1> QED BY <1>1, <1>2, <1>3, <1>4, <1>5, <1>6, <1>7, <1>8, <1>9, <1>10,
             <1>11, <1>12 DEF IInv

LEMMA CancelHeldKeeps ==
    ASSUME IInv, CancelHeld
    PROVE  IInv'
  <1> USE DEF IInv, submitVars, workerVars, lifeVars, closeVars
  <1>1. /\ hand = <<Item>> /\ Item \in Items /\ Len(hand) = 1 /\ Item.ticket = Popped
        /\ Popped \in 1 .. Len(outcome) /\ Len(outcome) \in Nat
        /\ DOMAIN outcome = 1 .. Len(outcome) /\ Len(queue) \in Nat
    <2>1. /\ hand = <<Item>> /\ Item \in Items /\ Len(hand) = 1
          /\ Len(outcome) \in Nat /\ DOMAIN outcome = 1 .. Len(outcome)
          /\ Len(queue) \in Nat
      BY SeqFacts DEF WorkerOK, CancelHeld
    <2>2. Item.ticket = Popped /\ Popped >= 1
      BY <2>1 DEF TicketsInOrder
    <2> QED BY <2>1, <2>2 DEF Popped
  <1>2. "Cancelled" \in Outcomes /\ outcome' = [outcome EXCEPT ![Popped] = "Cancelled"]
    BY <1>1 DEF CancelHeld, WorkerOK, Outcomes
  <1>3. /\ outcome' \in Seq({"Pending"} \cup Outcomes)
        /\ Len(outcome') = Len(outcome) /\ DOMAIN outcome' = 1 .. Len(outcome)
        /\ \A t \in 1 .. Len(outcome) :
              outcome'[t] = IF t = Popped THEN "Cancelled" ELSE outcome[t]
    BY <1>1, <1>2, Resolves
  <1>4. Popped' = Popped /\ Item' = Item
    BY <1>3 DEF CancelHeld, Popped, Item
  <1>5. \A t \in 1 .. Len(outcome) :
           /\ t > Popped => outcome[t] = "Pending"
           /\ t < Popped => outcome[t] \in {"Completed", "Stale"}
    BY <1>1, SeqFacts DEF CancelHeld, Settled, Accepted, Turned, WorkerOK, Outcomes
  <1>6. PayloadBalance'
    BY DEF CancelHeld, PayloadBalance
  <1>7. SubmissionOK'
    BY <1>3 DEF CancelHeld, SubmissionOK
  <1>8. TicketsInOrder'
    BY <1>4 DEF CancelHeld, TicketsInOrder, Popped
  <1>9. WorkerOK'
    BY <1>1, <1>4 DEF CancelHeld, WorkerOK, Turned
  <1>10. Settled'
    BY <1>1, <1>2, <1>3, <1>4, <1>5 DEF CancelHeld, Settled, Accepted, Turned, WorkerOK
  <1>11. Aligned'
    BY DEF CancelHeld, Aligned, Ready, Accepts, Turned, Newest, NewItem, Item
  <1>12. Told'
    BY <1>1, <1>3, <1>4, <1>5 DEF CancelHeld, Told, Accepted, SkippedReset, WorkerOK
  <1>13. FieldIdentity'
    BY DEF CancelHeld, FieldIdentity, WorkerOK
  <1>14. Closed'
    BY DEF CancelHeld, Closed
  <1>15. Signalled'
    BY SeqFacts, Bounds DEF CancelHeld, Signalled, NumberTypes, SubmissionOK,
       WorkerOK
  <1>16. ResolvedInOrder'
    <2>1. /\ \A u \in 1 .. Len(outcome) : u > Popped => outcome[u] = "Pending"
          /\ \A u \in 1 .. Popped - 1 : outcome[u] \in {"Completed", "Stale"}
      BY <1>1, <1>5
    <2> HIDE DEF IInv
    <2> QED BY <1>1, <1>2, <2>1, ResolvesInOrder DEF IInv
  <1>17. SeqTypes'
    BY <1>3 DEF CancelHeld, SeqTypes
  <1>18. PlaceTypes'
    BY DEF CancelHeld, PlaceTypes, Outcomes, Modes
  <1>19. /\ Chained' /\ RecordTypes' /\ NumberTypes' /\ FlagTypes'
    BY ChainedFrame, RecordTypesFrame, NumberTypesFrame, FlagTypesFrame DEF CancelHeld
  <1> QED BY <1>6, <1>7, <1>8, <1>9, <1>10, <1>11, <1>12, <1>13, <1>14, <1>15,
             <1>16, <1>17, <1>18, <1>19 DEF IInv

LEMMA SkipStaleKeeps ==
    ASSUME IInv, SkipStale
    PROVE  IInv'
  <1> USE DEF IInv, submitVars, workerVars, lifeVars, closeVars
  <1>1. hand = <<Item>> /\ Item \in Items /\ Ready(Item) /\ FirstOfGeneration(Item)
    BY SeqFacts DEF WorkerOK, Aligned, Chained, SkipStale, Judge
  <1>2. /\ Item.generation < floor /\ processor.generation <= Item.generation
        /\ StartsGeneration(Item.kind) => SkippedReset
    BY <1>1, ReadySkips DEF SkipStale
  <1>3. queue # <<>> => queue[1] \in Items /\ Follows(Item, queue[1])
    BY <1>1, SeqFacts DEF Chained
  <1>4. PayloadBalance'
    BY DEF SkipStale, Judge, PayloadBalance
  <1>5. SubmissionOK'
    BY DEF SkipStale, Judge, SubmissionOK, StartsGeneration
  <1>6. WorkerOK'
    BY DEF SkipStale, Judge, WorkerOK, Popped, Turned
  <1>7. Settled'
    BY DEF SkipStale, Judge, Settled, Accepted, Turned, Popped
  <1>8. Aligned'
    <2>1. ASSUME queue # <<>> PROVE Ready(queue[1])'
      <3>1. queue[1].generation \in Int /\ Item.generation \in Int
        BY <1>1, <1>3, <2>1, ItemFields
      <3>2. (IF StartsGeneration(queue[1].kind) THEN queue[1].generation - 1
                                               ELSE queue[1].generation)
              = Item.generation
        BY <1>3, <2>1, <3>1 DEF Follows
      <3>3. UNCHANGED <<processor, floor, queue>> /\ floor \in Int
        BY Bounds DEF SkipStale, Judge, NumberTypes
      <3> HIDE DEF IInv
      <3> QED BY <1>2, <3>2, <3>3 DEF Ready
    <2>2. queue # <<>>
      <3>1. ASSUME queue = <<>> PROVE FALSE
        <4>1. Item.generation = Newest.generation
          BY <1>1, <3>1 DEF Chained
        <4>2. Newest.generation >= generation
          BY Bounds DEF Newest, NewItem, NumberTypes
        <4>3. /\ floor <= generation /\ Item.generation \in Int
              /\ floor \in Int /\ generation \in Int
          BY <1>1, ItemFields, Bounds DEF SubmissionOK, NumberTypes
        <4>4. Newest.generation \in Int
          BY Bounds DEF Newest, NewItem, NumberTypes
        <4> HIDE DEF IInv
        <4> QED BY <1>2, <4>1, <4>2, <4>3, <4>4
      <3> QED BY <3>1
    <2> QED BY <2>1, <2>2 DEF Aligned, SkipStale, Judge, Turned
  <1>9. Told'
    <2>1. working' = "Publish" /\ verdict' = "Stale" /\ UNCHANGED <<floor,
             processor, outcome, hand, completedField>>
      BY DEF SkipStale, Judge
    <2>2. completedField = processor.field \/ SkippedReset
      BY DEF SkipStale, FieldIdentity, WorkerOK, Turned, SkippedReset
    <2>3. (SkippedReset' <=> SkippedReset) /\ Item' = Item
      BY <2>1 DEF SkippedReset, Item
    <2>4. (\E t \in Accepted : outcome[t] = "Rejected") => SkippedReset
      BY DEF Told
    <2>5. Item.kind = "Reset" => SkippedReset
      BY <1>2 DEF StartsGeneration
    <2> HIDE DEF IInv
    <2> QED BY <2>1, <2>2, <2>3, <2>4, <2>5 DEF Told, Accepted
  <1>10. FieldIdentity'
    BY DEF SkipStale, Judge, FieldIdentity
  <1>11. Closed'
    BY DEF SkipStale, Judge, Closed
  <1>12. Signalled'
    BY SeqFacts, Bounds DEF SkipStale, Judge, Signalled, NumberTypes,
       SubmissionOK, WorkerOK
  <1>13. RecordTypes'
    BY DEF SkipStale, Judge, RecordTypes, NoDraft, Kinds
  <1>14. PlaceTypes'
    BY DEF SkipStale, Judge, PlaceTypes, Outcomes, Modes
  <1>15. /\ TicketsInOrder' /\ Chained' /\ ResolvedInOrder' /\ SeqTypes'
         /\ NumberTypes' /\ FlagTypes'
    BY TicketsInOrderFrame, ChainedFrame, ResolvedInOrderFrame, SeqTypesFrame,
       NumberTypesFrame, FlagTypesFrame DEF SkipStale, Judge
  <1> QED BY <1>4, <1>5, <1>6, <1>7, <1>8, <1>9, <1>10, <1>11, <1>12, <1>13,
             <1>14, <1>15 DEF IInv

LEMMA ProcessKeeps ==
    ASSUME IInv, Process
    PROVE  IInv'
  <1> USE DEF IInv, submitVars, workerVars, lifeVars, closeVars
  <1>1. hand = <<Item>> /\ Item \in Items /\ Ready(Item) /\ FirstOfGeneration(Item)
    BY SeqFacts DEF WorkerOK, Aligned, Chained, Process, Judge
  <1>2. queue # <<>> => queue[1] \in Items /\ Follows(Item, queue[1])
    BY <1>1, SeqFacts DEF Chained
  <1>3. PayloadBalance'
    BY DEF Process, Judge, PayloadBalance
  <1>4. SubmissionOK'
    BY DEF Process, Judge, SubmissionOK, StartsGeneration
  <1>5. WorkerOK'
    BY DEF Process, Judge, WorkerOK, Popped, Turned
  <1>6. Settled'
    BY DEF Process, Judge, Settled, Accepted, Turned, Popped
  <1>7. Aligned'
    <2>1. /\ processor' = Done(Item) /\ Item' = Item /\ working' = "Publish"
          /\ UNCHANGED <<queue, floor, submitting, draft, generation, sequence,
                          ticket>>
      BY DEF Process, Judge, Item
    <2>2. /\ processor'.generation = Item.generation
          /\ processor'.sequence = Item.sequence
      BY <1>1, <2>1, ProcessorFields DEF Process, Accepts
    <2>3. queue # <<>> => Accepts(queue[1])'
      <3>1. queue # <<>> => FirstOfGeneration(queue[1])
        BY SeqFacts DEF Chained
      <3>2. Item.generation \in Int /\ Item.sequence \in Int
        BY <1>1, ItemFields
      <3> HIDE DEF IInv
      <3> QED BY <1>2, <2>1, <2>2, <3>1, <3>2
              DEF Accepts, Follows, FirstOfGeneration
    <2>4. queue = <<>> => /\ Item.generation = Newest.generation
                         /\ Item.sequence = Newest.sequence
      BY <1>1 DEF Chained
    <2> QED BY <2>1, <2>2, <2>3, <2>4 DEF Aligned, Ready, Newest, NewItem
  <1>8. Told'
    <2>1. /\ working' = "Publish" /\ verdict' = "Completed"
          /\ UNCHANGED <<floor, outcome, hand, completedField>>
          /\ processor' = Done(Item)
      BY DEF Process, Judge
    <2>2. ~ SkippedReset
      BY <1>1, ItemFields, Bounds
         DEF Process, Accepts, SkippedReset, RecordTypes, NumberTypes
    <2>3. completedField = processor.field
      BY <2>2 DEF Process, FieldIdentity, WorkerOK, Turned, SkippedReset
    <2>4. ~ \E t \in Accepted : outcome[t] = "Rejected"
      BY <2>2 DEF Told
    <2>5. Item.kind \in Kinds /\ Item.ticket \in Nat
      BY <1>1, ItemFields
    <2> QED BY <1>1, <2>1, <2>3, <2>4, <2>5, ProcessorFields
            DEF Told, Accepted, Item, Kinds
  <1>9. FieldIdentity'
    BY DEF Process, Judge, FieldIdentity
  <1>10. Closed'
    BY DEF Process, Judge, Closed
  <1>11. Signalled'
    BY SeqFacts, Bounds DEF Process, Judge, Signalled, NumberTypes,
       SubmissionOK, WorkerOK
  <1>12. RecordTypes'
    BY <1>1, ProcessorFields DEF Process, Judge, RecordTypes
  <1>13. PlaceTypes'
    BY DEF Process, Judge, PlaceTypes, Outcomes, Modes
  <1>14. /\ TicketsInOrder' /\ Chained' /\ ResolvedInOrder' /\ SeqTypes'
         /\ NumberTypes' /\ FlagTypes'
    BY TicketsInOrderFrame, ChainedFrame, ResolvedInOrderFrame, SeqTypesFrame,
       NumberTypesFrame, FlagTypesFrame DEF Process, Judge
  <1> QED BY <1>3, <1>4, <1>5, <1>6, <1>7, <1>8, <1>9, <1>10, <1>11, <1>12,
             <1>13, <1>14 DEF IInv

LEMMA ProcessThrowsKeeps ==
    ASSUME IInv, ProcessThrows
    PROVE  IInv'
  <1> USE DEF IInv, submitVars, workerVars, lifeVars, closeVars
  <1>1. hand = <<Item>> /\ Item \in Items /\ Ready(Item) /\ FirstOfGeneration(Item)
    BY SeqFacts DEF WorkerOK, Aligned, Chained, ProcessThrows, Judge
  <1>2. PayloadBalance'
    BY DEF ProcessThrows, Judge, PayloadBalance
  <1>3. SubmissionOK'
    BY DEF ProcessThrows, Judge, SubmissionOK, StartsGeneration
  <1>4. WorkerOK'
    BY DEF ProcessThrows, Judge, WorkerOK, Popped, Turned
  <1>5. Settled'
    BY DEF ProcessThrows, Judge, Settled, Accepted, Turned, Popped
  <1>6. Aligned'
    BY SeqFacts, ItemFields, Bounds DEF ProcessThrows, Judge, Aligned, Ready,
       Accepts, Turned, Newest, NewItem, Item, NumberTypes, RecordTypes,
       Chained, Follows, FirstOfGeneration, SubmissionOK, WorkerOK, Done,
       Begun, StartsGeneration
  <1>7. Told'
    <2>1. /\ working' = "Fail" /\ verdict' = "Threw"
          /\ UNCHANGED <<floor, outcome, hand, completedField>>
      BY DEF ProcessThrows, Judge
    <2>2. ~ SkippedReset
      BY <1>1, ItemFields, Bounds
         DEF ProcessThrows, Accepts, SkippedReset, RecordTypes, NumberTypes
    <2>3. ~ \E t \in Accepted : outcome[t] = "Rejected"
      BY <2>2 DEF Told
    <2> QED BY <2>1, <2>3 DEF Told, Accepted
  <1>8. FieldIdentity'
    BY DEF ProcessThrows, Judge, FieldIdentity
  <1>9. Closed'
    BY DEF ProcessThrows, Judge, Closed
  <1>10. Signalled'
    BY SeqFacts, Bounds DEF ProcessThrows, Judge, Signalled, NumberTypes,
       SubmissionOK, WorkerOK
  <1>11. RecordTypes'
    BY <1>1, ProcessorFields DEF ProcessThrows, Judge, RecordTypes
  <1>12. PlaceTypes'
    BY DEF ProcessThrows, Judge, PlaceTypes, Outcomes, Modes
  <1>13. /\ TicketsInOrder' /\ Chained' /\ ResolvedInOrder' /\ SeqTypes'
         /\ NumberTypes' /\ FlagTypes'
    BY TicketsInOrderFrame, ChainedFrame, ResolvedInOrderFrame, SeqTypesFrame,
       NumberTypesFrame, FlagTypesFrame DEF ProcessThrows, Judge
  <1> QED BY <1>2, <1>3, <1>4, <1>5, <1>6, <1>7, <1>8, <1>9, <1>10, <1>11,
             <1>12, <1>13 DEF IInv

LEMMA RejectKeeps ==
    ASSUME IInv, Reject
    PROVE  IInv'
  <1> USE DEF IInv, submitVars, workerVars, lifeVars, closeVars
  <1>1. hand = <<Item>> /\ Item \in Items /\ Ready(Item) /\ FirstOfGeneration(Item)
    BY SeqFacts DEF WorkerOK, Aligned, Chained, Reject, Judge
  <1>2. SkippedReset
    BY <1>1, ReadyRejected DEF Reject
  <1>3. PayloadBalance'
    BY DEF Reject, Judge, PayloadBalance
  <1>4. SubmissionOK'
    BY DEF Reject, Judge, SubmissionOK, StartsGeneration
  <1>5. WorkerOK'
    BY DEF Reject, Judge, WorkerOK, Popped, Turned
  <1>6. Settled'
    BY DEF Reject, Judge, Settled, Accepted, Turned, Popped
  <1>7. Aligned'
    BY DEF Reject, Judge, Aligned, Ready, Accepts, Turned, Newest, NewItem,
       Item
  <1>8. Told'
    BY <1>2 DEF Reject, Judge, Told, SkippedReset, Accepted
  <1>9. FieldIdentity'
    BY DEF Reject, Judge, FieldIdentity, WorkerOK
  <1>10. Closed'
    BY DEF Reject, Judge, Closed
  <1>11. Signalled'
    BY SeqFacts, Bounds DEF Reject, Judge, Signalled, NumberTypes,
       SubmissionOK, WorkerOK
  <1>12. RecordTypes'
    BY DEF Reject, Judge, RecordTypes, NoDraft, Kinds
  <1>13. PlaceTypes'
    BY DEF Reject, Judge, PlaceTypes, Outcomes, Modes
  <1>14. /\ TicketsInOrder' /\ Chained' /\ ResolvedInOrder' /\ SeqTypes'
         /\ NumberTypes' /\ FlagTypes'
    BY TicketsInOrderFrame, ChainedFrame, ResolvedInOrderFrame, SeqTypesFrame,
       NumberTypesFrame, FlagTypesFrame DEF Reject, Judge
  <1> QED BY <1>3, <1>4, <1>5, <1>6, <1>7, <1>8, <1>9, <1>10, <1>11, <1>12,
             <1>13, <1>14 DEF IInv

LEMMA PublishResultKeeps ==
    ASSUME IInv, PublishResult
    PROVE  IInv'
  <1> USE DEF IInv, submitVars, workerVars, lifeVars, closeVars
  <1>1. Item \in Items
    BY SeqFacts DEF WorkerOK, PublishResult
  <1>2. PayloadBalance'
    BY DEF PublishResult, PayloadBalance
  <1>3. SubmissionOK'
    BY DEF PublishResult, SubmissionOK, StartsGeneration
  <1>4. WorkerOK'
    BY SeqFacts DEF PublishResult, WorkerOK, Popped, Turned, TicketsInOrder,
       Item
  <1>5. Settled'
    BY DEF PublishResult, Settled, Accepted, Turned, Popped
  <1>6. Aligned'
    BY DEF PublishResult, Aligned, Ready, Accepts, Turned, Newest, NewItem,
       Item
  <1>7. Told'
    BY DEF PublishResult, Told, SkippedReset, Accepted, Item
  <1>8. FieldIdentity'
    BY DEF PublishResult, FieldIdentity, Told, SkippedReset, WorkerOK
  <1>9. Closed'
    BY DEF PublishResult, Closed
  <1>10. Signalled'
    BY SeqFacts, Bounds DEF PublishResult, Signalled, NumberTypes,
       SubmissionOK, WorkerOK
  <1>11. NumberTypes'
    <2>1. Item.ticket \in 0 .. MaxTicket /\ 0 \in 0 .. MaxTicket
      BY <1>1, ItemFields, Bounds
    <2> QED BY <2>1 DEF PublishResult, NumberTypes
  <1>12. PlaceTypes'
    BY DEF PublishResult, PlaceTypes, Outcomes, Modes
  <1>13. /\ TicketsInOrder' /\ Chained' /\ ResolvedInOrder' /\ SeqTypes'
         /\ RecordTypes' /\ FlagTypes'
    BY TicketsInOrderFrame, ChainedFrame, ResolvedInOrderFrame, SeqTypesFrame,
       RecordTypesFrame, FlagTypesFrame DEF PublishResult
  <1> QED BY <1>2, <1>3, <1>4, <1>5, <1>6, <1>7, <1>8, <1>9, <1>10, <1>11,
             <1>12, <1>13 DEF IInv

LEMMA ResolveItemKeeps ==
    ASSUME IInv, ResolveItem
    PROVE  IInv'
  <1> USE DEF IInv, submitVars, workerVars, lifeVars, closeVars
  <1>1. /\ hand = <<Item>> /\ Item \in Items /\ Len(hand) = 1 /\ Item.ticket = Popped
        /\ Popped \in 1 .. Len(outcome) /\ Len(outcome) \in Nat
        /\ DOMAIN outcome = 1 .. Len(outcome) /\ Len(queue) \in Nat
    <2>1. /\ hand = <<Item>> /\ Item \in Items /\ Len(hand) = 1
          /\ Len(outcome) \in Nat /\ DOMAIN outcome = 1 .. Len(outcome)
          /\ Len(queue) \in Nat
      BY SeqFacts DEF WorkerOK, ResolveItem
    <2>2. Item.ticket = Popped /\ Popped >= 1
      BY <2>1 DEF TicketsInOrder
    <2> QED BY <2>1, <2>2 DEF Popped
  <1>2. verdict \in Outcomes /\ outcome' = [outcome EXCEPT ![Popped] = verdict]
    BY <1>1 DEF ResolveItem, WorkerOK, Outcomes
  <1>3. /\ outcome' \in Seq({"Pending"} \cup Outcomes)
        /\ Len(outcome') = Len(outcome) /\ DOMAIN outcome' = 1 .. Len(outcome)
        /\ \A t \in 1 .. Len(outcome) :
              outcome'[t] = IF t = Popped THEN verdict ELSE outcome[t]
    BY <1>1, <1>2, Resolves
  <1>4. Popped' = Popped /\ Item' = Item
    BY <1>3 DEF ResolveItem, Popped, Item
  <1>5. \A t \in 1 .. Len(outcome) :
           /\ t > Popped => outcome[t] = "Pending"
           /\ t < Popped => outcome[t] \in {"Completed", "Stale"}
    BY <1>1, SeqFacts DEF ResolveItem, Settled, Accepted, Turned, WorkerOK, Outcomes
  <1>6. PayloadBalance'
    BY DEF ResolveItem, PayloadBalance
  <1>7. SubmissionOK'
    BY <1>3 DEF ResolveItem, SubmissionOK
  <1>8. TicketsInOrder'
    BY <1>4 DEF ResolveItem, TicketsInOrder, Popped
  <1>9. WorkerOK'
    BY <1>1, <1>4 DEF ResolveItem, WorkerOK, Turned
  <1>10. Settled'
    BY <1>1, <1>2, <1>3, <1>4, <1>5 DEF ResolveItem, Settled, Accepted, Turned, WorkerOK
  <1>11. Aligned'
    BY DEF ResolveItem, Aligned, Ready, Accepts, Turned, Newest, NewItem, Item
  <1>12. Told'
    BY <1>1, <1>3, <1>4, <1>5 DEF ResolveItem, Told, Accepted, SkippedReset, WorkerOK
  <1>13. FieldIdentity'
    BY DEF ResolveItem, FieldIdentity
  <1>14. Closed'
    BY DEF ResolveItem, Closed, WorkerOK
  <1>15. Signalled'
    BY SeqFacts, Bounds DEF ResolveItem, Signalled, NumberTypes, SubmissionOK,
       WorkerOK
  <1>16. ResolvedInOrder'
    <2>1. /\ \A u \in 1 .. Len(outcome) : u > Popped => outcome[u] = "Pending"
          /\ \A u \in 1 .. Popped - 1 : outcome[u] \in {"Completed", "Stale"}
      BY <1>1, <1>5
    <2> HIDE DEF IInv
    <2> QED BY <1>1, <1>2, <2>1, ResolvesInOrder DEF IInv
  <1>17. SeqTypes'
    BY <1>3 DEF ResolveItem, SeqTypes
  <1>18. PlaceTypes'
    BY DEF ResolveItem, PlaceTypes, Outcomes, Modes
  <1>19. /\ Chained' /\ RecordTypes' /\ NumberTypes' /\ FlagTypes'
    BY ChainedFrame, RecordTypesFrame, NumberTypesFrame, FlagTypesFrame DEF ResolveItem
  <1> QED BY <1>6, <1>7, <1>8, <1>9, <1>10, <1>11, <1>12, <1>13, <1>14, <1>15,
             <1>16, <1>17, <1>18, <1>19 DEF IInv

LEMMA ReleasePayloadKeeps ==
    ASSUME IInv, ReleasePayload
    PROVE  IInv'
  <1> USE DEF IInv, submitVars, workerVars, lifeVars, closeVars
  <1>1. hand # <<>> /\ Item \in Items
    BY SeqFacts DEF WorkerOK, ReleasePayload
  <1>2. /\ Bytes(hand) = Item.bytes /\ Item.bytes \in Nat /\ Bytes(queue) \in Nat
        /\ draft.bytes \in Nat /\ queuedPayload \in Nat
    BY <1>1, HandBytes, QueueBytes, ItemFields, Bounds
       DEF RecordTypes, NumberTypes
  <1>3. PayloadBalance'
    BY <1>2 DEF ReleasePayload, PayloadBalance
  <1>4. SubmissionOK'
    BY DEF ReleasePayload, SubmissionOK, StartsGeneration
  <1>5. WorkerOK'
    BY DEF ReleasePayload, WorkerOK, Popped, Turned
  <1>6. Settled'
    BY DEF ReleasePayload, Settled, Accepted, Turned, Popped
  <1>7. Aligned'
    BY DEF ReleasePayload, Aligned, Ready, Accepts, Turned, Newest, NewItem,
       Item
  <1>8. Told'
    BY DEF ReleasePayload, Told, SkippedReset, Accepted, Item
  <1>9. FieldIdentity'
    BY DEF ReleasePayload, FieldIdentity
  <1>10. Closed'
    BY DEF ReleasePayload, Closed
  <1>11. Signalled'
    BY SeqFacts, Bounds DEF ReleasePayload, Signalled, NumberTypes,
       SubmissionOK, WorkerOK
  <1>12. NumberTypes'
    <2>1. queuedPayload - Item.bytes \in 0 .. PayloadCapacity
      BY <1>2, Bounds DEF ReleasePayload, PayloadBalance, NumberTypes
    <2> QED BY <2>1 DEF ReleasePayload, NumberTypes
  <1>13. PlaceTypes'
    BY DEF ReleasePayload, PlaceTypes, Outcomes, Modes
  <1>14. /\ TicketsInOrder' /\ Chained' /\ ResolvedInOrder' /\ SeqTypes'
         /\ RecordTypes' /\ FlagTypes'
    BY TicketsInOrderFrame, ChainedFrame, ResolvedInOrderFrame, SeqTypesFrame,
       RecordTypesFrame, FlagTypesFrame DEF ReleasePayload
  <1> QED BY <1>3, <1>4, <1>5, <1>6, <1>7, <1>8, <1>9, <1>10, <1>11, <1>12,
             <1>13, <1>14 DEF IInv

LEMMA SignalPayloadKeeps ==
    ASSUME IInv, SignalPayload
    PROVE  IInv'
  <1> USE DEF IInv, submitVars, workerVars, lifeVars, closeVars
  <1>1. PayloadBalance'
    BY BytesEmpty, QueueBytes, HandBytes DEF SignalPayload, PayloadBalance,
       WorkerOK, NumberTypes
  <1>2. SubmissionOK'
    BY DEF SignalPayload, SubmissionOK, StartsGeneration
  <1>3. TicketsInOrder'
    BY DEF SignalPayload, TicketsInOrder, Popped, Item
  <1>4. Chained'
    BY SMTT(60) DEF SignalPayload, Chained, Newest, NewItem, Item
  <1>5. WorkerOK'
    BY SeqFacts DEF SignalPayload, WorkerOK, Popped, Turned, TicketsInOrder,
       Item, Outcomes, PlaceTypes
  <1>6. Settled'
    BY DEF SignalPayload, Settled, Accepted, Turned, Popped
  <1>7. Aligned'
    BY DEF SignalPayload, Aligned, Ready, Accepts, Turned, Newest, NewItem,
       Item
  <1>8. Told'
    BY DEF SignalPayload, Told, SkippedReset, Accepted, Item
  <1>9. FieldIdentity'
    BY DEF SignalPayload, FieldIdentity, WorkerOK, Closed, Told, SkippedReset,
       PlaceTypes, Outcomes
  <1>10. Closed'
    BY DEF SignalPayload, Closed
  <1>11. Signalled'
    BY SeqFacts, Bounds DEF SignalPayload, Signalled, NumberTypes,
       SubmissionOK, WorkerOK
  <1>12. SeqTypes'
    BY DEF SignalPayload, SeqTypes
  <1>13. NumberTypes'
    BY SeqFacts, ItemFields, Bounds DEF SignalPayload, NumberTypes, WorkerOK
  <1>14. PlaceTypes'
    BY DEF SignalPayload, PlaceTypes, Outcomes, Modes
  <1>15. FlagTypes'
    BY Zenon DEF SignalPayload, FlagTypes
  <1>16. /\ ResolvedInOrder' /\ RecordTypes'
    BY ResolvedInOrderFrame, RecordTypesFrame DEF SignalPayload
  <1> QED BY <1>1, <1>2, <1>3, <1>4, <1>5, <1>6, <1>7, <1>8, <1>9, <1>10,
             <1>11, <1>12, <1>13, <1>14, <1>15, <1>16 DEF IInv

LEMMA FailItemKeeps ==
    ASSUME IInv, FailItem
    PROVE  IInv'
  <1> USE DEF IInv, submitVars, workerVars, lifeVars, closeVars
  <1>1. /\ hand = <<Item>> /\ Item \in Items /\ Len(hand) = 1 /\ Item.ticket = Popped
        /\ Popped \in 1 .. Len(outcome) /\ Len(outcome) \in Nat
        /\ DOMAIN outcome = 1 .. Len(outcome) /\ Len(queue) \in Nat
    <2>1. /\ hand = <<Item>> /\ Item \in Items /\ Len(hand) = 1
          /\ Len(outcome) \in Nat /\ DOMAIN outcome = 1 .. Len(outcome)
          /\ Len(queue) \in Nat
      BY SeqFacts DEF WorkerOK, FailItem
    <2>2. Item.ticket = Popped /\ Popped >= 1
      BY <2>1 DEF TicketsInOrder
    <2> QED BY <2>1, <2>2 DEF Popped
  <1>2. verdict \in Outcomes /\ outcome' = [outcome EXCEPT ![Popped] = verdict]
    BY <1>1, SMTT(60) DEF FailItem, WorkerOK, Outcomes
  <1>3. /\ outcome' \in Seq({"Pending"} \cup Outcomes)
        /\ Len(outcome') = Len(outcome) /\ DOMAIN outcome' = 1 .. Len(outcome)
        /\ \A t \in 1 .. Len(outcome) :
              outcome'[t] = IF t = Popped THEN verdict ELSE outcome[t]
    BY <1>1, <1>2, Resolves
  <1>4. Popped' = Popped /\ Item' = Item
    BY <1>3 DEF FailItem, Popped, Item
  <1>5. \A t \in 1 .. Len(outcome) :
           /\ t > Popped => outcome[t] = "Pending"
           /\ t < Popped => outcome[t] \in {"Completed", "Stale"}
    BY <1>1, SeqFacts DEF FailItem, Settled, Accepted, Turned, WorkerOK, Outcomes
  <1>6. PayloadBalance'
    BY DEF FailItem, PayloadBalance
  <1>7. SubmissionOK'
    BY <1>3 DEF FailItem, SubmissionOK
  <1>8. TicketsInOrder'
    BY <1>4 DEF FailItem, TicketsInOrder, Popped
  <1>9. WorkerOK'
    BY <1>1, <1>4 DEF FailItem, WorkerOK, Turned
  <1>10. Settled'
    BY <1>1, <1>2, <1>3, <1>4, <1>5 DEF FailItem, Settled, Accepted, Turned, WorkerOK
  <1>11. Aligned'
    BY DEF FailItem, Aligned, Ready, Accepts, Turned, Newest, NewItem, Item
  <1>12. Told'
    BY <1>1, <1>3, <1>4, <1>5 DEF FailItem, Told, Accepted, SkippedReset, WorkerOK
  <1>13. FieldIdentity'
    BY DEF FailItem, FieldIdentity
  <1>14. Closed'
    BY DEF FailItem, Closed
  <1>15. Signalled'
    BY SeqFacts, Bounds DEF FailItem, Signalled, NumberTypes, SubmissionOK,
       WorkerOK
  <1>16. ResolvedInOrder'
    <2>1. /\ \A u \in 1 .. Len(outcome) : u > Popped => outcome[u] = "Pending"
          /\ \A u \in 1 .. Popped - 1 : outcome[u] \in {"Completed", "Stale"}
      BY <1>1, <1>5
    <2> HIDE DEF IInv
    <2> QED BY <1>1, <1>2, <2>1, ResolvesInOrder DEF IInv
  <1>17. SeqTypes'
    BY <1>3 DEF FailItem, SeqTypes
  <1>18. NumberTypes'
    <2>1. Item.ticket \in 0 .. MaxTicket
      BY <1>1, ItemFields, Bounds
    <2> QED BY <2>1 DEF FailItem, NumberTypes
  <1>19. PlaceTypes'
    BY DEF FailItem, PlaceTypes, Outcomes, Modes
  <1>20. /\ Chained' /\ RecordTypes' /\ FlagTypes'
    BY ChainedFrame, RecordTypesFrame, FlagTypesFrame DEF FailItem
  <1> QED BY <1>6, <1>7, <1>8, <1>9, <1>10, <1>11, <1>12, <1>13, <1>14, <1>15,
             <1>16, <1>17, <1>18, <1>19, <1>20 DEF IInv

LEMMA RecordFailureKeeps ==
    ASSUME IInv, RecordFailure
    PROVE  IInv'
  <1> USE DEF IInv, submitVars, workerVars, lifeVars, closeVars
  <1>1. PayloadBalance'
    BY DEF RecordFailure, PayloadBalance
  <1>2. SubmissionOK'
    BY DEF RecordFailure, SubmissionOK, StartsGeneration
  <1>3. WorkerOK'
    BY DEF RecordFailure, WorkerOK, Popped, Turned
  <1>4. Settled'
    BY DEF RecordFailure, Settled, Accepted, Turned, Popped
  <1>5. Aligned'
    BY DEF RecordFailure, Aligned, Ready, Accepts, Turned, Newest, NewItem,
       Item
  <1>6. Told'
    BY DEF RecordFailure, Told, SkippedReset, Accepted, Item
  <1>7. FieldIdentity'
    BY DEF RecordFailure, FieldIdentity
  <1>8. Closed'
    BY DEF RecordFailure, Closed
  <1>9. Signalled'
    BY SeqFacts, Bounds DEF RecordFailure, Signalled, NumberTypes,
       SubmissionOK, WorkerOK
  <1>10. PlaceTypes'
    BY DEF RecordFailure, PlaceTypes, Outcomes, Modes
  <1>11. FlagTypes'
    BY Zenon DEF RecordFailure, FlagTypes
  <1>12. /\ TicketsInOrder' /\ Chained' /\ ResolvedInOrder' /\ SeqTypes'
         /\ RecordTypes' /\ NumberTypes'
    BY TicketsInOrderFrame, ChainedFrame, ResolvedInOrderFrame, SeqTypesFrame,
       RecordTypesFrame, NumberTypesFrame DEF RecordFailure
  <1> QED BY <1>1, <1>2, <1>3, <1>4, <1>5, <1>6, <1>7, <1>8, <1>9, <1>10,
             <1>11, <1>12 DEF IInv

LEMMA WakeAfterFailureKeeps ==
    ASSUME IInv, WakeAfterFailure
    PROVE  IInv'
  <1> USE DEF IInv, submitVars, workerVars, lifeVars, closeVars
  <1>1. PayloadBalance'
    BY DEF WakeAfterFailure, PayloadBalance
  <1>2. SubmissionOK'
    BY DEF WakeAfterFailure, SubmissionOK, StartsGeneration
  <1>3. WorkerOK'
    BY DEF WakeAfterFailure, WorkerOK, Popped, Turned
  <1>4. Settled'
    BY DEF WakeAfterFailure, Settled, Accepted, Turned, Popped
  <1>5. Aligned'
    BY DEF WakeAfterFailure, Aligned, Ready, Accepts, Turned, Newest, NewItem,
       Item
  <1>6. Told'
    BY DEF WakeAfterFailure, Told, SkippedReset, Accepted, Item
  <1>7. FieldIdentity'
    BY DEF WakeAfterFailure, FieldIdentity
  <1>8. Closed'
    BY DEF WakeAfterFailure, Closed
  <1>9. Signalled'
    BY SeqFacts, Bounds DEF WakeAfterFailure, Signalled, NumberTypes,
       SubmissionOK, WorkerOK
  <1>10. PlaceTypes'
    BY DEF WakeAfterFailure, PlaceTypes, Outcomes, Modes
  <1>11. FlagTypes'
    BY Zenon DEF WakeAfterFailure, FlagTypes
  <1>12. /\ TicketsInOrder' /\ Chained' /\ ResolvedInOrder' /\ SeqTypes'
         /\ RecordTypes' /\ NumberTypes'
    BY TicketsInOrderFrame, ChainedFrame, ResolvedInOrderFrame, SeqTypesFrame,
       RecordTypesFrame, NumberTypesFrame DEF WakeAfterFailure
  <1> QED BY <1>1, <1>2, <1>3, <1>4, <1>5, <1>6, <1>7, <1>8, <1>9, <1>10,
             <1>11, <1>12 DEF IInv

LEMMA QuiesceAfterFailureKeeps ==
    ASSUME IInv, QuiesceAfterFailure
    PROVE  IInv'
  <1> USE DEF IInv, submitVars, workerVars, lifeVars, closeVars
  <1>1. PayloadBalance'
    BY DEF QuiesceAfterFailure, PayloadBalance
  <1>2. SubmissionOK'
    BY DEF QuiesceAfterFailure, SubmissionOK, StartsGeneration
  <1>3. WorkerOK'
    BY DEF QuiesceAfterFailure, WorkerOK, Popped, Turned
  <1>4. Settled'
    BY DEF QuiesceAfterFailure, Settled, Accepted, Turned, Popped, WorkerOK
  <1>5. Aligned'
    BY DEF QuiesceAfterFailure, Aligned, Ready, Accepts, Turned, Newest,
       NewItem, Item, WorkerOK
  <1>6. Told'
    BY DEF QuiesceAfterFailure, Told, SkippedReset, Accepted, Item
  <1>7. FieldIdentity'
    BY DEF QuiesceAfterFailure, FieldIdentity
  <1>8. Closed'
    BY DEF QuiesceAfterFailure, Closed
  <1>9. Signalled'
    BY SeqFacts, Bounds DEF QuiesceAfterFailure, Signalled, NumberTypes,
       SubmissionOK, WorkerOK
  <1>10. NumberTypes'
    BY <1>9, Bounds DEF QuiesceAfterFailure, NumberTypes, SubmissionOK,
       Signalled, Closed, WorkerOK
  <1>11. PlaceTypes'
    BY DEF QuiesceAfterFailure, PlaceTypes, Outcomes, Modes
  <1>12. FlagTypes'
    BY Zenon DEF QuiesceAfterFailure, FlagTypes
  <1>13. /\ TicketsInOrder' /\ Chained' /\ ResolvedInOrder' /\ SeqTypes'
         /\ RecordTypes'
    BY TicketsInOrderFrame, ChainedFrame, ResolvedInOrderFrame, SeqTypesFrame,
       RecordTypesFrame DEF QuiesceAfterFailure
  <1> QED BY <1>1, <1>2, <1>3, <1>4, <1>5, <1>6, <1>7, <1>8, <1>9, <1>10,
             <1>11, <1>12, <1>13 DEF IInv

LEMMA CancelQueuedKeeps ==
    ASSUME IInv, CancelQueued
    PROVE  IInv'
  <1> USE DEF IInv, submitVars, workerVars, lifeVars, closeVars
  <1>1. /\ queue \in Seq(Items) /\ queue[1] \in Items /\ Head(queue) = queue[1]
        /\ queue' \in Seq(Items) /\ Len(queue) \in Nat \ {0}
        /\ Len(queue') = Len(queue) - 1
        /\ \A i \in 1 .. Len(queue) - 1 : queue'[i] = queue[i + 1]
    <2>1. queue \in Seq(Items) /\ queue # <<>> /\ queue' = Tail(queue)
      BY DEF CancelQueued, SeqTypes
    <2>2. Len(queue) \in Nat \ {0} /\ 1 \in 1 .. Len(queue)
      BY <2>1, SeqFacts
    <2> QED BY <2>1, <2>2, SeqFacts, HeadTailProperties
  <1>2. /\ Len(outcome) \in Nat /\ DOMAIN outcome = 1 .. Len(outcome)
        /\ Popped \in Int /\ Popped >= 0 /\ Popped' = Popped + 1
        /\ Popped + 1 \in 1 .. Len(outcome) /\ queue[1].ticket = Popped + 1
    <2>1. Len(outcome) \in Nat /\ DOMAIN outcome = 1 .. Len(outcome)
      BY SeqFacts
    <2>2. Len(hand) \in Nat /\ queue[1].ticket = Popped + 1 /\ Popped \in Int
      BY <1>1, SeqFacts DEF TicketsInOrder
    <2>3. Popped >= 0
      BY <2>2 DEF TicketsInOrder
    <2>4. Len(outcome') = Len(outcome)
      BY <2>1 DEF CancelQueued
    <2>5. Popped' = Popped + 1
      BY <1>1, <2>1, <2>4 DEF Popped
    <2>6. Popped + 1 \in 1 .. Len(outcome)
      BY <1>1, <2>1, <2>2, <2>3 DEF Popped
    <2> QED BY <2>1, <2>2, <2>3, <2>5, <2>6
  <1>3. /\ (IF failed THEN "Failed" ELSE "Cancelled") \in Outcomes
        /\ outcome' = [outcome EXCEPT ![Popped + 1] =
                                        IF failed THEN "Failed" ELSE "Cancelled"]
    BY <1>1, <1>2 DEF CancelQueued, Outcomes
  <1>4. /\ outcome' \in Seq({"Pending"} \cup Outcomes)
        /\ Len(outcome') = Len(outcome) /\ DOMAIN outcome' = 1 .. Len(outcome)
        /\ \A t \in 1 .. Len(outcome) :
              outcome'[t] = IF t = Popped + 1
                            THEN IF failed THEN "Failed" ELSE "Cancelled"
                            ELSE outcome[t]
    BY <1>2, <1>3, Resolves
  <1>5. /\ working = "Cancelling" /\ hand = <<>> /\ verdict = "None" /\ cancelRequested
        /\ UNCHANGED <<working, hand, verdict, cancelRequested, submitting, failed,
                       processor, floor>>
    BY DEF CancelQueued, WorkerOK, Closed
  <1>6. PayloadBalance'
    <2>1. Bytes(queue) = queue[1].bytes + Bytes(queue')
      BY <1>1, BytesTail DEF CancelQueued
    <2>2. /\ queue[1].bytes \in Nat /\ Bytes(queue') \in Nat
          /\ draft.bytes \in Nat /\ Bytes(hand) \in Nat
      BY <1>1, ItemFields, BytesType, QueueBytes, Bounds DEF RecordTypes
    <2>3. queuedPayload' = queuedPayload - queue[1].bytes
      BY <1>1 DEF CancelQueued
    <2> QED BY <1>5, <2>1, <2>2, <2>3, SMTT(60) DEF CancelQueued, PayloadBalance
  <1>7. SubmissionOK'
    BY <1>1, <1>4, <1>5, Bounds DEF CancelQueued, SubmissionOK, StartsGeneration
  <1>8. TicketsInOrder'
    <2>1. ASSUME NEW i \in 1 .. Len(queue')
          PROVE  queue'[i].ticket = Popped' + i
      <3>1. i \in 1 .. Len(queue) - 1 /\ i + 1 \in 1 .. Len(queue)
        BY <1>1
      <3>2. queue[i + 1].ticket = Popped + (i + 1)
        BY <3>1 DEF TicketsInOrder
      <3>3. Popped + (i + 1) = Popped' + i
        BY <1>2
      <3> QED BY <1>1, <3>1, <3>2, <3>3
    <2> QED BY <1>2, <1>5, <2>1 DEF TicketsInOrder
  <1>9. Chained'
    <2>1. Newest' = Newest
      BY DEF CancelQueued, Newest, NewItem
    <2>2. \A i \in 1 .. Len(queue') : FirstOfGeneration(queue'[i])
      BY <1>1 DEF Chained
    <2>3. ASSUME NEW i \in 1 .. Len(queue') - 1
          PROVE  Follows(queue'[i], queue'[i + 1])
      <3>1. /\ i \in 1 .. Len(queue) - 1 /\ i + 1 \in 1 .. Len(queue) - 1
            /\ i + 1 \in 1 .. Len(queue)
        BY <1>1
      <3> QED BY <1>1, <3>1 DEF Chained
    <2>4. queue' # <<>> => queue'[Len(queue')] = queue[Len(queue)]
      <3>1. queue' # <<>> => Len(queue') \in 1 .. Len(queue) - 1
        BY <1>1, EmptySeq
      <3> QED BY <1>1, <3>1
    <2>5. /\ queue[Len(queue)].generation = Newest.generation
          /\ queue[Len(queue)].sequence = Newest.sequence
      BY DEF CancelQueued, Chained
    <2> HIDE DEF IInv
    <2> QED BY <1>5, <2>1, <2>2, <2>3, <2>4, <2>5 DEF Chained
  <1>10. WorkerOK'
    <2>1. completedTicket' = Popped'
      BY <1>1, <1>2 DEF CancelQueued
    <2> QED BY <1>5, <2>1 DEF WorkerOK, Turned
  <1>11. Settled'
    BY <1>2, <1>4, <1>5 DEF Settled, Accepted, Turned
  <1>12. Aligned'
    BY <1>5 DEF Aligned, Turned
  <1>13. Told'
    BY <1>2, <1>4, <1>5 DEF Told, Accepted, SkippedReset
  <1>14. Closed'
    BY DEF CancelQueued, Closed
  <1>15. Signalled'
    BY <1>5, Bounds DEF CancelQueued, Signalled, NumberTypes
  <1>16. ResolvedInOrder'
    <2>1. /\ \A u \in 1 .. Len(outcome) : u > Popped + 1 => outcome[u] = "Pending"
          /\ \A u \in 1 .. Popped : outcome[u] # "Pending"
      BY <1>2, <1>5 DEF Settled, Accepted
    <2>2. \A u \in 1 .. (Popped + 1) - 1 : outcome[u] # "Pending"
      BY <1>2, <2>1
    <2> HIDE DEF IInv
    <2> QED BY <1>2, <1>3, <2>1, <2>2, ResolvesInOrder DEF IInv
  <1>17. SeqTypes'
    BY <1>1, <1>4, Bounds DEF CancelQueued, SeqTypes
  <1>18. NumberTypes'
    <2>1. Bytes(queue) = queue[1].bytes + Bytes(queue')
      BY <1>1, BytesTail DEF CancelQueued
    <2>2. /\ queue[1].bytes \in Nat /\ Bytes(queue') \in Nat
          /\ draft.bytes \in Nat /\ Bytes(hand) \in Nat
      BY <1>1, ItemFields, BytesType, QueueBytes, Bounds DEF RecordTypes
    <2>3. queuedPayload - queue[1].bytes \in 0 .. PayloadCapacity
      BY <1>5, <2>1, <2>2, Bounds, SMTT(60) DEF PayloadBalance, NumberTypes
    <2>4. queue[1].ticket \in 0 .. MaxTicket
      BY <1>1, ItemFields, Bounds
    <2> QED BY <1>1, <2>3, <2>4 DEF CancelQueued, NumberTypes
  <1>19. FlagTypes'
    BY Zenon DEF CancelQueued, FlagTypes
  <1>20. /\ FieldIdentity' /\ RecordTypes' /\ PlaceTypes'
    BY FieldIdentityFrame, RecordTypesFrame, PlaceTypesFrame DEF CancelQueued
  <1> QED BY <1>6, <1>7, <1>8, <1>9, <1>10, <1>11, <1>12, <1>13, <1>14, <1>15,
             <1>16, <1>17, <1>18, <1>19, <1>20 DEF IInv

LEMMA AllCancelledKeeps ==
    ASSUME IInv, AllCancelled
    PROVE  IInv'
  <1> USE DEF IInv, submitVars, workerVars, lifeVars, closeVars
  <1>1. PayloadBalance'
    BY DEF AllCancelled, MoveOn, PayloadBalance
  <1>2. SubmissionOK'
    BY DEF AllCancelled, MoveOn, SubmissionOK, StartsGeneration
  <1>3. WorkerOK'
    BY DEF AllCancelled, MoveOn, WorkerOK, Popped, Turned
  <1>4. Settled'
    BY DEF AllCancelled, MoveOn, Settled, Accepted, Turned, Popped
  <1>5. Aligned'
    BY DEF AllCancelled, MoveOn, Aligned, Ready, Accepts, Turned, Newest,
       NewItem, Item
  <1>6. Told'
    BY DEF AllCancelled, MoveOn, Told, SkippedReset, Accepted, Item
  <1>7. FieldIdentity'
    BY DEF AllCancelled, MoveOn, FieldIdentity
  <1>8. Closed'
    BY DEF AllCancelled, MoveOn, Closed
  <1>9. Signalled'
    BY SeqFacts, Bounds DEF AllCancelled, MoveOn, Signalled, NumberTypes,
       SubmissionOK, WorkerOK
  <1>10. PlaceTypes'
    BY DEF AllCancelled, MoveOn, PlaceTypes, Outcomes, Modes
  <1>11. /\ TicketsInOrder' /\ Chained' /\ ResolvedInOrder' /\ SeqTypes'
         /\ RecordTypes' /\ NumberTypes' /\ FlagTypes'
    BY TicketsInOrderFrame, ChainedFrame, ResolvedInOrderFrame, SeqTypesFrame,
       RecordTypesFrame, NumberTypesFrame, FlagTypesFrame DEF AllCancelled, MoveOn
  <1> QED BY <1>1, <1>2, <1>3, <1>4, <1>5, <1>6, <1>7, <1>8, <1>9, <1>10,
             <1>11 DEF IInv

LEMMA ExitKeeps ==
    ASSUME IInv, Exit
    PROVE  IInv'
  <1> USE DEF IInv, submitVars, workerVars, lifeVars, closeVars
  <1>1. PayloadBalance'
    BY DEF Exit, PayloadBalance
  <1>2. SubmissionOK'
    BY DEF Exit, SubmissionOK, StartsGeneration
  <1>3. WorkerOK'
    BY DEF Exit, WorkerOK, Popped, Turned
  <1>4. Settled'
    BY DEF Exit, Settled, Accepted, Turned, Popped
  <1>5. Aligned'
    BY DEF Exit, Aligned, Ready, Accepts, Turned, Newest, NewItem, Item
  <1>6. Told'
    BY DEF Exit, Told, SkippedReset, Accepted, Item
  <1>7. FieldIdentity'
    BY DEF Exit, FieldIdentity
  <1>8. Closed'
    BY DEF Exit, Closed
  <1>9. Signalled'
    BY SeqFacts, Bounds DEF Exit, Signalled, NumberTypes, SubmissionOK,
       WorkerOK
  <1>10. PlaceTypes'
    BY DEF Exit, PlaceTypes, Outcomes, Modes
  <1>11. FlagTypes'
    BY Zenon DEF Exit, FlagTypes
  <1>12. /\ TicketsInOrder' /\ Chained' /\ ResolvedInOrder' /\ SeqTypes'
         /\ RecordTypes' /\ NumberTypes'
    BY TicketsInOrderFrame, ChainedFrame, ResolvedInOrderFrame, SeqTypesFrame,
       RecordTypesFrame, NumberTypesFrame DEF Exit
  <1> QED BY <1>1, <1>2, <1>3, <1>4, <1>5, <1>6, <1>7, <1>8, <1>9, <1>10,
             <1>11, <1>12 DEF IInv

-----------------------------------------------------------------------------
(* shutdown.                                                                 *)

LEMMA CloseAdmissionKeeps ==
    ASSUME IInv, CloseAdmission
    PROVE  IInv'
  <1> USE DEF IInv, submitVars, workerVars, lifeVars, closeVars
  <1>1. Closed'
    BY DEF CloseAdmission, Closed
  <1>2. Signalled'
    BY SeqFacts, Bounds DEF CloseAdmission, Signalled, NumberTypes,
       SubmissionOK, WorkerOK
  <1>3. PlaceTypes'
    BY DEF CloseAdmission, PlaceTypes, Outcomes, Modes
  <1>4. FlagTypes'
    BY Zenon DEF CloseAdmission, FlagTypes
  <1>5. /\ PayloadBalance' /\ SubmissionOK' /\ TicketsInOrder' /\ Chained'
        /\ WorkerOK' /\ Settled' /\ Aligned' /\ Told' /\ FieldIdentity'
        /\ ResolvedInOrder' /\ SeqTypes' /\ RecordTypes' /\ NumberTypes'
    BY PayloadBalanceFrame, SubmissionOKFrame, TicketsInOrderFrame,
       ChainedFrame, WorkerOKFrame, SettledFrame, AlignedFrame, ToldFrame,
       FieldIdentityFrame, ResolvedInOrderFrame, SeqTypesFrame,
       RecordTypesFrame, NumberTypesFrame DEF CloseAdmission
  <1> QED BY <1>1, <1>2, <1>3, <1>4, <1>5 DEF IInv

LEMMA WakeProducerKeeps ==
    ASSUME IInv, WakeProducer
    PROVE  IInv'
  <1> USE DEF IInv, submitVars, workerVars, lifeVars, closeVars
  <1>1. Closed'
    BY DEF WakeProducer, Closed
  <1>2. Signalled'
    BY SeqFacts, Bounds DEF WakeProducer, Signalled, NumberTypes,
       SubmissionOK, WorkerOK
  <1>3. PlaceTypes'
    BY DEF WakeProducer, PlaceTypes, Outcomes, Modes
  <1>4. FlagTypes'
    BY Zenon DEF WakeProducer, FlagTypes
  <1>5. /\ PayloadBalance' /\ SubmissionOK' /\ TicketsInOrder' /\ Chained'
        /\ WorkerOK' /\ Settled' /\ Aligned' /\ Told' /\ FieldIdentity'
        /\ ResolvedInOrder' /\ SeqTypes' /\ RecordTypes' /\ NumberTypes'
    BY PayloadBalanceFrame, SubmissionOKFrame, TicketsInOrderFrame,
       ChainedFrame, WorkerOKFrame, SettledFrame, AlignedFrame, ToldFrame,
       FieldIdentityFrame, ResolvedInOrderFrame, SeqTypesFrame,
       RecordTypesFrame, NumberTypesFrame DEF WakeProducer
  <1> QED BY <1>1, <1>2, <1>3, <1>4, <1>5 DEF IInv

LEMMA QuiesceProducerKeeps ==
    ASSUME IInv, QuiesceProducer
    PROVE  IInv'
  <1> USE DEF IInv, submitVars, workerVars, lifeVars, closeVars
  <1>1. Closed'
    BY DEF QuiesceProducer, Closed
  <1>2. Signalled'
    BY SeqFacts, Bounds DEF QuiesceProducer, Signalled, NumberTypes,
       SubmissionOK, WorkerOK
  <1>3. PlaceTypes'
    BY DEF QuiesceProducer, PlaceTypes, Outcomes, Modes
  <1>4. /\ PayloadBalance' /\ SubmissionOK' /\ TicketsInOrder' /\ Chained'
        /\ WorkerOK' /\ Settled' /\ Aligned' /\ Told' /\ FieldIdentity'
        /\ ResolvedInOrder' /\ SeqTypes' /\ RecordTypes' /\ NumberTypes'
        /\ FlagTypes'
    BY PayloadBalanceFrame, SubmissionOKFrame, TicketsInOrderFrame,
       ChainedFrame, WorkerOKFrame, SettledFrame, AlignedFrame, ToldFrame,
       FieldIdentityFrame, ResolvedInOrderFrame, SeqTypesFrame,
       RecordTypesFrame, NumberTypesFrame, FlagTypesFrame DEF QuiesceProducer
  <1> QED BY <1>1, <1>2, <1>3, <1>4 DEF IInv

LEMMA RequestStopKeeps ==
    ASSUME IInv, RequestStop
    PROVE  IInv'
  <1> USE DEF IInv, submitVars, workerVars, lifeVars, closeVars
  <1>1. Settled'
    BY DEF RequestStop, Settled, Accepted, Turned, Popped
  <1>2. Closed'
    BY DEF RequestStop, Closed, PlaceTypes, Modes, WorkerOK, SubmissionOK
  <1>3. Signalled'
    BY SeqFacts, Bounds DEF RequestStop, Signalled, NumberTypes, SubmissionOK,
       WorkerOK
  <1>4. PlaceTypes'
    BY DEF RequestStop, PlaceTypes, Outcomes, Modes
  <1>5. FlagTypes'
    BY Zenon DEF RequestStop, FlagTypes
  <1>6. /\ PayloadBalance' /\ SubmissionOK' /\ TicketsInOrder' /\ Chained'
        /\ WorkerOK' /\ Aligned' /\ Told' /\ FieldIdentity'
        /\ ResolvedInOrder' /\ SeqTypes' /\ RecordTypes' /\ NumberTypes'
    BY PayloadBalanceFrame, SubmissionOKFrame, TicketsInOrderFrame,
       ChainedFrame, WorkerOKFrame, AlignedFrame, ToldFrame,
       FieldIdentityFrame, ResolvedInOrderFrame, SeqTypesFrame,
       RecordTypesFrame, NumberTypesFrame DEF RequestStop
  <1> QED BY <1>1, <1>2, <1>3, <1>4, <1>5, <1>6 DEF IInv

LEMMA SignalStopKeeps ==
    ASSUME IInv, SignalStop
    PROVE  IInv'
  <1> USE DEF IInv, submitVars, workerVars, lifeVars, closeVars
  <1>1. Closed'
    BY DEF SignalStop, Closed
  <1>2. Signalled'
    BY SeqFacts, Bounds DEF SignalStop, Signalled, NumberTypes, SubmissionOK,
       Closed
  <1>3. NumberTypes'
    BY <1>2, Bounds DEF SignalStop, NumberTypes, SubmissionOK, Signalled,
       Closed, WorkerOK
  <1>4. PlaceTypes'
    BY DEF SignalStop, PlaceTypes, Outcomes, Modes
  <1>5. /\ PayloadBalance' /\ SubmissionOK' /\ TicketsInOrder' /\ Chained'
        /\ WorkerOK' /\ Settled' /\ Aligned' /\ Told' /\ FieldIdentity'
        /\ ResolvedInOrder' /\ SeqTypes' /\ RecordTypes' /\ FlagTypes'
    BY PayloadBalanceFrame, SubmissionOKFrame, TicketsInOrderFrame,
       ChainedFrame, WorkerOKFrame, SettledFrame, AlignedFrame, ToldFrame,
       FieldIdentityFrame, ResolvedInOrderFrame, SeqTypesFrame,
       RecordTypesFrame, FlagTypesFrame DEF SignalStop
  <1> QED BY <1>1, <1>2, <1>3, <1>4, <1>5 DEF IInv

LEMMA JoinKeeps ==
    ASSUME IInv, Join
    PROVE  IInv'
  <1> USE DEF IInv, submitVars, workerVars, lifeVars, closeVars
  <1>1. Closed'
    BY DEF Join, Closed
  <1>2. Signalled'
    BY SeqFacts, Bounds DEF Join, Signalled, NumberTypes, SubmissionOK,
       WorkerOK
  <1>3. PlaceTypes'
    BY DEF Join, PlaceTypes, Outcomes, Modes
  <1>4. /\ PayloadBalance' /\ SubmissionOK' /\ TicketsInOrder' /\ Chained'
        /\ WorkerOK' /\ Settled' /\ Aligned' /\ Told' /\ FieldIdentity'
        /\ ResolvedInOrder' /\ SeqTypes' /\ RecordTypes' /\ NumberTypes'
        /\ FlagTypes'
    BY PayloadBalanceFrame, SubmissionOKFrame, TicketsInOrderFrame,
       ChainedFrame, WorkerOKFrame, SettledFrame, AlignedFrame, ToldFrame,
       FieldIdentityFrame, ResolvedInOrderFrame, SeqTypesFrame,
       RecordTypesFrame, NumberTypesFrame, FlagTypesFrame DEF Join
  <1> QED BY <1>1, <1>2, <1>3, <1>4 DEF IInv

-----------------------------------------------------------------------------
(* The invariant holds at first and is inductive.                            *)

LEMMA InitInv == Init => IInv
  <1> SUFFICES ASSUME Init PROVE IInv
    OBVIOUS
  <1> USE DEF Init
  <1>1. SeqTypes
    <2>1. Len(<<>>) = 0 /\ <<>> \in Seq(Items)
          /\ <<>> \in Seq({"Pending"} \cup Outcomes)
      BY EmptySeq
    <2> QED BY <2>1, Bounds DEF SeqTypes
  <1>2. RecordTypes /\ NumberTypes /\ PlaceTypes
    BY ConstantsAssumption
       DEF RecordTypes, NumberTypes, PlaceTypes, NoDraft, Kinds, Modes
  <1>3. FlagTypes
    BY Zenon DEF FlagTypes
  <1>4. PayloadBalance
    BY BytesEmpty DEF PayloadBalance
  <1>5. SubmissionOK /\ TicketsInOrder
    BY EmptySeq DEF SubmissionOK, TicketsInOrder, Popped
  <1>6. Chained /\ WorkerOK /\ Closed
    BY EmptySeq DEF Chained, WorkerOK, Closed, Popped
  <1>7. Settled /\ Told /\ FieldIdentity /\ ResolvedInOrder
    BY EmptySeq DEF Settled, Told, FieldIdentity, ResolvedInOrder, Accepted
  <1>8. Aligned /\ Signalled
    BY EmptySeq DEF Aligned, Signalled, Newest
  <1> QED BY <1>1, <1>2, <1>3, <1>4, <1>5, <1>6, <1>7, <1>8 DEF IInv

LEMMA StutterKeeps ==
    ASSUME IInv, UNCHANGED vars
    PROVE  IInv'
  <1> USE DEF IInv, vars, submitVars, workerVars, lifeVars, closeVars
  <1> QED BY SeqTypesFrame, RecordTypesFrame, NumberTypesFrame, PlaceTypesFrame,
             FlagTypesFrame, PayloadBalanceFrame, SubmissionOKFrame,
             TicketsInOrderFrame, ChainedFrame, WorkerOKFrame, SettledFrame,
             AlignedFrame, ToldFrame, FieldIdentityFrame, ClosedFrame,
             SignalledFrame, ResolvedInOrderFrame

\* The invariant is inductive.
LEMMA NextInv == IInv /\ [Next]_vars => IInv'
  <1> SUFFICES ASSUME IInv, [Next]_vars PROVE IInv'
    OBVIOUS
  <1>1. CASE \E kind \in Kinds, bytes \in Sizes : Submit(kind, bytes)
    BY <1>1, SubmitKeeps
  <1>2. CASE \E least \in 2 .. MaxGeneration : RaiseFloor(least)
    BY <1>2, RaiseFloorKeeps
  <1>3. CASE \E how \in Modes : Shutdown(how)
    BY <1>3, ShutdownKeeps
  <1>4. CASE Submitter
    BY <1>4, EnsureStartedKeeps, StartRefusedKeeps, StartFailsKeeps,
       CheckAdmissionKeeps, AdmissionClosedKeeps, LoadSpaceEpochKeeps,
       ReservePayloadKeeps, NoSpaceKeeps, RecheckAdmissionKeeps,
       WaitForSpaceKeeps, EnqueueKeeps, PublishSubmissionKeeps,
       SignalWorkKeeps DEF Submitter
  <1>5. CASE Worker
    BY <1>5, AcquireWorkSignalKeeps, CheckCancelKeeps, PopKeeps,
       PopNothingKeeps, CheckDrainKeeps, SignalSlotKeeps, CancelHeldKeeps,
       SkipStaleKeeps, ProcessKeeps, ProcessThrowsKeeps, RejectKeeps,
       PublishResultKeeps, ResolveItemKeeps, ReleasePayloadKeeps,
       SignalPayloadKeeps, FailItemKeeps, RecordFailureKeeps,
       WakeAfterFailureKeeps, QuiesceAfterFailureKeeps, CancelQueuedKeeps,
       AllCancelledKeeps, ExitKeeps DEF Worker
  <1>6. CASE Closer
    BY <1>6, CloseAdmissionKeeps, WakeProducerKeeps, QuiesceProducerKeeps,
       RequestStopKeeps, SignalStopKeeps, JoinKeeps DEF Closer
  <1>7. CASE UNCHANGED vars
    BY <1>7, StutterKeeps
  <1> QED BY <1>1, <1>2, <1>3, <1>4, <1>5, <1>6, <1>7 DEF Next

-----------------------------------------------------------------------------
(* What follows from it.                                                     *)

LEMMA InvBudget == IInv => BudgetKept
  BY TypeParts DEF IInv, BudgetKept

LEMMA InvPublishedFirst == IInv => PublishedFirst
  <1> SUFFICES ASSUME IInv, NEW t \in Accepted,
                      outcome[t] \in {"Completed", "Stale"}
               PROVE  completedTicket >= t
    BY DEF PublishedFirst
  <1>1. Popped \in Int /\ t \in Int
    BY SeqFacts DEF IInv, Accepted
  <1>2. t <= Popped
    BY <1>1 DEF IInv, Settled
  <1>3. t = Popped => /\ working \notin {"Popped", "Holding", "Publish", "Fail"}
                      /\ verdict # "Cancelled"
    <2>1. t = Popped => working \notin {"Popped", "Holding", "Publish", "Fail"}
      BY DEF IInv, Settled
    <2>2. ASSUME t = Popped, verdict = "Cancelled" PROVE FALSE
      <3>1. working \in {"Release", "Released"}
        BY <2>1, <2>2, SeqFacts DEF IInv, WorkerOK, PlaceTypes
      <3> QED BY <2>2, <3>1 DEF IInv, Settled
    <2> QED BY <2>1, <2>2
  <1>4. completedTicket = IF \/ working \in {"Popped", "Holding", "Publish", "Fail"}
                             \/ verdict = "Cancelled"
                          THEN Popped - 1 ELSE Popped
    BY DEF IInv, WorkerOK
  <1> QED BY <1>1, <1>2, <1>3, <1>4

LEMMA InvStream == IInv => StreamKept
  BY InvPublishedFirst DEF IInv, StreamKept, Told, RejectsOnlySkipped, SkippedReset

LEMMA InvStopped == IInv => StoppedClean
  <1> SUFFICES ASSUME IInv, workerExited PROVE StoppedClean
    BY DEF StoppedClean
  <1>1. working \in {"NotStarted", "Exited"} /\ hand = <<>>
    BY DEF IInv, Closed, WorkerOK
  <1>2. submitting = "None"
    BY DEF IInv, Closed
  <1>3. queue = <<>> /\ Popped = Len(outcome)
    <2>1. CASE working = "Exited"
      <3>1. queue = <<>>
        BY <2>1 DEF IInv, Closed
      <3> QED BY <3>1, SeqFacts DEF IInv, Popped
    <2>2. CASE working = "NotStarted"
      <3>1. Len(outcome) = 0
        BY <1>2, <2>2, Bounds DEF IInv, SubmissionOK
      <3>2. Popped >= 0 /\ Len(queue) \in Nat
        BY <1>1, SeqFacts DEF IInv, TicketsInOrder
      <3>3. Len(queue) = 0
        BY <3>1, <3>2 DEF Popped
      <3> QED BY <3>1, <3>3, SeqFacts DEF IInv, Popped
    <2> QED BY <1>1, <2>1, <2>2
  <1>4. ASSUME NEW t \in Accepted
        PROVE  \/ outcome[t] \in {"Completed", "Stale"}
               \/ outcome[t] # "Pending" /\ cancelRequested
    <2>1. /\ t \in 1 .. Len(outcome) /\ Len(outcome) \in Nat
          /\ outcome[t] \in {"Pending"} \cup Outcomes
      BY SeqFacts DEF IInv, Accepted
    <2>2. outcome[t] # "Pending"
      BY <1>1, <1>3, <2>1 DEF IInv, Settled
    <2>3. outcome[t] \in {"Cancelled", "Failed", "Rejected", "Threw"}
          => cancelRequested
      BY <1>1 DEF IInv, Settled
    <2> QED BY <2>1, <2>2, <2>3 DEF Outcomes
  <1> QED BY <1>1, <1>2, <1>3, <1>4 DEF StoppedClean

\* Queue, payload account and every other variable stay within their bounds,
\* and the payload account is exact at every step of a command's life.
THEOREM BudgetSafe == Spec => []BudgetKept
  BY InitInv, NextInv, InvBudget, PTL DEF Spec

\* The stream reaches the GS in order, waiters are told of it before their
\* futures resolve, and commands are turned down only behind a skipped reset.
THEOREM StreamSafe == Spec => []StreamKept
  BY InitInv, NextInv, InvStream, PTL DEF Spec

\* The field the UI thread presents is the one the processor has latched.
THEOREM FieldSafe == Spec => []FieldIdentity
  <1>1. IInv => FieldIdentity
    BY DEF IInv
  <1> QED BY <1>1, InitInv, NextInv, PTL DEF Spec

\* A worker that is gone leaves no command behind, in whatever way the
\* shutdowns and a failure met.
THEOREM StopSafe == Spec => []StoppedClean
  BY InitInv, NextInv, InvStopped, PTL DEF Spec

-----------------------------------------------------------------------------
(* Refinement of CommandStream.                                              *)

\* The worker has met a failure, which is not the failure to start it.
Failure == working = "Record" \/ (failed /\ started)

\* A command has failed exactly if the worker has.
FailureKnown == Stream!Broken <=> Failure

SInv == IInv /\ FailureKnown

\* A step that resolves nothing and judges nothing.
Aside ==
    /\ outcome' = outcome
    /\ Failure' <=> Failure
    /\ Stream!Drain \/ Stream!Cancel \/ (StreamPhase' = StreamPhase /\ Judged' = Judged)

Judging == SkipStale \/ Process \/ ProcessThrows \/ Reject

StreamStep ==
    \/ Enqueue \/ Judging \/ ResolveItem \/ FailItem
    \/ CancelHeld \/ CancelQueued

LEMMA SubmitterSteps ==
    ASSUME IInv, Submitter
    PROVE  Enqueue \/ Aside
  <1> USE DEF Aside, StreamPhase, Judged, Failure
  <1>1. ASSUME EnsureStarted PROVE Aside
    <2>1. started \/ (~ failed /\ working = "NotStarted")
      BY <1>1 DEF EnsureStarted, IInv, Closed, SubmissionOK
    <2>2. UNCHANGED <<outcome, failed, drainRequested, cancelRequested>>
      BY <1>1 DEF EnsureStarted
    <2>3. CASE started
      BY <1>1, <2>2, <2>3 DEF EnsureStarted
    <2>4. CASE ~ started
      BY <1>1, <2>1, <2>2, <2>4 DEF EnsureStarted
    <2> QED BY <2>3, <2>4
  <1>2. ASSUME StartFails PROVE Aside
    <2>1. working = "NotStarted"
      BY <1>2 DEF StartFails, IInv, SubmissionOK
    <2> QED BY <1>2, <2>1 DEF StartFails, GiveUp, workerVars
  <1>3. ASSUME StartRefused \/ AdmissionClosed PROVE Aside
    BY <1>3 DEF StartRefused, AdmissionClosed, GiveUp, workerVars, lifeVars
  <1>4. ASSUME CheckAdmission \/ LoadSpaceEpoch \/ NoSpace PROVE Aside
    BY <1>4 DEF CheckAdmission, LoadSpaceEpoch, NoSpace, workerVars, lifeVars
  <1>5. ASSUME ReservePayload \/ RecheckAdmission \/ WaitForSpace PROVE Aside
    BY <1>5 DEF ReservePayload, RecheckAdmission, WaitForSpace, workerVars,
                lifeVars
  <1>6. ASSUME PublishSubmission \/ SignalWork PROVE Aside
    BY <1>6 DEF PublishSubmission, SignalWork, workerVars, lifeVars
  <1> HIDE DEF Aside
  <1> QED BY <1>1, <1>2, <1>3, <1>4, <1>5, <1>6, Zenon DEF Submitter

LEMMA WorkerSteps ==
    ASSUME IInv, Worker
    PROVE  StreamStep \/ Aside
  <1> USE DEF Aside, StreamPhase, Judged, Failure
  <1>1. ASSUME AcquireWorkSignal \/ Pop \/ SignalSlot PROVE Aside
    BY <1>1 DEF AcquireWorkSignal, Pop, SignalSlot, lifeVars
  <1>2. ASSUME CheckCancel \/ PopNothing \/ CheckDrain \/ AllCancelled
        PROVE  Aside
    BY <1>2 DEF CheckCancel, PopNothing, CheckDrain, AllCancelled, MoveOn,
                lifeVars
  <1>3. ASSUME PublishResult PROVE Aside
    BY <1>3 DEF PublishResult, lifeVars
  <1>4. ASSUME ReleasePayload \/ SignalPayload PROVE Aside
    BY <1>4 DEF ReleasePayload, SignalPayload, lifeVars
  <1>5. ASSUME RecordFailure PROVE Aside
    <2>1. started
      BY <1>5 DEF RecordFailure, IInv, SubmissionOK
    <2> QED BY <1>5, <2>1 DEF RecordFailure
  <1>6. ASSUME WakeAfterFailure PROVE Aside
    BY <1>6 DEF WakeAfterFailure, lifeVars
  <1>7. ASSUME QuiesceAfterFailure PROVE Aside
    <2>1. /\ outcome' = outcome /\ Judged' = Judged
          /\ UNCHANGED <<failed, started, drainRequested>>
          /\ cancelRequested' = TRUE
          /\ working = "Quiesce" /\ working' = "Release"
      BY <1>7 DEF QuiesceAfterFailure
    <2>2. Stream!Cancel \/ StreamPhase' = StreamPhase
      BY <2>1 DEF Stream!Cancel
    <2> QED BY <2>1, <2>2
  <1>8. ASSUME Exit PROVE Aside
    BY <1>8 DEF Exit
  <1> HIDE DEF Aside
  <1> QED BY <1>1, <1>2, <1>3, <1>4, <1>5, <1>6, <1>7, <1>8, Zenon
          DEF Worker, StreamStep, Judging

LEMMA AllSteps ==
    ASSUME IInv, [Next]_vars
    PROVE  StreamStep \/ Aside
  <1> USE DEF Aside, StreamPhase, Judged, Failure
  <1>1. ASSUME NEW kind \in Kinds, NEW bytes \in Sizes, Submit(kind, bytes)
        PROVE  Aside
    BY <1>1 DEF Submit, workerVars, lifeVars
  <1>2. ASSUME NEW least \in 2 .. MaxGeneration, RaiseFloor(least) PROVE Aside
    BY <1>2 DEF RaiseFloor, workerVars, lifeVars
  <1>3. ASSUME NEW how \in Modes, Shutdown(how) PROVE Aside
    BY <1>3 DEF Shutdown, workerVars, lifeVars
  <1>4. ASSUME CloseAdmission PROVE Aside
    BY <1>4 DEF CloseAdmission, workerVars
  <1>5. ASSUME WakeProducer \/ QuiesceProducer \/ SignalStop \/ Join PROVE Aside
    BY <1>5 DEF WakeProducer, QuiesceProducer, SignalStop, Join, workerVars,
                lifeVars
  <1>6. ASSUME RequestStop PROVE Aside
    <2>1. /\ UNCHANGED <<outcome, working, failed, started>>
          /\ cancelRequested' = (cancelRequested \/ mode = "Cancel")
          /\ drainRequested' = (drainRequested \/ mode = "Drain")
          /\ mode \in {"Drain", "Cancel"}
      BY <1>6 DEF RequestStop, workerVars, IInv, PlaceTypes, Modes
    <2>2. /\ Judged' = Judged
          /\ Failure' <=> Failure
      BY <2>1
    <2>3. \/ Stream!Drain \/ Stream!Cancel \/ StreamPhase' = StreamPhase
      <3>1. CASE mode = "Cancel"
        BY <2>1, <2>2, <3>1 DEF Stream!Cancel
      <3>2. CASE mode = "Drain"
        BY <2>1, <2>2, <3>2 DEF Stream!Drain
      <3> QED BY <2>1, <3>1, <3>2
    <2> HIDE DEF Judged, Failure, StreamPhase
    <2> QED BY <2>1, <2>2, <2>3
  <1>7. ASSUME UNCHANGED vars PROVE Aside
    BY <1>7 DEF vars, workerVars, lifeVars
  <1> HIDE DEF Aside
  <1>8. ASSUME Closer PROVE Aside
    BY <1>4, <1>5, <1>6, <1>8, Zenon DEF Closer
  <1> QED BY <1>1, <1>2, <1>3, <1>7, <1>8, SubmitterSteps, WorkerSteps, Zenon
          DEF Next, StreamStep

\* The item in hand is the oldest one that is not resolved.
LEMMA HandIsOldest ==
    ASSUME IInv, hand # <<>>
    PROVE  /\ Item.ticket = Popped
           /\ Popped \in 1 .. Len(outcome)
           /\ working \in {"Popped", "Holding", "Publish", "Resolve", "Fail"} =>
                 /\ outcome[Popped] = "Pending"
                 /\ \A t \in 1 .. Popped - 1 :
                       outcome[t] \in {"Completed", "Stale"}
  <1>1. /\ Len(hand) = 1 /\ Len(outcome) \in Nat /\ Len(queue) \in Nat
        /\ DOMAIN outcome = 1 .. Len(outcome)
        /\ \A t \in 1 .. Len(outcome) : outcome[t] \in {"Pending"} \cup Outcomes
    BY SeqFacts DEF IInv
  <1>2. Item.ticket = Popped /\ Popped >= 1
    BY <1>1 DEF IInv, TicketsInOrder
  <1>3. Popped \in 1 .. Len(outcome)
    BY <1>1, <1>2 DEF Popped
  <1>4. ASSUME working \in {"Popped", "Holding", "Publish", "Resolve", "Fail"}
        PROVE  /\ outcome[Popped] = "Pending"
               /\ \A t \in 1 .. Popped - 1 :
                     outcome[t] \in {"Completed", "Stale"}
    <2>1. ~ Turned
      BY <1>4 DEF Turned
    <2>2. outcome[Popped] = "Pending"
      BY <1>1, <1>3, <1>4 DEF IInv, Settled, Accepted
    <2>3. ASSUME NEW t \in 1 .. Popped - 1
          PROVE  outcome[t] \in {"Completed", "Stale"}
      <3>1. t \in 1 .. Len(outcome) /\ ~ (t > Popped) /\ t # Popped
        BY <1>1, <1>3
      <3>2. outcome[t] # "Pending"
        BY <1>1, <3>1 DEF IInv, Settled, Accepted
      <3>3. outcome[t] \notin {"Cancelled", "Failed", "Rejected", "Threw"}
        BY <1>1, <2>1, <3>1 DEF IInv, Settled, Accepted
      <3> QED BY <1>1, <3>1, <3>2, <3>3 DEF Outcomes
    <2> QED BY <2>2, <2>3
  <1> QED BY <1>2, <1>3, <1>4

\* The first item of the queue is the oldest one once the worker only cancels.
LEMMA QueueIsOldest ==
    ASSUME IInv, working = "Cancelling", queue # <<>>
    PROVE  /\ Head(queue).ticket = Popped + 1
           /\ Popped + 1 \in 1 .. Len(outcome)
           /\ Stream!Oldest(Popped + 1)
  <1>1. /\ Len(queue) \in Nat \ {0} /\ Len(outcome) \in Nat /\ Len(hand) \in Nat
        /\ DOMAIN outcome = 1 .. Len(outcome) /\ Popped \in Int
    BY SeqFacts DEF IInv
  <1>2. Head(queue) = queue[1]
    BY DEF IInv, SeqTypes
  <1>3. queue[1].ticket = Popped + 1 /\ Popped >= 0
    BY <1>1 DEF IInv, TicketsInOrder
  <1>4. Popped + 1 \in 1 .. Len(outcome)
    BY <1>1, <1>3 DEF Popped
  <1>5. \A t \in 1 .. Len(outcome) :
           /\ t > Popped => outcome[t] = "Pending"
           /\ t <= Popped => outcome[t] # "Pending"
    BY <1>1 DEF IInv, Settled, Accepted
  <1>6. outcome[Popped + 1] = "Pending"
    <2>1. Popped + 1 > Popped
      BY <1>1
    <2> QED BY <1>4, <1>5, <2>1
  <1>7. ASSUME NEW u \in 1 .. (Popped + 1) - 1
        PROVE  outcome[u] # "Pending"
    <2>1. u \in 1 .. Len(outcome) /\ u <= Popped
      BY <1>1, <1>4
    <2> QED BY <1>5, <2>1
  <1>8. Stream!Oldest(Popped + 1)
    BY <1>6, <1>7, Zenon DEF Stream!Oldest
  <1>9. Head(queue).ticket = Popped + 1
    BY <1>2, <1>3
  <1> QED BY <1>4, <1>8, <1>9, Zenon

\* What a resolution does to the knowledge of a failure.
LEMMA BrokenBy ==
    ASSUME SeqTypes, NEW t \in 1 .. Len(outcome), NEW v \in Outcomes,
           outcome' = [outcome EXCEPT ![t] = v], outcome[t] = "Pending"
    PROVE  Stream!Broken' <=> Stream!Broken \/ v \in {"Threw", "Rejected"}
  <1>1. /\ Len(outcome') = Len(outcome)
        /\ \A u \in 1 .. Len(outcome) :
              outcome'[u] = IF u = t THEN v ELSE outcome[u]
    BY Resolves
  <1>2. \A u \in 1 .. Len(outcome) :
           outcome'[u] \in {"Threw", "Rejected"}
             <=> \/ outcome[u] \in {"Threw", "Rejected"}
                 \/ u = t /\ v \in {"Threw", "Rejected"}
    BY <1>1
  <1> QED BY <1>1, <1>2, Zenon DEF Stream!Broken

LEMMA EnqueueIsAccept ==
    ASSUME SInv, Enqueue
    PROVE  FailureKnown' /\ Stream!Accept
  <1>1. /\ UNCHANGED <<working, failed, started, drainRequested, cancelRequested>>
        /\ outcome' = Append(outcome, "Pending")
    BY DEF Enqueue, workerVars, lifeVars
  <1>2. ~ drainRequested /\ ~ cancelRequested
    BY DEF SInv, IInv, Closed, Enqueue
  <1>3. Stream!Accept
    BY <1>1, <1>2 DEF Stream!Accept, StreamPhase, Judged
  <1>4. /\ Len(outcome) \in Nat /\ Len(outcome') = Len(outcome) + 1
        /\ \A t \in 1 .. Len(outcome) : outcome'[t] = outcome[t]
        /\ outcome'[Len(outcome) + 1] = "Pending"
    <2>1. outcome \in Seq({"Pending"} \cup Outcomes)
      BY DEF SInv, IInv, SeqTypes
    <2> DEFINE S == {"Pending"} \cup Outcomes
    <2>2. outcome \in Seq(S) /\ "Pending" \in S
      BY <2>1
    <2> HIDE DEF S
    <2>3. Len(outcome) \in Nat
      BY <2>2, LenProperties
    <2> QED BY <1>1, <2>2, <2>3, AppendProperties
  <1>5. Stream!Broken' <=> Stream!Broken
    BY <1>4 DEF Stream!Broken
  <1>6. Failure' <=> Failure
    BY <1>1 DEF Failure
  <1> QED BY <1>3, <1>5, <1>6 DEF SInv, FailureKnown

LEMMA JudgingIsBegin ==
    ASSUME SInv, Judging
    PROVE  FailureKnown' /\ \E t \in 1 .. Len(outcome) : Stream!Begin(t)
  <1>1. /\ working = "Holding" /\ working' \in {"Publish", "Fail"}
        /\ ~ cancelRequested /\ outcome' = outcome
        /\ UNCHANGED <<failed, started, drainRequested, cancelRequested>>
    BY DEF Judging, SkipStale, Process, ProcessThrows, Reject, Judge, lifeVars
  <1>2. hand # <<>>
    BY <1>1 DEF SInv, IInv, WorkerOK
  <1>3. Stream!Begin(Popped) /\ Popped \in 1 .. Len(outcome)
    <2>1. /\ Popped \in 1 .. Len(outcome) /\ outcome[Popped] = "Pending"
          /\ \A t \in 1 .. Popped - 1 : outcome[t] \in {"Completed", "Stale"}
      BY <1>1, <1>2, HandIsOldest DEF SInv
    <2>2. ~ Judged /\ Judged' = TRUE /\ StreamPhase' = StreamPhase
          /\ StreamPhase # "Cancelling"
      BY <1>1 DEF Judged, StreamPhase
    <2> QED BY <1>1, <2>1, <2>2 DEF Stream!Begin
  <1>4. Stream!Broken' <=> Stream!Broken
    BY <1>1 DEF Stream!Broken
  <1>5. Failure' <=> Failure
    BY <1>1 DEF Failure
  <1> QED BY <1>3, <1>4, <1>5 DEF SInv, FailureKnown

\* The item in hand is resolved with the verdict on it.
LEMMA ResolvingIsFinish ==
    ASSUME SInv, ResolveItem \/ FailItem
    PROVE  FailureKnown' /\ \E t \in 1 .. Len(outcome),
                               result \in {"Completed", "Stale", "Threw", "Rejected"} :
                                  Stream!Finish(t, result)
  <1>1. /\ UNCHANGED <<failed, started, drainRequested, cancelRequested>>
        /\ outcome' = [outcome EXCEPT ![Item.ticket] = verdict]
        /\ \/ /\ working = "Resolve" /\ working' = "Release"
              /\ verdict \in {"Completed", "Stale"}
           \/ /\ working = "Fail" /\ working' = "Record"
              /\ verdict \in {"Threw", "Rejected"}
    BY DEF ResolveItem, FailItem, lifeVars, SInv, IInv, WorkerOK
  <1>2. hand # <<>>
    BY <1>1 DEF SInv, IInv, WorkerOK
  <1>3. /\ Item.ticket = Popped /\ Popped \in 1 .. Len(outcome)
        /\ outcome[Popped] = "Pending"
        /\ \A t \in 1 .. Popped - 1 : outcome[t] \in {"Completed", "Stale"}
    BY <1>1, <1>2, HandIsOldest DEF SInv
  <1>4. outcome' = [outcome EXCEPT ![Popped] = verdict]
    BY <1>1, <1>3
  <1>5. /\ SeqTypes /\ verdict \in Outcomes
    BY <1>1 DEF SInv, IInv, Outcomes
  <1>6. Stream!Finish(Popped, verdict)
    <2>1. Stream!Oldest(Popped)
      BY <1>3 DEF Stream!Oldest
    <2>2. Judged /\ Judged' = FALSE /\ StreamPhase' = StreamPhase
      BY <1>1 DEF Judged, StreamPhase
    <2> QED BY <1>4, <2>1, <2>2 DEF Stream!Finish
  <1>7. Stream!Broken' <=> Stream!Broken \/ verdict \in {"Threw", "Rejected"}
    <2> HIDE DEF SInv
    <2> QED BY <1>3, <1>4, <1>5, BrokenBy
  <1>8. FailureKnown'
    <2>1. CASE working = "Resolve"
      BY <1>1, <1>7, <2>1 DEF SInv, FailureKnown, Failure
    <2>2. CASE working = "Fail"
      BY <1>1, <1>7, <2>2 DEF FailureKnown, Failure
    <2> QED BY <1>1, <2>1, <2>2
  <1>9. verdict \in {"Completed", "Stale", "Threw", "Rejected"}
    BY <1>1
  <1> QED BY <1>3, <1>6, <1>8, <1>9

LEMMA CancelHeldIsGiveUp ==
    ASSUME SInv, CancelHeld
    PROVE  FailureKnown' /\ \E t \in 1 .. Len(outcome) : Stream!GiveUp(t)
  <1>1. /\ UNCHANGED <<failed, started, drainRequested, cancelRequested>>
        /\ outcome' = [outcome EXCEPT ![Item.ticket] = "Cancelled"]
        /\ working = "Holding" /\ working' = "Release" /\ cancelRequested
    BY DEF CancelHeld, lifeVars
  <1>2. hand # <<>>
    BY <1>1 DEF SInv, IInv, WorkerOK
  <1>3. /\ Item.ticket = Popped /\ Popped \in 1 .. Len(outcome)
        /\ outcome[Popped] = "Pending"
        /\ \A t \in 1 .. Popped - 1 : outcome[t] \in {"Completed", "Stale"}
    BY <1>1, <1>2, HandIsOldest DEF SInv
  <1>4. SeqTypes /\ "Cancelled" \in Outcomes /\ ~ failed
    BY <1>1 DEF SInv, IInv, Outcomes, WorkerOK, Turned
  <1>5. ~ Stream!Broken
    BY <1>1, <1>4 DEF SInv, FailureKnown, Failure
  <1>6. outcome' = [outcome EXCEPT ![Popped] = "Cancelled"]
    BY <1>1, <1>3
  <1>7. Stream!GiveUp(Popped)
    <2>1. Stream!Oldest(Popped)
      BY <1>3 DEF Stream!Oldest
    <2>2. /\ ~ Judged /\ Judged' = Judged
          /\ StreamPhase = "Cancelling" /\ StreamPhase' = StreamPhase
      BY <1>1 DEF Judged, StreamPhase
    <2> QED BY <1>5, <1>6, <2>1, <2>2 DEF Stream!GiveUp
  <1>8. ~ Stream!Broken'
    <2> HIDE DEF SInv
    <2>1. Stream!Broken' <=> Stream!Broken \/ "Cancelled" \in {"Threw", "Rejected"}
      BY <1>3, <1>4, <1>6, BrokenBy
    <2> QED BY <1>5, <2>1
  <1>9. ~ Failure'
    BY <1>1, <1>4 DEF Failure
  <1> QED BY <1>3, <1>7, <1>8, <1>9 DEF FailureKnown

LEMMA CancelQueuedIsGiveUp ==
    ASSUME SInv, CancelQueued
    PROVE  FailureKnown' /\ \E t \in 1 .. Len(outcome) : Stream!GiveUp(t)
  <1> DEFINE t == Popped + 1
             v == IF failed THEN "Failed" ELSE "Cancelled"
  <1>1. /\ UNCHANGED <<working, failed, started, drainRequested, cancelRequested>>
        /\ outcome' = [outcome EXCEPT ![Head(queue).ticket] = v]
        /\ working = "Cancelling" /\ queue # <<>>
    BY DEF CancelQueued, lifeVars
  <1>2. cancelRequested /\ started /\ SeqTypes
    BY <1>1 DEF SInv, IInv, Closed, SubmissionOK
  <1>3. /\ Head(queue).ticket = t /\ t \in 1 .. Len(outcome)
        /\ Stream!Oldest(t)
    BY <1>1, QueueIsOldest DEF SInv
  <1>4. Stream!Broken <=> failed
    BY <1>1, <1>2 DEF SInv, FailureKnown, Failure
  <1>5. v \in Outcomes /\ v \notin {"Threw", "Rejected"}
    BY DEF Outcomes
  <1>6. outcome' = [outcome EXCEPT ![t] = v] /\ outcome[t] = "Pending"
    BY <1>1, <1>3 DEF Stream!Oldest
  <1>7. Stream!Broken' <=> Stream!Broken
    <2> HIDE DEF SInv, t, v
    <2> QED BY <1>2, <1>3, <1>5, <1>6, BrokenBy
  <1>8. Stream!GiveUp(t)
    <2>1. /\ ~ Judged /\ Judged' = Judged
          /\ StreamPhase = "Cancelling" /\ StreamPhase' = StreamPhase
      BY <1>1, <1>2 DEF Judged, StreamPhase
    <2>2. v = IF Stream!Broken THEN "Failed" ELSE "Cancelled"
      BY <1>4
    <2> HIDE DEF t, v
    <2>3. outcome' = [outcome EXCEPT ![t] =
                        IF Stream!Broken THEN "Failed" ELSE "Cancelled"]
      BY <1>6, <2>2
    <2> QED BY <1>3, <2>1, <2>3 DEF Stream!GiveUp
  <1>9. Failure' <=> Failure
    BY <1>1 DEF Failure
  <1> QED BY <1>3, <1>7, <1>8, <1>9 DEF SInv, FailureKnown

\* Every step of the threads is a step of the stream or leaves it alone.
LEMMA NextStream ==
    SInv /\ [Next]_vars => SInv' /\ [Stream!Next]_Stream!vars
  <1> SUFFICES ASSUME SInv, [Next]_vars
               PROVE  /\ FailureKnown'
                      /\ \/ Stream!Next
                         \/ UNCHANGED <<StreamPhase, Judged, outcome>>
    BY NextInv DEF SInv, Stream!vars
  <1>1. CASE Aside
    <2>1. Stream!Broken' <=> Stream!Broken
      BY <1>1 DEF Aside, Stream!Broken
    <2>2. FailureKnown'
      BY <1>1, <2>1 DEF Aside, SInv, FailureKnown
    <2> QED BY <1>1, <2>2 DEF Aside, Stream!Next
  <1>2. CASE Enqueue
    BY <1>2, EnqueueIsAccept DEF Stream!Next
  <1>3. CASE Judging
    BY <1>3, JudgingIsBegin DEF Stream!Next
  <1>4. CASE ResolveItem \/ FailItem
    BY <1>4, ResolvingIsFinish DEF Stream!Next
  <1>5. CASE CancelHeld
    BY <1>5, CancelHeldIsGiveUp DEF Stream!Next
  <1>6. CASE CancelQueued
    BY <1>6, CancelQueuedIsGiveUp DEF Stream!Next
  <1>7. StreamStep \/ Aside
    BY AllSteps DEF SInv
  <1> QED BY <1>1, <1>2, <1>3, <1>4, <1>5, <1>6, <1>7 DEF StreamStep

LEMMA InitStream == Init => SInv /\ Stream!Init
  <1> SUFFICES ASSUME Init PROVE FailureKnown /\ Stream!Init
    BY InitInv DEF SInv
  <1>1. \A t \in 1 .. Len(outcome) : FALSE
    BY EmptySeq DEF Init
  <1>2. FailureKnown
    BY <1>1 DEF Init, FailureKnown, Failure, Stream!Broken
  <1> QED BY <1>2 DEF Init, Stream!Init, StreamPhase, Judged

\* The executor is one stream of commands to those who submit: carried out one
\* at a time in the order of submission, none accepted once a stop is requested,
\* none begun after a failure or a cancellation, and each that is given up told
\* whether the stream failed or was cancelled.
THEOREM ExecutorIsStream == Spec => IsStream
  <1>1. Stream!Init /\ [][Stream!Next]_Stream!vars => IsStream
    BY DEF IsStream, Stream!Spec
  <1> QED BY <1>1, InitStream, NextStream, PTL DEF Spec
=============================================================================
