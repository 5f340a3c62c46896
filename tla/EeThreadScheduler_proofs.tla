---------------------- MODULE EeThreadScheduler_proofs ----------------------
(***************************************************************************)
(* Proofs about EeThreadScheduler, for every number of threads, priorities, *)
(* wait objects and generations.                                            *)
(***************************************************************************)
EXTENDS EeThreadScheduler, FiniteSetTheorems, SequenceTheorems, TLAPS

-----------------------------------------------------------------------------
(* One queue: it holds the handles of the threads in S, each once, in the    *)
(* order of their sequence numbers.                                          *)

QueueHolds(ts, queue, S) ==
    /\ queue \in Seq(Handles)
    /\ \A i \in 1 .. Len(queue) :
          queue[i].id \in S /\ ts[queue[i].id].generation = queue[i].generation
    /\ \A t \in S : \E i \in 1 .. Len(queue) : queue[i].id = t
    /\ \A i, j \in 1 .. Len(queue) :
          i < j => ts[queue[i].id].queueSequence < ts[queue[j].id].queueSequence

Keyed(ts, S) == \A t \in S : ts[t].queueSequence \in Nat

\* The queue of the threads in S reads only two fields of their records.
SameKeys(ts, ts2, S) ==
    \A t \in S : /\ ts2[t].generation = ts[t].generation
                 /\ ts2[t].queueSequence = ts[t].queueSequence

LEMMA QueueFrame ==
    ASSUME NEW ts, NEW ts2, NEW queue, NEW S,
           QueueHolds(ts, queue, S), SameKeys(ts, ts2, S)
    PROVE  QueueHolds(ts2, queue, S)
  BY DEF QueueHolds, SameKeys

LEMMA QueueAppend ==
    ASSUME NEW ts, NEW ts2, NEW queue, NEW S, NEW h \in Handles,
           QueueHolds(ts, queue, S), Keyed(ts, S),
           SameKeys(ts, ts2, S),
           h.id \notin S,
           ts2[h.id].generation = h.generation,
           ts2[h.id].queueSequence \in Nat,
           \A t \in S : ts[t].queueSequence < ts2[h.id].queueSequence
    PROVE  QueueHolds(ts2, Append(queue, h), S \cup {h.id})
  <1> DEFINE q == Append(queue, h)
  <1>1. /\ q \in Seq(Handles)
        /\ Len(q) = Len(queue) + 1
        /\ Len(queue) \in Nat
        /\ \A i \in 1 .. Len(queue) : q[i] = queue[i]
        /\ q[Len(queue) + 1] = h
    BY AppendProperties, LenProperties DEF QueueHolds
  <1> HIDE DEF q
  <1>2. \A i \in 1 .. Len(q) :
           q[i].id \in S \cup {h.id} /\ ts2[q[i].id].generation = q[i].generation
    BY <1>1 DEF QueueHolds, SameKeys
  <1>3. \A t \in S \cup {h.id} : \E i \in 1 .. Len(q) : q[i].id = t
    BY <1>1 DEF QueueHolds
  <1>4. ASSUME NEW i \in 1 .. Len(q), NEW j \in 1 .. Len(q), i < j
        PROVE  ts2[q[i].id].queueSequence < ts2[q[j].id].queueSequence
    <2>1. CASE j = Len(queue) + 1
      BY <1>1, <1>4, <2>1 DEF QueueHolds, SameKeys
    <2>2. CASE j # Len(queue) + 1
      <3>1. i \in 1 .. Len(queue) /\ j \in 1 .. Len(queue)
        BY <1>1, <1>4, <2>2
      <3>2. q[i] = queue[i] /\ q[j] = queue[j]
        BY <1>1, <3>1
      <3> QED BY <1>4, <3>1, <3>2 DEF QueueHolds, SameKeys
    <2> QED BY <2>1, <2>2
  <1> QED BY <1>1, <1>2, <1>3, <1>4 DEF QueueHolds, q

\* A thread is in its queue at one place.
LEMMA QueueUnique ==
    ASSUME NEW ts, NEW queue, NEW S, QueueHolds(ts, queue, S), Keyed(ts, S),
           NEW i \in 1 .. Len(queue), NEW j \in 1 .. Len(queue),
           queue[i].id = queue[j].id
    PROVE  i = j
  BY LenProperties DEF QueueHolds, Keyed

LEMMA QueueRemoveAt ==
    ASSUME NEW ts, NEW queue, NEW S, QueueHolds(ts, queue, S), Keyed(ts, S),
           NEW k \in 1 .. Len(queue)
    PROVE  QueueHolds(ts, RemoveAt(queue, k), S \ {queue[k].id})
  <1> DEFINE q == RemoveAt(queue, k)
  <1>1. Len(queue) \in Nat /\ queue \in Seq(Handles)
    BY LenProperties DEF QueueHolds
  <1>2. /\ q \in Seq(Handles)
        /\ Len(q) = Len(queue) - 1
        /\ \A i \in 1 .. Len(q) : q[i] = IF i < k THEN queue[i] ELSE queue[i + 1]
    <2> DEFINE a == SubSeq(queue, 1, k - 1)
               b == SubSeq(queue, k + 1, Len(queue))
    <2>1. /\ a \in Seq(Handles)
          /\ Len(a) = k - 1
          /\ \A i \in 1 .. k - 1 : a[i] = queue[i]
      BY <1>1, SubSeqProperties
    <2>2. /\ b \in Seq(Handles)
          /\ Len(b) = Len(queue) - k
          /\ \A i \in 1 .. Len(queue) - k : b[i] = queue[i + k]
      BY <1>1, SubSeqProperties
    <2>3. q = a \o b
      BY DEF RemoveAt
    <2> HIDE DEF a, b, q
    <2>4. /\ q \in Seq(Handles)
          /\ Len(q) = Len(a) + Len(b)
          /\ \A i \in 1 .. Len(a) + Len(b) :
                q[i] = IF i <= Len(a) THEN a[i] ELSE b[i - Len(a)]
      BY <2>1, <2>2, <2>3, ConcatProperties
    <2>5. Len(q) = Len(queue) - 1
      BY <1>1, <2>1, <2>2, <2>4
    <2>6. ASSUME NEW i \in 1 .. Len(q)
          PROVE  q[i] = IF i < k THEN queue[i] ELSE queue[i + 1]
      <3>1. CASE i < k
        <4>1. i \in 1 .. k - 1 /\ i <= Len(a)
          BY <1>1, <2>1, <3>1
        <4>2. i \in 1 .. Len(a) + Len(b)
          BY <2>4
        <4>3. q[i] = a[i]
          BY <2>4, <4>1, <4>2
        <4>4. a[i] = queue[i]
          BY <2>1, <4>1
        <4> QED BY <3>1, <4>3, <4>4
      <3>2. CASE i >= k
        <4>1. i - Len(a) \in 1 .. Len(queue) - k
          BY <1>1, <2>1, <2>5, <3>2
        <4>2. q[i] = b[i - Len(a)]
          <5>1. ~ (i <= Len(a))
            BY <1>1, <2>1, <3>2
          <5>2. i \in 1 .. Len(a) + Len(b)
            BY <2>4
          <5> QED BY <2>4, <5>1, <5>2
        <4>3. (i - Len(a)) + k = i + 1
          BY <1>1, <2>1, <2>5
        <4>4. b[i - Len(a)] = queue[(i - Len(a)) + k]
          BY <2>2, <4>1
        <4>5. ~ (i < k)
          BY <1>1, <3>2
        <4> QED BY <4>2, <4>3, <4>4, <4>5
      <3> QED BY <1>1, <2>5, <3>1, <3>2
    <2> QED BY <2>4, <2>5, <2>6
  <1> HIDE DEF q
  <1>3. ASSUME NEW i \in 1 .. Len(q)
        PROVE  /\ q[i].id \in S \ {queue[k].id}
               /\ ts[q[i].id].generation = q[i].generation
    <2>1. PICK j \in 1 .. Len(queue) : j # k /\ q[i] = queue[j]
      BY <1>1, <1>2
    <2>2. queue[j].id # queue[k].id
      BY <2>1, QueueUnique
    <2> QED BY <2>1, <2>2 DEF QueueHolds
  <1>4. ASSUME NEW t \in S \ {queue[k].id}
        PROVE  \E i \in 1 .. Len(q) : q[i].id = t
    <2>1. PICK j \in 1 .. Len(queue) : queue[j].id = t
      BY DEF QueueHolds
    <2>2. CASE j < k
      BY <1>1, <1>2, <2>1, <2>2
    <2>3. CASE j > k
      <3>1. j - 1 \in 1 .. Len(q) /\ q[j - 1] = queue[j]
        BY <1>1, <1>2, <2>3
      <3> QED BY <2>1, <3>1
    <2> QED BY <1>1, <2>1, <2>2, <2>3
  <1>5. ASSUME NEW i \in 1 .. Len(q), NEW j \in 1 .. Len(q), i < j
        PROVE  ts[q[i].id].queueSequence < ts[q[j].id].queueSequence
    <2>1. PICK m \in 1 .. Len(queue), n \in 1 .. Len(queue) :
              m < n /\ q[i] = queue[m] /\ q[j] = queue[n]
      BY <1>1, <1>2, <1>5
    <2> QED BY <2>1 DEF QueueHolds
  <1> QED BY <1>2, <1>3, <1>4, <1>5 DEF QueueHolds, q

\* std::find and erase take exactly the thread of the handle out.
LEMMA QueueRemove ==
    ASSUME NEW ts, NEW queue, NEW S, QueueHolds(ts, queue, S), Keyed(ts, S),
           NEW h, h \in ToSet(queue)
    PROVE  QueueHolds(ts, RemoveFirst(queue, h), S \ {h.id}) /\ h.id \in S
  <1>1. queue \in Seq(Handles) /\ Len(queue) \in Nat /\ DOMAIN queue = 1 .. Len(queue)
    BY LenProperties DEF QueueHolds
  <1>2. PICK k \in 1 .. Len(queue) : queue[k] = h
    BY <1>1 DEF ToSet
  <1>3. {i \in 1 .. Len(queue) : queue[i] = h} = {k}
    BY <1>2, QueueUnique
  <1>4. Min({k}) = k
    BY <1>1 DEF Min
  <1>5. RemoveFirst(queue, h) = RemoveAt(queue, k)
    BY <1>2, <1>3, <1>4 DEF RemoveFirst, SelectInSeq
  <1>6. h.id \in S
    BY <1>2 DEF QueueHolds
  <1> QED BY <1>2, <1>5, <1>6, QueueRemoveAt

LEMMA QueueTail ==
    ASSUME NEW ts, NEW queue, NEW S, QueueHolds(ts, queue, S), Keyed(ts, S),
           queue # <<>>
    PROVE  /\ QueueHolds(ts, Tail(queue), S \ {Head(queue).id})
           /\ Head(queue) \in Handles
           /\ Head(queue).id \in S
           /\ ts[Head(queue).id].generation = Head(queue).generation
  <1>1. /\ queue \in Seq(Handles) /\ Len(queue) \in Nat \ {0}
        /\ Head(queue) = queue[1]
    BY LenProperties, EmptySeq DEF QueueHolds
  <1>2. Tail(queue) = RemoveAt(queue, 1)
    BY <1>1 DEF RemoveAt
  <1>3. 1 \in 1 .. Len(queue)
    BY <1>1
  <1>4. Head(queue) \in Handles
    BY <1>1, <1>3, ElementOfSeq
  <1>5. /\ Head(queue).id \in S
        /\ ts[Head(queue).id].generation = Head(queue).generation
    BY <1>1, <1>3 DEF QueueHolds
  <1>6. QueueHolds(ts, RemoveAt(queue, 1), S \ {queue[1].id})
    BY <1>3, QueueRemoveAt
  <1> QED BY <1>1, <1>2, <1>4, <1>5, <1>6

-----------------------------------------------------------------------------
(* The inductive invariant.  Validate() alone is not inductive: that a       *)
(* handle is queued once follows from the queues being sorted on distinct    *)
(* sequence numbers, and that appending keeps them sorted from all numbers   *)
(* being below the next one.                                                 *)

ReadySet(ts, p) == {t \in DOMAIN ts : ts[t].state = "Ready" /\ ts[t].priority = p}

WaitSet(ts, w) == {t \in DOMAIN ts : ts[t].state \in Blocked /\ ts[t].wait = w}

ReadyFamily(ts, ready) ==
    /\ ready \in [Priorities -> Seq(Handles)]
    /\ \A p \in Priorities : QueueHolds(ts, ready[p], ReadySet(ts, p))

WaitFamily(ts, wait) ==
    /\ wait \in [WaitKeys -> Seq(Handles)]
    /\ \A w \in WaitKeys : QueueHolds(ts, wait[w], WaitSet(ts, w))

Records(ts, current, next) ==
    /\ DOMAIN ts \subseteq ThreadIds
    /\ ts \in [DOMAIN ts -> ThreadRecords]
    /\ \A t \in DOMAIN ts : /\ RecordValid(ts[t])
                            /\ (ts[t].state = "Running") <=> (t = current)
                            /\ ts[t].queueSequence < next
    /\ current \in DOMAIN ts \cup {NoThread}
    /\ next \in 1 .. MaxQueueSequence

Good(ts, ready, wait, current, next) ==
    /\ Records(ts, current, next)
    /\ ReadyFamily(ts, ready)
    /\ WaitFamily(ts, wait)

IInv == Good(threads, readyQueues, waitQueues, currentThreadId, nextQueueSequence)

-----------------------------------------------------------------------------
(* What one record update does to each part of the invariant.               *)

LEMMA RecordsUpdate ==
    ASSUME NEW ts, NEW current, NEW next, Records(ts, current, next),
           NEW t \in DOMAIN ts, NEW r \in ThreadRecords, RecordValid(r),
           NEW current2 \in DOMAIN ts \cup {NoThread},
           NEW next2 \in 1 .. MaxQueueSequence, next <= next2,
           r.queueSequence < next2,
           (r.state = "Running") <=> (t = current2),
           \A u \in DOMAIN ts \ {t} : (u = current) <=> (u = current2)
    PROVE  Records([ts EXCEPT ![t] = r], current2, next2)
  <1> DEFINE ts2 == [ts EXCEPT ![t] = r]
  <1>1. /\ DOMAIN ts2 = DOMAIN ts
        /\ ts2 \in [DOMAIN ts2 -> ThreadRecords]
        /\ ts2[t] = r
        /\ \A u \in DOMAIN ts \ {t} : ts2[u] = ts[u]
    BY DEF Records
  <1>2. ASSUME NEW u \in DOMAIN ts2
        PROVE  /\ RecordValid(ts2[u])
               /\ (ts2[u].state = "Running") <=> (u = current2)
               /\ ts2[u].queueSequence < next2
    <2>1. CASE u = t
      BY <1>1, <2>1
    <2>2. CASE u # t
      <3>1. ts2[u] = ts[u] /\ u \in DOMAIN ts
        BY <1>1, <2>2
      <3>2. ts[u].queueSequence \in Nat /\ next \in Nat /\ next2 \in Nat
        BY <3>1 DEF Records, ThreadRecords
      <3>3. RecordValid(ts[u]) /\ ts[u].queueSequence < next
        BY <3>1 DEF Records
      <3>4. (ts[u].state = "Running") <=> (u = current2)
        BY <2>2, <3>1 DEF Records
      <3> QED BY <3>1, <3>2, <3>3, <3>4
    <2> QED BY <2>1, <2>2
  <1> HIDE DEF ts2
  <1>3. Records(ts2, current2, next2)
    BY <1>1, <1>2 DEF Records
  <1> QED BY <1>3 DEF ts2

\* Generations and, unless it leaves its queue, sequence numbers stay.
KeepsKey(r, r2) ==
    r2.generation = r.generation /\ r2.queueSequence = r.queueSequence

LEMMA ReadySame ==
    ASSUME NEW ts, NEW ready, ReadyFamily(ts, ready),
           NEW t \in DOMAIN ts, NEW r,
           r.state = "Ready" <=> ts[t].state = "Ready",
           r.state = "Ready" => KeepsKey(ts[t], r) /\ r.priority = ts[t].priority
    PROVE  ReadyFamily([ts EXCEPT ![t] = r], ready)
  <1> DEFINE ts2 == [ts EXCEPT ![t] = r]
  <1>1. ASSUME NEW p \in Priorities
        PROVE  QueueHolds(ts2, ready[p], ReadySet(ts2, p))
    <2>1. ReadySet(ts2, p) = ReadySet(ts, p)
      BY DEF ReadySet
    <2>2. SameKeys(ts, ts2, ReadySet(ts, p))
      BY DEF SameKeys, ReadySet, KeepsKey
    <2> HIDE DEF ts2
    <2> QED BY <2>1, <2>2, QueueFrame DEF ReadyFamily
  <1> QED BY <1>1 DEF ReadyFamily

LEMMA WaitSame ==
    ASSUME NEW ts, NEW wait, WaitFamily(ts, wait),
           NEW t \in DOMAIN ts, NEW r,
           r.state \in Blocked <=> ts[t].state \in Blocked,
           r.state \in Blocked => KeepsKey(ts[t], r) /\ r.wait = ts[t].wait
    PROVE  WaitFamily([ts EXCEPT ![t] = r], wait)
  <1> DEFINE ts2 == [ts EXCEPT ![t] = r]
  <1>1. ASSUME NEW w \in WaitKeys
        PROVE  QueueHolds(ts2, wait[w], WaitSet(ts2, w))
    <2>1. WaitSet(ts2, w) = WaitSet(ts, w)
      BY DEF WaitSet
    <2>2. SameKeys(ts, ts2, WaitSet(ts, w))
      BY DEF SameKeys, WaitSet, KeepsKey
    <2> HIDE DEF ts2
    <2> QED BY <2>1, <2>2, QueueFrame DEF WaitFamily
  <1> QED BY <1>1 DEF WaitFamily

\* enqueueReady and the push_back of blockCurrentThread.
LEMMA ReadyPush ==
    ASSUME NEW ts, NEW ready, NEW current, NEW next,
           Records(ts, current, next), ReadyFamily(ts, ready),
           NEW h \in Handles, h.id \in DOMAIN ts,
           ts[h.id].state # "Ready", ts[h.id].generation = h.generation,
           NEW r, r.state = "Ready", r.generation = h.generation,
           r.queueSequence = next, r.priority \in Priorities
    PROVE  ReadyFamily([ts EXCEPT ![h.id] = r],
                       [ready EXCEPT ![r.priority] = Append(@, h)])
  <1> DEFINE ts2 == [ts EXCEPT ![h.id] = r]
             ready2 == [ready EXCEPT ![r.priority] = Append(@, h)]
  <1>1. \A p \in Priorities : SameKeys(ts, ts2, ReadySet(ts, p))
    BY DEF SameKeys, ReadySet
  <1>2. \A p \in Priorities :
           ReadySet(ts2, p) = IF p = r.priority THEN ReadySet(ts, p) \cup {h.id}
                                               ELSE ReadySet(ts, p)
    BY DEF ReadySet
  <1>3. ASSUME NEW p \in Priorities
        PROVE  /\ QueueHolds(ts2, ready2[p], ReadySet(ts2, p))
               /\ ready2[p] \in Seq(Handles)
    <2>1. CASE p = r.priority
      <3>1. ready2[p] = Append(ready[p], h)
        BY <2>1 DEF ReadyFamily
      <3>2. Keyed(ts, ReadySet(ts, p)) /\ next \in Nat
        BY DEF Keyed, ReadySet, Records, ThreadRecords
      <3>3. h.id \notin ReadySet(ts, p)
        BY DEF ReadySet
      <3>4. ts2[h.id] = r
        OBVIOUS
      <3>5. \A t \in ReadySet(ts, p) : ts[t].queueSequence < next
        BY DEF ReadySet, Records
      <3>6. QueueHolds(ts, ready[p], ReadySet(ts, p))
        BY DEF ReadyFamily
      <3> HIDE DEF ts2
      <3>7. QueueHolds(ts2, Append(ready[p], h), ReadySet(ts, p) \cup {h.id})
        BY <1>1, <3>2, <3>3, <3>4, <3>5, <3>6, QueueAppend
      <3> QED BY <1>2, <2>1, <3>1, <3>7, SMTT(60) DEF QueueHolds
    <2>2. CASE p # r.priority
      <3>1. ready2[p] = ready[p]
        BY <2>2 DEF ReadyFamily
      <3> HIDE DEF ts2
      <3> QED BY <1>1, <1>2, <2>2, <3>1, QueueFrame DEF ReadyFamily
    <2> QED BY <2>1, <2>2
  <1>4. ready2 \in [Priorities -> Seq(Handles)]
    BY <1>3 DEF ReadyFamily
  <1> QED BY <1>3, <1>4 DEF ReadyFamily

LEMMA WaitPush ==
    ASSUME NEW ts, NEW wait, NEW current, NEW next,
           Records(ts, current, next), WaitFamily(ts, wait),
           NEW h \in Handles, h.id \in DOMAIN ts,
           ts[h.id].state \notin Blocked, ts[h.id].generation = h.generation,
           NEW r, r.state \in Blocked, r.generation = h.generation,
           r.queueSequence = next, r.wait \in WaitKeys
    PROVE  WaitFamily([ts EXCEPT ![h.id] = r],
                      [wait EXCEPT ![r.wait] = Append(@, h)])
  <1> DEFINE ts2 == [ts EXCEPT ![h.id] = r]
             wait2 == [wait EXCEPT ![r.wait] = Append(@, h)]
  <1>1. \A w \in WaitKeys : SameKeys(ts, ts2, WaitSet(ts, w))
    BY DEF SameKeys, WaitSet
  <1>2. \A w \in WaitKeys :
           WaitSet(ts2, w) = IF w = r.wait THEN WaitSet(ts, w) \cup {h.id}
                                           ELSE WaitSet(ts, w)
    BY DEF WaitSet
  <1>3. ASSUME NEW w \in WaitKeys
        PROVE  /\ QueueHolds(ts2, wait2[w], WaitSet(ts2, w))
               /\ wait2[w] \in Seq(Handles)
    <2>1. CASE w = r.wait
      <3>1. wait2[w] = Append(wait[w], h)
        BY <2>1 DEF WaitFamily
      <3>2. Keyed(ts, WaitSet(ts, w)) /\ next \in Nat
        BY DEF Keyed, WaitSet, Records, ThreadRecords
      <3>3. h.id \notin WaitSet(ts, w)
        BY DEF WaitSet
      <3>4. ts2[h.id] = r
        OBVIOUS
      <3>5. \A t \in WaitSet(ts, w) : ts[t].queueSequence < next
        BY DEF WaitSet, Records
      <3>6. QueueHolds(ts, wait[w], WaitSet(ts, w))
        BY DEF WaitFamily
      <3> HIDE DEF ts2
      <3>7. QueueHolds(ts2, Append(wait[w], h), WaitSet(ts, w) \cup {h.id})
        BY <1>1, <3>2, <3>3, <3>4, <3>5, <3>6, QueueAppend
      <3> QED BY <1>2, <2>1, <3>1, <3>7 DEF QueueHolds
    <2>2. CASE w # r.wait
      <3>1. wait2[w] = wait[w]
        BY <2>2 DEF WaitFamily
      <3> HIDE DEF ts2
      <3> QED BY <1>1, <1>2, <2>2, <3>1, QueueFrame DEF WaitFamily
    <2> QED BY <2>1, <2>2
  <1>4. wait2 \in [WaitKeys -> Seq(Handles)]
    BY <1>3 DEF WaitFamily
  <1> QED BY <1>3, <1>4 DEF WaitFamily

\* Leaving a queue: q is the queue without the thread.
LEMMA ReadyDrop ==
    ASSUME NEW ts, NEW ready, ReadyFamily(ts, ready),
           NEW t \in DOMAIN ts, NEW q, NEW r, r.state # "Ready",
           ts[t].state = "Ready",
           QueueHolds(ts, q, ReadySet(ts, ts[t].priority) \ {t})
    PROVE  ReadyFamily([ts EXCEPT ![t] = r],
                       [ready EXCEPT ![ts[t].priority] = q])
  <1> DEFINE ts2 == [ts EXCEPT ![t] = r]
             ready2 == [ready EXCEPT ![ts[t].priority] = q]
  <1>1. \A p \in Priorities :
           /\ ReadySet(ts2, p) = ReadySet(ts, p) \ {t}
           /\ p # ts[t].priority => t \notin ReadySet(ts, p)
    BY DEF ReadySet
  <1>2. \A p \in Priorities : SameKeys(ts, ts2, ReadySet(ts, p) \ {t})
    BY DEF SameKeys, ReadySet
  <1>3. ASSUME NEW p \in Priorities
        PROVE  /\ QueueHolds(ts2, ready2[p], ReadySet(ts2, p))
               /\ ready2[p] \in Seq(Handles)
    <2>1. QueueHolds(ts, ready2[p], ReadySet(ts, p) \ {t})
      <3>1. CASE p = ts[t].priority
        BY <3>1 DEF ReadyFamily
      <3>2. CASE p # ts[t].priority
        <4>1. ready2[p] = ready[p] /\ ReadySet(ts, p) \ {t} = ReadySet(ts, p)
          BY <1>1, <3>2 DEF ReadyFamily
        <4> QED BY <4>1 DEF ReadyFamily
      <3> QED BY <3>1, <3>2
    <2> HIDE DEF ts2, ready2
    <2>2. QueueHolds(ts2, ready2[p], ReadySet(ts, p) \ {t})
      BY <1>2, <2>1, QueueFrame
    <2> QED BY <1>1, <2>2 DEF QueueHolds
  <1>4. ready2 \in [Priorities -> Seq(Handles)]
    BY <1>3 DEF ReadyFamily
  <1> QED BY <1>3, <1>4 DEF ReadyFamily

LEMMA WaitDrop ==
    ASSUME NEW ts, NEW wait, WaitFamily(ts, wait),
           NEW t \in DOMAIN ts, NEW q, NEW r, r.state \notin Blocked,
           ts[t].state \in Blocked,
           QueueHolds(ts, q, WaitSet(ts, ts[t].wait) \ {t})
    PROVE  WaitFamily([ts EXCEPT ![t] = r], [wait EXCEPT ![ts[t].wait] = q])
  <1> DEFINE ts2 == [ts EXCEPT ![t] = r]
             wait2 == [wait EXCEPT ![ts[t].wait] = q]
  <1>1. \A w \in WaitKeys :
           /\ WaitSet(ts2, w) = WaitSet(ts, w) \ {t}
           /\ w # ts[t].wait => t \notin WaitSet(ts, w)
    BY DEF WaitSet
  <1>2. \A w \in WaitKeys : SameKeys(ts, ts2, WaitSet(ts, w) \ {t})
    BY DEF SameKeys, WaitSet
  <1>3. ASSUME NEW w \in WaitKeys
        PROVE  /\ QueueHolds(ts2, wait2[w], WaitSet(ts2, w))
               /\ wait2[w] \in Seq(Handles)
    <2>1. QueueHolds(ts, wait2[w], WaitSet(ts, w) \ {t})
      <3>1. CASE w = ts[t].wait
        BY <3>1 DEF WaitFamily
      <3>2. CASE w # ts[t].wait
        <4>1. wait2[w] = wait[w] /\ WaitSet(ts, w) \ {t} = WaitSet(ts, w)
          BY <1>1, <3>2 DEF WaitFamily
        <4> QED BY <4>1 DEF WaitFamily
      <3> QED BY <3>1, <3>2
    <2> HIDE DEF ts2, wait2
    <2>2. QueueHolds(ts2, wait2[w], WaitSet(ts, w) \ {t})
      BY <1>2, <2>1, QueueFrame
    <2> QED BY <1>1, <2>2 DEF QueueHolds
  <1>4. wait2 \in [WaitKeys -> Seq(Handles)]
    BY <1>3 DEF WaitFamily
  <1> QED BY <1>3, <1>4 DEF WaitFamily

\* removeReady, and the pop_front of rotateReadyQueue.
LEMMA ReadyWithout ==
    ASSUME NEW ts, NEW ready, NEW current, NEW next,
           Records(ts, current, next), ReadyFamily(ts, ready),
           NEW p \in Priorities
    PROVE  \A h \in ToSet(ready[p]) :
              QueueHolds(ts, RemoveFirst(ready[p], h), ReadySet(ts, p) \ {h.id})
  <1>1. Keyed(ts, ReadySet(ts, p))
    BY DEF Keyed, ReadySet, Records, ThreadRecords
  <1>2. QueueHolds(ts, ready[p], ReadySet(ts, p))
    BY DEF ReadyFamily
  <1> QED BY <1>1, <1>2, QueueRemove

LEMMA ReadyFront ==
    ASSUME NEW ts, NEW ready, NEW current, NEW next,
           Records(ts, current, next), ReadyFamily(ts, ready),
           NEW p \in Priorities, ready[p] # <<>>,
           NEW h, h = Head(ready[p])
    PROVE  /\ QueueHolds(ts, Tail(ready[p]), ReadySet(ts, p) \ {h.id})
           /\ h \in Handles /\ FindThread(ts, h)
           /\ ts[h.id].state = "Ready" /\ ts[h.id].priority = p
  <1>1. Keyed(ts, ReadySet(ts, p))
    BY DEF Keyed, ReadySet, Records, ThreadRecords
  <1>2. QueueHolds(ts, ready[p], ReadySet(ts, p))
    BY DEF ReadyFamily
  <1>3. /\ QueueHolds(ts, Tail(ready[p]), ReadySet(ts, p) \ {h.id})
        /\ h \in Handles
        /\ h.id \in ReadySet(ts, p)
        /\ ts[h.id].generation = h.generation
    BY <1>1, <1>2, QueueTail
  <1> QED BY <1>3 DEF ReadySet, FindThread

LEMMA WaitWithout ==
    ASSUME NEW ts, NEW wait, NEW current, NEW next,
           Records(ts, current, next), WaitFamily(ts, wait),
           NEW w \in WaitKeys
    PROVE  /\ \A h \in ToSet(wait[w]) :
                 QueueHolds(ts, RemoveFirst(wait[w], h), WaitSet(ts, w) \ {h.id})
           /\ wait[w] # <<>> =>
                 LET h == Head(wait[w]) IN
                 /\ QueueHolds(ts, Tail(wait[w]), WaitSet(ts, w) \ {h.id})
                 /\ h \in Handles /\ FindThread(ts, h)
                 /\ ts[h.id].state \in Blocked /\ ts[h.id].wait = w
  <1>1. Keyed(ts, WaitSet(ts, w))
    BY DEF Keyed, WaitSet, Records, ThreadRecords
  <1>2. QueueHolds(ts, wait[w], WaitSet(ts, w))
    BY DEF WaitFamily
  <1>3. \A h \in ToSet(wait[w]) :
           QueueHolds(ts, RemoveFirst(wait[w], h), WaitSet(ts, w) \ {h.id})
    BY <1>1, <1>2, QueueRemove
  <1>4. ASSUME wait[w] # <<>>
        PROVE  /\ QueueHolds(ts, Tail(wait[w]), WaitSet(ts, w) \ {Head(wait[w]).id})
               /\ Head(wait[w]) \in Handles
               /\ Head(wait[w]).id \in WaitSet(ts, w)
               /\ ts[Head(wait[w]).id].generation = Head(wait[w]).generation
    BY <1>1, <1>2, <1>4, QueueTail
  <1> QED BY <1>3, <1>4 DEF WaitSet, FindThread

-----------------------------------------------------------------------------
(* takeNextReady: under the invariant no handle is stale, so it takes the    *)
(* front of the first non-empty queue, or finds all queues empty.            *)

LEMMA EmptyDomain ==
    ASSUME NEW S, NEW seq \in Seq(S), DOMAIN seq = {}
    PROVE  seq = <<>>
  <1>1. SUFFICES ASSUME seq # <<>> PROVE FALSE
    OBVIOUS
  <1>2. Len(seq) \in Nat \ {0} /\ DOMAIN seq = 1 .. Len(seq)
    BY <1>1, EmptySeq, LenProperties
  <1>3. 1 \in DOMAIN seq
    BY <1>2
  <1> QED BY <1>3

LEMMA TakeKeepsGood ==
    ASSUME NEW ts, NEW ready,
           Good(ts, ready, waitQueues', NoThread, nextQueueSequence'),
           TakeNextReady(ts, ready)
    PROVE  IInv'
  <1> DEFINE next == nextQueueSequence'
  <1>1. /\ Records(ts, NoThread, next)
        /\ ReadyFamily(ts, ready)
        /\ WaitFamily(ts, waitQueues')
    BY DEF Good
  <1>2. \A p \in Priorities : ready[p] \in Seq(Handles)
                               /\ Len(ready[p]) \in Nat
                               /\ DOMAIN ready[p] = 1 .. Len(ready[p])
    BY <1>1, LenProperties DEF ReadyFamily
  <1>3. \A p \in Priorities : \A i \in DOMAIN ready[p] : IsReady(ts, ready[p][i])
    BY <1>1, <1>2 DEF ReadyFamily, QueueHolds, ReadySet, IsReady, FindThread
  <1>4. CASE TakeNone(ts, ready)
    <2>1. ASSUME NEW p \in Priorities PROVE ready[p] = <<>>
      <3>1. DOMAIN ready[p] = {}
        BY <1>3, <1>4 DEF TakeNone
      <3> QED BY <1>2, <3>1, EmptyDomain
    <2>2. readyQueues' = ready
      BY <1>1, <1>4, <2>1 DEF ReadyFamily, TakeNone
    <2> QED BY <1>4, <2>2 DEF IInv, Good, TakeNone
  <1>5. ASSUME NEW p \in Priorities, NEW i \in DOMAIN ready[p],
               TakeAt(ts, ready, p, i)
        PROVE  IInv'
    <2>1. /\ \A j \in 1 .. i - 1 : ~ IsReady(ts, ready[p][j])
          /\ \A q \in 0 .. p - 1 : \A j \in DOMAIN ready[q] :
                ~ IsReady(ts, ready[q][j])
          /\ threads' = [ts EXCEPT ![ready[p][i].id] = SelectedRecord(@)]
          /\ readyQueues' =
                [q \in Priorities |->
                   IF q < p THEN <<>>
                   ELSE IF q = p THEN SubSeq(ready[p], i + 1, Len(ready[p]))
                   ELSE ready[q]]
          /\ currentThreadId' = ready[p][i].id
      BY <1>5 DEF TakeAt
    <2> DEFINE t == ready[p][1].id
               r == SelectedRecord(ts[t])
    <2>2. i = 1
      BY <1>2, <1>3, <2>1
    <2>3. /\ t \in DOMAIN ts
          /\ ts[t].state = "Ready"
          /\ ts[t].priority = p
      BY <1>1, <1>2, <2>2 DEF ReadyFamily, QueueHolds, ReadySet
    <2>4. ready[p] # <<>> /\ Tail(ready[p]) = SubSeq(ready[p], 2, Len(ready[p]))
      BY <1>2, <2>2, EmptySeq, TailIsSubSeq
    <2>5. QueueHolds(ts, Tail(ready[p]), ReadySet(ts, p) \ {t})
      <3>1. Keyed(ts, ReadySet(ts, p))
        BY <1>1 DEF Keyed, ReadySet, Records, ThreadRecords
      <3>2. QueueHolds(ts, ready[p], ReadySet(ts, p))
        BY <1>1 DEF ReadyFamily
      <3>3. Head(ready[p]) = ready[p][1]
        OBVIOUS
      <3> QED BY <2>4, <3>1, <3>2, <3>3, QueueTail
    <2>6. readyQueues' = [ready EXCEPT ![p] = Tail(ready[p])]
      <3>1. ASSUME NEW q \in Priorities, q < p PROVE ready[q] = <<>>
        <4>1. q \in 0 .. p - 1
          BY <3>1, ConstantsAssumption DEF Priorities
        <4>2. DOMAIN ready[q] = {}
          BY <1>3, <2>1, <4>1
        <4> QED BY <1>2, <4>2, EmptyDomain
      <3>2. \A q \in Priorities :
               readyQueues'[q] = [ready EXCEPT ![p] = Tail(ready[p])][q]
        <4>1. ASSUME NEW q \in Priorities
              PROVE  readyQueues'[q] = IF q < p THEN <<>>
                                       ELSE IF q = p THEN Tail(ready[p])
                                       ELSE ready[q]
          <5>1. SubSeq(ready[p], i + 1, Len(ready[p])) = Tail(ready[p])
            BY <2>2, <2>4
          <5> QED BY <2>1, <5>1
        <4>2. ready \in [Priorities -> Seq(Handles)]
          BY <1>1 DEF ReadyFamily
        <4>3. ASSUME NEW q \in Priorities
              PROVE  readyQueues'[q] = IF q = p THEN Tail(ready[p]) ELSE ready[q]
          BY <3>1, <4>1, ConstantsAssumption DEF Priorities
        <4> QED BY <4>2, <4>3
      <3>3. DOMAIN readyQueues' = Priorities /\ DOMAIN ready = Priorities
        BY <1>1, <2>1 DEF ReadyFamily
      <3> QED BY <1>1, <2>1, <3>2, <3>3 DEF ReadyFamily
    <2>7. /\ threads' = [ts EXCEPT ![t] = r]
          /\ currentThreadId' = t
      BY <2>1, <2>2
    <2>8. /\ r \in ThreadRecords
          /\ RecordValid(r)
          /\ r.state = "Running"
          /\ r.queueSequence = 0
      <3>1. ts[t] \in ThreadRecords /\ RecordValid(ts[t])
        BY <1>1, <2>3 DEF Records
      <3> QED BY <2>3, <3>1
          DEF SelectedRecord, ThreadRecords, RecordValid, States, Blocked
    <2> HIDE DEF r
    <2>9. Records(threads', t, next)
      <3>1. t # NoThread /\ NoThread \notin DOMAIN ts
        BY <1>1, <2>3, ConstantsAssumption DEF Records
      <3>2. next \in 1 .. MaxQueueSequence
        BY <1>1 DEF Records
      <3>3. next <= next /\ 0 < next
        BY <3>2, ConstantsAssumption
      <3>4. \A u \in DOMAIN ts \ {t} : (u = NoThread) <=> (u = t)
        BY <3>1
      <3>5. t \in DOMAIN ts \cup {NoThread}
        BY <2>3
      <3>6. r.queueSequence < next
        BY <2>8, <3>3
      <3> HIDE DEF t, next
      <3>7. Records([ts EXCEPT ![t] = r], t, next)
        BY <1>1, <2>3, <2>8, <3>2, <3>3, <3>4, <3>5, <3>6, RecordsUpdate
      <3> QED BY <2>7, <3>7
    <2>10. ReadyFamily(threads', readyQueues')
      <3> HIDE DEF t
      <3> QED BY <1>1, <2>3, <2>5, <2>6, <2>7, <2>8, ReadyDrop
    <2>11. WaitFamily(threads', waitQueues')
      <3>1. r.state \notin Blocked /\ ts[t].state \notin Blocked
        BY <2>3, <2>8 DEF Blocked
      <3> HIDE DEF t
      <3> QED BY <1>1, <2>3, <2>7, <3>1, WaitSame
    <2> QED BY <2>7, <2>9, <2>10, <2>11 DEF IInv, Good
  <1> QED BY <1>4, <1>5 DEF TakeNextReady

-----------------------------------------------------------------------------
(* The five ways an operation moves one thread.                             *)

\* The selection seen from the records ts it selects from: the CPU stays idle
\* only when nothing is Ready, and whoever stays Ready comes after the thread
\* that was taken.
Refilled(ts) ==
    /\ currentThreadId' = NoThread
         => \A u \in DOMAIN threads' : threads'[u].state # "Ready"
    /\ currentThreadId' # NoThread
         => /\ ts[currentThreadId'].state = "Ready"
            /\ \A u \in DOMAIN ts \ {currentThreadId'} :
                 threads'[u].state = "Ready" =>
                   \/ ts[currentThreadId'].priority < threads'[u].priority
                   \/ /\ ts[currentThreadId'].priority = threads'[u].priority
                      /\ ts[currentThreadId'].queueSequence
                           < threads'[u].queueSequence
    /\ DOMAIN threads' = DOMAIN ts

LEMMA TakeInOrder ==
    ASSUME NEW ts, NEW ready,
           Good(ts, ready, waitQueues', NoThread, nextQueueSequence'),
           TakeNextReady(ts, ready)
    PROVE  Refilled(ts)
  <1>1. Records(ts, NoThread, nextQueueSequence') /\ ReadyFamily(ts, ready)
    BY DEF Good
  <1>2. \A p \in Priorities : /\ Len(ready[p]) \in Nat
                               /\ DOMAIN ready[p] = 1 .. Len(ready[p])
    BY <1>1, LenProperties DEF ReadyFamily
  <1>3. \A p \in Priorities : \A i \in DOMAIN ready[p] :
           /\ IsReady(ts, ready[p][i])
           /\ ts[ready[p][i].id].priority = p
           /\ ready[p][i].id \in DOMAIN ts
    BY <1>1, <1>2 DEF ReadyFamily, QueueHolds, ReadySet, IsReady, FindThread
  <1>4. ASSUME NEW u \in DOMAIN ts, ts[u].state = "Ready"
        PROVE  /\ ts[u].priority \in Priorities
               /\ \E j \in DOMAIN ready[ts[u].priority] :
                     ready[ts[u].priority][j].id = u
    <2>1. ts[u].priority \in Priorities
      BY <1>1 DEF Records, ThreadRecords
    <2>2. u \in ReadySet(ts, ts[u].priority)
      BY <1>4 DEF ReadySet
    <2> QED BY <1>1, <1>2, <2>1, <2>2 DEF ReadyFamily, QueueHolds
  <1>5. CASE TakeNone(ts, ready)
    <2>1. threads' = ts /\ currentThreadId' = NoThread
      BY <1>5 DEF TakeNone
    <2>2. \A p \in Priorities : DOMAIN ready[p] = {}
      BY <1>3, <1>5 DEF TakeNone
    <2> QED BY <1>4, <2>1, <2>2 DEF Refilled
  <1>6. ASSUME NEW p \in Priorities, NEW i \in DOMAIN ready[p],
               TakeAt(ts, ready, p, i)
        PROVE  Refilled(ts)
    <2> DEFINE t == ready[p][i].id
    <2>1. /\ \A j \in 1 .. i - 1 : ~ IsReady(ts, ready[p][j])
          /\ \A q \in 0 .. p - 1 : \A j \in DOMAIN ready[q] :
                ~ IsReady(ts, ready[q][j])
          /\ threads' = [ts EXCEPT ![t] = SelectedRecord(@)]
          /\ currentThreadId' = t
      BY <1>6 DEF TakeAt
    <2>2. /\ t \in DOMAIN ts /\ ts[t].state = "Ready" /\ ts[t].priority = p
          /\ t # NoThread
      BY <1>1, <1>3, ConstantsAssumption DEF IsReady, Records
    <2>3. ASSUME NEW u \in DOMAIN ts \ {t}, threads'[u].state = "Ready"
          PROVE  \/ p < threads'[u].priority
                 \/ /\ p = threads'[u].priority
                    /\ ts[t].queueSequence < threads'[u].queueSequence
      <3> DEFINE q == ts[u].priority
      <3>1. threads'[u] = ts[u]
        BY <2>1
      <3>2. PICK j \in DOMAIN ready[q] : ready[q][j].id = u
        BY <1>4, <2>3, <3>1
      <3>3. q \in Priorities /\ p \in Priorities
        BY <1>4, <2>3, <3>1
      <3>4. IsReady(ts, ready[q][j])
        BY <1>3, <3>2, <3>3
      <3>5. p <= q
        BY <2>1, <3>2, <3>3, <3>4, ConstantsAssumption DEF Priorities
      <3>6. CASE p = q
        <4>1. i \in 1 .. Len(ready[p]) /\ j \in 1 .. Len(ready[p])
          BY <1>2, <3>2, <3>6
        <4>2. i < j
          BY <2>1, <2>3, <3>2, <3>4, <3>6, <4>1
        <4>3. ts[t].queueSequence < ts[u].queueSequence
          BY <1>1, <3>2, <3>6, <4>1, <4>2 DEF ReadyFamily, QueueHolds
        <4> QED BY <3>1, <3>6, <4>3
      <3> QED BY <3>1, <3>3, <3>5, <3>6, ConstantsAssumption DEF Priorities
    <2>4. DOMAIN threads' = DOMAIN ts
      BY <2>1
    <2> HIDE DEF t
    <2> QED BY <2>1, <2>2, <2>3, <2>4 DEF Refilled
  <1> QED BY <1>5, <1>6 DEF TakeNextReady

CpuGiven == CpuRefilledStep /\ SelectionOrderStep

\* The selection follows a change of the record of t that cannot make t the
\* thread to take: it gave the CPU up, or is not Ready.
LEMMA GivenInOrder ==
    ASSUME NEW t \in DOMAIN threads, NEW r, NEW ts,
           ts = [threads EXCEPT ![t] = r],
           t = currentThreadId \/ r.state # "Ready",
           NoThread \notin DOMAIN threads,
           Refilled(ts)
    PROVE  CpuGiven
  <1>1. CpuRefilledStep
    BY DEF CpuRefilledStep, Refilled
  <1>2. ASSUME currentThreadId' # currentThreadId,
               currentThreadId' \in DOMAIN threads
        PROVE  ts[currentThreadId'] = threads[currentThreadId']
    <2>1. currentThreadId' # NoThread /\ ts[currentThreadId'].state = "Ready"
      BY <1>2 DEF Refilled
    <2> QED BY <1>2, <2>1
  <1>3. SelectionOrderStep
    BY <1>2 DEF SelectionOrderStep, Refilled
  <1> QED BY <1>1, <1>3 DEF CpuGiven

LEMMA CpuKept ==
    ASSUME currentThreadId' = currentThreadId
    PROVE  CpuGiven
  BY DEF CpuGiven, CpuRefilledStep, SelectionOrderStep

LEMMA NoThreadAbsent == IInv => NoThread \notin DOMAIN threads
  BY ConstantsAssumption DEF IInv, Good, Records

\* The record r of t and the new current thread agree on who runs.
CpuAgrees(ts, t, r, current, current2) ==
    /\ current2 \in DOMAIN ts \cup {NoThread}
    /\ (r.state = "Running") <=> (t = current2)
    /\ \A u \in DOMAIN ts \ {t} : (u = current) <=> (u = current2)

Unqueued(r) == r.state # "Ready" /\ r.state \notin Blocked

ValidRecord(r) == r \in ThreadRecords /\ RecordValid(r)

\* It stays in its queue, or in none.
LEMMA MoveWithin ==
    ASSUME NEW ts, NEW ready, NEW wait, NEW current, NEW current2, NEW next,
           Good(ts, ready, wait, current, next),
           NEW t \in DOMAIN ts, NEW r, ValidRecord(r),
           CpuAgrees(ts, t, r, current, current2),
           KeepsKey(ts[t], r),
           r.state = "Ready" <=> ts[t].state = "Ready",
           r.state = "Ready" => r.priority = ts[t].priority,
           r.state \in Blocked <=> ts[t].state \in Blocked,
           r.state \in Blocked => r.wait = ts[t].wait
    PROVE  Good([ts EXCEPT ![t] = r], ready, wait, current2, next)
  <1>1. Records([ts EXCEPT ![t] = r], current2, next)
    <2>1. next \in 1 .. MaxQueueSequence /\ next <= next
      BY ConstantsAssumption DEF Good, Records
    <2>2. r.queueSequence < next
      BY DEF Good, Records, KeepsKey
    <2> QED BY <2>1, <2>2, RecordsUpdate DEF Good, ValidRecord, CpuAgrees
  <1> QED BY <1>1, ReadySame, WaitSame DEF Good

\* It enters the ready queue of its priority.
LEMMA MoveToReady ==
    ASSUME NEW ts, NEW ready, NEW wait, NEW current, NEW current2, NEW next,
           Good(ts, ready, wait, current, next),
           next < MaxQueueSequence,
           NEW h \in Handles, FindThread(ts, h), Unqueued(ts[h.id]),
           NEW r, ValidRecord(r), r.state = "Ready",
           r.generation = h.generation, r.queueSequence = next,
           CpuAgrees(ts, h.id, r, current, current2)
    PROVE  Good([ts EXCEPT ![h.id] = r],
                [ready EXCEPT ![r.priority] = Append(@, h)],
                wait, current2, next + 1)
  <1>1. /\ h.id \in DOMAIN ts
        /\ ts[h.id].generation = h.generation
        /\ r.priority \in Priorities
    BY DEF FindThread, ValidRecord, ThreadRecords
  <1>2. Records([ts EXCEPT ![h.id] = r], current2, next + 1)
    <2>1. /\ next + 1 \in 1 .. MaxQueueSequence
          /\ next <= next + 1
          /\ r.queueSequence < next + 1
      BY ConstantsAssumption DEF Good, Records
    <2> QED BY <1>1, <2>1, RecordsUpdate DEF Good, ValidRecord, CpuAgrees
  <1>3. ReadyFamily([ts EXCEPT ![h.id] = r],
                    [ready EXCEPT ![r.priority] = Append(@, h)])
    BY <1>1, ReadyPush DEF Good, Unqueued
  <1>4. WaitFamily([ts EXCEPT ![h.id] = r], wait)
    BY <1>1, WaitSame DEF Good, Unqueued, Blocked
  <1> QED BY <1>2, <1>3, <1>4 DEF Good

\* It enters the queue of a wait object.
LEMMA MoveToWait ==
    ASSUME NEW ts, NEW ready, NEW wait, NEW current, NEW current2, NEW next,
           Good(ts, ready, wait, current, next),
           next < MaxQueueSequence,
           NEW h \in Handles, FindThread(ts, h), Unqueued(ts[h.id]),
           NEW r, ValidRecord(r), r.state \in Blocked, r.wait \in WaitKeys,
           r.generation = h.generation, r.queueSequence = next,
           CpuAgrees(ts, h.id, r, current, current2)
    PROVE  Good([ts EXCEPT ![h.id] = r], ready,
                [wait EXCEPT ![r.wait] = Append(@, h)], current2, next + 1)
  <1>1. h.id \in DOMAIN ts /\ ts[h.id].generation = h.generation
    BY DEF FindThread
  <1>2. Records([ts EXCEPT ![h.id] = r], current2, next + 1)
    <2>1. /\ next + 1 \in 1 .. MaxQueueSequence
          /\ next <= next + 1
          /\ r.queueSequence < next + 1
      BY ConstantsAssumption DEF Good, Records
    <2> QED BY <1>1, <2>1, RecordsUpdate DEF Good, ValidRecord, CpuAgrees
  <1>3. WaitFamily([ts EXCEPT ![h.id] = r],
                   [wait EXCEPT ![r.wait] = Append(@, h)])
    BY <1>1, WaitPush DEF Good, Unqueued
  <1>4. ReadyFamily([ts EXCEPT ![h.id] = r], ready)
    BY <1>1, ReadySame DEF Good, Unqueued, Blocked
  <1> QED BY <1>2, <1>3, <1>4 DEF Good

\* It leaves the ready queue, or the queue of its wait object, for none.
LEMMA MoveFromReady ==
    ASSUME NEW ts, NEW ready, NEW wait, NEW current, NEW next,
           Good(ts, ready, wait, current, next),
           NEW t \in DOMAIN ts, ts[t].state = "Ready", NEW q,
           QueueHolds(ts, q, ReadySet(ts, ts[t].priority) \ {t}),
           NEW r, ValidRecord(r), Unqueued(r), r.state # "Running"
    PROVE  Good([ts EXCEPT ![t] = r], [ready EXCEPT ![ts[t].priority] = q],
                wait, current, next)
  <1>1. Records([ts EXCEPT ![t] = r], current, next)
    <2>1. /\ next \in 1 .. MaxQueueSequence
          /\ next <= next
          /\ r.queueSequence < next
      BY ConstantsAssumption
      DEF Good, Records, ValidRecord, RecordValid, Unqueued, ThreadRecords
    <2>2. t # current /\ current \in DOMAIN ts \cup {NoThread}
      BY DEF Good, Records
    <2> QED BY <2>1, <2>2, RecordsUpdate DEF Good, ValidRecord
  <1>2. ReadyFamily([ts EXCEPT ![t] = r], [ready EXCEPT ![ts[t].priority] = q])
    BY ReadyDrop DEF Good, Unqueued
  <1>3. WaitFamily([ts EXCEPT ![t] = r], wait)
    BY WaitSame DEF Good, Unqueued, Blocked
  <1> QED BY <1>1, <1>2, <1>3 DEF Good

LEMMA MoveFromWait ==
    ASSUME NEW ts, NEW ready, NEW wait, NEW current, NEW next,
           Good(ts, ready, wait, current, next),
           NEW t \in DOMAIN ts, ts[t].state \in Blocked, NEW q,
           QueueHolds(ts, q, WaitSet(ts, ts[t].wait) \ {t}),
           NEW r, ValidRecord(r), Unqueued(r), r.state # "Running"
    PROVE  Good([ts EXCEPT ![t] = r], ready,
                [wait EXCEPT ![ts[t].wait] = q], current, next)
  <1>1. Records([ts EXCEPT ![t] = r], current, next)
    <2>1. /\ next \in 1 .. MaxQueueSequence
          /\ next <= next
          /\ r.queueSequence < next
      BY ConstantsAssumption
      DEF Good, Records, ValidRecord, RecordValid, Unqueued, ThreadRecords
    <2>2. t # current /\ current \in DOMAIN ts \cup {NoThread}
      BY DEF Good, Records, Blocked
    <2> QED BY <2>1, <2>2, RecordsUpdate DEF Good, ValidRecord
  <1>2. WaitFamily([ts EXCEPT ![t] = r], [wait EXCEPT ![ts[t].wait] = q])
    BY WaitDrop DEF Good, Unqueued
  <1>3. ReadyFamily([ts EXCEPT ![t] = r], ready)
    BY ReadySame DEF Good, Unqueued, Blocked
  <1> QED BY <1>1, <1>2, <1>3 DEF Good

-----------------------------------------------------------------------------
(* Each operation preserves the invariant.                                  *)

LEMMA FoundThread ==
    ASSUME NEW ts, NEW current, NEW next, Records(ts, current, next),
           NEW h \in Handles, FindThread(ts, h)
    PROVE  /\ h.id \in DOMAIN ts
           /\ ValidRecord(ts[h.id])
           /\ ts[h.id].generation = h.generation
           /\ h = [id |-> h.id, generation |-> ts[h.id].generation]
           /\ (ts[h.id].state = "Running") <=> (h.id = current)
  <1>1. /\ h.id \in DOMAIN ts
        /\ ts[h.id].generation = h.generation
    BY DEF FindThread
  <1>2. h = [id |-> h.id, generation |-> h.generation]
    BY DEF Handles
  <1> QED BY <1>1, <1>2 DEF Records, ValidRecord

LEMMA RunningThread ==
    ASSUME IInv, CurrentIsRunning
    PROVE  /\ currentThreadId \in DOMAIN threads
           /\ HandleOf(currentThreadId) \in Handles
           /\ HandleOf(currentThreadId).id = currentThreadId
           /\ FindThread(threads, HandleOf(currentThreadId))
           /\ ValidRecord(threads[currentThreadId])
           /\ threads[currentThreadId].state = "Running"
           /\ Unqueued(threads[currentThreadId])
  BY DEF IInv, Good, Records, CurrentIsRunning, HandleOf, Handles, FindThread,
         ValidRecord, ThreadRecords, Unqueued, Blocked

\* A dormant record of any generation and priority may stand in for another.
LEMMA DormantIsValid ==
    ASSUME NEW r \in ThreadRecords
    PROVE  /\ ValidRecord(DormantRecord(r.generation, r.priority))
           /\ Unqueued(DormantRecord(r.generation, r.priority))
           /\ DormantRecord(r.generation, r.priority).state # "Running"
           /\ DormantRecord(r.generation, r.priority).generation = r.generation
           /\ DormantRecord(r.generation, r.priority).queueSequence = 0
  BY ConstantsAssumption
  DEF ValidRecord, DormantRecord, FreshRecord, ThreadRecords, RecordValid, States, Blocked,
      Unqueued, NoCompletion, CompletedWaits

\* The record enqueueReady makes of a thread that is not queued.
LEMMA ReadyRecordIsValid ==
    ASSUME NEW r, ValidRecord(r), r.suspendCount = 0,
           nextQueueSequence \in Nat \ {0}
    PROVE  /\ ValidRecord(ReadyRecord(r))
           /\ ReadyRecord(r).state = "Ready"
           /\ ReadyRecord(r).generation = r.generation
           /\ ReadyRecord(r).priority = r.priority
           /\ ReadyRecord(r).queueSequence = nextQueueSequence
  BY ConstantsAssumption
  DEF ValidRecord, ReadyRecord, ThreadRecords, RecordValid, States, Blocked

LEMMA InitIInv == Init => IInv
  <1> SUFFICES ASSUME Init PROVE IInv
    OBVIOUS
  <1>1. DOMAIN threads = {}
    BY DEF Init
  <1>2. Records(threads, currentThreadId, nextQueueSequence)
    BY <1>1, ConstantsAssumption DEF Init, Records
  <1>3. ASSUME NEW S PROVE QueueHolds(threads, <<>>, {})
    BY EmptySeq DEF QueueHolds
  <1>4. ReadyFamily(threads, readyQueues)
    <2>1. \A p \in Priorities : ReadySet(threads, p) = {}
      BY <1>1 DEF ReadySet
    <2> QED BY <1>3, <2>1, EmptySeq DEF Init, ReadyFamily
  <1>5. WaitFamily(threads, waitQueues)
    <2>1. \A w \in WaitKeys : WaitSet(threads, w) = {}
      BY <1>1 DEF WaitSet
    <2> QED BY <1>3, <2>1, EmptySeq DEF Init, WaitFamily
  <1> QED BY <1>2, <1>4, <1>5 DEF IInv, Good

\* A new record, not queued, changes nothing for the queues.
LEMMA AddKeepsGood ==
    ASSUME IInv, NEW t \in ThreadIds \ DOMAIN threads,
           NEW r, ValidRecord(r), Unqueued(r),
           NEW current, r.state = "Running" <=> t = current,
           current = currentThreadId \/ (current = t /\ currentThreadId = NoThread),
           threads' = [u \in DOMAIN threads \cup {t} |->
                         IF u = t THEN r ELSE threads[u]],
           currentThreadId' = current,
           UNCHANGED <<readyQueues, waitQueues, nextQueueSequence>>
    PROVE  IInv'
  <1>1. /\ DOMAIN threads' = DOMAIN threads \cup {t}
        /\ threads'[t] = r
        /\ \A u \in DOMAIN threads : threads'[u] = threads[u] /\ u # t
    OBVIOUS
  <1>2. Records(threads', currentThreadId', nextQueueSequence')
    <2>1. /\ DOMAIN threads' \subseteq ThreadIds
          /\ threads' \in [DOMAIN threads' -> ThreadRecords]
      BY <1>1 DEF IInv, Good, Records, ValidRecord
    <2>2. ASSUME NEW u \in DOMAIN threads'
          PROVE  /\ RecordValid(threads'[u])
                 /\ (threads'[u].state = "Running") <=> (u = currentThreadId')
                 /\ threads'[u].queueSequence < nextQueueSequence'
      <3>1. CASE u = t
        BY <1>1, <3>1, ConstantsAssumption
        DEF IInv, Good, Records, ValidRecord, RecordValid, Unqueued, ThreadRecords
      <3>2. CASE u # t
        BY <1>1, <3>2, ConstantsAssumption DEF IInv, Good, Records
      <3> QED BY <3>1, <3>2
    <2>3. /\ currentThreadId' \in DOMAIN threads' \cup {NoThread}
          /\ nextQueueSequence' \in 1 .. MaxQueueSequence
      BY <1>1 DEF IInv, Good, Records
    <2> QED BY <2>1, <2>2, <2>3 DEF Records
  <1>3. ReadyFamily(threads', readyQueues')
    <2>1. ASSUME NEW p \in Priorities
          PROVE  /\ ReadySet(threads', p) = ReadySet(threads, p)
                 /\ SameKeys(threads, threads', ReadySet(threads, p))
      BY <1>1 DEF ReadySet, SameKeys, Unqueued
    <2> QED BY <2>1, QueueFrame DEF IInv, Good, ReadyFamily
  <1>4. WaitFamily(threads', waitQueues')
    <2>1. ASSUME NEW w \in WaitKeys
          PROVE  /\ WaitSet(threads', w) = WaitSet(threads, w)
                 /\ SameKeys(threads, threads', WaitSet(threads, w))
      BY <1>1 DEF WaitSet, SameKeys, Unqueued
    <2> QED BY <2>1, QueueFrame DEF IInv, Good, WaitFamily
  <1> QED BY <1>2, <1>3, <1>4 DEF IInv, Good

LEMMA AddDormantStep ==
    ASSUME IInv, NEW t \in ThreadIds, NEW g \in Generations,
           NEW p \in Priorities, AddDormantThread(t, g, p)
    PROVE  IInv'
  <1>1. /\ ValidRecord(DormantRecord(g, p))
        /\ Unqueued(DormantRecord(g, p))
        /\ DormantRecord(g, p).state # "Running"
    BY ConstantsAssumption
    DEF ValidRecord, DormantRecord, FreshRecord, ThreadRecords, RecordValid, States, Blocked,
        Unqueued, NoCompletion, CompletedWaits
  <1>2. t # currentThreadId
    BY ConstantsAssumption DEF IInv, Good, Records, AddDormantThread
  <1> QED BY <1>1, <1>2, AddKeepsGood DEF AddDormantThread, AddThread

LEMMA AddRunningStep ==
    ASSUME IInv, NEW t \in ThreadIds, NEW g \in Generations,
           NEW p \in Priorities, AddRunningThread(t, g, p)
    PROVE  IInv'
  <1> DEFINE r == FreshRecord(g, p, "Running")
  <1>1. ValidRecord(r) /\ Unqueued(r) /\ r.state = "Running"
    BY ConstantsAssumption
    DEF ValidRecord, FreshRecord, ThreadRecords, RecordValid, States, Blocked,
        Unqueued, NoCompletion, CompletedWaits
  <1> HIDE DEF r
  <1> QED BY <1>1, AddKeepsGood DEF AddRunningThread, AddThread, r

LEMMA DeleteStep ==
    ASSUME IInv, NEW h \in Handles, DeleteThread(h)
    PROVE  IInv'
  <1>1. /\ DOMAIN threads' = DOMAIN threads \ {h.id}
        /\ \A u \in DOMAIN threads' : threads'[u] = threads[u]
        /\ threads[h.id].state = "Dormant"
        /\ h.id \in DOMAIN threads
        /\ UNCHANGED <<readyQueues, waitQueues, currentThreadId, nextQueueSequence>>
    BY DEF DeleteThread, FindThread
  <1>2. threads' \in [DOMAIN threads' -> ThreadRecords]
    BY <1>1 DEF IInv, Good, Records, DeleteThread
  <1>3. Records(threads', currentThreadId', nextQueueSequence')
    BY <1>1, <1>2 DEF IInv, Good, Records
  <1>4. ReadyFamily(threads', readyQueues')
    <2>1. ASSUME NEW p \in Priorities
          PROVE  /\ ReadySet(threads', p) = ReadySet(threads, p)
                 /\ SameKeys(threads, threads', ReadySet(threads, p))
      BY <1>1 DEF ReadySet, SameKeys
    <2> QED BY <1>1, <2>1, QueueFrame DEF IInv, Good, ReadyFamily
  <1>5. WaitFamily(threads', waitQueues')
    <2>1. ASSUME NEW w \in WaitKeys
          PROVE  /\ WaitSet(threads', w) = WaitSet(threads, w)
                 /\ SameKeys(threads, threads', WaitSet(threads, w))
      BY <1>1 DEF WaitSet, SameKeys, Blocked
    <2> QED BY <1>1, <2>1, QueueFrame DEF IInv, Good, WaitFamily
  <1> QED BY <1>3, <1>4, <1>5 DEF IInv, Good

LEMMA StartStep ==
    ASSUME IInv, NEW h \in Handles, StartThread(h)
    PROVE  IInv'
  <1> DEFINE r == ReadyRecord(threads[h.id])
  <1>1. /\ h.id \in DOMAIN threads
        /\ ValidRecord(threads[h.id])
        /\ threads[h.id].generation = h.generation
        /\ HandleOf(h.id) = h
        /\ h.id # currentThreadId
        /\ FindThread(threads, h)
        /\ threads[h.id].state = "Dormant"
    BY FoundThread DEF IInv, Good, StartThread, HandleOf
  <1>2. nextQueueSequence \in Nat \ {0} /\ nextQueueSequence < MaxQueueSequence
    BY ConstantsAssumption
    DEF IInv, Good, Records, StartThread, SequenceAvailable
  <1>3. /\ ValidRecord(r)
        /\ r.state = "Ready"
        /\ r.generation = h.generation
        /\ r.priority = threads[h.id].priority
        /\ r.queueSequence = nextQueueSequence
    BY <1>1, <1>2, ReadyRecordIsValid DEF ValidRecord, RecordValid
  <1>4. Unqueued(threads[h.id])
    BY <1>1 DEF Unqueued, Blocked
  <1> HIDE DEF r
  <1>5. CpuAgrees(threads, h.id, r, currentThreadId, currentThreadId)
    BY <1>1, <1>3 DEF CpuAgrees, IInv, Good, Records
  <1>6. Good([threads EXCEPT ![h.id] = r],
             [readyQueues EXCEPT ![r.priority] = Append(@, h)],
             waitQueues, currentThreadId, nextQueueSequence + 1)
    BY <1>1, <1>2, <1>3, <1>4, <1>5, MoveToReady DEF IInv
  <1>7. /\ threads' = [threads EXCEPT ![h.id] = r]
        /\ readyQueues' = [readyQueues EXCEPT ![r.priority] = Append(@, h)]
        /\ nextQueueSequence' = nextQueueSequence + 1
        /\ UNCHANGED <<waitQueues, currentThreadId>>
    BY <1>1, <1>3 DEF StartThread, PushReady, r
  <1> QED BY <1>6, <1>7 DEF IInv

LEMMA SelectStep ==
    ASSUME IInv, SelectNextThread
    PROVE  IInv' /\ CpuGiven
  <1>1. /\ Good(threads, readyQueues, waitQueues', NoThread, nextQueueSequence')
        /\ TakeNextReady(threads, readyQueues)
    BY DEF SelectNextThread, IInv
  <1>2. Refilled(threads)
    BY <1>1, TakeInOrder
  <1>3. CpuGiven
    BY <1>2, NoThreadAbsent
    DEF CpuGiven, CpuRefilledStep, SelectionOrderStep, Refilled
  <1> QED BY <1>1, <1>3, TakeKeepsGood

LEMMA RequeueStep ==
    ASSUME IInv, CurrentIsRunning, RequeueCurrent
    PROVE  /\ IInv'
           /\ CpuGiven
           /\ Refilled([threads EXCEPT ![currentThreadId] =
                          ReadyRecord(threads[currentThreadId])])
  <1> DEFINE t == currentThreadId
             h == HandleOf(t)
             r == ReadyRecord(threads[t])
             ts == [threads EXCEPT ![t] = r]
             ready == [readyQueues EXCEPT ![r.priority] = Append(@, h)]
  <1>1. /\ t \in DOMAIN threads
        /\ h \in Handles /\ h.id = t /\ FindThread(threads, h)
        /\ ValidRecord(threads[t])
        /\ threads[t].state = "Running"
        /\ Unqueued(threads[t])
    BY RunningThread
  <1>2. nextQueueSequence \in Nat \ {0} /\ nextQueueSequence < MaxQueueSequence
    BY ConstantsAssumption
    DEF IInv, Good, Records, RequeueCurrent, SequenceAvailable
  <1>3. /\ ValidRecord(r)
        /\ r.state = "Ready"
        /\ r.generation = h.generation
        /\ r.priority = threads[t].priority
        /\ r.queueSequence = nextQueueSequence
    <2>1. threads[t].suspendCount = 0
      BY <1>1 DEF ValidRecord, RecordValid
    <2> QED BY <1>1, <1>2, <2>1, ReadyRecordIsValid DEF HandleOf
  <1>4. /\ TakeNextReady(ts, ready)
        /\ nextQueueSequence' = nextQueueSequence + 1
        /\ waitQueues' = waitQueues
    BY <1>3 DEF RequeueCurrent, PushReady
  <1> HIDE DEF r, h
  <1>5. CpuAgrees(threads, t, r, t, NoThread)
    BY <1>1, <1>3, ConstantsAssumption DEF CpuAgrees, IInv, Good, Records
  <1>6. Good(ts, ready, waitQueues, NoThread, nextQueueSequence + 1)
    BY <1>1, <1>2, <1>3, <1>5, MoveToReady DEF IInv
  <1>7. ts = [threads EXCEPT ![t] = r]
    OBVIOUS
  <1> HIDE DEF ts, ready
  <1>8. Refilled(ts)
    BY <1>4, <1>6, TakeInOrder
  <1>9. CpuGiven
    BY <1>1, <1>7, <1>8, GivenInOrder, NoThreadAbsent
  <1> QED BY <1>4, <1>6, <1>7, <1>8, <1>9, TakeKeepsGood DEF r

LEMMA FinishStep ==
    ASSUME IInv, FinishCurrentThread
    PROVE  IInv' /\ CpuGiven
  <1> DEFINE t == currentThreadId
             r == DormantRecord(threads[t].generation, threads[t].priority)
             ts == [threads EXCEPT ![t] = r]
  <1>1. /\ t \in DOMAIN threads
        /\ ValidRecord(threads[t])
        /\ threads[t].state = "Running"
        /\ Unqueued(threads[t])
    BY RunningThread DEF FinishCurrentThread
  <1>2. /\ ValidRecord(r) /\ Unqueued(r) /\ r.state # "Running"
        /\ r.generation = threads[t].generation
        /\ r.queueSequence = 0
    BY <1>1, DormantIsValid DEF ValidRecord
  <1>3. /\ TakeNextReady(ts, readyQueues)
        /\ UNCHANGED <<waitQueues, nextQueueSequence>>
    BY DEF FinishCurrentThread
  <1> HIDE DEF r
  <1>4. CpuAgrees(threads, t, r, t, NoThread)
    BY <1>1, <1>2, ConstantsAssumption DEF CpuAgrees, IInv, Good, Records
  <1>5. KeepsKey(threads[t], r)
    BY <1>1, <1>2 DEF KeepsKey, ValidRecord, RecordValid, Blocked
  <1>6. Good(ts, readyQueues, waitQueues, NoThread, nextQueueSequence)
    BY <1>1, <1>2, <1>4, <1>5, MoveWithin DEF IInv, Unqueued
  <1>7. ts = [threads EXCEPT ![t] = r]
    OBVIOUS
  <1> HIDE DEF ts
  <1>8. CpuGiven
    BY <1>1, <1>3, <1>6, <1>7, TakeInOrder, GivenInOrder, NoThreadAbsent
  <1> QED BY <1>3, <1>6, <1>8, TakeKeepsGood

LEMMA BlockStep ==
    ASSUME IInv, NEW w \in WaitKeys, BlockCurrentThread(w)
    PROVE  IInv' /\ CpuGiven
  <1> DEFINE t == currentThreadId
             h == HandleOf(t)
             r == [threads[t] EXCEPT !.state = "Waiting", !.wait = w,
                                     !.queueSequence = nextQueueSequence]
             ts == [threads EXCEPT ![t] = r]
             wait == [waitQueues EXCEPT ![r.wait] = Append(@, h)]
  <1>1. /\ t \in DOMAIN threads
        /\ h \in Handles /\ h.id = t /\ FindThread(threads, h)
        /\ ValidRecord(threads[t])
        /\ threads[t].state = "Running"
        /\ Unqueued(threads[t])
    BY RunningThread DEF BlockCurrentThread
  <1>2. nextQueueSequence \in Nat \ {0} /\ nextQueueSequence < MaxQueueSequence
    BY ConstantsAssumption
    DEF IInv, Good, Records, BlockCurrentThread, SequenceAvailable
  <1>3. /\ r.state = "Waiting" /\ r.wait = w
        /\ r.queueSequence = nextQueueSequence
        /\ r.generation = h.generation
    BY <1>1 DEF ValidRecord, ThreadRecords, HandleOf
  <1>4. ValidRecord(r)
    <2>1. threads[t].completedWait = NoCompletion
      BY DEF BlockCurrentThread
    <2>2. w = SleepKey => threads[t].wakeupCount = 0
      BY DEF BlockCurrentThread
    <2>3. r \in ThreadRecords
      BY <1>1, <1>2 DEF ValidRecord, ThreadRecords, States
    <2>4. RecordValid(r)
      BY <1>1, <1>2, <2>1, <2>2, ConstantsAssumption
      DEF ValidRecord, RecordValid, ThreadRecords, Blocked
    <2> QED BY <2>3, <2>4 DEF ValidRecord
  <1>5. /\ TakeNextReady(ts, readyQueues)
        /\ nextQueueSequence' = nextQueueSequence + 1
        /\ waitQueues' = wait
    BY <1>1, <1>3 DEF BlockCurrentThread
  <1> HIDE DEF r, h
  <1>6. CpuAgrees(threads, t, r, t, NoThread)
    BY <1>1, <1>3, ConstantsAssumption DEF CpuAgrees, IInv, Good, Records
  <1>7. Good(ts, readyQueues, wait, NoThread, nextQueueSequence + 1)
    BY <1>1, <1>2, <1>3, <1>4, <1>6, MoveToWait DEF IInv, Blocked
  <1>8. ts = [threads EXCEPT ![t] = r]
    OBVIOUS
  <1> HIDE DEF ts, wait
  <1>9. CpuGiven
    BY <1>1, <1>5, <1>7, <1>8, TakeInOrder, GivenInOrder, NoThreadAbsent
  <1> QED BY <1>5, <1>7, <1>9, TakeKeepsGood

\* A thread that left its wait, q being the queue of the wait without it.
LEMMA CompleteStep ==
    ASSUME IInv, NEW h \in Handles, FindThread(threads, h),
           threads[h.id].state \in Blocked,
           NEW completion \in Completions, NEW retain \in BOOLEAN,
           CompleteWait(h.id, completion, retain),
           NEW q,
           QueueHolds(threads, q, WaitSet(threads, threads[h.id].wait) \ {h.id}),
           waitQueues' = [waitQueues EXCEPT ![threads[h.id].wait] = q],
           UNCHANGED currentThreadId
    PROVE  IInv'
  <1> DEFINE t == h.id
             done == [threads[t] EXCEPT !.wait = NoWait, !.retainReason = retain,
                        !.completedWait = [wait |-> threads[t].wait,
                                           completion |-> completion]]
  <1>1. /\ t \in DOMAIN threads
        /\ ValidRecord(threads[t])
        /\ threads[t].generation = h.generation
        /\ HandleOf(t) = h
        /\ t # currentThreadId
    BY FoundThread DEF IInv, Good, HandleOf, Blocked
  <1>2. /\ threads[t].wait \in WaitKeys
        /\ threads[t].wait # NoWait
    BY <1>1 DEF ValidRecord, RecordValid, ThreadRecords
  <1>3. /\ done \in ThreadRecords
        /\ done.completedWait # NoCompletion
        /\ done.state \in Blocked
        /\ done.wait = NoWait
        /\ done.wakeupCount = threads[t].wakeupCount
        /\ done.suspendCount = threads[t].suspendCount
        /\ done.generation = threads[t].generation
        /\ done.priority = threads[t].priority
    BY <1>1, <1>2
    DEF ValidRecord, ThreadRecords, CompletedWaits, NoCompletion
  <1>4. CASE threads[t].suspendCount # 0
    <2> DEFINE r == [done EXCEPT !.state = "Suspended", !.queueSequence = 0]
    <2>1. /\ threads' = [threads EXCEPT ![t] = r]
          /\ UNCHANGED <<readyQueues, nextQueueSequence>>
      BY <1>4 DEF CompleteWait
    <2> HIDE DEF done
    <2>2. r \in ThreadRecords /\ RecordValid(r) /\ r.state = "Suspended"
      BY <1>3, <1>4, ConstantsAssumption
      DEF ThreadRecords, States, RecordValid, Blocked
    <2>3. ValidRecord(r) /\ Unqueued(r) /\ r.state # "Running"
      BY <2>2 DEF ValidRecord, Unqueued, Blocked
    <2> HIDE DEF r
    <2> QED BY <1>1, <2>1, <2>3, MoveFromWait DEF IInv
  <1>5. CASE threads[t].suspendCount = 0
    <2> DEFINE r == ReadyRecord(done)
               r0 == DormantRecord(threads[t].generation, threads[t].priority)
               ts0 == [threads EXCEPT ![t] = r0]
    <2>1. /\ nextQueueSequence < MaxQueueSequence
          /\ threads' = [threads EXCEPT ![t] = r]
          /\ readyQueues' = [readyQueues EXCEPT ![threads[t].priority] = Append(@, h)]
          /\ nextQueueSequence' = nextQueueSequence + 1
      BY <1>1, <1>5 DEF CompleteWait, SequenceAvailable, PushReady
    <2> HIDE DEF done
    <2>2. nextQueueSequence \in Nat \ {0}
      BY ConstantsAssumption DEF IInv, Good, Records
    <2>3. /\ r \in ThreadRecords
          /\ RecordValid(r)
          /\ r.state = "Ready"
          /\ r.generation = h.generation
          /\ r.priority = threads[t].priority
          /\ r.queueSequence = nextQueueSequence
      BY <1>1, <1>3, <1>5, <2>2, ConstantsAssumption
      DEF ReadyRecord, ThreadRecords, States, RecordValid, Blocked
    <2>4. /\ ValidRecord(r0) /\ Unqueued(r0) /\ r0.state # "Running"
          /\ r0.generation = h.generation
      BY <1>1, DormantIsValid DEF ValidRecord
    <2> HIDE DEF r, r0
    <2>5. Good(ts0, readyQueues, waitQueues', currentThreadId, nextQueueSequence)
      BY <1>1, <2>4, MoveFromWait DEF IInv
    <2>6. /\ FindThread(ts0, h)
          /\ ts0[t] = r0
          /\ DOMAIN ts0 = DOMAIN threads
          /\ [ts0 EXCEPT ![t] = r] = [threads EXCEPT ![t] = r]
      BY <1>1, <2>4 DEF FindThread
    <2> HIDE DEF ts0
    <2>7. CpuAgrees(ts0, t, r, currentThreadId, currentThreadId)
      BY <1>1, <2>3, <2>6 DEF CpuAgrees, IInv, Good, Records
    <2>8. Good([ts0 EXCEPT ![t] = r],
               [readyQueues EXCEPT ![r.priority] = Append(@, h)],
               waitQueues', currentThreadId, nextQueueSequence + 1)
      BY <2>1, <2>3, <2>4, <2>5, <2>6, <2>7, MoveToReady DEF ValidRecord
    <2> QED BY <2>1, <2>3, <2>6, <2>8 DEF IInv
  <1> QED BY <1>4, <1>5

LEMMA ReleaseStep ==
    ASSUME IInv, NEW h \in Handles, NEW completion \in Completions,
           NEW retain \in BOOLEAN, ReleaseWaitThread(h, completion, retain)
    PROVE  IInv'
  <1> DEFINE w == threads[h.id].wait
  <1>1. /\ FindThread(threads, h)
        /\ threads[h.id].state \in Blocked
        /\ w # NoWait
        /\ h \in ToSet(waitQueues[w])
        /\ waitQueues' = [waitQueues EXCEPT ![w] = RemoveFirst(waitQueues[w], h)]
        /\ CompleteWait(h.id, completion, retain)
        /\ UNCHANGED currentThreadId
    BY DEF ReleaseWaitThread, WithoutWaiting
  <1>2. w \in WaitKeys
    BY <1>1, FoundThread DEF IInv, Good, ValidRecord, ThreadRecords
  <1> HIDE DEF w
  <1>3. QueueHolds(threads, RemoveFirst(waitQueues[w], h),
                   WaitSet(threads, w) \ {h.id})
    BY <1>1, <1>2, WaitWithout DEF IInv, Good
  <1> QED BY <1>1, <1>3, CompleteStep DEF w

LEMMA WakeOneStep ==
    ASSUME IInv, NEW w \in WaitKeys, WakeOne(w)
    PROVE  IInv'
  <1> DEFINE h == Head(waitQueues[w])
  <1>1. /\ QueueHolds(threads, Tail(waitQueues[w]), WaitSet(threads, w) \ {h.id})
        /\ h \in Handles /\ FindThread(threads, h)
        /\ threads[h.id].state \in Blocked /\ threads[h.id].wait = w
    BY WaitWithout, ZenonT(60) DEF IInv, Good, WakeOne
  <1>2. WaitsOn(h, w)
    BY <1>1 DEF WaitsOn
  <1>3. /\ waitQueues' = [waitQueues EXCEPT ![w] = Tail(waitQueues[w])]
        /\ CompleteWait(h.id, "Satisfied", FALSE)
        /\ UNCHANGED currentThreadId
    BY <1>2 DEF WakeOne
  <1>4. "Satisfied" \in Completions
    BY ConstantsAssumption
  <1> HIDE DEF h
  <1> QED BY <1>1, <1>3, <1>4, CompleteStep

\* A record changed in place: same state, same place, same thread running.
LEMMA InPlaceStep ==
    ASSUME IInv, NEW t \in DOMAIN threads, NEW r, ValidRecord(r),
           KeepsKey(threads[t], r), r.state = threads[t].state,
           r.wait = threads[t].wait, r.priority = threads[t].priority,
           threads' = [threads EXCEPT ![t] = r],
           UNCHANGED <<readyQueues, waitQueues, currentThreadId, nextQueueSequence>>
    PROVE  IInv'
  <1>1. CpuAgrees(threads, t, r, currentThreadId, currentThreadId)
    BY DEF CpuAgrees, IInv, Good, Records
  <1>2. Good([threads EXCEPT ![t] = r], readyQueues, waitQueues,
             currentThreadId, nextQueueSequence)
    BY <1>1, MoveWithin DEF IInv
  <1> QED BY <1>2 DEF IInv

LEMMA WakeStep ==
    ASSUME IInv, NEW h \in Handles, WakeThread(h)
    PROVE  IInv'
  <1>1. CASE WaitsOn(h, SleepKey)
    BY <1>1, ReleaseStep, ConstantsAssumption DEF WakeThread
  <1>2. CASE ~ WaitsOn(h, SleepKey)
    <2> DEFINE r == [threads[h.id] EXCEPT !.wakeupCount = @ + 1]
    <2>1. /\ h.id \in DOMAIN threads /\ ValidRecord(threads[h.id])
          /\ FindThread(threads, h)
          /\ threads[h.id].state # "Dormant"
          /\ threads[h.id].wakeupCount # MaxCount
          /\ threads' = [threads EXCEPT ![h.id] = r]
          /\ UNCHANGED <<readyQueues, waitQueues, currentThreadId, nextQueueSequence>>
      BY <1>2, FoundThread DEF WakeThread, IInv, Good
    <2>2. threads[h.id].wait # SleepKey
      BY <1>2, <2>1, ConstantsAssumption DEF WaitsOn, ValidRecord, RecordValid
    <2>3. /\ r \in ThreadRecords
          /\ RecordValid(r)
      BY <2>1, <2>2, ConstantsAssumption DEF ValidRecord, ThreadRecords, RecordValid
    <2>4. /\ KeepsKey(threads[h.id], r) /\ r.state = threads[h.id].state
          /\ r.wait = threads[h.id].wait /\ r.priority = threads[h.id].priority
      BY <2>1 DEF KeepsKey, ValidRecord, ThreadRecords
    <2> HIDE DEF r
    <2> QED BY <2>1, <2>3, <2>4, InPlaceStep DEF ValidRecord
  <1> QED BY <1>1, <1>2

LEMMA CancelStep ==
    ASSUME IInv, NEW h \in Handles, CancelWakeups(h)
    PROVE  IInv'
  <1> DEFINE r == [threads[h.id] EXCEPT !.wakeupCount = 0]
  <1>1. /\ h.id \in DOMAIN threads /\ ValidRecord(threads[h.id])
        /\ threads' = [threads EXCEPT ![h.id] = r]
        /\ UNCHANGED <<readyQueues, waitQueues, currentThreadId, nextQueueSequence>>
    BY FoundThread DEF CancelWakeups, IInv, Good
  <1>2. ValidRecord(r)
    BY <1>1, ConstantsAssumption DEF ValidRecord, ThreadRecords, RecordValid
  <1>3. /\ KeepsKey(threads[h.id], r) /\ r.state = threads[h.id].state
        /\ r.wait = threads[h.id].wait /\ r.priority = threads[h.id].priority
    BY <1>1 DEF KeepsKey, ValidRecord, ThreadRecords
  <1> HIDE DEF r
  <1> QED BY <1>1, <1>2, <1>3, InPlaceStep

LEMMA ConsumeWakeupStep ==
    ASSUME IInv, ConsumeWakeup
    PROVE  IInv'
  <1> DEFINE t == currentThreadId
             r == [threads[t] EXCEPT !.wakeupCount = @ - 1]
  <1>1. /\ t \in DOMAIN threads /\ ValidRecord(threads[t])
        /\ threads[t].wakeupCount # 0
        /\ threads' = [threads EXCEPT ![t] = r]
        /\ UNCHANGED <<readyQueues, waitQueues, currentThreadId, nextQueueSequence>>
    BY RunningThread DEF ConsumeWakeup
  <1>2. threads[t].state = "Running"
    BY RunningThread DEF ConsumeWakeup
  <1>3. ValidRecord(r)
    BY <1>1, <1>2, ConstantsAssumption
    DEF ValidRecord, ThreadRecords, RecordValid, Blocked
  <1>4. /\ KeepsKey(threads[t], r) /\ r.state = threads[t].state
        /\ r.wait = threads[t].wait /\ r.priority = threads[t].priority
    BY <1>1 DEF KeepsKey, ValidRecord, ThreadRecords
  <1> HIDE DEF r
  <1> QED BY <1>1, <1>3, <1>4, InPlaceStep

LEMMA ConsumeCompletionStep ==
    ASSUME IInv, NEW h \in Handles, ConsumeWaitCompletion(h)
    PROVE  IInv'
  <1> DEFINE r == [threads[h.id] EXCEPT !.completedWait = NoCompletion,
                                        !.retainReason = FALSE]
  <1>1. /\ h.id \in DOMAIN threads /\ ValidRecord(threads[h.id])
        /\ threads' = [threads EXCEPT ![h.id] = r]
        /\ UNCHANGED <<readyQueues, waitQueues, currentThreadId, nextQueueSequence>>
    BY FoundThread DEF ConsumeWaitCompletion, IInv, Good
  <1>2. ValidRecord(r)
    BY <1>1, ConstantsAssumption
    DEF ValidRecord, ThreadRecords, RecordValid, CompletedWaits
  <1>3. /\ KeepsKey(threads[h.id], r) /\ r.state = threads[h.id].state
        /\ r.wait = threads[h.id].wait /\ r.priority = threads[h.id].priority
    BY <1>1 DEF KeepsKey, ValidRecord, ThreadRecords
  <1> HIDE DEF r
  <1> QED BY <1>1, <1>2, <1>3, InPlaceStep

LEMMA SuspendStep ==
    ASSUME IInv, NEW h \in Handles, SuspendThread(h)
    PROVE  IInv' /\ CpuGiven
  <1> DEFINE t == h.id
  <1>1. /\ t \in DOMAIN threads /\ ValidRecord(threads[t])
        /\ FindThread(threads, h)
        /\ (threads[t].state = "Running") <=> (t = currentThreadId)
        /\ threads[t].suspendCount + 1 \in 0 .. MaxCount
        /\ threads[t].suspendCount + 1 # 0
        /\ nextQueueSequence' = nextQueueSequence
    <2>1. /\ FindThread(threads, h)
          /\ threads[t].suspendCount # MaxCount
          /\ UNCHANGED nextQueueSequence
      BY DEF SuspendThread
    <2>2. /\ t \in DOMAIN threads /\ ValidRecord(threads[t])
          /\ (threads[t].state = "Running") <=> (t = currentThreadId)
      BY <2>1, FoundThread DEF IInv, Good
    <2>3. threads[t].suspendCount \in 0 .. MaxCount
      BY <2>2 DEF ValidRecord, ThreadRecords
    <2> QED BY <2>1, <2>2, <2>3, ConstantsAssumption
  <1>2. CASE SuspendRunning(h)
    <2> DEFINE r == [threads[t] EXCEPT !.state = "Suspended",
                                       !.suspendCount = @ + 1]
    <2>1. /\ threads[t].state = "Running"
          /\ TakeNextReady([threads EXCEPT ![t] = r], readyQueues)
          /\ waitQueues' = waitQueues
      BY <1>1, <1>2 DEF SuspendRunning
    <2>2. ValidRecord(r) /\ r.state = "Suspended"
      BY <1>1, <2>1, ConstantsAssumption
      DEF ValidRecord, ThreadRecords, RecordValid, States, Blocked
    <2>3. KeepsKey(threads[t], r)
      BY <1>1 DEF KeepsKey, ValidRecord, ThreadRecords
    <2> HIDE DEF r
    <2>4. CpuAgrees(threads, t, r, currentThreadId, NoThread)
      BY <1>1, <2>1, <2>2, ConstantsAssumption DEF CpuAgrees, IInv, Good, Records
    <2>5. Good([threads EXCEPT ![t] = r], readyQueues, waitQueues', NoThread,
               nextQueueSequence')
      BY <1>1, <2>1, <2>2, <2>3, <2>4, MoveWithin DEF IInv, Blocked
    <2>6. CpuGiven
      BY <1>1, <2>1, <2>2, <2>5, TakeInOrder, GivenInOrder, NoThreadAbsent
    <2> QED BY <2>1, <2>5, <2>6, TakeKeepsGood
  <1>3. CASE SuspendReady(h)
    <2> DEFINE r == [threads[t] EXCEPT !.state = "Suspended",
                                       !.suspendCount = @ + 1,
                                       !.queueSequence = 0]
               p == threads[t].priority
    <2>1. /\ threads[t].state = "Ready"
          /\ h \in ToSet(readyQueues[p])
          /\ readyQueues' = [readyQueues EXCEPT ![p] = RemoveFirst(readyQueues[p], h)]
          /\ threads' = [threads EXCEPT ![t] = r]
          /\ UNCHANGED <<waitQueues, currentThreadId>>
      BY <1>1, <1>3 DEF SuspendReady, WithoutReady
    <2>2. ValidRecord(r) /\ r.state = "Suspended"
      BY <1>1, <2>1, ConstantsAssumption
      DEF ValidRecord, ThreadRecords, RecordValid, States, Blocked
    <2>3. p \in Priorities
      BY <1>1 DEF ValidRecord, ThreadRecords
    <2> HIDE DEF r, p
    <2>4. QueueHolds(threads, RemoveFirst(readyQueues[p], h),
                     ReadySet(threads, p) \ {t})
      BY <2>1, <2>3, ReadyWithout DEF IInv, Good
    <2>5. Unqueued(r) /\ r.state # "Running"
      BY <2>2 DEF Unqueued, Blocked
    <2>6. Good(threads', readyQueues', waitQueues, currentThreadId, nextQueueSequence)
      BY <1>1, <2>1, <2>2, <2>4, <2>5, MoveFromReady DEF IInv, p
    <2> QED BY <1>1, <2>1, <2>6, CpuKept DEF IInv
  <1>4. CASE SuspendOther(h)
    <2> DEFINE r == [threads[t] EXCEPT
                       !.state = IF @ = "Waiting" THEN "WaitSuspended" ELSE @,
                       !.suspendCount = @ + 1]
    <2>1. /\ threads[t].state \in {"Waiting", "Suspended", "WaitSuspended"}
          /\ threads' = [threads EXCEPT ![t] = r]
          /\ UNCHANGED <<readyQueues, waitQueues, currentThreadId>>
      BY <1>1, <1>4 DEF SuspendOther
    <2>2. /\ r.state = IF threads[t].state = "Waiting" THEN "WaitSuspended"
                       ELSE threads[t].state
          /\ r.wait = threads[t].wait
          /\ KeepsKey(threads[t], r)
      BY <1>1 DEF ValidRecord, ThreadRecords, KeepsKey
    <2>3. ValidRecord(r)
      <3>1. r \in ThreadRecords
        BY <1>1, <2>1 DEF ValidRecord, ThreadRecords, States
      <3>2. RecordValid(r)
        BY <1>1, <2>1, ConstantsAssumption
        DEF ValidRecord, ThreadRecords, RecordValid, Blocked
      <3> QED BY <3>1, <3>2 DEF ValidRecord
    <2> HIDE DEF r
    <2>4. CpuAgrees(threads, t, r, currentThreadId, currentThreadId)
      BY <1>1, <2>1, <2>2 DEF CpuAgrees, IInv, Good, Records
    <2>5. Good(threads', readyQueues, waitQueues, currentThreadId, nextQueueSequence)
      BY <1>1, <2>1, <2>2, <2>3, <2>4, MoveWithin DEF IInv, Blocked
    <2> QED BY <1>1, <2>1, <2>5, CpuKept DEF IInv
  <1> QED BY <1>2, <1>3, <1>4 DEF SuspendThread

LEMMA ResumeStep ==
    ASSUME IInv, NEW h \in Handles, ResumeThread(h)
    PROVE  IInv'
  <1> DEFINE t == h.id
             resumed == [threads[t] EXCEPT !.suspendCount = @ - 1]
  <1>1. /\ t \in DOMAIN threads /\ ValidRecord(threads[t])
        /\ FindThread(threads, h)
        /\ threads[t].generation = h.generation
        /\ HandleOf(t) = h
        /\ threads[t].suspendCount # 0
        /\ threads[t].state \in {"Suspended", "WaitSuspended"}
        /\ t # currentThreadId
        /\ UNCHANGED <<waitQueues, currentThreadId>>
    BY FoundThread DEF ResumeThread, IInv, Good, HandleOf
  <1>2. /\ resumed \in ThreadRecords
        /\ resumed.suspendCount = threads[t].suspendCount - 1
        /\ threads[t].suspendCount \in Nat
    BY <1>1, ConstantsAssumption DEF ValidRecord, ThreadRecords
  <1>3. CASE threads[t].suspendCount = 1 /\ threads[t].state = "Suspended"
    <2> DEFINE r == ReadyRecord(resumed)
    <2>1. /\ nextQueueSequence < MaxQueueSequence
          /\ threads' = [threads EXCEPT ![t] = r]
          /\ readyQueues' = [readyQueues EXCEPT ![threads[t].priority] = Append(@, h)]
          /\ nextQueueSequence' = nextQueueSequence + 1
      BY <1>1, <1>3 DEF ResumeThread, SequenceAvailable, PushReady
    <2>2. nextQueueSequence \in Nat \ {0}
      BY ConstantsAssumption DEF IInv, Good, Records
    <2>3. /\ ValidRecord(r)
          /\ r.state = "Ready"
          /\ r.generation = h.generation
          /\ r.priority = threads[t].priority
          /\ r.queueSequence = nextQueueSequence
      <3>1. /\ resumed.suspendCount = 0
            /\ resumed.generation = h.generation
            /\ resumed.priority = threads[t].priority
            /\ resumed.retainReason = threads[t].retainReason
            /\ resumed.completedWait = threads[t].completedWait
        BY <1>1, <1>2, <1>3 DEF ValidRecord, ThreadRecords
      <3>2. threads[t].retainReason => threads[t].completedWait # NoCompletion
        BY <1>1 DEF ValidRecord, RecordValid
      <3> HIDE DEF resumed
      <3>3. /\ r \in ThreadRecords
            /\ r.state = "Ready"
            /\ r.wait = NoWait
            /\ r.queueSequence = nextQueueSequence
            /\ r.suspendCount = resumed.suspendCount
            /\ r.generation = resumed.generation
            /\ r.priority = resumed.priority
            /\ r.retainReason = resumed.retainReason
            /\ r.completedWait = resumed.completedWait
        BY <1>2, <2>2 DEF ReadyRecord, ThreadRecords, States
      <3> HIDE DEF r
      <3>4. RecordValid(r)
        BY <2>2, <3>1, <3>2, <3>3, ConstantsAssumption DEF RecordValid, Blocked
      <3> QED BY <3>1, <3>3, <3>4 DEF ValidRecord
    <2>4. Unqueued(threads[t])
      BY <1>3 DEF Unqueued, Blocked
    <2> HIDE DEF r
    <2>5. CpuAgrees(threads, t, r, currentThreadId, currentThreadId)
      BY <1>1, <2>3 DEF CpuAgrees, IInv, Good, Records
    <2>6. Good([threads EXCEPT ![t] = r],
               [readyQueues EXCEPT ![r.priority] = Append(@, h)],
               waitQueues, currentThreadId, nextQueueSequence + 1)
      BY <1>1, <2>1, <2>3, <2>4, <2>5, MoveToReady DEF IInv, ValidRecord
    <2> QED BY <1>1, <2>1, <2>3, <2>6 DEF IInv
  <1>4. CASE ~ (threads[t].suspendCount = 1 /\ threads[t].state = "Suspended")
    <2> DEFINE r == [resumed EXCEPT
                       !.state = IF threads[t].suspendCount = 1 THEN "Waiting" ELSE @]
    <2>1. /\ threads' = [threads EXCEPT ![t] = r]
          /\ UNCHANGED <<readyQueues, nextQueueSequence>>
      BY <1>4 DEF ResumeThread
    <2>2. /\ r.state = IF threads[t].suspendCount = 1 THEN "Waiting"
                       ELSE threads[t].state
          /\ r.wait = threads[t].wait
          /\ KeepsKey(threads[t], r)
      BY <1>1 DEF ValidRecord, ThreadRecords, KeepsKey
    <2>3. ValidRecord(r)
      <3>1. r \in ThreadRecords
        BY <1>1, <1>2 DEF ValidRecord, ThreadRecords, States
      <3>2. RecordValid(r)
        BY <1>1, <1>2, <1>4, ConstantsAssumption
        DEF ValidRecord, ThreadRecords, RecordValid, Blocked
      <3> QED BY <3>1, <3>2 DEF ValidRecord
    <2> HIDE DEF r
    <2>4. CpuAgrees(threads, t, r, currentThreadId, currentThreadId)
      BY <1>1, <2>2 DEF CpuAgrees, IInv, Good, Records
    <2>5. Good(threads', readyQueues, waitQueues, currentThreadId, nextQueueSequence)
      BY <1>1, <1>4, <2>1, <2>2, <2>3, <2>4, MoveWithin DEF IInv, Blocked
    <2> QED BY <1>1, <2>1, <2>5 DEF IInv
  <1> QED BY <1>3, <1>4

LEMMA TerminateStep ==
    ASSUME IInv, NEW h \in Handles, TerminateThread(h)
    PROVE  IInv' /\ CpuGiven
  <1> DEFINE t == h.id
             r == DormantRecord(threads[t].generation, threads[t].priority)
             ts == [threads EXCEPT ![t] = r]
             queues == IF threads[t].state = "Ready" THEN WithoutReady(h)
                                                     ELSE readyQueues
             current == IF threads[t].state = "Running" THEN NoThread
                                                       ELSE currentThreadId
  <1>1. /\ t \in DOMAIN threads /\ ValidRecord(threads[t])
        /\ FindThread(threads, h)
        /\ (threads[t].state = "Running") <=> (t = currentThreadId)
    BY FoundThread DEF TerminateThread, IInv, Good
  <1>2. /\ threads[t].state # "Dormant"
        /\ threads[t].state = "Ready" => h \in ToSet(readyQueues[threads[t].priority])
        /\ threads[t].state \in Blocked => h \in ToSet(waitQueues[threads[t].wait])
        /\ waitQueues' = IF threads[t].state \in Blocked THEN WithoutWaiting(h)
                                                         ELSE waitQueues
        /\ nextQueueSequence' = nextQueueSequence
        /\ \/ current = NoThread /\ TakeNextReady(ts, queues)
           \/ /\ threads' = ts /\ readyQueues' = queues
              /\ currentThreadId' = current /\ current = currentThreadId
    BY <1>1 DEF TerminateThread
  <1>3. /\ ValidRecord(r) /\ Unqueued(r) /\ r.state = "Dormant"
        /\ r.generation = threads[t].generation
        /\ r.queueSequence = 0
    BY <1>1, DormantIsValid DEF ValidRecord, DormantRecord, FreshRecord
  <1> HIDE DEF r
  <1>4. CpuAgrees(threads, t, r, currentThreadId, current)
    BY <1>1, <1>3, ConstantsAssumption DEF CpuAgrees, IInv, Good, Records
  <1>5. Good(ts, queues, waitQueues', current, nextQueueSequence)
    <2>1. CASE threads[t].state = "Ready"
      <3>1. threads[t].priority \in Priorities
        BY <1>1 DEF ValidRecord, ThreadRecords
      <3>2. QueueHolds(threads, RemoveFirst(readyQueues[threads[t].priority], h),
                       ReadySet(threads, threads[t].priority) \ {t})
        BY <1>2, <2>1, <3>1, ReadyWithout DEF IInv, Good
      <3>3. Good(ts, [readyQueues EXCEPT ![threads[t].priority] =
                        RemoveFirst(readyQueues[threads[t].priority], h)],
                 waitQueues, currentThreadId, nextQueueSequence)
        BY <1>1, <1>3, <2>1, <3>2, MoveFromReady DEF IInv
      <3>4. /\ queues = [readyQueues EXCEPT ![threads[t].priority] =
                           RemoveFirst(readyQueues[threads[t].priority], h)]
            /\ waitQueues' = waitQueues
            /\ current = currentThreadId
        BY <1>2, <2>1 DEF WithoutReady, Blocked
      <3> QED BY <3>3, <3>4
    <2>2. CASE threads[t].state \in Blocked
      <3>1. threads[t].wait \in WaitKeys
        BY <1>1, <2>2 DEF ValidRecord, RecordValid, ThreadRecords
      <3>2. QueueHolds(threads, RemoveFirst(waitQueues[threads[t].wait], h),
                       WaitSet(threads, threads[t].wait) \ {t})
        BY <1>2, <2>2, <3>1, WaitWithout DEF IInv, Good
      <3>3. Good(ts, readyQueues,
                 [waitQueues EXCEPT ![threads[t].wait] =
                    RemoveFirst(waitQueues[threads[t].wait], h)],
                 currentThreadId, nextQueueSequence)
        BY <1>1, <1>3, <2>2, <3>2, MoveFromWait DEF IInv
      <3>4. /\ queues = readyQueues
            /\ waitQueues' = [waitQueues EXCEPT ![threads[t].wait] =
                                RemoveFirst(waitQueues[threads[t].wait], h)]
            /\ current = currentThreadId
        BY <1>2, <2>2 DEF WithoutWaiting, Blocked
      <3> QED BY <3>3, <3>4
    <2>3. CASE Unqueued(threads[t])
      <3>1. KeepsKey(threads[t], r)
        BY <1>1, <1>3, <2>3 DEF KeepsKey, ValidRecord, RecordValid, Unqueued
      <3>2. Good(ts, readyQueues, waitQueues, current, nextQueueSequence)
        BY <1>1, <1>3, <1>4, <2>3, <3>1, MoveWithin DEF IInv, Unqueued
      <3>3. queues = readyQueues /\ waitQueues' = waitQueues
        BY <1>2, <2>3 DEF Unqueued
      <3> QED BY <3>2, <3>3
    <2> QED BY <2>1, <2>2, <2>3 DEF Unqueued
  <1>6. ts = [threads EXCEPT ![t] = r]
    OBVIOUS
  <1> HIDE DEF ts, queues, current
  <1>7. CASE current = NoThread /\ TakeNextReady(ts, queues)
    <2>1. Good(ts, queues, waitQueues', NoThread, nextQueueSequence')
      BY <1>2, <1>5, <1>7
    <2>2. CpuGiven
      BY <1>1, <1>3, <1>6, <1>7, <2>1, TakeInOrder, GivenInOrder, NoThreadAbsent
    <2> QED BY <1>7, <2>1, <2>2, TakeKeepsGood
  <1>8. CASE /\ threads' = ts /\ readyQueues' = queues
             /\ currentThreadId' = current /\ current = currentThreadId
    BY <1>2, <1>5, <1>8, CpuKept DEF IInv
  <1> QED BY <1>2, <1>7, <1>8

\* A Ready thread taken out of its queue and appended to a ready queue.
LEMMA RequeuedStep ==
    ASSUME IInv, nextQueueSequence < MaxQueueSequence,
           NEW h \in Handles, FindThread(threads, h),
           threads[h.id].state = "Ready", NEW q,
           QueueHolds(threads, q,
                      ReadySet(threads, threads[h.id].priority) \ {h.id}),
           NEW r, ValidRecord(r), r.state = "Ready",
           r.generation = h.generation, r.queueSequence = nextQueueSequence
    PROVE  Good([threads EXCEPT ![h.id] = r],
                [[readyQueues EXCEPT ![threads[h.id].priority] = q]
                   EXCEPT ![r.priority] = Append(@, h)],
                waitQueues, currentThreadId, nextQueueSequence + 1)
  <1> DEFINE t == h.id
             r0 == DormantRecord(threads[t].generation, threads[t].priority)
             ts0 == [threads EXCEPT ![t] = r0]
             ready0 == [readyQueues EXCEPT ![threads[t].priority] = q]
  <1>1. /\ t \in DOMAIN threads /\ ValidRecord(threads[t])
        /\ threads[t].generation = h.generation
        /\ t # currentThreadId
    BY FoundThread DEF IInv, Good
  <1>2. /\ ValidRecord(r0) /\ Unqueued(r0) /\ r0.state # "Running"
        /\ r0.generation = h.generation
    BY <1>1, DormantIsValid DEF ValidRecord
  <1> HIDE DEF r0
  <1>3. Good(ts0, ready0, waitQueues, currentThreadId, nextQueueSequence)
    BY <1>1, <1>2, MoveFromReady DEF IInv
  <1>4. /\ FindThread(ts0, h)
        /\ ts0[t] = r0
        /\ DOMAIN ts0 = DOMAIN threads
        /\ [ts0 EXCEPT ![t] = r] = [threads EXCEPT ![t] = r]
    BY <1>1, <1>2 DEF FindThread
  <1> HIDE DEF ts0, ready0
  <1>5. CpuAgrees(ts0, t, r, currentThreadId, currentThreadId)
    BY <1>1, <1>4 DEF CpuAgrees, IInv, Good, Records
  <1>6. Good([ts0 EXCEPT ![t] = r], [ready0 EXCEPT ![r.priority] = Append(@, h)],
             waitQueues, currentThreadId, nextQueueSequence + 1)
    BY <1>2, <1>3, <1>4, <1>5, MoveToReady
  <1> QED BY <1>4, <1>6 DEF ready0

LEMMA ChangePriorityStep ==
    ASSUME IInv, NEW h \in Handles, NEW p \in Priorities,
           ChangeThreadPriority(h, p)
    PROVE  IInv'
  <1> DEFINE t == h.id
  <1>1. /\ t \in DOMAIN threads /\ ValidRecord(threads[t])
        /\ FindThread(threads, h)
        /\ threads[t].generation = h.generation
        /\ UNCHANGED <<waitQueues, currentThreadId>>
    BY FoundThread DEF ChangeThreadPriority, IInv, Good
  <1>2. CASE threads[t].state = "Ready"
    <2> DEFINE r == ReadyRecord([threads[t] EXCEPT !.priority = p])
               old == threads[t].priority
    <2>1. /\ nextQueueSequence < MaxQueueSequence
          /\ h \in ToSet(readyQueues[old])
          /\ threads' = [threads EXCEPT ![t] = r]
          /\ readyQueues' =
                [[readyQueues EXCEPT ![old] = RemoveFirst(readyQueues[old], h)]
                   EXCEPT ![p] = Append(@, h)]
          /\ nextQueueSequence' = nextQueueSequence + 1
      BY <1>2 DEF ChangeThreadPriority, SequenceAvailable, WithoutReady
    <2>2. nextQueueSequence \in Nat \ {0}
      BY ConstantsAssumption DEF IInv, Good, Records
    <2>3. /\ r \in ThreadRecords /\ RecordValid(r)
          /\ r.state = "Ready"
          /\ r.generation = h.generation
          /\ r.priority = p
          /\ r.queueSequence = nextQueueSequence
      BY <1>1, <1>2, <2>2, ConstantsAssumption
      DEF ReadyRecord, ValidRecord, ThreadRecords, States, RecordValid, Blocked
    <2>4. old \in Priorities
      BY <1>1 DEF ValidRecord, ThreadRecords
    <2> HIDE DEF r, old
    <2>5. QueueHolds(threads, RemoveFirst(readyQueues[old], h),
                     ReadySet(threads, old) \ {t})
      BY <2>1, <2>4, ReadyWithout DEF IInv, Good
    <2>6. Good(threads', readyQueues', waitQueues, currentThreadId,
               nextQueueSequence + 1)
      BY <1>1, <1>2, <2>1, <2>3, <2>5, RequeuedStep DEF old, ValidRecord
    <2> QED BY <1>1, <2>1, <2>6 DEF IInv
  <1>3. CASE threads[t].state # "Ready"
    <2> DEFINE r == [threads[t] EXCEPT !.priority = p]
    <2>1. /\ threads' = [threads EXCEPT ![t] = r]
          /\ UNCHANGED <<readyQueues, nextQueueSequence>>
      BY <1>3 DEF ChangeThreadPriority
    <2>2. /\ r.state = threads[t].state
          /\ r.wait = threads[t].wait
          /\ KeepsKey(threads[t], r)
      BY <1>1 DEF ValidRecord, ThreadRecords, KeepsKey
    <2>3. ValidRecord(r)
      BY <1>1, ConstantsAssumption DEF ValidRecord, ThreadRecords, RecordValid
    <2> HIDE DEF r
    <2>4. CpuAgrees(threads, t, r, currentThreadId, currentThreadId)
      BY <1>1, <2>2 DEF CpuAgrees, IInv, Good, Records
    <2>5. Good(threads', readyQueues, waitQueues, currentThreadId, nextQueueSequence)
      BY <1>1, <1>3, <2>1, <2>2, <2>3, <2>4, MoveWithin DEF IInv
    <2> QED BY <1>1, <2>1, <2>5 DEF IInv
  <1> QED BY <1>2, <1>3

LEMMA RotateStep ==
    ASSUME IInv, NEW p \in Priorities, RotateReadyQueue(p)
    PROVE  IInv'
  <1> DEFINE h == Head(readyQueues[p])
             t == h.id
             r == [threads[t] EXCEPT !.queueSequence = nextQueueSequence]
             rest == Tail(readyQueues[p])
  <1>1. readyQueues[p] # <<>>
    BY EmptySeq DEF RotateReadyQueue
  <1>2. /\ QueueHolds(threads, rest, ReadySet(threads, p) \ {t})
        /\ h \in Handles /\ FindThread(threads, h)
        /\ threads[t].state = "Ready" /\ threads[t].priority = p
    <2>1. /\ Records(threads, currentThreadId, nextQueueSequence)
          /\ ReadyFamily(threads, readyQueues)
      BY DEF IInv, Good
    <2> QED BY <1>1, <2>1, ReadyFront
  <1>3. /\ nextQueueSequence < MaxQueueSequence
        /\ readyQueues' = [readyQueues EXCEPT ![p] = Append(rest, h)]
        /\ threads' = [threads EXCEPT ![t] = r]
        /\ nextQueueSequence' = nextQueueSequence + 1
        /\ UNCHANGED <<waitQueues, currentThreadId>>
    BY DEF RotateReadyQueue, SequenceAvailable
  <1>4. /\ t \in DOMAIN threads /\ ValidRecord(threads[t])
        /\ threads[t].generation = h.generation
    BY <1>2, FoundThread DEF IInv, Good
  <1>5. nextQueueSequence \in Nat \ {0}
    BY ConstantsAssumption DEF IInv, Good, Records
  <1>6. /\ ValidRecord(r) /\ r.state = "Ready" /\ r.priority = p
        /\ r.generation = h.generation
        /\ r.queueSequence = nextQueueSequence
    BY <1>2, <1>4, <1>5, ConstantsAssumption
    DEF ValidRecord, ThreadRecords, RecordValid, Blocked
  <1>7. [readyQueues EXCEPT ![p] = Append(rest, h)]
          = [[readyQueues EXCEPT ![p] = rest] EXCEPT ![p] = Append(@, h)]
    BY DEF IInv, Good, ReadyFamily
  <1> HIDE DEF h, r, rest
  <1>8. /\ QueueHolds(threads, rest,
                      ReadySet(threads, threads[h.id].priority) \ {h.id})
        /\ threads[h.id].state = "Ready"
        /\ threads' = [threads EXCEPT ![h.id] = r]
        /\ readyQueues' = [[readyQueues EXCEPT ![threads[h.id].priority] = rest]
                             EXCEPT ![r.priority] = Append(@, h)]
    BY <1>2, <1>3, <1>6, <1>7
  <1> HIDE DEF t
  <1>9. Good([threads EXCEPT ![h.id] = r],
             [[readyQueues EXCEPT ![threads[h.id].priority] = rest]
                EXCEPT ![r.priority] = Append(@, h)],
             waitQueues, currentThreadId, nextQueueSequence + 1)
    <2>1. h \in Handles /\ FindThread(threads, h)
      BY <1>2
    <2> QED BY <1>3, <1>6, <1>8, <2>1, RequeuedStep
  <1> QED BY <1>3, <1>8, <1>9 DEF IInv

-----------------------------------------------------------------------------
(* The invariant is inductive.                                               *)

LEMMA NextStep == IInv /\ [Next]_vars => IInv'
  <1> SUFFICES ASSUME IInv, [Next]_vars PROVE IInv'
    OBVIOUS
  <1>1. CASE UNCHANGED vars
    BY <1>1 DEF vars, IInv
  <1>2. ASSUME NEW t \in ThreadIds, NEW g \in Generations, NEW p \in Priorities,
               AddDormantThread(t, g, p) \/ AddRunningThread(t, g, p)
        PROVE  IInv'
    BY <1>2, AddDormantStep, AddRunningStep
  <1>3. ASSUME NEW h \in Handles,
               \/ StartThread(h) \/ DeleteThread(h) \/ WakeThread(h)
               \/ CancelWakeups(h) \/ ConsumeWaitCompletion(h)
               \/ SuspendThread(h) \/ ResumeThread(h) \/ TerminateThread(h)
        PROVE  IInv'
    BY <1>3, StartStep, DeleteStep, WakeStep, CancelStep,
       ConsumeCompletionStep, SuspendStep, ResumeStep, TerminateStep
  <1>4. ASSUME NEW h \in Handles, NEW c \in Completions, NEW retain \in BOOLEAN,
               ReleaseWaitThread(h, c, retain)
        PROVE  IInv'
    BY <1>4, ReleaseStep
  <1>5. ASSUME NEW h \in Handles, NEW p \in Priorities,
               ChangeThreadPriority(h, p)
        PROVE  IInv'
    BY <1>5, ChangePriorityStep
  <1>6. CASE SelectNextThread
    BY <1>6, SelectStep
  <1>7. CASE YieldCurrentThread
    BY <1>7, RequeueStep DEF YieldCurrentThread
  <1>8. ASSUME NEW policy \in {"HigherPriorityOnly", "EqualOrHigherPriority"},
               Preempt(policy)
        PROVE  IInv'
    BY <1>8, RequeueStep DEF Preempt
  <1>9. CASE FinishCurrentThread
    BY <1>9, FinishStep
  <1>10. CASE SleepCurrentThread
    BY <1>10, ConsumeWakeupStep, BlockStep, ConstantsAssumption
    DEF SleepCurrentThread
  <1>11. ASSUME NEW w \in WaitKeys, BlockCurrentThread(w) \/ WakeOne(w)
         PROVE  IInv'
    BY <1>11, BlockStep, WakeOneStep
  <1>12. ASSUME NEW p \in Priorities, RotateReadyQueue(p)
         PROVE  IInv'
    BY <1>12, RotateStep
  <1> QED
    BY <1>1, <1>2, <1>3, <1>4, <1>5, <1>6, <1>7, <1>8, <1>9, <1>10, <1>11, <1>12
    DEF Next

LEMMA InvariantAlways == Spec => []IInv
  BY InitIInv, NextStep, PTL DEF Spec

\* The calls that do not choose a thread leave the CPU where it is; a thread
\* added as the running one is new.
LEMMA CpuGivenStep == IInv /\ [Next]_vars => CpuGiven
  <1> SUFFICES ASSUME IInv, [Next]_vars PROVE CpuGiven
    OBVIOUS
  <1>1. CASE UNCHANGED vars
    BY <1>1, CpuKept DEF vars
  <1>2. ASSUME NEW t \in ThreadIds, NEW g \in Generations, NEW p \in Priorities,
               AddDormantThread(t, g, p) \/ AddRunningThread(t, g, p)
        PROVE  CpuGiven
    <2>1. CASE AddDormantThread(t, g, p)
      BY <2>1, CpuKept DEF AddDormantThread
    <2>2. CASE AddRunningThread(t, g, p)
      BY <2>2, ConstantsAssumption
      DEF AddRunningThread, CpuGiven, CpuRefilledStep, SelectionOrderStep
    <2> QED BY <1>2, <2>1, <2>2
  <1>3. ASSUME NEW h \in Handles,
               \/ StartThread(h) \/ DeleteThread(h) \/ WakeThread(h)
               \/ CancelWakeups(h) \/ ConsumeWaitCompletion(h)
               \/ SuspendThread(h) \/ ResumeThread(h) \/ TerminateThread(h)
        PROVE  CpuGiven
    BY <1>3, SuspendStep, TerminateStep, CpuKept
    DEF StartThread, DeleteThread, WakeThread, ReleaseWaitThread,
        CancelWakeups, ConsumeWaitCompletion, ResumeThread
  <1>4. ASSUME NEW h \in Handles, NEW c \in Completions, NEW retain \in BOOLEAN,
               ReleaseWaitThread(h, c, retain)
        PROVE  CpuGiven
    BY <1>4, CpuKept DEF ReleaseWaitThread
  <1>5. ASSUME NEW h \in Handles, NEW p \in Priorities,
               ChangeThreadPriority(h, p)
        PROVE  CpuGiven
    BY <1>5, CpuKept DEF ChangeThreadPriority
  <1>6. CASE SelectNextThread
    BY <1>6, SelectStep
  <1>7. CASE YieldCurrentThread
    BY <1>7, RequeueStep DEF YieldCurrentThread
  <1>8. ASSUME NEW policy \in {"HigherPriorityOnly", "EqualOrHigherPriority"},
               Preempt(policy)
        PROVE  CpuGiven
    BY <1>8, RequeueStep DEF Preempt
  <1>9. CASE FinishCurrentThread
    BY <1>9, FinishStep
  <1>10. CASE SleepCurrentThread
    BY <1>10, BlockStep, CpuKept, ConstantsAssumption
    DEF SleepCurrentThread, ConsumeWakeup
  <1>11. ASSUME NEW w \in WaitKeys, BlockCurrentThread(w) \/ WakeOne(w)
         PROVE  CpuGiven
    BY <1>11, BlockStep, CpuKept DEF WakeOne
  <1>12. ASSUME NEW p \in Priorities, RotateReadyQueue(p)
         PROVE  CpuGiven
    BY <1>12, CpuKept DEF RotateReadyQueue
  <1> QED
    BY <1>1, <1>2, <1>3, <1>4, <1>5, <1>6, <1>7, <1>8, <1>9, <1>10, <1>11, <1>12
    DEF Next

-----------------------------------------------------------------------------
(* Results of waits.                                                         *)

\* What ends up in the records has the results that ts had.
KeepsResults(ts) ==
    /\ DOMAIN threads' = DOMAIN ts
    /\ \A t \in DOMAIN ts :
          /\ threads'[t].completedWait = ts[t].completedWait
          /\ ts[t].state = "Dormant" => threads'[t].state = "Dormant"

LEMMA TakeKeepsResults ==
    ASSUME NEW ts, NEW queues, ts \in [DOMAIN ts -> ThreadRecords],
           TakeNextReady(ts, queues)
    PROVE  KeepsResults(ts)
  <1>1. CASE TakeNone(ts, queues)
    BY <1>1 DEF TakeNone, KeepsResults
  <1>2. ASSUME NEW p \in Priorities, NEW i \in DOMAIN queues[p],
               TakeAt(ts, queues, p, i)
        PROVE  KeepsResults(ts)
    <2> DEFINE h == queues[p][i]
    <2>1. /\ h.id \in DOMAIN ts /\ ts[h.id].state = "Ready"
          /\ threads' = [ts EXCEPT ![h.id] = SelectedRecord(@)]
      BY <1>2 DEF TakeAt, IsReady, FindThread
    <2>2. ts[h.id] \in ThreadRecords
      BY <2>1
    <2>3. SelectedRecord(ts[h.id]).completedWait = ts[h.id].completedWait
      BY <2>2 DEF SelectedRecord, ThreadRecords
    <2> QED BY <2>1, <2>3 DEF KeepsResults
  <1> QED BY <1>1, <1>2 DEF TakeNextReady

LEMMA ResultsOfOne ==
    ASSUME NEW t \in DOMAIN threads, NEW r,
           KeepsResults([threads EXCEPT ![t] = r]),
           \/ threads[t].completedWait = NoCompletion
           \/ r.completedWait = threads[t].completedWait
           \/ r.state = "Dormant"
    PROVE  CompletionKeptStep
  BY DEF KeepsResults, CompletionKeptStep, Alive

\* The same when the record of t is all that changes.
LEMMA ResultsInPlace ==
    ASSUME NEW t \in DOMAIN threads, NEW r,
           threads' = [threads EXCEPT ![t] = r],
           \/ threads[t].completedWait = NoCompletion
           \/ r.completedWait = threads[t].completedWait
    PROVE  CompletionKeptStep
  BY DEF CompletionKeptStep

LEMMA ResultsUnchanged ==
    ASSUME threads' = threads
    PROVE  CompletionKeptStep
  BY DEF CompletionKeptStep

LEMMA RecordOf ==
    ASSUME IInv, NEW t \in DOMAIN threads
    PROVE  /\ threads[t] \in ThreadRecords
           /\ threads \in [DOMAIN threads -> ThreadRecords]
           /\ threads[t].state \in Blocked \cup {"Dormant"}
                => threads[t].completedWait = NoCompletion
  BY DEF IInv, Good, Records, RecordValid

\* A thread given up by the CPU with record r, and the next one selected.
LEMMA ResultsOfTaking ==
    ASSUME IInv, NEW t \in DOMAIN threads, NEW r \in ThreadRecords, NEW queues,
           TakeNextReady([threads EXCEPT ![t] = r], queues),
           \/ threads[t].completedWait = NoCompletion
           \/ r.completedWait = threads[t].completedWait
           \/ r.state = "Dormant"
    PROVE  CompletionKeptStep
  <1> DEFINE ts == [threads EXCEPT ![t] = r]
  <1>1. ts \in [DOMAIN ts -> ThreadRecords]
    BY RecordOf
  <1>2. KeepsResults(ts)
    BY <1>1, TakeKeepsResults
  <1> QED BY <1>2, ResultsOfOne

LEMMA CompleteKeepsResults ==
    ASSUME IInv, NEW t \in DOMAIN threads, threads[t].state \in Blocked,
           NEW c, NEW retain, CompleteWait(t, c, retain)
    PROVE  CompletionKeptStep
  <1>1. threads[t].completedWait = NoCompletion
    BY RecordOf
  <1>2. \E r : threads' = [threads EXCEPT ![t] = r]
    BY DEF CompleteWait
  <1> QED BY <1>1, <1>2, ResultsInPlace

LEMMA ReleaseKeepsResults ==
    ASSUME IInv, NEW h \in Handles, NEW c, NEW retain,
           ReleaseWaitThread(h, c, retain)
    PROVE  CompletionKeptStep
  <1>1. /\ h.id \in DOMAIN threads
        /\ threads[h.id].state \in Blocked
        /\ CompleteWait(h.id, c, retain)
    BY DEF ReleaseWaitThread, FindThread
  <1> QED BY <1>1, CompleteKeepsResults

LEMMA RequeueKeepsResults ==
    ASSUME IInv, CurrentIsRunning, RequeueCurrent
    PROVE  CompletionKeptStep
  <1> DEFINE t == currentThreadId
             r == ReadyRecord(threads[t])
  <1>1. t \in DOMAIN threads /\ threads[t] \in ThreadRecords
    BY RecordOf DEF CurrentIsRunning
  <1>2. nextQueueSequence \in Nat
    BY ConstantsAssumption DEF IInv, Good, Records
  <1>3. r \in ThreadRecords /\ r.completedWait = threads[t].completedWait
    BY <1>1, <1>2 DEF ReadyRecord, ThreadRecords, States
  <1>4. \E queues : TakeNextReady([threads EXCEPT ![t] = r], queues)
    BY DEF RequeueCurrent
  <1> HIDE DEF r
  <1> QED BY <1>1, <1>3, <1>4, ResultsOfTaking

LEMMA DormantRecordType ==
    ASSUME NEW r \in ThreadRecords
    PROVE  /\ DormantRecord(r.generation, r.priority) \in ThreadRecords
           /\ DormantRecord(r.generation, r.priority).state = "Dormant"
  BY DormantIsValid DEF DormantRecord, FreshRecord, ValidRecord

LEMMA SuspendKeepsResults ==
    ASSUME IInv, NEW h \in Handles, SuspendThread(h)
    PROVE  CompletionKeptStep
  <1>1. /\ h.id \in DOMAIN threads /\ threads[h.id] \in ThreadRecords
        /\ threads[h.id].suspendCount + 1 \in 0 .. MaxCount
    <2>1. h.id \in DOMAIN threads /\ threads[h.id].suspendCount # MaxCount
      BY DEF SuspendThread, FindThread
    <2>2. threads[h.id] \in ThreadRecords
      BY <2>1, RecordOf
    <2>3. threads[h.id].suspendCount \in 0 .. MaxCount
      BY <2>2 DEF ThreadRecords
    <2> QED BY <2>1, <2>2, <2>3, ConstantsAssumption
  <1>2. CASE SuspendRunning(h)
    <2> DEFINE r == [threads[h.id] EXCEPT !.state = "Suspended",
                                          !.suspendCount = @ + 1]
    <2>1. TakeNextReady([threads EXCEPT ![h.id] = r], readyQueues)
      BY <1>1, <1>2 DEF SuspendRunning
    <2>2. r \in ThreadRecords /\ r.completedWait = threads[h.id].completedWait
      BY <1>1 DEF ThreadRecords, States
    <2> HIDE DEF r
    <2> QED BY <1>1, <2>1, <2>2, ResultsOfTaking
  <1>3. CASE SuspendReady(h)
    <2> DEFINE r == [threads[h.id] EXCEPT !.state = "Suspended",
                                          !.suspendCount = @ + 1,
                                          !.queueSequence = 0]
    <2>1. threads' = [threads EXCEPT ![h.id] = r]
      BY <1>1, <1>3 DEF SuspendReady
    <2>2. r.completedWait = threads[h.id].completedWait
      BY <1>1 DEF ThreadRecords
    <2> HIDE DEF r
    <2> QED BY <1>1, <2>1, <2>2, ResultsInPlace
  <1>4. CASE SuspendOther(h)
    <2> DEFINE r == [threads[h.id] EXCEPT
                       !.state = IF @ = "Waiting" THEN "WaitSuspended" ELSE @,
                       !.suspendCount = @ + 1]
    <2>1. threads' = [threads EXCEPT ![h.id] = r]
      BY <1>1, <1>4 DEF SuspendOther
    <2>2. r.completedWait = threads[h.id].completedWait
      BY <1>1 DEF ThreadRecords
    <2> HIDE DEF r
    <2> QED BY <1>1, <2>1, <2>2, ResultsInPlace
  <1> QED BY <1>2, <1>3, <1>4 DEF SuspendThread

LEMMA ResumeKeepsResults ==
    ASSUME IInv, NEW h \in Handles, ResumeThread(h)
    PROVE  CompletionKeptStep
  <1> DEFINE resumed == [threads[h.id] EXCEPT !.suspendCount = @ - 1]
  <1>1. h.id \in DOMAIN threads /\ threads[h.id] \in ThreadRecords
    BY RecordOf DEF ResumeThread, FindThread
  <1>2. \/ threads' = [threads EXCEPT ![h.id] = ReadyRecord(resumed)]
        \/ \E state : threads' =
              [threads EXCEPT ![h.id] = [resumed EXCEPT !.state = state]]
    BY DEF ResumeThread
  <1>3. /\ ReadyRecord(resumed).completedWait = threads[h.id].completedWait
        /\ \A state : [resumed EXCEPT !.state = state].completedWait
                       = threads[h.id].completedWait
    BY <1>1 DEF ThreadRecords, ReadyRecord
  <1> HIDE DEF resumed
  <1> QED BY <1>1, <1>2, <1>3, ResultsInPlace

LEMMA BlockKeepsResults ==
    ASSUME IInv, NEW w \in WaitKeys, BlockCurrentThread(w)
    PROVE  CompletionKeptStep
  <1> DEFINE t == currentThreadId
             r == [threads[t] EXCEPT !.state = "Waiting", !.wait = w,
                                     !.queueSequence = nextQueueSequence]
  <1>1. /\ t \in DOMAIN threads /\ threads[t] \in ThreadRecords
        /\ threads[t].completedWait = NoCompletion
    BY RecordOf DEF BlockCurrentThread, CurrentIsRunning
  <1>2. nextQueueSequence \in Nat
    BY ConstantsAssumption DEF IInv, Good, Records
  <1>3. r \in ThreadRecords
    BY <1>1, <1>2 DEF ThreadRecords, States
  <1>4. TakeNextReady([threads EXCEPT ![t] = r], readyQueues)
    BY <1>1 DEF BlockCurrentThread
  <1> HIDE DEF r
  <1> QED BY <1>1, <1>3, <1>4, ResultsOfTaking

LEMMA FinishKeepsResults ==
    ASSUME IInv, FinishCurrentThread
    PROVE  CompletionKeptStep
  <1>1. /\ currentThreadId \in DOMAIN threads
        /\ threads[currentThreadId] \in ThreadRecords
    BY RecordOf DEF FinishCurrentThread, CurrentIsRunning
  <1> QED BY <1>1, DormantRecordType, ResultsOfTaking DEF FinishCurrentThread

LEMMA TerminateKeepsResults ==
    ASSUME IInv, NEW h \in Handles, TerminateThread(h)
    PROVE  CompletionKeptStep
  <1> DEFINE r == DormantRecord(threads[h.id].generation, threads[h.id].priority)
  <1>1. h.id \in DOMAIN threads /\ threads[h.id] \in ThreadRecords
    BY RecordOf DEF TerminateThread, FindThread
  <1>2. r \in ThreadRecords /\ r.state = "Dormant"
    BY <1>1, DormantRecordType
  <1>3. \/ \E queues : TakeNextReady([threads EXCEPT ![h.id] = r], queues)
        \/ threads' = [threads EXCEPT ![h.id] = r]
    BY DEF TerminateThread
  <1> HIDE DEF r
  <1>4. CASE threads' = [threads EXCEPT ![h.id] = r]
    BY <1>1, <1>2, <1>4 DEF CompletionKeptStep, Alive
  <1> QED BY <1>1, <1>2, <1>3, <1>4, ResultsOfTaking

LEMMA WakeKeepsResults ==
    ASSUME IInv, NEW h \in Handles, WakeThread(h)
    PROVE  CompletionKeptStep
  <1>1. CASE ReleaseWaitThread(h, "Satisfied", FALSE)
    BY <1>1, ReleaseKeepsResults
  <1>2. CASE threads' = [threads EXCEPT ![h.id].wakeupCount = @ + 1]
    <2>1. h.id \in DOMAIN threads /\ threads[h.id] \in ThreadRecords
      BY RecordOf DEF WakeThread, FindThread
    <2>2. [threads[h.id] EXCEPT !.wakeupCount = @ + 1].completedWait
            = threads[h.id].completedWait
      BY <2>1 DEF ThreadRecords
    <2> QED BY <1>2, <2>1, <2>2, ResultsInPlace
  <1> QED BY <1>1, <1>2 DEF WakeThread

LEMMA WakeOneKeepsResults ==
    ASSUME IInv, NEW w \in WaitKeys, WakeOne(w)
    PROVE  CompletionKeptStep
  <1> DEFINE h == Head(waitQueues[w])
  <1>1. CASE WaitsOn(h, w)
    BY <1>1, CompleteKeepsResults DEF WakeOne, WaitsOn, FindThread
  <1>2. CASE ~ WaitsOn(h, w)
    BY <1>2, ResultsUnchanged DEF WakeOne
  <1> QED BY <1>1, <1>2

\* Only its own thread, running, clears the result.
LEMMA ConsumeKeepsResults ==
    ASSUME IInv, NEW h \in Handles, ConsumeWaitCompletion(h)
    PROVE  CompletionKeptStep
  <1>1. /\ h.id \in DOMAIN threads /\ threads[h.id] \in ThreadRecords
        /\ threads[h.id].state = "Running"
        /\ threads' = [threads EXCEPT ![h.id] =
              [@ EXCEPT !.completedWait = NoCompletion, !.retainReason = FALSE]]
    BY RecordOf DEF ConsumeWaitCompletion, FindThread
  <1>2. /\ threads'[h.id].completedWait = NoCompletion
        /\ threads'[h.id].state = "Running"
    BY <1>1 DEF ThreadRecords
  <1>3. \A t \in DOMAIN threads \ {h.id} : threads'[t] = threads[t]
    BY <1>1
  <1> QED BY <1>1, <1>2, <1>3 DEF CompletionKeptStep

LEMMA PriorityKeepsResults ==
    ASSUME IInv, NEW h \in Handles, NEW p \in Priorities,
           ChangeThreadPriority(h, p)
    PROVE  CompletionKeptStep
  <1> DEFINE r == [threads[h.id] EXCEPT !.priority = p]
  <1>1. h.id \in DOMAIN threads /\ threads[h.id] \in ThreadRecords
    BY RecordOf DEF ChangeThreadPriority, FindThread
  <1>2. \/ threads' = [threads EXCEPT ![h.id] = ReadyRecord(r)]
        \/ threads' = [threads EXCEPT ![h.id] = r]
    BY <1>1 DEF ChangeThreadPriority
  <1>3. /\ ReadyRecord(r).completedWait = threads[h.id].completedWait
        /\ r.completedWait = threads[h.id].completedWait
    BY <1>1 DEF ThreadRecords, ReadyRecord
  <1> HIDE DEF r
  <1> QED BY <1>1, <1>2, <1>3, ResultsInPlace

LEMMA RotateKeepsResults ==
    ASSUME IInv, NEW p \in Priorities, RotateReadyQueue(p)
    PROVE  CompletionKeptStep
  <1> DEFINE t == Head(readyQueues[p]).id
             r == [threads[t] EXCEPT !.queueSequence = nextQueueSequence]
  <1>1. t \in DOMAIN threads /\ threads[t] \in ThreadRecords
    BY RecordOf DEF RotateReadyQueue, IsReady, FindThread
  <1>2. threads' = [threads EXCEPT ![t] = r]
    BY <1>1 DEF RotateReadyQueue
  <1>3. r.completedWait = threads[t].completedWait
    BY <1>1 DEF ThreadRecords
  <1> HIDE DEF t, r
  <1> QED BY <1>1, <1>2, <1>3, ResultsInPlace

\* The calls on one thread that change at most its counters or its queue.
LEMMA SimpleKeepsResults ==
    ASSUME IInv, NEW h \in Handles,
           StartThread(h) \/ DeleteThread(h) \/ CancelWakeups(h)
    PROVE  CompletionKeptStep
  <1>1. h.id \in DOMAIN threads /\ threads[h.id] \in ThreadRecords
    BY RecordOf DEF StartThread, DeleteThread, CancelWakeups, FindThread
  <1>2. CASE StartThread(h)
    <2>1. threads' = [threads EXCEPT ![h.id] = ReadyRecord(threads[h.id])]
      BY <1>2 DEF StartThread
    <2>2. ReadyRecord(threads[h.id]).completedWait = threads[h.id].completedWait
      BY <1>1 DEF ThreadRecords, ReadyRecord
    <2> QED BY <1>1, <2>1, <2>2, ResultsInPlace
  <1>3. CASE DeleteThread(h)
    BY <1>3 DEF DeleteThread, CompletionKeptStep, Alive
  <1>4. CASE CancelWakeups(h)
    <2>1. threads' =
            [threads EXCEPT ![h.id] = [threads[h.id] EXCEPT !.wakeupCount = 0]]
      BY <1>1, <1>4 DEF CancelWakeups
    <2>2. [threads[h.id] EXCEPT !.wakeupCount = 0].completedWait
            = threads[h.id].completedWait
      BY <1>1 DEF ThreadRecords
    <2> QED BY <1>1, <2>1, <2>2, ResultsInPlace
  <1> QED BY <1>2, <1>3, <1>4

LEMMA SleepKeepsResults ==
    ASSUME IInv, SleepCurrentThread
    PROVE  CompletionKeptStep
  <1>1. CASE ConsumeWakeup
    BY <1>1 DEF ConsumeWakeup, CurrentIsRunning, CompletionKeptStep
  <1> QED BY <1>1, BlockKeepsResults, ConstantsAssumption DEF SleepCurrentThread

LEMMA CompletionKeptAlways == IInv /\ [Next]_vars => CompletionKeptStep
  <1> SUFFICES ASSUME IInv, [Next]_vars PROVE CompletionKeptStep
    OBVIOUS
  <1>1. CASE UNCHANGED vars
    BY <1>1, ResultsUnchanged DEF vars
  <1>2. ASSUME NEW t \in ThreadIds, NEW g \in Generations, NEW p \in Priorities,
               AddDormantThread(t, g, p) \/ AddRunningThread(t, g, p)
        PROVE  CompletionKeptStep
    BY <1>2
    DEF AddDormantThread, AddRunningThread, AddThread, CompletionKeptStep
  <1>3. ASSUME NEW h \in Handles,
               \/ StartThread(h) \/ DeleteThread(h) \/ WakeThread(h)
               \/ CancelWakeups(h) \/ ConsumeWaitCompletion(h)
               \/ SuspendThread(h) \/ ResumeThread(h) \/ TerminateThread(h)
        PROVE  CompletionKeptStep
    BY <1>3, SimpleKeepsResults, WakeKeepsResults, ConsumeKeepsResults,
       SuspendKeepsResults, ResumeKeepsResults, TerminateKeepsResults
  <1>4. ASSUME NEW h \in Handles, NEW c \in Completions, NEW retain \in BOOLEAN,
               ReleaseWaitThread(h, c, retain)
        PROVE  CompletionKeptStep
    BY <1>4, ReleaseKeepsResults
  <1>5. ASSUME NEW h \in Handles, NEW p \in Priorities,
               ChangeThreadPriority(h, p)
        PROVE  CompletionKeptStep
    BY <1>5, PriorityKeepsResults
  <1>6. CASE SelectNextThread
    <2>1. KeepsResults(threads)
      BY <1>6, TakeKeepsResults DEF SelectNextThread, IInv, Good, Records
    <2> QED BY <2>1 DEF KeepsResults, CompletionKeptStep
  <1>7. CASE YieldCurrentThread
    BY <1>7, RequeueKeepsResults DEF YieldCurrentThread
  <1>8. ASSUME NEW policy \in {"HigherPriorityOnly", "EqualOrHigherPriority"},
               Preempt(policy)
        PROVE  CompletionKeptStep
    BY <1>8, RequeueKeepsResults DEF Preempt
  <1>9. CASE FinishCurrentThread
    BY <1>9, FinishKeepsResults
  <1>10. CASE SleepCurrentThread
    BY <1>10, SleepKeepsResults
  <1>11. ASSUME NEW w \in WaitKeys, BlockCurrentThread(w) \/ WakeOne(w)
         PROVE  CompletionKeptStep
    BY <1>11, BlockKeepsResults, WakeOneKeepsResults
  <1>12. ASSUME NEW p \in Priorities, RotateReadyQueue(p)
         PROVE  CompletionKeptStep
    BY <1>12, RotateKeepsResults
  <1> QED
    BY <1>1, <1>2, <1>3, <1>4, <1>5, <1>6, <1>7, <1>8, <1>9, <1>10, <1>11, <1>12
    DEF Next

-----------------------------------------------------------------------------
(* What the invariant says in the terms of the code.                         *)

\* Type correctness: every reachable scheduler state has records with legal
\* fields, queues of handles and a sequence counter within its bound.
THEOREM TypeCorrect == Spec => []TypeOK
  <1>1. IInv => TypeOK
    BY DEF IInv, Good, Records, ReadyFamily, WaitFamily, TypeOK
  <1> QED BY <1>1, InvariantAlways, PTL

\* The queues of every reachable state are in the order in which restore()
\* rebuilds them from the sequence numbers, whatever moved the threads.
THEOREM QueuesInSequenceOrder == Spec => []QueueOrder
  <1>1. IInv => QueueOrder
    <2> SUFFICES ASSUME IInv PROVE QueueOrder
      OBVIOUS
    <2>1. \A p \in Priorities : Sorted(readyQueues[p])
      BY LenProperties DEF IInv, Good, ReadyFamily, QueueHolds, Sorted
    <2>2. \A w \in WaitKeys : Sorted(waitQueues[w])
      BY LenProperties DEF IInv, Good, WaitFamily, QueueHolds, Sorted
    <2>3. \A t \in DOMAIN threads : threads[t].queueSequence < nextQueueSequence
      BY DEF IInv, Good, Records
    <2> QED BY <2>1, <2>2, <2>3 DEF QueueOrder
  <1> QED BY <1>1, InvariantAlways, PTL

LEMMA PlacesIn ==
    ASSUME NEW queues, NEW t, NEW place
    PROVE  place \in Places(queues, t) <=>
             \E k \in DOMAIN queues : \E i \in DOMAIN queues[k] :
                place = <<k, i>> /\ queues[k][i].id = t
  BY DEF Places

\* A thread held by one queue of a family and by no other is there once.
LEMMA HeldOnce ==
    ASSUME NEW queues, NEW t, NEW k \in DOMAIN queues,
           NEW S, QueueHolds(threads, queues[k], S), Keyed(threads, S), t \in S,
           \A m \in DOMAIN queues \ {k} :
              \A i \in DOMAIN queues[m] : queues[m][i].id # t
    PROVE  Once(Places(queues, t))
  <1>1. DOMAIN queues[k] = 1 .. Len(queues[k])
    BY LenProperties DEF QueueHolds
  <1>2. PICK i \in DOMAIN queues[k] : queues[k][i].id = t
    BY <1>1 DEF QueueHolds
  <1>3. <<k, i>> \in Places(queues, t)
    BY <1>2, PlacesIn
  <1>4. ASSUME NEW place \in Places(queues, t)
        PROVE  place = <<k, i>>
    <2>0. PICK m \in DOMAIN queues :
              \E j \in DOMAIN queues[m] :
                 place = <<m, j>> /\ queues[m][j].id = t
      BY PlacesIn
    <2>1. PICK j \in DOMAIN queues[m] :
              place = <<m, j>> /\ queues[m][j].id = t
      BY <2>0
    <2>2. m = k
      BY <2>1
    <2>3. j = i
      BY <1>1, <1>2, <2>1, <2>2, QueueUnique
    <2> QED BY <2>1, <2>2, <2>3
  <1>5. Places(queues, t) = {<<k, i>>}
    BY <1>3, <1>4
  <1> QED BY <1>3, <1>5 DEF Once

LEMMA NowhereHeld ==
    ASSUME NEW queues, NEW t,
           \A m \in DOMAIN queues : \A i \in DOMAIN queues[m] :
              queues[m][i].id # t
    PROVE  Places(queues, t) = {}
  BY PlacesIn

LEMMA IInvIsValid == IInv => Valid
  <1> SUFFICES ASSUME IInv PROVE Valid
    OBVIOUS
  <1>1. /\ DOMAIN readyQueues = Priorities
        /\ \A p \in Priorities : \A i \in DOMAIN readyQueues[p] :
              /\ readyQueues[p][i].id \in ReadySet(threads, p)
              /\ threads[readyQueues[p][i].id].generation
                   = readyQueues[p][i].generation
    BY LenProperties DEF IInv, Good, ReadyFamily, QueueHolds
  <1>2. /\ DOMAIN waitQueues = WaitKeys
        /\ \A w \in WaitKeys : \A i \in DOMAIN waitQueues[w] :
              /\ waitQueues[w][i].id \in WaitSet(threads, w)
              /\ threads[waitQueues[w][i].id].generation
                   = waitQueues[w][i].generation
    BY LenProperties DEF IInv, Good, WaitFamily, QueueHolds
  <1>3. ReadyEntriesValid(threads, readyQueues)
    BY <1>1 DEF ReadyEntriesValid, IsReady, FindThread, ReadySet
  <1>4. WaitEntriesValid(threads, waitQueues)
    BY <1>2 DEF WaitEntriesValid, FindThread, WaitSet
  <1>5. ASSUME NEW t \in DOMAIN threads
        PROVE  IF threads[t].state = "Ready" THEN Once(Places(readyQueues, t))
                                             ELSE Places(readyQueues, t) = {}
    <2>1. CASE threads[t].state = "Ready"
      <3> DEFINE p == threads[t].priority
      <3>1. p \in Priorities /\ t \in ReadySet(threads, p)
        BY <2>1 DEF IInv, Good, Records, ThreadRecords, ReadySet
      <3>2. QueueHolds(threads, readyQueues[p], ReadySet(threads, p))
        BY <3>1 DEF IInv, Good, ReadyFamily
      <3>3. Keyed(threads, ReadySet(threads, p))
        BY DEF Keyed, ReadySet, IInv, Good, Records, ThreadRecords
      <3>4. \A m \in DOMAIN readyQueues \ {p} :
               \A i \in DOMAIN readyQueues[m] : readyQueues[m][i].id # t
        BY <1>1 DEF ReadySet
      <3> HIDE DEF p
      <3> QED BY <1>1, <2>1, <3>1, <3>2, <3>3, <3>4, HeldOnce
    <2>2. CASE threads[t].state # "Ready"
      BY <1>1, <2>2, NowhereHeld DEF ReadySet
    <2> QED BY <2>1, <2>2
  <1>6. ASSUME NEW t \in DOMAIN threads
        PROVE  IF threads[t].state \in Blocked THEN Once(Places(waitQueues, t))
                                               ELSE Places(waitQueues, t) = {}
    <2>1. CASE threads[t].state \in Blocked
      <3> DEFINE w == threads[t].wait
      <3>1. w \in WaitKeys /\ t \in WaitSet(threads, w)
        BY <2>1 DEF IInv, Good, Records, ThreadRecords, RecordValid, WaitSet
      <3>2. QueueHolds(threads, waitQueues[w], WaitSet(threads, w))
        BY <3>1 DEF IInv, Good, WaitFamily
      <3>3. Keyed(threads, WaitSet(threads, w))
        BY DEF Keyed, WaitSet, IInv, Good, Records, ThreadRecords
      <3>4. \A m \in DOMAIN waitQueues \ {w} :
               \A i \in DOMAIN waitQueues[m] : waitQueues[m][i].id # t
        BY <1>2 DEF WaitSet
      <3> HIDE DEF w
      <3> QED BY <1>2, <2>1, <3>1, <3>2, <3>3, <3>4, HeldOnce
    <2>2. CASE threads[t].state \notin Blocked
      BY <1>2, <2>2, NowhereHeld DEF WaitSet
    <2> QED BY <2>1, <2>2
  <1>7. /\ \A t \in DOMAIN threads : /\ RecordValid(threads[t])
                                     /\ threads[t].state = "Running"
                                          => t = currentThreadId
        /\ currentThreadId # NoThread => /\ currentThreadId \in DOMAIN threads
                                         /\ threads[currentThreadId].state
                                              = "Running"
    BY DEF IInv, Good, Records
  <1> QED BY <1>3, <1>4, <1>5, <1>6, <1>7 DEF Valid, Validated

\* validate() accepts every state the operations reach, for any number of
\* threads, priorities, wait objects and handle generations.
THEOREM ValidAlways == Spec => []Valid
  BY IInvIsValid, InvariantAlways, PTL

\* Whatever the guest did, the state can be saved and restored.
THEOREM AlwaysRestorable == Spec => []Restorable
  BY TypeCorrect, ValidAlways, QueuesInSequenceOrder, PTL DEF Restorable

\* Blocking, finishing, suspending or terminating itself, the running thread
\* never leaves the CPU idle while another is Ready.
THEOREM CpuAlwaysRefilled == Spec => CpuRefilled
  <1>1. IInv /\ [Next]_vars => [CpuRefilledStep]_vars
    BY CpuGivenStep DEF CpuGiven
  <1> QED BY <1>1, InvariantAlways, PTL DEF Spec, CpuRefilled

\* Whoever is given the CPU is the most urgent Ready thread, and of those the
\* one queued longest.
THEOREM SelectionAlwaysInOrder == Spec => SelectionOrder
  <1>1. IInv /\ [Next]_vars => [SelectionOrderStep]_vars
    BY CpuGivenStep DEF CpuGiven
  <1> QED BY <1>1, InvariantAlways, PTL DEF Spec, SelectionOrder

\* The result of a finished wait is kept, through suspensions, priority changes
\* and reschedules, until its thread reads it while running, or dies.
THEOREM CompletionNeverLost == Spec => CompletionKept
  <1>1. IInv /\ [Next]_vars => [CompletionKeptStep]_vars
    BY CompletionKeptAlways
  <1> QED BY <1>1, InvariantAlways, PTL DEF Spec, CompletionKept

-----------------------------------------------------------------------------
(* What an operation does to the records, as a caller of the scheduler sees *)
(* it: whether an active thread runs or is ready, and its place in a queue,  *)
(* are the scheduler's own.                                                 *)

Alike(r, r2) ==
    /\ r2.wait = r.wait
    /\ r2.completedWait = r.completedWait
    /\ r2.wakeupCount = r.wakeupCount
    /\ r2.suspendCount = r.suspendCount
    /\ r2.priority = r.priority
    /\ r2.state \in Blocked <=> r.state \in Blocked
    /\ r2.state = "Dormant" <=> r.state = "Dormant"

\* The record of t becomes r, and the others stay as they are.
Becomes(t, r) ==
    /\ t \in DOMAIN threads
    /\ DOMAIN threads' = DOMAIN threads
    /\ Alike(r, threads'[t])
    /\ \A u \in DOMAIN threads \ {t} : Alike(threads[u], threads'[u])

NothingSeen ==
    /\ DOMAIN threads' = DOMAIN threads
    /\ \A t \in DOMAIN threads : Alike(threads[t], threads'[t])

LEMMA TakeSeen ==
    ASSUME NEW ts, NEW queues, ts \in [DOMAIN ts -> ThreadRecords],
           TakeNextReady(ts, queues)
    PROVE  /\ DOMAIN threads' = DOMAIN ts
           /\ \A t \in DOMAIN ts : Alike(ts[t], threads'[t])
  <1>1. CASE TakeNone(ts, queues)
    BY <1>1 DEF TakeNone, Alike
  <1>2. ASSUME NEW p \in Priorities, NEW i \in DOMAIN queues[p],
               TakeAt(ts, queues, p, i)
        PROVE  /\ DOMAIN threads' = DOMAIN ts
               /\ \A t \in DOMAIN ts : Alike(ts[t], threads'[t])
    <2> DEFINE h == queues[p][i]
    <2>1. /\ h.id \in DOMAIN ts /\ ts[h.id].state = "Ready"
          /\ threads' = [ts EXCEPT ![h.id] = SelectedRecord(@)]
      BY <1>2 DEF TakeAt, IsReady, FindThread
    <2>2. ts[h.id] \in ThreadRecords
      BY <2>1
    <2>3. Alike(ts[h.id], SelectedRecord(ts[h.id]))
      BY <2>1, <2>2 DEF SelectedRecord, ThreadRecords, Alike, Blocked
    <2> HIDE DEF h
    <2>4. \A t \in DOMAIN ts : Alike(ts[t], ts[t])
      BY DEF Alike
    <2> QED BY <2>1, <2>3, <2>4
  <1> QED BY <1>1, <1>2 DEF TakeNextReady

LEMMA ThreadOf ==
    ASSUME IInv, NEW t \in DOMAIN threads
    PROVE  /\ ValidRecord(threads[t])
           /\ threads[t] \in ThreadRecords
           /\ threads[t].state = "Running" <=> t = currentThreadId
           /\ t \in ThreadIds /\ t # NoThread
  BY NoThreadAbsent DEF IInv, Good, Records, ValidRecord

LEMMA TakeBecomes ==
    ASSUME IInv, NEW t \in DOMAIN threads, NEW r \in ThreadRecords, NEW queues,
           TakeNextReady([threads EXCEPT ![t] = r], queues)
    PROVE  Becomes(t, r)
  <1> DEFINE ts == [threads EXCEPT ![t] = r]
  <1>1. ts \in [DOMAIN ts -> ThreadRecords] /\ DOMAIN ts = DOMAIN threads
        /\ ts[t] = r /\ \A u \in DOMAIN threads \ {t} : ts[u] = threads[u]
    BY RecordOf
  <1>2. TakeNextReady(ts, queues)
    OBVIOUS
  <1> HIDE DEF ts
  <1>3. DOMAIN threads' = DOMAIN ts /\ \A u \in DOMAIN ts : Alike(ts[u], threads'[u])
    BY <1>1, <1>2, TakeSeen
  <1> QED BY <1>1, <1>3 DEF Becomes

LEMMA SetBecomes ==
    ASSUME NEW t \in DOMAIN threads, NEW r,
           threads' = [threads EXCEPT ![t] = r]
    PROVE  Becomes(t, r)
  BY DEF Becomes, Alike

LEMMA SameSeen == threads' = threads => NothingSeen
  BY DEF NothingSeen, Alike

\* A record that only differs in what is the scheduler's own.
LEMMA BecomesAlike ==
    ASSUME NEW t, NEW r, NEW r2, Alike(r2, r), Becomes(t, r)
    PROVE  Becomes(t, r2)
  <1>1. Alike(r2, threads'[t])
    BY DEF Becomes, Alike
  <1> QED BY <1>1 DEF Becomes

LEMMA NothingBecomes ==
    ASSUME NEW t, Becomes(t, threads[t])
    PROVE  NothingSeen
  BY DEF Becomes, NothingSeen

LEMMA RequeueSeen ==
    ASSUME IInv, CurrentIsRunning, RequeueCurrent
    PROVE  NothingSeen
  <1> DEFINE t == currentThreadId
             r == ReadyRecord(threads[t])
  <1>1. t \in DOMAIN threads /\ threads[t].state = "Running" /\ ValidRecord(threads[t])
    BY ThreadOf DEF CurrentIsRunning
  <1>2. r \in ThreadRecords /\ Alike(threads[t], r)
    <2>1. nextQueueSequence \in Nat
      BY ConstantsAssumption DEF IInv, Good, Records
    <2>2. threads[t].wait = NoWait
      BY <1>1 DEF ValidRecord, RecordValid, Blocked
    <2> QED BY <1>1, <2>1, <2>2
            DEF ReadyRecord, ValidRecord, ThreadRecords, Alike, Blocked, States
  <1>3. TakeNextReady([threads EXCEPT ![t] = r],
                      PushReady(readyQueues, t, threads[t].priority))
    BY DEF RequeueCurrent
  <1> HIDE DEF r, t
  <1>4. Becomes(t, r)
    BY <1>1, <1>2, <1>3, TakeBecomes
  <1> QED BY <1>2, <1>4, BecomesAlike, NothingBecomes

LEMMA SelectSeen ==
    ASSUME IInv, SelectNextThread
    PROVE  NothingSeen
  <1>1. TakeNextReady(threads, readyQueues)
    BY DEF SelectNextThread
  <1>2. threads \in [DOMAIN threads -> ThreadRecords]
    BY DEF IInv, Good, Records
  <1> QED BY <1>1, <1>2, TakeSeen DEF NothingSeen

LEMMA PreemptSeen ==
    ASSUME IInv, NEW policy, Preempt(policy)
    PROVE  NothingSeen
  BY RequeueSeen DEF Preempt

LEMMA RotateSeen ==
    ASSUME IInv, NEW p \in Priorities, RotateReadyQueue(p)
    PROVE  NothingSeen
  <1> DEFINE t == Head(readyQueues[p]).id
             r == [threads[t] EXCEPT !.queueSequence = nextQueueSequence]
  <1>1. t \in DOMAIN threads /\ threads' = [threads EXCEPT ![t] = r]
    BY DEF RotateReadyQueue, IsReady, FindThread
  <1>2. Alike(threads[t], r)
    BY <1>1, ThreadOf DEF Alike, ThreadRecords
  <1> HIDE DEF t, r
  <1> QED BY <1>1, <1>2, SetBecomes, BecomesAlike, NothingBecomes

LEMMA StartSeen ==
    ASSUME IInv, NEW h \in Handles, StartThread(h)
    PROVE  /\ Becomes(h.id, [threads[h.id] EXCEPT !.state = "Ready"])
           /\ threads[h.id].state = "Dormant"
  <1> DEFINE r == ReadyRecord(threads[h.id])
  <1>1. h.id \in DOMAIN threads /\ threads[h.id].state = "Dormant"
        /\ threads' = [threads EXCEPT ![h.id] = r]
    BY DEF StartThread, FindThread
  <1>2. Alike([threads[h.id] EXCEPT !.state = "Ready"], r)
    BY <1>1, ThreadOf
    DEF ReadyRecord, ValidRecord, RecordValid, ThreadRecords, Alike, Blocked
  <1>3. Becomes(h.id, r)
    BY <1>1, SetBecomes
  <1> HIDE DEF r
  <1> QED BY <1>1, <1>2, <1>3, BecomesAlike

LEMMA FinishSeen ==
    ASSUME IInv, FinishCurrentThread
    PROVE  LET t == currentThreadId IN
           /\ Becomes(t, DormantRecord(threads[t].generation, threads[t].priority))
           /\ threads[t].state = "Running"
  <1>1. currentThreadId \in DOMAIN threads /\ threads[currentThreadId].state = "Running"
    BY DEF FinishCurrentThread, CurrentIsRunning
  <1>2. TakeNextReady([threads EXCEPT ![currentThreadId] =
                         DormantRecord(threads[currentThreadId].generation,
                                       threads[currentThreadId].priority)],
                      readyQueues)
    BY DEF FinishCurrentThread
  <1> QED BY <1>1, <1>2, ThreadOf, DormantRecordType, TakeBecomes

WaitingRecord(r, w) == [r EXCEPT !.state = "Waiting", !.wait = w]

LEMMA BlockSeen ==
    ASSUME IInv, NEW w \in WaitKeys, BlockCurrentThread(w)
    PROVE  LET t == currentThreadId IN
           /\ Becomes(t, WaitingRecord(threads[t], w))
           /\ threads[t].state = "Running"
  <1> DEFINE t == currentThreadId
             r == [threads[t] EXCEPT !.state = "Waiting", !.wait = w,
                                     !.queueSequence = nextQueueSequence]
  <1>1. t \in DOMAIN threads /\ threads[t].state = "Running" /\ ValidRecord(threads[t])
    BY ThreadOf DEF BlockCurrentThread, CurrentIsRunning
  <1>2. nextQueueSequence \in Nat
    BY ConstantsAssumption DEF IInv, Good, Records
  <1>3. r \in ThreadRecords /\ Alike(WaitingRecord(threads[t], w), r)
    BY <1>1, <1>2
    DEF ValidRecord, ThreadRecords, States, Alike, WaitingRecord, Blocked
  <1>4. TakeNextReady([threads EXCEPT ![t] = r], readyQueues)
    BY <1>1 DEF BlockCurrentThread
  <1> HIDE DEF r
  <1>5. Becomes(t, r)
    BY <1>1, <1>3, <1>4, TakeBecomes
  <1> QED BY <1>1, <1>3, <1>5, BecomesAlike

\* A thread that leaves its wait.
LeftRecord(r, completion) ==
    [r EXCEPT !.state = IF r.suspendCount # 0 THEN "Suspended" ELSE "Ready",
              !.wait = NoWait,
              !.completedWait = [wait |-> r.wait, completion |-> completion]]

LEMMA CompleteSeen ==
    ASSUME IInv, NEW t \in DOMAIN threads, NEW completion, NEW retain,
           CompleteWait(t, completion, retain)
    PROVE  Becomes(t, LeftRecord(threads[t], completion))
  <1> DEFINE done == [threads[t] EXCEPT
                        !.wait = NoWait, !.retainReason = retain,
                        !.completedWait = [wait |-> threads[t].wait,
                                           completion |-> completion]]
             r == IF threads[t].suspendCount # 0
                  THEN [done EXCEPT !.state = "Suspended", !.queueSequence = 0]
                  ELSE ReadyRecord(done)
  <1>1. threads' = [threads EXCEPT ![t] = r]
    BY DEF CompleteWait
  <1>2. Alike(LeftRecord(threads[t], completion), r)
    BY ThreadOf DEF ThreadRecords, Alike, LeftRecord, ReadyRecord, Blocked
  <1>3. Becomes(t, r)
    BY <1>1, SetBecomes
  <1> HIDE DEF r
  <1> QED BY <1>2, <1>3, BecomesAlike

LEMMA ReleaseSeen ==
    ASSUME IInv, NEW h \in Handles, NEW completion, NEW retain,
           ReleaseWaitThread(h, completion, retain)
    PROVE  /\ Becomes(h.id, LeftRecord(threads[h.id], completion))
           /\ threads[h.id].state \in Blocked
  BY CompleteSeen DEF ReleaseWaitThread, FindThread

LEMMA WakeOneSeen ==
    ASSUME IInv, NEW w \in WaitKeys, WakeOne(w)
    PROVE  LET t == Head(waitQueues[w]).id IN
           /\ Becomes(t, LeftRecord(threads[t], "Satisfied"))
           /\ threads[t].state \in Blocked
           /\ threads[t].wait = w
  <1> DEFINE h == Head(waitQueues[w])
  <1>1. /\ h \in Handles /\ FindThread(threads, h)
        /\ threads[h.id].state \in Blocked /\ threads[h.id].wait = w
    BY WaitWithout, ZenonT(60) DEF IInv, Good, WakeOne
  <1>2. WaitsOn(h, w)
    BY <1>1 DEF WaitsOn
  <1>3. CompleteWait(h.id, "Satisfied", FALSE) /\ h.id \in DOMAIN threads
    BY <1>1, <1>2 DEF WakeOne, FindThread
  <1> HIDE DEF h
  <1>4. Becomes(h.id, LeftRecord(threads[h.id], "Satisfied"))
    BY <1>3, CompleteSeen
  <1> QED BY <1>1, <1>4 DEF h

LEMMA WakeSeen ==
    ASSUME IInv, NEW h \in Handles, WakeThread(h)
    PROVE  LET r == threads[h.id] IN
           /\ h.id \in DOMAIN threads
           /\ r.state # "Dormant"
           /\ r.wait = SleepKey => /\ r.state \in Blocked
                                   /\ Becomes(h.id, LeftRecord(r, "Satisfied"))
           /\ r.wait # SleepKey =>
                 /\ r.wakeupCount # MaxCount
                 /\ Becomes(h.id, [r EXCEPT !.wakeupCount = @ + 1])
  <1>1. h.id \in DOMAIN threads /\ threads[h.id].state # "Dormant"
        /\ FindThread(threads, h)
    BY DEF WakeThread, FindThread
  <1>2. threads[h.id].wait = SleepKey => threads[h.id].state \in Blocked
    BY <1>1, ThreadOf, ConstantsAssumption DEF ValidRecord, RecordValid
  <1>3. CASE threads[h.id].wait = SleepKey
    <2>1. ReleaseWaitThread(h, "Satisfied", FALSE)
      BY <1>1, <1>2, <1>3 DEF WakeThread, WaitsOn
    <2> QED BY <1>1, <1>2, <1>3, <2>1, ReleaseSeen
  <1>4. CASE threads[h.id].wait # SleepKey
    <2> DEFINE r == [threads[h.id] EXCEPT !.wakeupCount = @ + 1]
    <2>1. /\ threads[h.id].wakeupCount # MaxCount
          /\ threads' = [threads EXCEPT ![h.id] = r]
      BY <1>1, <1>4 DEF WakeThread, WaitsOn
    <2> HIDE DEF r
    <2>2. Becomes(h.id, r)
      BY <1>1, <2>1, SetBecomes
    <2> QED BY <1>1, <1>4, <2>1, <2>2 DEF r
  <1> QED BY <1>3, <1>4

LEMMA SuspendSeen ==
    ASSUME IInv, NEW h \in Handles, SuspendThread(h)
    PROVE  LET r == threads[h.id] IN
           /\ Becomes(h.id, [r EXCEPT
                 !.state = IF @ \in Blocked THEN "WaitSuspended" ELSE "Suspended",
                 !.suspendCount = @ + 1])
           /\ r.state # "Dormant"
           /\ r.suspendCount # MaxCount
  <1> DEFINE t == h.id
             r == [threads[t] EXCEPT
                     !.state = IF @ \in Blocked THEN "WaitSuspended"
                                                ELSE "Suspended",
                     !.suspendCount = @ + 1]
  <1>1. /\ t \in DOMAIN threads /\ threads[t] \in ThreadRecords
        /\ threads[t].suspendCount # MaxCount
        /\ threads[t].suspendCount + 1 \in 0 .. MaxCount
    <2>1. t \in DOMAIN threads /\ threads[t].suspendCount # MaxCount
      BY DEF SuspendThread, FindThread
    <2>2. threads[t] \in ThreadRecords
      BY <2>1, ThreadOf
    <2>3. threads[t].suspendCount \in 0 .. MaxCount
      BY <2>2 DEF ThreadRecords
    <2> QED BY <2>1, <2>2, <2>3, ConstantsAssumption
  <1>2. CASE SuspendRunning(h)
    <2>1. r \in ThreadRecords /\ threads[t].state = "Running"
      BY <1>1, <1>2 DEF ThreadRecords, States, SuspendRunning
    <2>2. TakeNextReady([threads EXCEPT ![t] = r], readyQueues)
      BY <1>1, <1>2 DEF SuspendRunning, Blocked
    <2> HIDE DEF r
    <2>3. Becomes(t, r)
      BY <1>1, <2>1, <2>2, TakeBecomes
    <2> QED BY <1>1, <2>1, <2>3 DEF r
  <1>3. CASE SuspendReady(h)
    <2> DEFINE r2 == [threads[t] EXCEPT !.state = "Suspended",
                                        !.suspendCount = @ + 1,
                                        !.queueSequence = 0]
    <2>1. threads[t].state = "Ready" /\ threads' = [threads EXCEPT ![t] = r2]
      BY <1>1, <1>3 DEF SuspendReady
    <2>2. Alike(r, r2)
      BY <1>1, <2>1 DEF Alike, ThreadRecords, Blocked
    <2> HIDE DEF r, r2
    <2>3. Becomes(t, r)
      BY <1>1, <2>1, <2>2, SetBecomes, BecomesAlike
    <2> QED BY <1>1, <2>1, <2>3 DEF r
  <1>4. CASE SuspendOther(h)
    <2>1. /\ threads[t].state \in {"Waiting", "Suspended", "WaitSuspended"}
          /\ threads' = [threads EXCEPT ![t] = r]
      BY <1>1, <1>4 DEF SuspendOther, Blocked, ThreadRecords
    <2> HIDE DEF r
    <2>2. Becomes(t, r)
      BY <1>1, <2>1, SetBecomes
    <2> QED BY <1>1, <2>1, <2>2 DEF r
  <1> QED BY <1>2, <1>3, <1>4 DEF SuspendThread

LEMMA ResumeSeen ==
    ASSUME IInv, NEW h \in Handles, ResumeThread(h)
    PROVE  LET r == threads[h.id] IN
           /\ Becomes(h.id, [r EXCEPT
                 !.state = IF r.suspendCount # 1 THEN @
                           ELSE IF @ \in Blocked THEN "Waiting" ELSE "Ready",
                 !.suspendCount = @ - 1])
           /\ r.suspendCount # 0
           /\ r.state \in {"Suspended", "WaitSuspended"}
  <1> DEFINE t == h.id
             r == [threads[t] EXCEPT
                     !.state = IF threads[t].suspendCount # 1 THEN @
                               ELSE IF @ \in Blocked THEN "Waiting" ELSE "Ready",
                     !.suspendCount = @ - 1]
  <1>1. /\ t \in DOMAIN threads /\ ValidRecord(threads[t])
        /\ threads[t].suspendCount # 0
        /\ threads[t].state \in {"Suspended", "WaitSuspended"}
    BY ThreadOf DEF ResumeThread, FindThread
  <1>2. CASE threads[t].suspendCount = 1 /\ threads[t].state = "Suspended"
    <2> DEFINE r2 == ReadyRecord([threads[t] EXCEPT !.suspendCount = @ - 1])
    <2>1. threads' = [threads EXCEPT ![t] = r2]
      BY <1>2 DEF ResumeThread
    <2>2. Alike(r, r2)
      BY <1>1, <1>2
      DEF Alike, ValidRecord, RecordValid, ThreadRecords, ReadyRecord, Blocked
    <2> HIDE DEF r, r2
    <2>3. Becomes(t, r)
      BY <1>1, <2>1, <2>2, SetBecomes, BecomesAlike
    <2> QED BY <1>1, <2>1, <2>3 DEF r
  <1>3. CASE ~ (threads[t].suspendCount = 1 /\ threads[t].state = "Suspended")
    <2> DEFINE r2 == [[threads[t] EXCEPT !.suspendCount = @ - 1] EXCEPT
                        !.state = IF threads[t].suspendCount = 1 THEN "Waiting"
                                                                 ELSE @]
    <2>1. threads' = [threads EXCEPT ![t] = r2]
      BY <1>3 DEF ResumeThread
    <2>2. Alike(r, r2)
      BY <1>1, <1>3 DEF Alike, ValidRecord, ThreadRecords, Blocked
    <2> HIDE DEF r, r2
    <2>3. Becomes(t, r)
      BY <1>1, <2>1, <2>2, SetBecomes, BecomesAlike
    <2> QED BY <1>1, <2>1, <2>3 DEF r
  <1> QED BY <1>2, <1>3

LEMMA TerminateSeen ==
    ASSUME IInv, NEW h \in Handles, TerminateThread(h)
    PROVE  LET r == threads[h.id] IN
           /\ Becomes(h.id, DormantRecord(r.generation, r.priority))
           /\ r.state # "Dormant"
  <1> DEFINE t == h.id
             r == DormantRecord(threads[t].generation, threads[t].priority)
  <1>1. t \in DOMAIN threads /\ threads[t].state # "Dormant" /\ r \in ThreadRecords
    BY ThreadOf, DormantRecordType DEF TerminateThread, FindThread
  <1>2. \/ \E queues : TakeNextReady([threads EXCEPT ![t] = r], queues)
        \/ threads' = [threads EXCEPT ![t] = r]
    BY DEF TerminateThread
  <1> HIDE DEF r
  <1>3. Becomes(t, r)
    BY <1>1, <1>2, TakeBecomes, SetBecomes
  <1> QED BY <1>1, <1>3 DEF r

LEMMA PrioritySeen ==
    ASSUME IInv, NEW h \in Handles, NEW p \in Priorities,
           ChangeThreadPriority(h, p)
    PROVE  Becomes(h.id, [threads[h.id] EXCEPT !.priority = p])
  <1> DEFINE t == h.id
             r == [threads[t] EXCEPT !.priority = p]
  <1>1. t \in DOMAIN threads /\ ValidRecord(threads[t])
    BY ThreadOf DEF ChangeThreadPriority, FindThread
  <1>2. CASE threads[t].state = "Ready"
    <2> DEFINE r2 == ReadyRecord(r)
    <2>1. threads' = [threads EXCEPT ![t] = r2]
      BY <1>2 DEF ChangeThreadPriority
    <2>2. Alike(r, r2)
      BY <1>1, <1>2
      DEF Alike, ValidRecord, RecordValid, ThreadRecords, ReadyRecord, Blocked
    <2> HIDE DEF r, r2
    <2>3. Becomes(t, r)
      BY <1>1, <2>1, <2>2, SetBecomes, BecomesAlike
    <2> QED BY <2>3 DEF r
  <1>3. CASE threads[t].state # "Ready"
    <2>1. threads' = [threads EXCEPT ![t] = r]
      BY <1>1, <1>3 DEF ChangeThreadPriority
    <2> HIDE DEF r
    <2>2. Becomes(t, r)
      BY <1>1, <2>1, SetBecomes
    <2> QED BY <2>2 DEF r
  <1> QED BY <1>2, <1>3

-----------------------------------------------------------------------------
(* Who is current after a reschedule.                                       *)

\* No Ready thread is more urgent than the current one.
MostUrgent ==
    \A t \in DOMAIN threads :
        threads[t].state = "Ready" =>
          threads[currentThreadId].priority <= threads[t].priority

LEMMA NoPreemptUrgent ==
    ASSUME IInv, currentThreadId # NoThread, ~ ShouldPreempt("HigherPriorityOnly")
    PROVE  MostUrgent
  <1>1. /\ currentThreadId \in DOMAIN threads
        /\ threads[currentThreadId].priority \in Priorities
    BY ThreadOf DEF IInv, Good, Records, ThreadRecords
  <1>2. ASSUME NEW t \in DOMAIN threads, threads[t].state = "Ready"
        PROVE  threads[currentThreadId].priority <= threads[t].priority
    <2> DEFINE p == threads[t].priority
    <2>1. p \in Priorities
      BY ThreadOf DEF ThreadRecords
    <2>2. QueueHolds(threads, readyQueues[p], ReadySet(threads, p))
      BY <2>1 DEF IInv, Good, ReadyFamily
    <2>3. t \in ReadySet(threads, p)
      BY <1>2 DEF ReadySet
    <2>4. PICK i \in 1 .. Len(readyQueues[p]) : readyQueues[p][i].id = t
      BY <2>2, <2>3 DEF QueueHolds
    <2>5. readyQueues[p] # <<>>
      BY <2>4
    <2> HIDE DEF p
    <2>6. ~ (p < threads[currentThreadId].priority)
      BY <2>1, <2>5 DEF ShouldPreempt
    <2>7. p \in Nat /\ threads[currentThreadId].priority \in Nat
      BY <1>1, <2>1, ConstantsAssumption DEF Priorities
    <2> QED BY <2>6, <2>7 DEF p
  <1> QED BY <1>2 DEF MostUrgent

LEMMA PreemptUrgent ==
    ASSUME IInv, NEW policy, Preempt(policy)
    PROVE  MostUrgent' /\ currentThreadId' \in DOMAIN threads
  <1> DEFINE t == currentThreadId
             r == ReadyRecord(threads[t])
             ts == [threads EXCEPT ![t] = r]
  <1>1. /\ IInv' /\ Refilled(ts)
        /\ \E queues : TakeNextReady(ts, queues)
    BY RequeueStep DEF Preempt, RequeueCurrent
  <1>2. t \in DOMAIN threads /\ threads[t] \in ThreadRecords
    BY ThreadOf DEF Preempt, CurrentIsRunning
  <1>3. r \in ThreadRecords /\ r.state = "Ready"
    <2>1. nextQueueSequence \in Nat
      BY ConstantsAssumption DEF IInv, Good, Records
    <2> QED BY <1>2, <2>1 DEF ReadyRecord, ThreadRecords, States
  <1> HIDE DEF r
  <1>4. ts \in [DOMAIN ts -> ThreadRecords] /\ ts[t].state = "Ready"
        /\ DOMAIN ts = DOMAIN threads
    BY <1>2, <1>3, RecordOf
  <1> HIDE DEF ts
  <1>5. DOMAIN threads' = DOMAIN ts /\ \A u \in DOMAIN ts : Alike(ts[u], threads'[u])
    BY <1>1, <1>4, TakeSeen
  <1>6. currentThreadId' # NoThread
    <2>1. SUFFICES ASSUME currentThreadId' = NoThread PROVE FALSE
      OBVIOUS
    <2>2. t \in DOMAIN threads' /\ threads'[t].state # "Ready"
      BY <1>1, <1>2, <1>4, <1>5, <2>1 DEF Refilled
    <2>3. threads'[t].state # "Running"
      <3>1. \A u \in DOMAIN threads' : threads'[u].state = "Running" <=> u = NoThread
        BY <1>1, <2>1 DEF IInv, Good, Records
      <3>2. NoThread \notin DOMAIN threads'
        BY <1>1, ConstantsAssumption DEF IInv, Good, Records
      <3> QED BY <2>2, <3>1, <3>2
    <2>4. threads'[t].suspendCount = 0
      <3>1. ts[t].suspendCount = threads[t].suspendCount
        BY <1>2 DEF ts, r, ReadyRecord, ThreadRecords
      <3>2. threads[t].suspendCount = 0
        BY <1>2, ThreadOf DEF Preempt, CurrentIsRunning, ValidRecord, RecordValid
      <3> QED BY <1>2, <1>4, <1>5, <3>1, <3>2 DEF Alike
    <2>5. threads'[t].state \notin Blocked \cup {"Dormant"}
      BY <1>2, <1>4, <1>5 DEF Alike, Blocked
    <2>6. threads'[t] \in ThreadRecords /\ RecordValid(threads'[t])
      BY <1>1, <2>2 DEF IInv, Good, Records
    <2> QED BY <2>2, <2>3, <2>4, <2>5, <2>6 DEF RecordValid, ThreadRecords, States, Blocked
  <1>7. currentThreadId' \in DOMAIN threads'
    BY <1>1, <1>6 DEF IInv, Good, Records
  <1>8. threads'[currentThreadId'].priority = ts[currentThreadId'].priority
        /\ threads'[currentThreadId'].priority \in Nat
    <2>1. threads'[currentThreadId'] \in ThreadRecords
      BY <1>1, <1>7 DEF IInv, Good, Records
    <2> QED BY <1>5, <1>7, <2>1, ConstantsAssumption DEF Alike, ThreadRecords, Priorities
  <1>9. ASSUME NEW u \in DOMAIN threads', threads'[u].state = "Ready"
        PROVE  threads'[currentThreadId'].priority <= threads'[u].priority
    <2>1. threads'[u].priority \in Nat
      BY <1>1, ConstantsAssumption DEF IInv, Good, Records, ThreadRecords, Priorities
    <2> QED BY <1>1, <1>5, <1>6, <1>8, <1>9, <2>1 DEF Refilled
  <1> QED BY <1>4, <1>5, <1>7, <1>9 DEF MostUrgent

-----------------------------------------------------------------------------
(* A queue holds each of its threads once.                                  *)

LEMMA WaitersQueued ==
    ASSUME IInv, NEW w \in WaitKeys
    PROVE  /\ waitQueues[w] \in Seq(Handles)
           /\ {waitQueues[w][i].id : i \in 1 .. Len(waitQueues[w])}
                = WaitSet(threads, w)
           /\ \A i, j \in 1 .. Len(waitQueues[w]) :
                 waitQueues[w][i].id = waitQueues[w][j].id => i = j
  <1>1. QueueHolds(threads, waitQueues[w], WaitSet(threads, w))
    BY DEF IInv, Good, WaitFamily
  <1>2. Keyed(threads, WaitSet(threads, w))
    <2>1. \A t \in DOMAIN threads : threads[t].queueSequence \in Nat
      BY ThreadOf DEF ThreadRecords
    <2> QED BY <2>1 DEF Keyed, WaitSet
  <1>3. ASSUME NEW i \in 1 .. Len(waitQueues[w]), NEW j \in 1 .. Len(waitQueues[w]),
               waitQueues[w][i].id = waitQueues[w][j].id
        PROVE  i = j
    BY <1>1, <1>2, <1>3, QueueUnique
  <1>4. {waitQueues[w][i].id : i \in 1 .. Len(waitQueues[w])} = WaitSet(threads, w)
    BY <1>1 DEF QueueHolds
  <1> QED BY <1>1, <1>3, <1>4 DEF QueueHolds

LEMMA WaitersCounted ==
    ASSUME IInv, NEW w \in WaitKeys
    PROVE  /\ IsFiniteSet(WaitSet(threads, w))
           /\ Cardinality(WaitSet(threads, w)) = Len(waitQueues[w])
  <1> DEFINE n == Len(waitQueues[w])
             S == WaitSet(threads, w)
             f == [i \in 1 .. n |-> waitQueues[w][i].id]
  <1>1. n \in Nat
    BY WaitersQueued, LenProperties
  <1>2. /\ S = {waitQueues[w][i].id : i \in 1 .. n}
        /\ \A i, j \in 1 .. n : waitQueues[w][i].id = waitQueues[w][j].id => i = j
    BY WaitersQueued
  <1> HIDE DEF n, S
  <1>3. f \in Bijection(1 .. n, S)
    <2>1. f \in [1 .. n -> S] /\ \A i \in 1 .. n : f[i] = waitQueues[w][i].id
      BY <1>2
    <2>2. \A i, j \in 1 .. n : f[i] = f[j] => i = j
      BY <1>2, <2>1
    <2>3. \A t \in S : \E i \in 1 .. n : f[i] = t
      BY <1>2, <2>1
    <2> HIDE DEF f
    <2> QED BY <2>1, <2>2, <2>3 DEF Bijection, Injection, Surjection, IsInjective
  <1>4. ExistsBijection(1 .. n, S)
    BY <1>3 DEF ExistsBijection
  <1>5. IsFiniteSet(S) /\ Cardinality(S) = n
    BY <1>1, <1>4, FS_CountingElements, FS_NatBijection
  <1> QED BY <1>5 DEF n, S
=============================================================================
