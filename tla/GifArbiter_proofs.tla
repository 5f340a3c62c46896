-------------------------- MODULE GifArbiter_proofs --------------------------
(***************************************************************************)
(* The GIF arbiter loses and reorders nothing, and what the GS is handed    *)
(* respects the reserved places and the IMAGE transfers, for any chunks and *)
(* whole packets, any limit of a stream and any number of calls.            *)
(*                                                                          *)
(* Exact(a, w) is the invariant of the streams: w are the chunks of each    *)
(* path that are on their way to the arbiter a.  A word that arrives joins  *)
(* w, a submission moves the first chunk of w into the stream and a drain   *)
(* moves the complete packets to the GS; each keeps Exact.  Behind and      *)
(* Ahead say what a queued packet may rely on of those handed over before,  *)
(* so that a drain keeps the order of what was handed; Reached says the     *)
(* same of the chunks still held back, whether a mask holds them or not.    *)
(***************************************************************************)
EXTENDS GifArbiter, SequenceTheorems, WellFoundedInduction, TLAPS

-----------------------------------------------------------------------------
(* The invariant.                                                           *)

Words ==
    [size : Nat \ {0}, eop : BOOLEAN, image : BOOLEAN, hl : BOOLEAN,
     n : Nat, since : Nat]

Streams ==
    [data : Seq(Words), packetStart : Nat, parseOffset : Nat,
     path2DirectHl : BOOLEAN, packetContainsImage : BOOLEAN]

\* Only a packet of PATH2 came by DIRECTHL and only one of PATH3 is an IMAGE.
Labelled(packet) ==
    /\ packet.path2DirectHl => packet.path = 2
    /\ packet.path3Image => packet.path = 3

QueuedPackets ==
    [path : Paths, path2DirectHl : BOOLEAN, path3Image : BOOLEAN,
     offset : Nat, size : Nat \ {0}]

HandedPackets ==
    [path : Paths, path2DirectHl : BOOLEAN, path3Image : BOOLEAN,
     words : Seq(Words)]

Arbiters ==
    [streams : [Paths -> Streams], queue : Seq(QueuedPackets),
     reservations : Seq(Nat), arrived : Nat, lost : SUBSET Nat,
     handed : Seq(HandedPackets)]

\* The chunks on their way to each path.
Ways == [Paths -> Seq(Seq(Words))]

Shape(a) ==
    /\ a \in Arbiters
    /\ \A i \in DOMAIN a.queue : Labelled(a.queue[i])
    /\ \A i \in DOMAIN a.handed :
          Labelled(a.handed[i]) /\ a.handed[i].words # <<>>

End(packet) == packet.offset + packet.size

\* The parser cannot go on: the tag that comes next is not complete.
Stuck(s) ==
    \/ s.parseOffset = Len(s.data)
    \/ s.parseOffset + s.data[s.parseOffset + 1].size > Len(s.data)

\* The packets in the queue lie end to end up to packetStart.
Tiled(a) ==
    /\ \A i \in DOMAIN a.queue :
          LET q == a.queue[i] IN
          /\ q.offset = Consumed(a.queue, i - 1, q.path)
          /\ q.path2DirectHl =
                AnyHl(a.streams[q.path].data, q.offset, End(q))
    /\ \A p \in Paths :
          LET s == a.streams[p] IN
          /\ s.packetStart = Consumed(a.queue, Len(a.queue), p)
          /\ \A k \in 1 .. s.packetStart :
                \E i \in DOMAIN a.queue :
                    /\ a.queue[i].path = p
                    /\ a.queue[i].offset < k /\ k <= End(a.queue[i])

Parsing(a, p) ==
    LET s == a.streams[p] IN
    /\ s.packetStart <= s.parseOffset /\ s.parseOffset <= Len(s.data)
    /\ Len(s.data) <= MaxStream
    /\ s.packetStart < Len(s.data) =>
          s.path2DirectHl = AnyHl(s.data, s.packetStart, Len(s.data))

\* Only words of PATH2 came by DIRECTHL.
Plain(words) == \A k \in DOMAIN words : ~words[k].hl

Unmixed(a, w) ==
    \A p \in Paths \ {2} :
        /\ Plain(a.streams[p].data)
        /\ \A c \in DOMAIN w[p] : Plain(w[p][c])

Increasing(words) ==
    \A k, l \in DOMAIN words : k < l => words[k].n < words[l].n

Before(words, later) ==
    \A k \in DOMAIN words, l \in DOMAIN later : words[k].n < later[l].n

\* What was handed over of a path, before other words and in its order.
After(handed, p, words) ==
    \A i \in DOMAIN handed : handed[i].path = p => Before(handed[i].words, words)

Delivered(handed, p) ==
    \A i \in DOMAIN handed : handed[i].path = p =>
        /\ Increasing(handed[i].words)
        /\ \A j \in DOMAIN handed : i < j /\ handed[j].path = p =>
              Before(handed[i].words, handed[j].words)

InLine(chunks) ==
    \A c \in DOMAIN chunks :
        /\ chunks[c] # <<>>
        /\ Increasing(chunks[c])
        /\ \A d \in DOMAIN chunks : c < d => Before(chunks[c], chunks[d])

\* The words of a path are handed over, then in the stream, then on their way.
Ordered(a, w, p) ==
    /\ Delivered(a.handed, p)
    /\ Increasing(a.streams[p].data)
    /\ InLine(w[p])
    /\ After(a.handed, p, a.streams[p].data)
    /\ \A c \in DOMAIN w[p] :
          After(a.handed, p, w[p][c]) /\ Before(a.streams[p].data, w[p][c])

\* The numbers of the words that are on a path.
Gone(handed, p) ==
    UNION {Numbers(handed[i].words) :
              i \in {j \in DOMAIN handed : handed[j].path = p}}

Coming(chunks) == UNION {Numbers(chunks[c]) : c \in DOMAIN chunks}

Placed(a, w, p) ==
    Numbers(a.streams[p].data) \cup Gone(a.handed, p) \cup Coming(w[p])

\* Every word is lost or on one path.
Kept(a, w) ==
    /\ 1 .. a.arrived = a.lost \cup UNION {Placed(a, w, p) : p \in Paths}
    /\ \A p \in Paths :
          /\ Placed(a, w, p) \cap a.lost = {}
          /\ \A q \in Paths \ {p} : Placed(a, w, p) \cap Placed(a, w, q) = {}

Exact(a, w) ==
    /\ Shape(a) /\ w \in Ways
    /\ Tiled(a)
    /\ \A p \in Paths : Parsing(a, p) /\ Stuck(a.streams[p])
    /\ Unmixed(a, w)
    /\ \A p \in Paths : Ordered(a, w, p)
    /\ Kept(a, w)

-----------------------------------------------------------------------------
(* What was handed over, and what the queue may rely on of it.              *)

PlaceKept(handed) ==
    \A i, j \in DOMAIN handed :
        i < j /\ handed[i].path # 1 /\ handed[j].path = 1 =>
            \A k \in DOMAIN handed[i].words, l \in DOMAIN handed[j].words :
                handed[i].words[k].n < handed[j].words[l].since

ImageKept(handed) ==
    \A i, j \in DOMAIN handed :
        i < j /\ handed[i].path2DirectHl /\ handed[j].path3Image =>
            Last(handed[i].words).since <= Last(handed[j].words).n

\* A packet of PATH3 was not complete, or was held back, when what PATH2 was
\* handed was admitted.
Behind(a) ==
    \A i \in DOMAIN a.handed, j \in DOMAIN a.queue :
        a.handed[i].path = 2 /\ a.queue[j].path = 3 =>
            \A k \in DOMAIN a.handed[i].words :
                a.handed[i].words[k].since <=
                    a.streams[3].data[End(a.queue[j])].n

\* What the other paths were handed is older than the place of PATH1.
Ahead(a) ==
    \A i \in DOMAIN a.handed, l \in DOMAIN a.streams[1].data :
        a.handed[i].path # 1 =>
            \A k \in DOMAIN a.handed[i].words :
                a.handed[i].words[k].n < a.streams[1].data[l].since

\* All that was handed over arrived before a moment.
HandedBefore(a, moment) ==
    \A i \in DOMAIN a.handed : \A k \in DOMAIN a.handed[i].words :
        a.handed[i].words[k].n < moment

\* PATH2 never shares the queue with another path, so that the comparator of
\* the sort, which is no order in general, is only asked about paths.
Apart(a) ==
    \/ \A j \in DOMAIN a.queue : a.queue[j].path # 2
    \/ \A j \in DOMAIN a.queue : a.queue[j].path = 2

InPlace(a) ==
    /\ Apart(a) /\ Behind(a) /\ Ahead(a)
    /\ PlaceKept(a.handed) /\ ImageKept(a.handed)

\* The words of PATH2 that were handed over or wait for the end of a packet.
Path2Words(a) ==
    Range(a.streams[2].data)
      \cup UNION {Range(a.handed[i].words) :
                     i \in {j \in DOMAIN a.handed : a.handed[j].path = 2}}

\* An arrival that may be handed over behind all of PATH2 so far.
Reach(a, n) == \A v \in Path2Words(a) : v.since <= n

Recent(a, chunk) == \A l \in DOMAIN chunk : Reach(a, chunk[l].n)

\* What is held back, and whatever arrives, may be.
Reached(a, chunks) ==
    /\ Reach(a, a.arrived)
    /\ \A c \in DOMAIN chunks : Recent(a, chunks[c])

Waiting(chunks) == [p \in Paths |-> IF p = 3 THEN chunks ELSE <<>>]

ScalarsOK ==
    /\ nextToken \in 1 .. MaxInvocations + 1
    /\ pending \in 0 .. nextToken - 1
    /\ {vifMask, modeMask, stopped} \subseteq BOOLEAN
    /\ controls \in 0 .. MaxControls
    /\ reservedAt \in Nat

GInv ==
    /\ ScalarsOK
    /\ Exact(arbiter, Waiting(fifo))
    /\ InPlace(arbiter)
    /\ arbiter.arrived <= MaxWords
    /\ arbiter.streams[1].data = <<>>
    /\ \A j \in DOMAIN arbiter.queue : arbiter.queue[j].path = 3
    /\ arbiter.reservations = <<>> /\ ~stopped => arbiter.queue = <<>>
    /\ arbiter.reservations # <<>> =>
          /\ arbiter.reservations = <<pending>> /\ pending # 0
          /\ reservedAt # 0 /\ HandedBefore(arbiter, reservedAt)
    /\ Reached(arbiter, fifo)

-----------------------------------------------------------------------------
(* Numbers and sequences.                                                   *)

\* Every set of natural numbers has a least one.
LEMMA LeastNatural ==
    ASSUME NEW T \in SUBSET Nat, T # {}
    PROVE  \E x \in T : \A y \in T : x <= y
  <1> DEFINE R == {pair \in Nat \X Nat : pair[1] < pair[2]}
  <1>1. IsWellFoundedOn(R, Nat)
    BY NatLessThanWellFounded DEF OpToRel
  <1>2. \A a, b \in Nat : a < b => <<a, b>> \in R
    OBVIOUS
  <1> HIDE DEF R
  <1>3. PICK x \in T : \A y \in T : ~ (<<y, x>> \in R)
    BY <1>1, WFMin
  <1>4. \A y \in T : ~ (y < x)
    BY <1>2, <1>3
  <1> QED BY <1>4


\* A set of the first numbers that holds zero and the next of each holds all.
LEMMA FirstNumbers ==
    ASSUME NEW n \in Nat, NEW T \in SUBSET (0 .. n), 0 \in T,
           \A k \in 1 .. n : k - 1 \in T => k \in T
    PROVE  T = 0 .. n
  <1> DEFINE Bad == (0 .. n) \ T
  <1>1. SUFFICES ASSUME Bad # {} PROVE FALSE
    OBVIOUS
  <1>2. PICK k \in Bad : \A m \in Bad : k <= m
    <2>1. Bad \in SUBSET Nat
      OBVIOUS
    <2> HIDE DEF Bad
    <2> QED BY <1>1, <2>1, LeastNatural
  <1>3. k \in 1 .. n /\ k - 1 \in 0 .. n /\ k - 1 \in Nat
    BY <1>2
  <1>4. k - 1 \in T
    BY <1>2, <1>3
  <1> QED BY <1>2, <1>3, <1>4

\* The greater of two numbers, and of the numbers of a set that has one.
LEMMA MaxIs ==
    ASSUME NEW S \in SUBSET Nat, NEW m \in S, \A k \in S : k <= m
    PROVE  Max(S) = m
  <1>1. \A x \in S : (\A y \in S : x >= y) => x = m
    BY DEF Max
  <1>2. \A y \in S : m >= y
    OBVIOUS
  <1> QED BY <1>1, <1>2 DEF Max

LEMMA FurtherOn == \A x \in Nat, y \in Nat \ {0} : x + y \in Nat /\ x < x + y
  OBVIOUS

LEMMA SeqParts ==
    ASSUME NEW S, NEW s \in Seq(S)
    PROVE  /\ Len(s) \in Nat
           /\ DOMAIN s = 1 .. Len(s)
           /\ \A i \in 1 .. Len(s) : s[i] \in S
           /\ s = <<>> <=> Len(s) = 0
  BY LenProperties, ElementOfSeq, EmptySeq

LEMMA QueueParts ==
    ASSUME NEW queue \in Seq(QueuedPackets)
    PROVE  /\ Len(queue) \in Nat
           /\ DOMAIN queue = 1 .. Len(queue)
           /\ queue = <<>> <=> Len(queue) = 0
           /\ \A i \in 1 .. Len(queue) :
                 /\ queue[i] \in QueuedPackets
                 /\ queue[i].path \in Paths
                 /\ queue[i].offset \in Nat /\ queue[i].size \in Nat \ {0}
                 /\ End(queue[i]) \in Nat /\ queue[i].offset < End(queue[i])
  <1>1. \A i \in 1 .. Len(queue) : queue[i] \in QueuedPackets
    BY SeqParts
  <1>2. \A q \in QueuedPackets :
            /\ q.path \in Paths
            /\ q.offset \in Nat /\ q.size \in Nat \ {0}
            /\ End(q) \in Nat /\ q.offset < End(q)
    BY DEF QueuedPackets, End
  <1> QED BY <1>1, <1>2, SeqParts

LEMMA WordParts ==
    ASSUME NEW words \in Seq(Words)
    PROVE  /\ Len(words) \in Nat
           /\ DOMAIN words = 1 .. Len(words)
           /\ words = <<>> <=> Len(words) = 0
           /\ \A i \in 1 .. Len(words) :
                 /\ words[i] \in Words
                 /\ words[i].n \in Nat /\ words[i].since \in Nat
                 /\ words[i].size \in Nat \ {0}
                 /\ {words[i].eop, words[i].image, words[i].hl} \subseteq BOOLEAN
  <1>1. \A i \in 1 .. Len(words) : words[i] \in Words
    BY SeqParts
  <1>2. \A w \in Words :
            /\ w.n \in Nat /\ w.since \in Nat /\ w.size \in Nat \ {0}
            /\ {w.eop, w.image, w.hl} \subseteq BOOLEAN
    BY DEF Words
  <1> QED BY <1>1, <1>2, SeqParts

\* The ends of the packets of a path among the first n.
Ends(queue, n, p) ==
    {0} \cup {queue[i].offset + queue[i].size :
                 i \in {j \in 1 .. n : queue[j].path = p}}

LEMMA ConsumedNone ==
    ASSUME NEW queue, NEW p
    PROVE  Consumed(queue, 0, p) = 0
  <1>1. Ends(queue, 0, p) = {0}
    BY DEF Ends
  <1>2. Max({0}) = 0
    BY MaxIs
  <1> QED BY <1>1, <1>2 DEF Consumed, Ends

\* Consumed is the last of the ends, whatever the packets.
ConsumedIs(queue, n, p) ==
    /\ Consumed(queue, n, p) \in Nat
    /\ \A i \in 1 .. n : queue[i].path = p => End(queue[i]) <= Consumed(queue, n, p)
    /\ \/ Consumed(queue, n, p) = 0
       \/ \E i \in 1 .. n : queue[i].path = p /\ End(queue[i]) = Consumed(queue, n, p)

LEMMA ConsumedFrom ==
    ASSUME NEW queue \in Seq(QueuedPackets), NEW n \in 0 .. Len(queue), NEW p,
           NEW c \in Nat,
           \A i \in 1 .. n : queue[i].path = p => End(queue[i]) <= c,
           c = 0 \/ \E i \in 1 .. n : queue[i].path = p /\ End(queue[i]) = c
    PROVE  Consumed(queue, n, p) = c
  <1>1. \A i \in 1 .. n : queue[i] \in QueuedPackets
    BY QueueParts
  <1>2. Ends(queue, n, p) \in SUBSET Nat
    <2>1. \A i \in 1 .. n : queue[i].offset + queue[i].size \in Nat
      BY <1>1 DEF QueuedPackets
    <2> QED BY <2>1 DEF Ends
  <1>3. c \in Ends(queue, n, p)
    BY DEF Ends, End
  <1>4. \A k \in Ends(queue, n, p) : k <= c
    BY DEF Ends, End
  <1>5. Max(Ends(queue, n, p)) = c
    BY <1>2, <1>3, <1>4, MaxIs
  <1> QED BY <1>5 DEF Consumed, Ends

LEMMA ConsumedNext ==
    ASSUME NEW queue \in Seq(QueuedPackets), NEW n \in 1 .. Len(queue), NEW p,
           ConsumedIs(queue, n - 1, p)
    PROVE  /\ ConsumedIs(queue, n, p)
           /\ Consumed(queue, n, p) =
                 IF queue[n].path = p /\ End(queue[n]) > Consumed(queue, n - 1, p)
                 THEN End(queue[n]) ELSE Consumed(queue, n - 1, p)
  <1> DEFINE before == Consumed(queue, n - 1, p)
             c == IF queue[n].path = p /\ End(queue[n]) > before
                  THEN End(queue[n]) ELSE before
  <1>1. End(queue[n]) \in Nat /\ n \in Nat /\ n \in 0 .. Len(queue)
    BY QueueParts
  <1>2. before \in Nat
    BY DEF ConsumedIs
  <1>3. c \in Nat
    BY <1>1, <1>2
  <1>4. \A i \in 1 .. n : queue[i].path = p => End(queue[i]) <= c
    <2> SUFFICES ASSUME NEW i \in 1 .. n, queue[i].path = p
                 PROVE  End(queue[i]) <= c
      OBVIOUS
    <2>1. CASE i = n
      BY <2>1, <1>1, <1>2
    <2>2. CASE i # n
      <3>1. i \in 1 .. n - 1
        BY <2>2, <1>1
      <3>2. End(queue[i]) <= before
        BY <3>1 DEF ConsumedIs
      <3>3. End(queue[i]) \in Nat
        BY QueueParts
      <3>4. before <= c
        BY <1>1, <1>2
      <3> HIDE DEF before, c
      <3> QED BY <3>2, <3>3, <3>4, <1>2, <1>3
    <2> QED BY <2>1, <2>2
  <1>5. c = 0 \/ \E i \in 1 .. n : queue[i].path = p /\ End(queue[i]) = c
    <2>1. CASE c = before
      <3>1. before = 0 \/ \E i \in 1 .. n - 1 : queue[i].path = p /\ End(queue[i]) = before
        BY DEF ConsumedIs
      <3> HIDE DEF before, c
      <3> QED BY <2>1, <3>1, <1>1
    <2>2. CASE c # before
      BY <2>2, <1>1
    <2> QED BY <2>1, <2>2
  <1> HIDE DEF c, before
  <1>6. Consumed(queue, n, p) = c
    BY <1>1, <1>3, <1>4, <1>5, ConsumedFrom
  <1> QED BY <1>3, <1>4, <1>5, <1>6 DEF ConsumedIs, c, before

LEMMA ConsumedAlways ==
    ASSUME NEW queue \in Seq(QueuedPackets), NEW n \in 0 .. Len(queue), NEW p
    PROVE  ConsumedIs(queue, n, p)
  <1> DEFINE T == {k \in 0 .. n : ConsumedIs(queue, k, p)}
  <1>1. 0 \in T
    BY ConsumedNone DEF ConsumedIs
  <1>2. ASSUME NEW k \in 1 .. n, k - 1 \in T PROVE k \in T
    <2>1. k \in 1 .. Len(queue) /\ ConsumedIs(queue, k - 1, p)
      BY <1>2, SeqParts
    <2>2. ConsumedIs(queue, k, p)
      BY <2>1, ConsumedNext
    <2> QED BY <2>2
  <1>3. T \in SUBSET (0 .. n) /\ n \in Nat
    BY SeqParts
  <1> HIDE DEF T
  <1>4. T = 0 .. n
    BY <1>1, <1>2, <1>3, FirstNumbers
  <1>5. n \in T
    BY <1>3, <1>4
  <1> QED BY <1>5 DEF T

\* Only the first packets count.
LEMMA ConsumedSame ==
    ASSUME NEW queue, NEW longer, NEW n \in Nat, NEW p,
           \A i \in 1 .. n : queue[i] = longer[i]
    PROVE  Consumed(queue, n, p) = Consumed(longer, n, p)
  <1>1. Ends(queue, n, p) = Ends(longer, n, p)
    BY DEF Ends
  <1> QED BY <1>1 DEF Consumed, Ends

LEMMA ConsumedAppend ==
    ASSUME NEW queue \in Seq(QueuedPackets), NEW packet \in QueuedPackets,
           NEW k \in 0 .. Len(queue), NEW p
    PROVE  Consumed(Append(queue, packet), k, p) = Consumed(queue, k, p)
  <1> DEFINE longer == Append(queue, packet)
  <1>1. k \in Nat /\ \A i \in 1 .. k : i \in 1 .. Len(queue)
    BY QueueParts
  <1>2. \A i \in 1 .. Len(queue) : queue[i] = longer[i]
    BY AppendProperties
  <1> HIDE DEF longer
  <1>3. \A i \in 1 .. k : queue[i] = longer[i]
    BY <1>1, <1>2
  <1>4. Consumed(queue, k, p) = Consumed(longer, k, p)
    BY <1>1, <1>3, ConsumedSame
  <1> QED BY <1>4 DEF longer

LEMMA PacketParts ==
    ASSUME NEW packet \in QueuedPackets
    PROVE  /\ packet.path \in Paths /\ packet.path2DirectHl \in BOOLEAN
           /\ packet.path3Image \in BOOLEAN
           /\ packet.offset \in Nat /\ packet.size \in Nat \ {0}
           /\ End(packet) \in Nat /\ packet.offset < End(packet)
  BY FurtherOn DEF QueuedPackets, End

-----------------------------------------------------------------------------
(* The loops: what they leave, turn by turn.                                *)

\* The arbiter after each turn of the parse loop.
ParsedRun(turn, a, path, hl, n) ==
    /\ turn = [k \in 0 .. n |-> turn[k]]
    /\ turn[0] = a
    /\ \A k \in 1 .. n : turn[k] = ParseTag(turn[k - 1], path, hl)

LEMMA ParsedRunExists ==
    ASSUME NEW a, NEW path, NEW hl, NEW n \in Nat
    PROVE  \E turn : ParsedRun(turn, a, path, hl, n)
  <1> DEFINE T == {k \in 0 .. n : \E turn : ParsedRun(turn, a, path, hl, k)}
  <1>1. 0 \in T
    <2>1. ParsedRun([k \in 0 .. 0 |-> a], a, path, hl, 0)
      BY DEF ParsedRun
    <2> QED BY <2>1
  <1>2. ASSUME NEW m \in 1 .. n, m - 1 \in T PROVE m \in T
    <2>1. PICK turn : ParsedRun(turn, a, path, hl, m - 1)
      BY <1>2
    <2> DEFINE next == [k \in 0 .. m |->
                           IF k = m THEN ParseTag(turn[m - 1], path, hl) ELSE turn[k]]
    <2>2. next[0] = a
      BY <2>1 DEF ParsedRun
    <2>3. ASSUME NEW k \in 1 .. m
          PROVE  next[k] = ParseTag(next[k - 1], path, hl)
      <3>1. CASE k = m
        BY <3>1
      <3>2. CASE k # m
        <4>1. k \in 1 .. m - 1 /\ k - 1 # m /\ k - 1 \in 0 .. m
          BY <3>2
        <4>2. next[k] = turn[k] /\ next[k - 1] = turn[k - 1]
          BY <3>2, <4>1
        <4>3. turn[k] = ParseTag(turn[k - 1], path, hl)
          BY <2>1, <4>1 DEF ParsedRun
        <4> QED BY <4>2, <4>3
      <3> QED BY <3>1, <3>2
    <2>4. next = [k \in 0 .. m |-> next[k]]
      OBVIOUS
    <2> HIDE DEF next
    <2>5. ParsedRun(next, a, path, hl, m)
      BY <2>2, <2>3, <2>4 DEF ParsedRun
    <2> QED BY <2>5
  <1> HIDE DEF T
  <1>3. T \in SUBSET (0 .. n)
    BY DEF T
  <1>4. T = 0 .. n
    BY <1>1, <1>2, <1>3, FirstNumbers
  <1>5. n \in T
    BY <1>4
  <1> QED BY <1>5 DEF T

LEMMA ParsedIs ==
    ASSUME NEW a, NEW path, NEW hl, NEW n \in Nat
    PROVE  \E turn :
              /\ ParsedRun(turn, a, path, hl, n)
              /\ Parsed(a, path, hl, n) = turn[n]
  <1> DEFINE Defines(f) ==
               f = [k \in 0 .. n |->
                       IF k = 0 THEN a ELSE ParseTag(f[k - 1], path, hl)]
             f == CHOOSE g : Defines(g)
  <1>1. n \in Nat
    OBVIOUS
  <1>2. PICK turn : ParsedRun(turn, a, path, hl, n)
    BY <1>1, ParsedRunExists
  <1>3. Defines(turn)
    <2>1. \A k \in 0 .. n :
            turn[k] = IF k = 0 THEN a ELSE ParseTag(turn[k - 1], path, hl)
      <3> TAKE k \in 0 .. n
      <3>1. CASE k = 0
        BY <1>2, <3>1 DEF ParsedRun
      <3>2. CASE k # 0
        <4>1. k \in 1 .. n
          BY <1>1, <3>2
        <4> QED BY <1>2, <3>2, <4>1 DEF ParsedRun
      <3> QED BY <3>1, <3>2
    <2> QED BY <1>2, <2>1 DEF ParsedRun
  <1>4. Defines(f)
    BY <1>3
  <1>5. Parsed(a, path, hl, n) = f[n]
    BY DEF Parsed
  <1>6. ParsedRun(f, a, path, hl, n)
    <2> HIDE DEF f
    <2>1. f[0] = a
      BY <1>1, <1>4
    <2>2. ASSUME NEW k \in 1 .. n
          PROVE  f[k] = ParseTag(f[k - 1], path, hl)
      <3>1. k \in 0 .. n /\ k # 0
        BY <1>1
      <3> QED BY <1>4, <3>1
    <2>3. f = [k \in 0 .. n |-> f[k]]
      BY <1>4
    <2> QED BY <2>1, <2>2, <2>3 DEF ParsedRun
  <1> QED BY <1>5, <1>6

\* The queue after each packet is put in its place.
SortedRun(sorted, queue, n) ==
    /\ sorted = [k \in 0 .. n |-> sorted[k]]
    /\ sorted[0] = <<>>
    /\ \A k \in 1 .. n : sorted[k] = Insert(sorted[k - 1], queue[k])

LEMMA SortedRunExists ==
    ASSUME NEW queue, NEW n \in Nat
    PROVE  \E sorted : SortedRun(sorted, queue, n)
  <1> DEFINE T == {k \in 0 .. n : \E sorted : SortedRun(sorted, queue, k)}
  <1>1. 0 \in T
    <2>1. SortedRun([k \in 0 .. 0 |-> <<>>], queue, 0)
      BY DEF SortedRun
    <2> QED BY <2>1
  <1>2. ASSUME NEW m \in 1 .. n, m - 1 \in T PROVE m \in T
    <2>1. PICK sorted : SortedRun(sorted, queue, m - 1)
      BY <1>2
    <2> DEFINE next == [k \in 0 .. m |->
                           IF k = m THEN Insert(sorted[m - 1], queue[m]) ELSE sorted[k]]
    <2>2. next[0] = <<>>
      BY <2>1 DEF SortedRun
    <2>3. ASSUME NEW k \in 1 .. m
          PROVE  next[k] = Insert(next[k - 1], queue[k])
      <3>1. CASE k = m
        BY <3>1
      <3>2. CASE k # m
        <4>1. k \in 1 .. m - 1 /\ k - 1 # m /\ k - 1 \in 0 .. m
          BY <3>2
        <4>2. next[k] = sorted[k] /\ next[k - 1] = sorted[k - 1]
          BY <3>2, <4>1
        <4>3. sorted[k] = Insert(sorted[k - 1], queue[k])
          BY <2>1, <4>1 DEF SortedRun
        <4> QED BY <4>2, <4>3
      <3> QED BY <3>1, <3>2
    <2>4. next = [k \in 0 .. m |-> next[k]]
      OBVIOUS
    <2> HIDE DEF next
    <2>5. SortedRun(next, queue, m)
      BY <2>2, <2>3, <2>4 DEF SortedRun
    <2> QED BY <2>5
  <1> HIDE DEF T
  <1>3. T \in SUBSET (0 .. n)
    BY DEF T
  <1>4. T = 0 .. n
    BY <1>1, <1>2, <1>3, FirstNumbers
  <1>5. n \in T
    BY <1>4
  <1> QED BY <1>5 DEF T

LEMMA SortedIs ==
    ASSUME NEW queue, Len(queue) \in Nat
    PROVE  \E sorted :
              /\ SortedRun(sorted, queue, Len(queue))
              /\ Sorted(queue) = sorted[Len(queue)]
  <1> DEFINE Defines(f) ==
               f = [k \in 0 .. Len(queue) |->
                       IF k = 0 THEN <<>> ELSE Insert(f[k - 1], queue[k])]
             f == CHOOSE g : Defines(g)
  <1>1. Len(queue) \in Nat
    OBVIOUS
  <1>2. PICK sorted : SortedRun(sorted, queue, Len(queue))
    BY <1>1, SortedRunExists
  <1>3. Defines(sorted)
    <2>1. \A k \in 0 .. Len(queue) :
            sorted[k] = IF k = 0 THEN <<>> ELSE Insert(sorted[k - 1], queue[k])
      <3> TAKE k \in 0 .. Len(queue)
      <3>1. CASE k = 0
        BY <1>2, <3>1 DEF SortedRun
      <3>2. CASE k # 0
        <4>1. k \in 1 .. Len(queue)
          BY <1>1, <3>2
        <4> QED BY <1>2, <3>2, <4>1 DEF SortedRun
      <3> QED BY <3>1, <3>2
    <2> QED BY <1>2, <2>1 DEF SortedRun
  <1>4. Defines(f)
    BY <1>3
  <1>5. Sorted(queue) = f[Len(queue)]
    BY DEF Sorted
  <1>6. SortedRun(f, queue, Len(queue))
    <2> HIDE DEF f
    <2>1. f[0] = <<>>
      BY <1>1, <1>4
    <2>2. ASSUME NEW k \in 1 .. Len(queue)
          PROVE  f[k] = Insert(f[k - 1], queue[k])
      <3>1. k \in 0 .. Len(queue) /\ k # 0
        BY <1>1
      <3> QED BY <1>4, <3>1
    <2>3. f = [k \in 0 .. Len(queue) |-> f[k]]
      BY <1>4
    <2> QED BY <2>1, <2>2, <2>3 DEF SortedRun
  <1> QED BY <1>5, <1>6

\* A held transfer is given to PATH3.
Flush(a, chunk) == Submit(a, 3, chunk, FALSE)

\* The arbiter after each of the held transfers.
FlushedRun(flushed, a, chunks, n) ==
    /\ flushed = [k \in 0 .. n |-> flushed[k]]
    /\ flushed[0] = a
    /\ \A k \in 1 .. n : flushed[k] = Flush(flushed[k - 1], chunks[k])

LEMMA FlushedRunExists ==
    ASSUME NEW a, NEW chunks, NEW n \in Nat
    PROVE  \E flushed : FlushedRun(flushed, a, chunks, n)
  <1> DEFINE T == {k \in 0 .. n : \E flushed : FlushedRun(flushed, a, chunks, k)}
  <1>1. 0 \in T
    <2>1. FlushedRun([k \in 0 .. 0 |-> a], a, chunks, 0)
      BY DEF FlushedRun
    <2> QED BY <2>1
  <1>2. ASSUME NEW m \in 1 .. n, m - 1 \in T PROVE m \in T
    <2>1. PICK flushed : FlushedRun(flushed, a, chunks, m - 1)
      BY <1>2
    <2> DEFINE next == [k \in 0 .. m |->
                           IF k = m THEN Flush(flushed[m - 1], chunks[m]) ELSE flushed[k]]
    <2>2. next[0] = a
      BY <2>1 DEF FlushedRun
    <2>3. ASSUME NEW k \in 1 .. m
          PROVE  next[k] = Flush(next[k - 1], chunks[k])
      <3>1. CASE k = m
        BY <3>1
      <3>2. CASE k # m
        <4>1. k \in 1 .. m - 1 /\ k - 1 # m /\ k - 1 \in 0 .. m
          BY <3>2
        <4>2. next[k] = flushed[k] /\ next[k - 1] = flushed[k - 1]
          BY <3>2, <4>1
        <4>3. flushed[k] = Flush(flushed[k - 1], chunks[k])
          BY <2>1, <4>1 DEF FlushedRun
        <4> QED BY <4>2, <4>3
      <3> QED BY <3>1, <3>2
    <2>4. next = [k \in 0 .. m |-> next[k]]
      OBVIOUS
    <2> HIDE DEF next
    <2>5. FlushedRun(next, a, chunks, m)
      BY <2>2, <2>3, <2>4 DEF FlushedRun
    <2> QED BY <2>5
  <1> HIDE DEF T
  <1>3. T \in SUBSET (0 .. n)
    BY DEF T
  <1>4. T = 0 .. n
    BY <1>1, <1>2, <1>3, FirstNumbers
  <1>5. n \in T
    BY <1>4
  <1> QED BY <1>5 DEF T

LEMMA FlushedIs ==
    ASSUME NEW a, NEW chunks, chunks = fifo, Len(chunks) \in Nat
    PROVE  \E flushed :
              /\ FlushedRun(flushed, a, chunks, Len(chunks))
              /\ FlushMaskedPath3Packets(a) = flushed[Len(chunks)]
  <1> DEFINE Defines(f) ==
               f = [k \in 0 .. Len(chunks) |->
                       IF k = 0 THEN a ELSE Flush(f[k - 1], chunks[k])]
             f == CHOOSE g : Defines(g)
  <1>1. Len(chunks) \in Nat
    OBVIOUS
  <1>2. PICK flushed : FlushedRun(flushed, a, chunks, Len(chunks))
    BY <1>1, FlushedRunExists
  <1>3. Defines(flushed)
    <2>1. \A k \in 0 .. Len(chunks) :
            flushed[k] = IF k = 0 THEN a ELSE Flush(flushed[k - 1], chunks[k])
      <3> TAKE k \in 0 .. Len(chunks)
      <3>1. CASE k = 0
        BY <1>2, <3>1 DEF FlushedRun
      <3>2. CASE k # 0
        <4>1. k \in 1 .. Len(chunks)
          BY <1>1, <3>2
        <4> QED BY <1>2, <3>2, <4>1 DEF FlushedRun
      <3> QED BY <3>1, <3>2
    <2> QED BY <1>2, <2>1 DEF FlushedRun
  <1>4. Defines(f)
    BY <1>3
  <1>5. FlushMaskedPath3Packets(a) = f[Len(chunks)]
    BY DEF FlushMaskedPath3Packets, Flush
  <1>6. FlushedRun(f, a, chunks, Len(chunks))
    <2> HIDE DEF f
    <2>1. f[0] = a
      BY <1>1, <1>4
    <2>2. ASSUME NEW k \in 1 .. Len(chunks)
          PROVE  f[k] = Flush(f[k - 1], chunks[k])
      <3>1. k \in 0 .. Len(chunks) /\ k # 0
        BY <1>1
      <3> QED BY <1>4, <3>1
    <2>3. f = [k \in 0 .. Len(chunks) |-> f[k]]
      BY <1>4
    <2> QED BY <2>1, <2>2, <2>3 DEF FlushedRun
  <1> QED BY <1>5, <1>6

-----------------------------------------------------------------------------
(* A turn of the parse loop.                                                *)

LEMMA StreamParts ==
    ASSUME NEW a, Shape(a), NEW p \in Paths
    PROVE  LET s == a.streams[p] IN
           /\ s \in Streams
           /\ s.data \in Seq(Words)
           /\ s.packetStart \in Nat /\ s.parseOffset \in Nat
           /\ s.path2DirectHl \in BOOLEAN /\ s.packetContainsImage \in BOOLEAN
  <1>1. a.streams[p] \in Streams
    BY DEF Shape, Arbiters
  <1> QED BY <1>1 DEF Streams

LEMMA ArbiterParts ==
    ASSUME NEW a, Shape(a)
    PROVE  /\ a.streams \in [Paths -> Streams]
           /\ a.queue \in Seq(QueuedPackets)
           /\ a.reservations \in Seq(Nat)
           /\ a.arrived \in Nat
           /\ a.lost \in SUBSET Nat
           /\ a.handed \in Seq(HandedPackets)
  BY DEF Shape, Arbiters

\* The tag that comes next, and where its payload ends.
NextEnd(s) == s.parseOffset + s.data[s.parseOffset + 1].size

LEMMA TagIncomplete ==
    ASSUME NEW b, Shape(b), NEW path \in Paths, NEW hl,
           Stuck(b.streams[path])
    PROVE  ParseTag(b, path, hl) = b
  BY DEF ParseTag, Stuck

\* Between two arbiters only the queue and the stream of a path differ.
SameBut(b, r, path) ==
    /\ r.arrived = b.arrived /\ r.lost = b.lost /\ r.handed = b.handed
    /\ r.reservations = b.reservations
    /\ \A p \in Paths : r.streams[p].data = b.streams[p].data
    /\ \A p \in Paths \ {path} : r.streams[p] = b.streams[p]

LEMMA NextTag ==
    ASSUME NEW b, Shape(b), NEW path \in Paths,
           Parsing(b, path), ~Stuck(b.streams[path])
    PROVE  LET s == b.streams[path] IN
           /\ s.parseOffset + 1 \in 1 .. Len(s.data)
           /\ s.data[s.parseOffset + 1] \in Words
           /\ s.data[s.parseOffset + 1].eop \in BOOLEAN
           /\ s.data[s.parseOffset + 1].image \in BOOLEAN
           /\ NextEnd(s) \in Nat
           /\ s.parseOffset < NextEnd(s) /\ NextEnd(s) <= Len(s.data)
  <1> DEFINE s == b.streams[path]
  <1>1. /\ s.data \in Seq(Words) /\ Len(s.data) \in Nat
        /\ s.parseOffset \in Nat /\ s.packetStart \in Nat
    BY StreamParts, WordParts
  <1>2. /\ s.packetStart <= s.parseOffset /\ s.parseOffset <= Len(s.data)
        /\ s.parseOffset # Len(s.data)
        /\ ~(NextEnd(s) > Len(s.data))
    BY DEF Parsing, Stuck, NextEnd
  <1> HIDE DEF s
  <1>3. s.parseOffset + 1 \in 1 .. Len(s.data)
    BY <1>1, <1>2
  <1>4. /\ s.data[s.parseOffset + 1] \in Words
        /\ s.data[s.parseOffset + 1].size \in Nat \ {0}
        /\ s.data[s.parseOffset + 1].eop \in BOOLEAN
        /\ s.data[s.parseOffset + 1].image \in BOOLEAN
    BY <1>1, <1>3, WordParts
  <1>5. NextEnd(s) \in Nat /\ s.parseOffset < NextEnd(s)
    BY <1>1, <1>4, FurtherOn DEF NextEnd
  <1> QED BY <1>1, <1>2, <1>3, <1>4, <1>5 DEF s

LEMMA TagContinues ==
    ASSUME NEW b, Shape(b), NEW path \in Paths, NEW hl \in BOOLEAN,
           NEW s, s = b.streams[path], Parsing(b, path), ~Stuck(s),
           ~s.data[s.parseOffset + 1].eop,
           NEW r, r = ParseTag(b, path, hl)
    PROVE  /\ Shape(r) /\ SameBut(b, r, path)
           /\ r.queue = b.queue
           /\ r.streams[path].packetStart = s.packetStart
           /\ r.streams[path].parseOffset = NextEnd(s)
           /\ r.streams[path].path2DirectHl = s.path2DirectHl
  <1> DEFINE image == s.packetContainsImage \/ s.data[s.parseOffset + 1].image
             t == [s EXCEPT !.parseOffset = NextEnd(s),
                            !.packetContainsImage = image]
  <1>1. s \in Streams /\ NextEnd(s) \in Nat /\ image \in BOOLEAN
    BY NextTag, StreamParts
  <1>2. /\ t \in Streams /\ t.data = s.data /\ t.packetStart = s.packetStart
        /\ t.parseOffset = NextEnd(s) /\ t.path2DirectHl = s.path2DirectHl
    <2> HIDE DEF image
    <2> QED BY <1>1 DEF Streams
  <1>3. b \in Arbiters
    BY DEF Shape
  <1>4. r = [b EXCEPT !.streams = [b.streams EXCEPT ![path] = t]]
    <2>1. r = [b EXCEPT !.streams[path] = t]
      BY DEF ParseTag, Stuck, NextEnd
    <2> HIDE DEF t
    <2> QED BY <2>1, <1>3 DEF Arbiters
  <1> HIDE DEF t
  <1>5. /\ r \in Arbiters /\ r.queue = b.queue /\ r.handed = b.handed
        /\ r.arrived = b.arrived /\ r.lost = b.lost
        /\ r.reservations = b.reservations
        /\ r.streams = [b.streams EXCEPT ![path] = t]
    <2>1. [b.streams EXCEPT ![path] = t] \in [Paths -> Streams]
      BY <1>2, ArbiterParts
    <2> QED BY <1>3, <1>4, <2>1 DEF Arbiters
  <1>6. r.streams[path] = t /\ \A p \in Paths \ {path} : r.streams[p] = b.streams[p]
    BY <1>5, ArbiterParts
  <1>7. \A p \in Paths : r.streams[p].data = b.streams[p].data
    BY <1>6, <1>2
  <1>8. Shape(r)
    BY <1>5 DEF Shape
  <1> QED BY <1>2, <1>5, <1>6, <1>7, <1>8 DEF SameBut

LEMMA TagEnds ==
    ASSUME NEW b, Shape(b), NEW path \in Paths, NEW hl \in BOOLEAN,
           NEW s, s = b.streams[path], Parsing(b, path), ~Stuck(s),
           s.data[s.parseOffset + 1].eop,
           NEW r, r = ParseTag(b, path, hl)
    PROVE  /\ Shape(r) /\ SameBut(b, r, path)
           /\ r.streams[path].packetStart = NextEnd(s)
           /\ r.streams[path].parseOffset = NextEnd(s)
           /\ r.streams[path].path2DirectHl =
                     (NextEnd(s) < Len(s.data) /\ hl)
           /\ \E packet \in QueuedPackets :
                 /\ r.queue = Append(b.queue, packet)
                 /\ packet.path = path
                 /\ packet.path2DirectHl = (path = 2 /\ s.path2DirectHl)
                 /\ packet.offset = s.packetStart
                 /\ End(packet) = NextEnd(s)
  <1> DEFINE image == s.packetContainsImage \/ s.data[s.parseOffset + 1].image
             t == [s EXCEPT !.parseOffset = NextEnd(s),
                            !.packetStart = NextEnd(s),
                            !.packetContainsImage = FALSE,
                            !.path2DirectHl = NextEnd(s) < Len(s.data) /\ hl]
             packet == [path |-> path,
                        path2DirectHl |-> path = 2 /\ s.path2DirectHl,
                        path3Image |-> path = 3 /\ image,
                        offset |-> s.packetStart,
                        size |-> NextEnd(s) - s.packetStart]
  <1>1. /\ s \in Streams /\ NextEnd(s) \in Nat /\ image \in BOOLEAN
        /\ s.packetStart \in Nat /\ s.packetStart < NextEnd(s)
        /\ Len(s.data) \in Nat /\ s.path2DirectHl \in BOOLEAN
    BY NextTag, StreamParts, WordParts, SMTT(60) DEF Parsing
  <1>2. /\ t \in Streams /\ t.data = s.data /\ t.packetStart = NextEnd(s)
        /\ t.parseOffset = NextEnd(s)
        /\ t.path2DirectHl = (NextEnd(s) < Len(s.data) /\ hl)
    <2>1. (NextEnd(s) < Len(s.data) /\ hl) \in BOOLEAN
      OBVIOUS
    <2> HIDE DEF image
    <2> QED BY <1>1, <2>1 DEF Streams
  <1>3. b \in Arbiters
    BY DEF Shape
  <1>4. r = [b EXCEPT !.queue = Append(b.queue, packet),
                      !.streams = [b.streams EXCEPT ![path] = t]]
    <2>1. r = [b EXCEPT !.queue = Append(@, packet), !.streams[path] = t]
      BY DEF ParseTag, Stuck, NextEnd
    <2> HIDE DEF t, packet
    <2> QED BY <2>1, <1>3 DEF Arbiters
  <1>5. packet \in QueuedPackets /\ Labelled(packet) /\ End(packet) = NextEnd(s)
    <2>1. NextEnd(s) - s.packetStart \in Nat \ {0}
      BY <1>1
    <2>2. s.packetStart + (NextEnd(s) - s.packetStart) = NextEnd(s)
      BY <1>1
    <2> HIDE DEF image
    <2> QED BY <1>1, <2>1, <2>2 DEF QueuedPackets, Labelled, End
  <1>6. /\ packet.path = path /\ packet.offset = s.packetStart
        /\ packet.path2DirectHl = (path = 2 /\ s.path2DirectHl)
    OBVIOUS
  <1> HIDE DEF t, packet
  <1>7. /\ Append(b.queue, packet) \in Seq(QueuedPackets)
        /\ \A i \in DOMAIN Append(b.queue, packet) :
              Labelled(Append(b.queue, packet)[i])
    <2>1. b.queue \in Seq(QueuedPackets)
      BY ArbiterParts
    <2>2. \A i \in 1 .. Len(b.queue) : Labelled(b.queue[i])
      BY <2>1, QueueParts DEF Shape
    <2> QED BY <2>1, <2>2, <1>5, AppendProperties, QueueParts
  <1>8. /\ r \in Arbiters /\ r.queue = Append(b.queue, packet)
        /\ r.handed = b.handed /\ r.arrived = b.arrived /\ r.lost = b.lost
        /\ r.reservations = b.reservations
        /\ r.streams = [b.streams EXCEPT ![path] = t]
    <2>1. [b.streams EXCEPT ![path] = t] \in [Paths -> Streams]
      BY <1>2, ArbiterParts
    <2> QED BY <1>3, <1>4, <1>7, <2>1 DEF Arbiters
  <1>9. r.streams[path] = t /\ \A p \in Paths \ {path} : r.streams[p] = b.streams[p]
    BY <1>8, ArbiterParts
  <1>10. \A p \in Paths : r.streams[p].data = b.streams[p].data
    BY <1>9, <1>2
  <1>11. Shape(r)
    BY <1>7, <1>8 DEF Shape
  <1> QED BY <1>2, <1>5, <1>6, <1>8, <1>9, <1>10, <1>11 DEF SameBut

\* The arbiters after some turns of the loop, which begins with g, where the
\* stream of the path had a number of words before its last chunk came.
Turned(g, b, path, from) ==
    /\ Shape(b) /\ SameBut(g, b, path)
    /\ Len(g.queue) <= Len(b.queue)
    /\ \A i \in 1 .. Len(g.queue) : b.queue[i] = g.queue[i]
    /\ \A i \in Len(g.queue) + 1 .. Len(b.queue) :
          b.queue[i].path = path /\ from < End(b.queue[i])
    /\ Tiled(b)
    /\ Parsing(b, path)
    /\ LET s == b.streams[path] IN
       s.parseOffset = Len(s.data) \/ from < NextEnd(s)

\* The words of the last chunk came by DIRECTHL or not, and only to PATH2.
Flagged(g, path, hl, from) ==
    LET data == g.streams[path].data IN
    /\ \A k \in from + 1 .. Len(data) : data[k].hl = hl
    /\ path # 2 => ~hl /\ Plain(data)

LEMMA FlagOfPacket ==
    ASSUME NEW data \in Seq(Words), NEW hl \in BOOLEAN,
           NEW start \in Nat, NEW end \in Nat, NEW from \in Nat,
           start < end, end <= Len(data), from < end,
           \A k \in from + 1 .. Len(data) : data[k].hl = hl
    PROVE  /\ AnyHl(data, start, end) <=> AnyHl(data, start, Len(data))
           /\ end < Len(data) => (AnyHl(data, end, Len(data)) <=> hl)
  <1>1. Len(data) \in Nat
    BY WordParts
  <1>2. CASE hl
    <2>0. /\ end \in from + 1 .. Len(data)
          /\ end \in start + 1 .. end /\ end \in start + 1 .. Len(data)
      BY <1>1
    <2>1. data[end].hl /\ end \in start + 1 .. end /\ end \in start + 1 .. Len(data)
      BY <2>0, <1>2, Zenon
    <2>2. AnyHl(data, start, end) /\ AnyHl(data, start, Len(data))
      BY <2>1 DEF AnyHl
    <2>3. ASSUME end < Len(data) PROVE AnyHl(data, end, Len(data))
      <3>1. /\ Len(data) \in end + 1 .. Len(data)
            /\ Len(data) \in from + 1 .. Len(data)
        BY <1>1, <2>3
      <3>2. data[Len(data)].hl
        BY <1>2, <3>1, Zenon
      <3> QED BY <3>1, <3>2 DEF AnyHl
    <2> QED BY <1>2, <2>2, <2>3
  <1>3. CASE ~hl
    <2>1. \A k \in start + 1 .. Len(data) : data[k].hl => k \in start + 1 .. end
      BY <1>1, <1>3
    <2>2. \A k \in start + 1 .. end : k \in start + 1 .. Len(data)
      BY <1>1
    <2>3. ~AnyHl(data, end, Len(data))
      BY <1>1, <1>3 DEF AnyHl
    <2> QED BY <1>3, <2>1, <2>2, <2>3 DEF AnyHl
  <1> QED BY <1>2, <1>3

\* Two arbiters whose complete packets are alike.
SameTiles(b, r) ==
    /\ r.queue = b.queue
    /\ \A p \in Paths :
          /\ r.streams[p].packetStart = b.streams[p].packetStart
          /\ \A i \in 1 .. b.streams[p].packetStart :
                r.streams[p].data[i].hl = b.streams[p].data[i].hl

LEMMA TiledSame ==
    ASSUME NEW b, NEW r, Tiled(b), Shape(b), Shape(r), SameTiles(b, r)
    PROVE  Tiled(r)
  <1>1. b.queue \in Seq(QueuedPackets)
    BY ArbiterParts
  <1>2. ASSUME NEW i \in DOMAIN b.queue
        PROVE  LET q == b.queue[i] IN
               /\ q.offset = Consumed(b.queue, i - 1, q.path)
               /\ q.path2DirectHl = AnyHl(r.streams[q.path].data, q.offset, End(q))
    <2> DEFINE q == b.queue[i]
    <2>1. /\ q.path \in Paths /\ q.offset \in Nat /\ End(q) \in Nat
          /\ i \in 1 .. Len(b.queue) /\ Len(b.queue) \in Nat
      BY <1>1, QueueParts
    <2>2. End(q) <= b.streams[q.path].packetStart
      <3>1. ConsumedIs(b.queue, Len(b.queue), q.path)
        BY <1>1, <2>1, ConsumedAlways
      <3>2. b.streams[q.path].packetStart = Consumed(b.queue, Len(b.queue), q.path)
        BY <2>1 DEF Tiled
      <3> QED BY <2>1, <3>1, <3>2 DEF ConsumedIs
    <2>3. b.streams[q.path].packetStart \in Nat
      BY <2>1, StreamParts
    <2>4. \A k \in q.offset + 1 .. End(q) :
              r.streams[q.path].data[k].hl = b.streams[q.path].data[k].hl
      <3>1. \A k \in q.offset + 1 .. End(q) :
                k \in 1 .. b.streams[q.path].packetStart
        <4> HIDE DEF q
        <4> QED BY <2>1, <2>2, <2>3, SMTT(60)
      <3> QED BY <2>1, <3>1 DEF SameTiles
    <2>5. AnyHl(r.streams[q.path].data, q.offset, End(q)) =
              AnyHl(b.streams[q.path].data, q.offset, End(q))
      BY <2>4 DEF AnyHl
    <2>6. /\ q.offset = Consumed(b.queue, i - 1, q.path)
          /\ q.path2DirectHl = AnyHl(b.streams[q.path].data, q.offset, End(q))
      BY DEF Tiled
    <2> QED BY <2>5, <2>6
  <1>3. /\ r.queue = b.queue
        /\ \A p \in Paths : r.streams[p].packetStart = b.streams[p].packetStart
    BY DEF SameTiles
  <1> QED BY <1>2, <1>3 DEF Tiled

\* What is behind a packet that ends the tiles ends them too.
LEMMA TiledFurther ==
    ASSUME NEW b, NEW r, NEW path \in Paths, NEW packet \in QueuedPackets,
           Tiled(b), Shape(b), Shape(r), SameBut(b, r, path),
           r.queue = Append(b.queue, packet), packet.path = path,
           packet.offset = b.streams[path].packetStart,
           End(packet) = r.streams[path].packetStart,
           packet.path2DirectHl =
               AnyHl(b.streams[path].data, packet.offset, End(packet))
    PROVE  Tiled(r)
  <1> DEFINE n == Len(b.queue)
  <1>1. /\ b.queue \in Seq(QueuedPackets) /\ r.queue \in Seq(QueuedPackets)
        /\ n \in Nat /\ DOMAIN b.queue = 1 .. n
        /\ Len(r.queue) = n + 1 /\ DOMAIN r.queue = 1 .. n + 1
        /\ \A i \in 1 .. n : r.queue[i] = b.queue[i]
        /\ r.queue[n + 1] = packet
    BY ArbiterParts, QueueParts, AppendProperties
  <1> HIDE DEF n
  <1>2. \A k \in 0 .. n, p \in Paths :
            Consumed(r.queue, k, p) = Consumed(b.queue, k, p)
    BY <1>1, ConsumedAppend DEF n
  <1>3. packet.offset \in Nat /\ End(packet) \in Nat /\ packet.offset < End(packet)
    BY PacketParts
  <1>4. \A p \in Paths : b.streams[p].packetStart = Consumed(b.queue, n, p)
    BY DEF Tiled, n
  <1>5. ASSUME NEW p \in Paths
        PROVE  r.streams[p].packetStart = Consumed(r.queue, n + 1, p)
    <2>1. /\ n + 1 \in 1 .. Len(r.queue) /\ n \in 0 .. Len(r.queue)
          /\ (n + 1) - 1 = n
      BY <1>1
    <2>2. ConsumedIs(r.queue, n, p)
      BY <1>1, <2>1, ConsumedAlways
    <2>3. Consumed(r.queue, n + 1, p) =
              IF packet.path = p /\ End(packet) > Consumed(r.queue, n, p)
              THEN End(packet) ELSE Consumed(r.queue, n, p)
      BY <1>1, <2>1, <2>2, ConsumedNext, ZenonT(60)
    <2>4. Consumed(r.queue, n, p) = b.streams[p].packetStart
      BY <1>1, <1>2, <1>4
    <2>5. CASE p = path
      BY <1>3, <2>3, <2>4, <2>5
    <2>6. CASE p # path
      <3>1. r.streams[p] = b.streams[p]
        BY <2>6 DEF SameBut
      <3> QED BY <2>3, <2>4, <2>6, <3>1
    <2> QED BY <2>5, <2>6
  <1>6. \A p \in Paths : r.streams[p].data = b.streams[p].data
    BY DEF SameBut
  <1>7. ASSUME NEW i \in 1 .. n + 1
        PROVE  LET q == r.queue[i] IN
               /\ q.offset = Consumed(r.queue, i - 1, q.path)
               /\ q.path2DirectHl = AnyHl(r.streams[q.path].data, q.offset, End(q))
    <2>1. CASE i = n + 1
      <3>1. /\ r.queue[i] = packet /\ i - 1 = n /\ n \in 0 .. n
        BY <1>1, <2>1
      <3>2. packet.offset = Consumed(r.queue, n, path)
        BY <1>2, <1>4, <3>1
      <3> QED BY <1>6, <3>1, <3>2
    <2>2. CASE i # n + 1
      <3>1. /\ i \in 1 .. n /\ i - 1 \in 0 .. n /\ r.queue[i] = b.queue[i]
            /\ r.queue[i].path \in Paths
        BY <1>1, <2>2, QueueParts
      <3>2. LET q == b.queue[i] IN
            /\ q.offset = Consumed(b.queue, i - 1, q.path)
            /\ q.path2DirectHl = AnyHl(b.streams[q.path].data, q.offset, End(q))
        BY <1>1, <3>1 DEF Tiled
      <3> QED BY <1>2, <1>6, <3>1, <3>2
    <2> QED BY <2>1, <2>2
  <1>8. ASSUME NEW p \in Paths, NEW k \in 1 .. r.streams[p].packetStart
        PROVE  \E i \in 1 .. n + 1 :
                   /\ r.queue[i].path = p
                   /\ r.queue[i].offset < k /\ k <= End(r.queue[i])
    <2>1. b.streams[p].packetStart \in Nat /\ r.streams[p].packetStart \in Nat
      BY StreamParts
    <2>2. CASE k \in 1 .. b.streams[p].packetStart
      <3>1. PICK i \in 1 .. n :
                /\ b.queue[i].path = p
                /\ b.queue[i].offset < k /\ k <= End(b.queue[i])
        BY <1>1, <2>2 DEF Tiled
      <3>2. i \in 1 .. n + 1 /\ r.queue[i] = b.queue[i]
        BY <1>1
      <3> QED BY <3>1, <3>2
    <2>3. CASE k \notin 1 .. b.streams[p].packetStart
      <3>1. p = path
        BY <2>3 DEF SameBut
      <3>2. packet.offset < k /\ k <= End(packet) /\ n + 1 \in 1 .. n + 1
        BY <1>1, <2>1, <2>3, <3>1
      <3> QED BY <1>1, <3>1, <3>2
    <2> QED BY <2>2, <2>3
  <1> QED BY <1>1, <1>5, <1>7, <1>8, ZenonT(60) DEF Tiled

LEMMA TurnKeeps ==
    ASSUME NEW g, Shape(g), NEW path \in Paths, NEW hl \in BOOLEAN,
           NEW from \in Nat, Flagged(g, path, hl, from),
           NEW b, Turned(g, b, path, from),
           NEW r, r = ParseTag(b, path, hl)
    PROVE  /\ Turned(g, r, path, from)
           /\ \/ r = b /\ Stuck(b.streams[path])
              \/ b.streams[path].parseOffset < r.streams[path].parseOffset
  <1> DEFINE s == b.streams[path]
  <1>1. /\ Shape(b) /\ SameBut(g, b, path) /\ Tiled(b) /\ Parsing(b, path)
        /\ Len(g.queue) <= Len(b.queue)
        /\ \A i \in 1 .. Len(g.queue) : b.queue[i] = g.queue[i]
        /\ \A i \in Len(g.queue) + 1 .. Len(b.queue) :
              b.queue[i].path = path /\ from < End(b.queue[i])
        /\ s.parseOffset = Len(s.data) \/ from < NextEnd(s)
    BY DEF Turned
  <1>2. s.data = g.streams[path].data
    BY <1>1 DEF SameBut
  <1>3. CASE Stuck(s)
    <2>1. r = b
      BY <1>1, <1>3, TagIncomplete
    <2> QED BY <1>3, <2>1
  <1>4. CASE ~Stuck(s)
    <2> DEFINE end == NextEnd(s)
    <2>1. /\ s.data \in Seq(Words) /\ Len(s.data) \in Nat
          /\ s.packetStart \in Nat /\ s.parseOffset \in Nat
          /\ s.path2DirectHl \in BOOLEAN
      BY <1>1, StreamParts, WordParts
    <2>2. /\ end \in Nat /\ s.parseOffset < end /\ end <= Len(s.data)
      BY <1>1, <1>4, NextTag
    <2>3. /\ s.packetStart <= s.parseOffset /\ s.parseOffset <= Len(s.data)
          /\ Len(s.data) <= MaxStream
          /\ s.packetStart < Len(s.data) =>
                s.path2DirectHl = AnyHl(s.data, s.packetStart, Len(s.data))
      BY <1>1 DEF Parsing
    <2>4. from < end /\ s.packetStart < end /\ s.packetStart < Len(s.data)
      <3>1. s.parseOffset # Len(s.data)
        BY <1>4 DEF Stuck
      <3> HIDE DEF s, end
      <3>2. s.parseOffset = Len(s.data) \/ from < end
        BY <1>1 DEF end
      <3> QED BY <3>1, <3>2, <2>1, <2>2, <2>3
    <2>5. \A k \in from + 1 .. Len(s.data) : s.data[k].hl = hl
      BY <1>2 DEF Flagged
    <2>6. /\ AnyHl(s.data, s.packetStart, end) <=>
                AnyHl(s.data, s.packetStart, Len(s.data))
          /\ end < Len(s.data) => (AnyHl(s.data, end, Len(s.data)) <=> hl)
      <3> HIDE DEF s, end
      <3> QED BY <2>1, <2>2, <2>4, <2>5, FlagOfPacket
    <2>7. ASSUME Shape(r), SameBut(b, r, path), Parsing(r, path),
                 r.streams[path].parseOffset = end
          PROVE  /\ SameBut(g, r, path)
                 /\ b.streams[path].parseOffset < r.streams[path].parseOffset
                 /\ \/ r.streams[path].parseOffset = Len(r.streams[path].data)
                    \/ from < NextEnd(r.streams[path])
      <3>1. SameBut(g, r, path)
        BY <1>1, <2>7 DEF SameBut
      <3>2. Stuck(r.streams[path]) \/ ~Stuck(r.streams[path])
        OBVIOUS
      <3>3. ASSUME r.streams[path].parseOffset # Len(r.streams[path].data)
            PROVE  from < NextEnd(r.streams[path])
        <4> DEFINE t == r.streams[path]
        <4>1. /\ t.data \in Seq(Words) /\ Len(t.data) \in Nat
              /\ t.parseOffset \in Nat /\ t.parseOffset <= Len(t.data)
          BY <2>7, StreamParts, WordParts DEF Parsing
        <4>2. t.parseOffset = end /\ t.parseOffset # Len(t.data)
          BY <2>7, <3>3
        <4> HIDE DEF t
        <4>3. t.parseOffset + 1 \in 1 .. Len(t.data)
          BY <4>1, <4>2
        <4>4. t.data[t.parseOffset + 1].size \in Nat \ {0}
          BY <4>1, <4>3, WordParts
        <4>5. t.parseOffset < NextEnd(t)
          BY <4>1, <4>4, FurtherOn DEF NextEnd
        <4>6. NextEnd(t) \in Nat
          BY <4>1, <4>4, FurtherOn DEF NextEnd
        <4>7. from < NextEnd(t)
          <5> HIDE DEF end
          <5> QED BY <2>2, <2>4, <4>2, <4>5, <4>6
        <4> QED BY <4>7 DEF t
      <3> QED BY <2>2, <2>7, <3>1, <3>3
    <2>8. CASE ~s.data[s.parseOffset + 1].eop
      <3>1. /\ Shape(r) /\ SameBut(b, r, path) /\ r.queue = b.queue
            /\ r.streams[path].packetStart = s.packetStart
            /\ r.streams[path].parseOffset = end
            /\ r.streams[path].path2DirectHl = s.path2DirectHl
        BY <1>1, <1>4, <2>8, TagContinues
      <3>2. r.streams[path].data = s.data
        BY <3>1 DEF SameBut
      <3>3. Parsing(r, path)
        <4>1. s.packetStart <= end
          <5> HIDE DEF s, end
          <5> QED BY <2>1, <2>2, <2>3
        <4> HIDE DEF end
        <4> QED BY <2>2, <2>3, <3>1, <3>2, <4>1 DEF Parsing
      <3>4. Tiled(r)
        <4>1. \A p \in Paths :
                 /\ r.streams[p].packetStart = b.streams[p].packetStart
                 /\ r.streams[p].data = b.streams[p].data
          BY <3>1 DEF SameBut
        <4>2. SameTiles(b, r)
          BY <3>1, <4>1 DEF SameTiles
        <4> QED BY <1>1, <3>1, <4>2, TiledSame
      <3>5. Turned(g, r, path, from)
        BY <1>1, <2>7, <3>1, <3>3, <3>4 DEF Turned
      <3> QED BY <2>7, <3>1, <3>3, <3>5
    <2>9. CASE s.data[s.parseOffset + 1].eop
      <3>1. /\ Shape(r) /\ SameBut(b, r, path)
            /\ r.streams[path].packetStart = end
            /\ r.streams[path].parseOffset = end
            /\ r.streams[path].path2DirectHl = (end < Len(s.data) /\ hl)
        BY <1>1, <1>4, <2>9, TagEnds
      <3>2. PICK packet \in QueuedPackets :
                 /\ r.queue = Append(b.queue, packet)
                 /\ packet.path = path
                 /\ packet.path2DirectHl = (path = 2 /\ s.path2DirectHl)
                 /\ packet.offset = s.packetStart
                 /\ End(packet) = end
        BY <1>1, <1>4, <2>9, TagEnds
      <3>3. r.streams[path].data = s.data
        BY <3>1 DEF SameBut
      <3>4. Parsing(r, path)
        <4>1. end < Len(s.data) =>
                 ((end < Len(s.data) /\ hl) <=> AnyHl(s.data, end, Len(s.data)))
          BY <2>6
        <4>2. AnyHl(s.data, end, Len(s.data)) \in BOOLEAN
          BY DEF AnyHl
        <4>3. end < Len(s.data) =>
                 r.streams[path].path2DirectHl = AnyHl(s.data, end, Len(s.data))
          BY <3>1, <4>1, <4>2
        <4> HIDE DEF end
        <4> QED BY <2>2, <2>3, <3>1, <3>3, <4>3 DEF Parsing
      <3>5. packet.path2DirectHl = AnyHl(s.data, packet.offset, End(packet))
        <4>1. CASE path = 2
          <5>1. packet.path2DirectHl = s.path2DirectHl
            BY <2>1, <3>2, <4>1
          <5>2. s.path2DirectHl = AnyHl(s.data, s.packetStart, Len(s.data))
            BY <2>3, <2>4
          <5>3. AnyHl(s.data, s.packetStart, end) =
                    AnyHl(s.data, s.packetStart, Len(s.data))
            BY <2>6 DEF AnyHl
          <5> QED BY <3>2, <5>1, <5>2, <5>3
        <4>2. CASE path # 2
          <5>1. Plain(s.data)
            BY <1>2, <4>2 DEF Flagged
          <5>2. \A k \in s.packetStart + 1 .. end : k \in DOMAIN s.data
            <6>1. DOMAIN s.data = 1 .. Len(s.data)
              BY <2>1, WordParts
            <6> HIDE DEF s, end
            <6> QED BY <2>1, <2>2, <6>1
          <5>3. AnyHl(s.data, s.packetStart, end) = FALSE
            BY <5>1, <5>2 DEF Plain, AnyHl
          <5> QED BY <3>2, <4>2, <5>3
        <4> QED BY <4>1, <4>2
      <3>6. Tiled(r)
        BY <1>1, <3>1, <3>2, <3>5, TiledFurther
      <3>7. /\ Len(g.queue) <= Len(r.queue)
            /\ \A i \in 1 .. Len(g.queue) : r.queue[i] = g.queue[i]
            /\ \A i \in Len(g.queue) + 1 .. Len(r.queue) :
                  r.queue[i].path = path /\ from < End(r.queue[i])
        <4> DEFINE n == Len(b.queue)
        <4>1. /\ n \in Nat /\ Len(g.queue) \in Nat /\ Len(r.queue) = n + 1
              /\ \A i \in 1 .. n : r.queue[i] = b.queue[i]
              /\ r.queue[n + 1] = packet
          BY <1>1, <3>2, ArbiterParts, QueueParts, AppendProperties
        <4>2. packet.path = path /\ from < End(packet)
          BY <2>4, <3>2
        <4>3. Len(g.queue) <= n
          BY <1>1
        <4> HIDE DEF n
        <4>4. \A i \in 1 .. Len(g.queue) : i \in 1 .. n
          BY <4>1, <4>3
        <4>5. \A i \in Len(g.queue) + 1 .. n + 1 :
                 i # n + 1 => i \in Len(g.queue) + 1 .. n /\ i \in 1 .. n
          <5>1. \A m \in Nat, k \in Nat : \A i \in k + 1 .. m + 1 :
                   i # m + 1 => i \in k + 1 .. m /\ i \in 1 .. m
            OBVIOUS
          <5> QED BY <4>1, <5>1
        <4>6. Len(g.queue) <= Len(r.queue)
          BY <4>1, <4>3
        <4>7. \A i \in 1 .. Len(g.queue) : r.queue[i] = g.queue[i]
          BY <1>1, <4>1, <4>4
        <4>8. ASSUME NEW i \in Len(g.queue) + 1 .. Len(r.queue)
              PROVE  r.queue[i].path = path /\ from < End(r.queue[i])
          <5>1. CASE i = n + 1
            BY <4>1, <4>2, <5>1
          <5>2. CASE i # n + 1
            <6>1. i \in Len(g.queue) + 1 .. n /\ i \in 1 .. n
              BY <4>1, <4>5, <5>2
            <6>2. b.queue[i].path = path /\ from < End(b.queue[i])
              BY <1>1, <6>1 DEF n
            <6> QED BY <4>1, <6>1, <6>2
          <5> QED BY <5>1, <5>2
        <4> QED BY <4>6, <4>7, <4>8
      <3>8. Turned(g, r, path, from)
        BY <2>7, <3>1, <3>4, <3>6, <3>7 DEF Turned
      <3> QED BY <2>7, <3>1, <3>4, <3>8
    <2> QED BY <2>8, <2>9
  <1> QED BY <1>3, <1>4

\* Enough turns bring the parser to the end of what it can read.
LEMMA ParsedKeeps ==
    ASSUME NEW g, Shape(g), NEW path \in Paths, NEW hl \in BOOLEAN,
           NEW from \in Nat, Flagged(g, path, hl, from),
           Turned(g, g, path, from), NEW n \in Nat,
           n = Len(g.streams[path].data),
           NEW r, r = Parsed(g, path, hl, n)
    PROVE  Turned(g, r, path, from) /\ Stuck(r.streams[path])
  <1>1. PICK turn : /\ ParsedRun(turn, g, path, hl, n)
                    /\ r = turn[n]
    BY ParsedIs
  <1> DEFINE T == {k \in 0 .. n :
                     /\ Turned(g, turn[k], path, from)
                     /\ \/ Stuck(turn[k].streams[path])
                        \/ k <= turn[k].streams[path].parseOffset}
  <1>2. 0 \in T
    <2>1. turn[0] = g /\ g.streams[path].parseOffset \in Nat
      BY <1>1, StreamParts DEF ParsedRun
    <2>2. 0 <= g.streams[path].parseOffset
      BY <2>1
    <2> QED BY <2>1, <2>2
  <1>3. ASSUME NEW k \in 1 .. n, k - 1 \in T PROVE k \in T
    <2> DEFINE b == turn[k - 1]
    <2>1. /\ Turned(g, b, path, from)
          /\ Stuck(b.streams[path]) \/ k - 1 <= b.streams[path].parseOffset
      BY <1>3
    <2>2. turn[k] = ParseTag(b, path, hl)
      BY <1>1 DEF ParsedRun
    <2> HIDE DEF b
    <2>3. /\ Turned(g, turn[k], path, from)
          /\ \/ turn[k] = b /\ Stuck(b.streams[path])
             \/ b.streams[path].parseOffset < turn[k].streams[path].parseOffset
      BY <2>1, <2>2, TurnKeeps
    <2>4. CASE Stuck(turn[k].streams[path])
      BY <2>3, <2>4
    <2>5. CASE ~Stuck(turn[k].streams[path])
      <3>1. b.streams[path].parseOffset < turn[k].streams[path].parseOffset
        BY <2>3, <2>5
      <3>2. ~Stuck(b.streams[path])
        <4>1. ASSUME Stuck(b.streams[path]) PROVE FALSE
          <5>1. Shape(b)
            BY <2>1 DEF Turned
          <5>2. turn[k] = b
            BY <2>2, <4>1, <5>1, TagIncomplete
          <5> QED BY <2>5, <4>1, <5>2
        <4> QED BY <4>1
      <3>3. /\ b.streams[path].parseOffset \in Nat
            /\ turn[k].streams[path].parseOffset \in Nat
        BY <2>1, <2>3, StreamParts DEF Turned
      <3>4. k <= turn[k].streams[path].parseOffset
        BY <2>1, <3>1, <3>2, <3>3
      <3> QED BY <2>3, <3>4
    <2> QED BY <2>4, <2>5
  <1> HIDE DEF T
  <1>4. T \in SUBSET (0 .. n)
    BY DEF T
  <1>5. T = 0 .. n
    BY <1>2, <1>3, <1>4, FirstNumbers
  <1>6. n \in T
    BY <1>5
  <1>7. /\ Turned(g, r, path, from)
        /\ Stuck(r.streams[path]) \/ n <= r.streams[path].parseOffset
    BY <1>1, <1>6, SMTT(60) DEF T
  <1>8. ASSUME n <= r.streams[path].parseOffset PROVE Stuck(r.streams[path])
    <2>1. /\ r.streams[path].parseOffset <= Len(r.streams[path].data)
          /\ r.streams[path].data = g.streams[path].data
          /\ r.streams[path].parseOffset \in Nat
      BY <1>7, StreamParts DEF Turned, Parsing, SameBut
    <2>2. r.streams[path].parseOffset = Len(r.streams[path].data)
      BY <1>8, <2>1
    <2> QED BY <2>2 DEF Stuck
  <1> QED BY <1>7, <1>8

-----------------------------------------------------------------------------
(* Words joined and cut.                                                    *)

LEMMA JoinedSeq ==
    ASSUME NEW S, NEW s \in Seq(S), NEW t \in Seq(S)
    PROVE  /\ s \o t \in Seq(S)
           /\ Len(s \o t) = Len(s) + Len(t)
           /\ \A i \in 1 .. Len(s) : (s \o t)[i] = s[i]
           /\ \A i \in 1 .. Len(t) : (s \o t)[Len(s) + i] = t[i]
           /\ \A i \in 1 .. Len(s \o t) :
                 \/ i \in 1 .. Len(s)
                 \/ i - Len(s) \in 1 .. Len(t) /\ i = Len(s) + (i - Len(s))
  <1>1. Len(s) \in Nat /\ Len(t) \in Nat
    BY SeqParts
  <1>2. /\ s \o t \in Seq(S)
        /\ Len(s \o t) = Len(s) + Len(t)
        /\ \A i \in 1 .. Len(s) + Len(t) :
              (s \o t)[i] = IF i <= Len(s) THEN s[i] ELSE t[i - Len(s)]
    BY ConcatProperties
  <1>3. \A m \in Nat, n \in Nat :
            /\ \A i \in 1 .. m : i \in 1 .. m + n /\ i <= m
            /\ \A i \in 1 .. n :
                  m + i \in 1 .. m + n /\ ~(m + i <= m) /\ (m + i) - m = i
            /\ \A i \in 1 .. m + n :
                  i \in 1 .. m \/ (i - m \in 1 .. n /\ i = m + (i - m))
    OBVIOUS
  <1> QED BY <1>1, <1>2, <1>3

LEMMA Joined ==
    ASSUME NEW s \in Seq(Words), NEW t \in Seq(Words)
    PROVE  /\ s \o t \in Seq(Words)
           /\ Len(s \o t) = Len(s) + Len(t)
           /\ \A i \in 1 .. Len(s) : (s \o t)[i] = s[i]
           /\ \A i \in 1 .. Len(t) : (s \o t)[Len(s) + i] = t[i]
           /\ \A i \in 1 .. Len(s \o t) :
                 \/ i \in 1 .. Len(s)
                 \/ i - Len(s) \in 1 .. Len(t) /\ i = Len(s) + (i - Len(s))
  BY JoinedSeq

LEMMA JoinedOrder ==
    ASSUME NEW s \in Seq(Words), NEW t \in Seq(Words)
    PROVE  /\ Numbers(s \o t) = Numbers(s) \cup Numbers(t)
           /\ Increasing(s) /\ Increasing(t) /\ Before(s, t) => Increasing(s \o t)
           /\ Plain(s) /\ Plain(t) => Plain(s \o t)
           /\ \A x \in Seq(Words) :
                 /\ Before(x, s) /\ Before(x, t) => Before(x, s \o t)
                 /\ Before(s, x) /\ Before(t, x) => Before(s \o t, x)
  <1> DEFINE j == s \o t
  <1>1. /\ DOMAIN j = 1 .. Len(j) /\ DOMAIN s = 1 .. Len(s) /\ DOMAIN t = 1 .. Len(t)
        /\ Len(s) \in Nat /\ Len(t) \in Nat /\ Len(j) = Len(s) + Len(t)
    BY Joined, WordParts
  <1>2. /\ \A i \in 1 .. Len(s) : j[i] = s[i]
        /\ \A i \in 1 .. Len(t) : j[Len(s) + i] = t[i]
        /\ \A i \in 1 .. Len(j) :
              \/ i \in 1 .. Len(s)
              \/ i - Len(s) \in 1 .. Len(t) /\ i = Len(s) + (i - Len(s))
    BY Joined
  <1> HIDE DEF j
  <1>3. \A i \in 1 .. Len(j) :
            \/ i \in 1 .. Len(s) /\ j[i] = s[i]
            \/ i - Len(s) \in 1 .. Len(t) /\ j[i] = t[i - Len(s)]
    BY <1>2
  <1>4. /\ \A i \in 1 .. Len(s) : i \in 1 .. Len(j)
        /\ \A i \in 1 .. Len(t) : Len(s) + i \in 1 .. Len(j)
    BY <1>1
  <1>5. Numbers(j) = Numbers(s) \cup Numbers(t)
    <2>1. ASSUME NEW m \in Numbers(j) PROVE m \in Numbers(s) \cup Numbers(t)
      <3>1. PICK i \in 1 .. Len(j) : m = j[i].n
        BY <1>1, <2>1 DEF Numbers
      <3> QED BY <1>1, <1>3, <3>1 DEF Numbers
    <2>2. ASSUME NEW m \in Numbers(s) PROVE m \in Numbers(j)
      <3>1. PICK i \in 1 .. Len(s) : m = s[i].n
        BY <1>1, <2>2 DEF Numbers
      <3> QED BY <1>1, <1>2, <1>4, <3>1 DEF Numbers
    <2>3. ASSUME NEW m \in Numbers(t) PROVE m \in Numbers(j)
      <3>1. PICK i \in 1 .. Len(t) : m = t[i].n
        BY <1>1, <2>3 DEF Numbers
      <3> QED BY <1>1, <1>2, <1>4, <3>1 DEF Numbers
    <2> QED BY <2>1, <2>2, <2>3
  <1>6. ASSUME Increasing(s), Increasing(t), Before(s, t)
        PROVE  Increasing(j)
    <2> SUFFICES ASSUME NEW k \in 1 .. Len(j), NEW l \in 1 .. Len(j), k < l
                 PROVE  j[k].n < j[l].n
      BY <1>1 DEF Increasing
    <2>1. CASE l \in 1 .. Len(s)
      <3>1. k \in 1 .. Len(s)
        BY <1>1, <2>1
      <3> QED BY <1>1, <1>2, <1>6, <2>1, <3>1 DEF Increasing
    <2>2. CASE l \notin 1 .. Len(s)
      <3>1. l - Len(s) \in 1 .. Len(t) /\ j[l] = t[l - Len(s)]
        BY <1>3, <2>2
      <3>2. CASE k \in 1 .. Len(s)
        BY <1>1, <1>2, <1>6, <3>1, <3>2 DEF Before
      <3>3. CASE k \notin 1 .. Len(s)
        <4>1. k - Len(s) \in 1 .. Len(t) /\ j[k] = t[k - Len(s)]
          BY <1>3, <3>3
        <4>2. k - Len(s) < l - Len(s)
          BY <1>1
        <4> QED BY <1>1, <1>6, <3>1, <4>1, <4>2 DEF Increasing
      <3> QED BY <3>2, <3>3
    <2> QED BY <2>1, <2>2
  <1>7. Plain(s) /\ Plain(t) => Plain(j)
    BY <1>1, <1>3 DEF Plain
  <1>8. ASSUME NEW x \in Seq(Words)
        PROVE  /\ Before(x, s) /\ Before(x, t) => Before(x, j)
               /\ Before(s, x) /\ Before(t, x) => Before(j, x)
    BY <1>1, <1>3 DEF Before
  <1> QED BY <1>5, <1>6, <1>7, <1>8 DEF j

LEMMA Cut ==
    ASSUME NEW s \in Seq(Words), NEW from \in Nat, NEW to \in Nat,
           from <= to, to <= Len(s)
    PROVE  LET part == SubSeq(s, from + 1, to) IN
           /\ part \in Seq(Words)
           /\ Len(part) = to - from
           /\ DOMAIN part = 1 .. to - from
           /\ \A i \in 1 .. to - from :
                 /\ from + i \in 1 .. Len(s)
                 /\ part[i] = s[from + i]
  <1>1. Len(s) \in Nat
    BY WordParts
  <1>2. \A i \in from + 1 .. to : s[i] \in Words
    <2>1. \A i \in from + 1 .. to : i \in 1 .. Len(s)
      BY <1>1
    <2> QED BY <2>1, WordParts
  <1> DEFINE part == SubSeq(s, from + 1, to)
  <1>3. /\ part \in Seq(Words)
        /\ Len(part) = IF from + 1 <= to THEN to - (from + 1) + 1 ELSE 0
        /\ \A i \in 1 .. to - (from + 1) + 1 : part[i] = s[from + 1 + i - 1]
    BY <1>2, SubSeqProperties, SMTT(60)
  <1> HIDE DEF part
  <1>4. Len(part) = to - from /\ to - (from + 1) + 1 = to - from
    BY <1>3
  <1>5. DOMAIN part = 1 .. to - from
    BY <1>3, <1>4, WordParts
  <1>6. \A i \in 1 .. to - from :
            /\ from + i \in 1 .. Len(s)
            /\ from + 1 + i - 1 = from + i
    BY <1>1
  <1> QED BY <1>3, <1>4, <1>5, <1>6 DEF part

\* A part of a stream that is cut out of it.
PartOf(s, part) ==
    /\ part \in Seq(Words)
    /\ Numbers(part) \subseteq Numbers(s)
    /\ Increasing(s) => Increasing(part)
    /\ Plain(s) => Plain(part)
    /\ \A x \in Seq(Words) :
          /\ Before(x, s) => Before(x, part)
          /\ Before(s, x) => Before(part, x)

LEMMA CutOrder ==
    ASSUME NEW s \in Seq(Words), NEW from \in Nat, NEW to \in Nat,
           from <= to, to <= Len(s),
           NEW part, part = SubSeq(s, from + 1, to)
    PROVE  /\ Numbers(part) = {s[k].n : k \in from + 1 .. to}
           /\ PartOf(s, part)
  <1>1. /\ part \in Seq(Words) /\ Len(part) = to - from
        /\ DOMAIN part = 1 .. to - from
        /\ \A i \in 1 .. to - from : part[i] = s[from + i] /\ from + i \in 1 .. Len(s)
    BY Cut
  <1>2. DOMAIN s = 1 .. Len(s) /\ Len(s) \in Nat
    BY WordParts
  <1>3. /\ \A i \in 1 .. to - from : from + i \in from + 1 .. to
        /\ \A k \in from + 1 .. to : k - from \in 1 .. to - from /\ from + (k - from) = k
    OBVIOUS
  <1>4. Numbers(part) = {s[k].n : k \in from + 1 .. to}
    <2>1. ASSUME NEW m \in Numbers(part) PROVE m \in {s[k].n : k \in from + 1 .. to}
      <3>1. PICK i \in 1 .. to - from : m = part[i].n
        BY <1>1, <2>1 DEF Numbers
      <3> QED BY <1>1, <1>3, <3>1
    <2>2. ASSUME NEW k \in from + 1 .. to PROVE s[k].n \in Numbers(part)
      <3>1. k - from \in DOMAIN part /\ part[k - from] = s[k]
        BY <1>1, <1>3
      <3> QED BY <3>1 DEF Numbers
    <2> QED BY <2>1, <2>2
  <1>5. Numbers(part) \subseteq Numbers(s)
    BY <1>1, <1>2 DEF Numbers
  <1>6. ASSUME Increasing(s) PROVE Increasing(part)
    <2> SUFFICES ASSUME NEW k \in 1 .. to - from, NEW l \in 1 .. to - from, k < l
                 PROVE  part[k].n < part[l].n
      BY <1>1 DEF Increasing
    <2>1. from + k < from + l
      OBVIOUS
    <2> QED BY <1>1, <1>2, <1>6, <2>1 DEF Increasing
  <1>7. Plain(s) => Plain(part)
    BY <1>1, <1>2 DEF Plain
  <1>8. ASSUME NEW x \in Seq(Words)
        PROVE  /\ Before(x, s) => Before(x, part)
               /\ Before(s, x) => Before(part, x)
    BY <1>1, <1>2 DEF Before
  <1> QED BY <1>1, <1>4, <1>5, <1>6, <1>7, <1>8 DEF PartOf

\* Words of which one sequence is older than the other have no number alike.
LEMMA BeforeApart ==
    ASSUME NEW s \in Seq(Words), NEW t \in Seq(Words), Before(s, t)
    PROVE  Numbers(s) \cap Numbers(t) = {}
  <1> SUFFICES ASSUME NEW k \in DOMAIN s, NEW l \in DOMAIN t, s[k].n = t[l].n
               PROVE  FALSE
    BY DEF Numbers
  <1>1. s[k].n < t[l].n
    BY DEF Before
  <1>2. s[k].n \in Nat /\ t[l].n \in Nat
    BY WordParts
  <1> QED BY <1>1, <1>2

LEMMA WayParts ==
    ASSUME NEW w \in Ways, NEW p \in Paths
    PROVE  /\ w[p] \in Seq(Seq(Words))
           /\ Len(w[p]) \in Nat /\ DOMAIN w[p] = 1 .. Len(w[p])
           /\ w[p] = <<>> <=> Len(w[p]) = 0
           /\ \A c \in 1 .. Len(w[p]) : w[p][c] \in Seq(Words)
  <1>1. w[p] \in Seq(Seq(Words))
    BY DEF Ways
  <1> QED BY <1>1, SeqParts

LEMMA HandedParts ==
    ASSUME NEW a, Shape(a)
    PROVE  /\ Len(a.handed) \in Nat /\ DOMAIN a.handed = 1 .. Len(a.handed)
           /\ \A i \in DOMAIN a.handed :
                 /\ a.handed[i] \in HandedPackets
                 /\ a.handed[i].path \in Paths
                 /\ a.handed[i].words \in Seq(Words)
                 /\ a.handed[i].words # <<>>
  <1>1. a.handed \in Seq(HandedPackets)
    BY ArbiterParts
  <1>2. \A i \in DOMAIN a.handed : a.handed[i] \in HandedPackets
    BY <1>1, SeqParts
  <1>3. \A i \in DOMAIN a.handed : a.handed[i].words # <<>>
    BY DEF Shape
  <1> QED BY <1>1, <1>2, <1>3, SeqParts DEF HandedPackets

-----------------------------------------------------------------------------
(* A submission.                                                            *)

\* What a submission may do: the words go to the end of the stream or, with
\* the packet that is not complete, they are lost.
Submitted(a, r, path, chunk) ==
    LET s == a.streams[path]
        t == r.streams[path]
    IN  /\ Shape(r) /\ Tiled(r)
        /\ \A p \in Paths : Parsing(r, p) /\ Stuck(r.streams[p])
        /\ r.arrived = a.arrived /\ r.handed = a.handed
        /\ r.reservations = a.reservations
        /\ \A p \in Paths \ {path} : r.streams[p] = a.streams[p]
        /\ Len(a.queue) <= Len(r.queue)
        /\ \A i \in 1 .. Len(a.queue) : r.queue[i] = a.queue[i]
        /\ \A i \in Len(a.queue) + 1 .. Len(r.queue) :
              r.queue[i].path = path /\ Len(s.data) < End(r.queue[i])
        /\ \/ /\ t.data = s.data \o chunk
              /\ r.lost = a.lost
           \/ /\ r.queue = a.queue
              /\ t.data = SubSeq(s.data, 1, s.packetStart)
              /\ t.packetStart = s.packetStart
              /\ r.lost = a.lost \cup (Numbers(s.data \o chunk) \ Numbers(t.data))

Consistent(a) ==
    /\ Shape(a) /\ Tiled(a)
    /\ \A p \in Paths : Parsing(a, p) /\ Stuck(a.streams[p])

WithStreams(a, g, path, t, lost) ==
    /\ Shape(g) /\ g.queue = a.queue /\ g.handed = a.handed
    /\ g.arrived = a.arrived /\ g.reservations = a.reservations
    /\ g.lost = lost /\ g.streams[path] = t
    /\ \A p \in Paths \ {path} : g.streams[p] = a.streams[p]

Replaced(a, path, t, lost) == [a EXCEPT !.streams[path] = t, !.lost = lost]

LEMMA WithStream ==
    ASSUME NEW a, Shape(a), NEW path \in Paths, NEW t \in Streams,
           NEW lost \in SUBSET Nat,
           NEW g, g = Replaced(a, path, t, lost)
    PROVE  WithStreams(a, g, path, t, lost)
  <1>1. a \in Arbiters
    BY DEF Shape
  <1>2. [a.streams EXCEPT ![path] = t] \in [Paths -> Streams]
    BY ArbiterParts
  <1>3. g = [a EXCEPT !.streams = [a.streams EXCEPT ![path] = t], !.lost = lost]
    BY <1>1 DEF Arbiters, Replaced
  <1>4. /\ g \in Arbiters /\ g.queue = a.queue /\ g.handed = a.handed
        /\ g.arrived = a.arrived /\ g.reservations = a.reservations
        /\ g.lost = lost /\ g.streams = [a.streams EXCEPT ![path] = t]
    BY <1>1, <1>2, <1>3 DEF Arbiters
  <1>5. g.streams[path] = t /\ \A p \in Paths \ {path} : g.streams[p] = a.streams[p]
    BY <1>4, ArbiterParts
  <1>6. Shape(g)
    BY <1>4 DEF Shape
  <1> QED BY <1>4, <1>5, <1>6 DEF WithStreams

AllHl(words, hl) == \A k \in DOMAIN words : words[k].hl = hl

FlagOf(flag, data, start) ==
    start < Len(data) => (flag <=> AnyHl(data, start, Len(data)))

FlagAfter(hl, flag, data, start, chunk) ==
    (hl \/ (flag /\ start # Len(data))) <=>
        AnyHl(data \o chunk, start, Len(data \o chunk))

LEMMA FlagGrows ==
    ASSUME NEW data \in Seq(Words), NEW chunk \in Seq(Words), chunk # <<>>,
           NEW start \in Nat, start <= Len(data), NEW hl \in BOOLEAN,
           NEW flag \in BOOLEAN,
           AllHl(chunk, hl), FlagOf(flag, data, start)
    PROVE  FlagAfter(hl, flag, data, start, chunk)
  <1> DEFINE j == data \o chunk
  <1>1. /\ Len(j) = Len(data) + Len(chunk) /\ Len(data) \in Nat
        /\ Len(chunk) \in Nat /\ Len(chunk) # 0
        /\ DOMAIN chunk = 1 .. Len(chunk)
    BY Joined, WordParts
  <1>2. /\ \A i \in 1 .. Len(data) : j[i] = data[i]
        /\ \A i \in 1 .. Len(chunk) : j[Len(data) + i] = chunk[i]
        /\ \A i \in 1 .. Len(j) :
              \/ i \in 1 .. Len(data)
              \/ i - Len(data) \in 1 .. Len(chunk) /\ i = Len(data) + (i - Len(data))
    BY Joined
  <1> HIDE DEF j
  <1>3. ASSUME hl PROVE AnyHl(j, start, Len(j))
    <2>1. 1 \in 1 .. Len(chunk) /\ Len(data) + 1 \in start + 1 .. Len(j)
      BY <1>1
    <2>2. chunk[1].hl
      BY <1>1, <1>3, <2>1, Zenon DEF AllHl
    <2>3. j[Len(data) + 1].hl
      BY <1>2, <2>1, <2>2
    <2> QED BY <2>1, <2>3 DEF AnyHl
  <1>4. ASSUME flag, start # Len(data) PROVE AnyHl(j, start, Len(j))
    <2>1. AnyHl(data, start, Len(data))
      BY <1>1, <1>4 DEF FlagOf
    <2>2. PICK i \in start + 1 .. Len(data) : data[i].hl
      BY <2>1 DEF AnyHl
    <2>3. i \in 1 .. Len(data) /\ i \in start + 1 .. Len(j)
      BY <1>1
    <2>4. j[i].hl
      BY <1>2, <2>2, <2>3
    <2> QED BY <2>3, <2>4 DEF AnyHl
  <1>5. ASSUME AnyHl(j, start, Len(j)), ~hl PROVE flag /\ start # Len(data)
    <2>1. PICK i \in start + 1 .. Len(j) : j[i].hl
      BY <1>5 DEF AnyHl
    <2>2. i \in 1 .. Len(j)
      BY <1>1
    <2>3. i \in 1 .. Len(data)
      <3>1. CASE i - Len(data) \in 1 .. Len(chunk) /\ i = Len(data) + (i - Len(data))
        <4>1. j[i] = chunk[i - Len(data)]
          BY <1>2, <3>1
        <4>2. chunk[i - Len(data)].hl = hl
          BY <1>1, <3>1 DEF AllHl
        <4> QED BY <1>5, <2>1, <4>1, <4>2
      <3> QED BY <1>2, <2>2, <3>1
    <2>4. i \in start + 1 .. Len(data) /\ start < Len(data)
      BY <1>1, <2>3
    <2>5. data[i].hl
      BY <1>2, <2>1, <2>3
    <2>6. AnyHl(data, start, Len(data))
      BY <2>4, <2>5 DEF AnyHl
    <2> QED BY <2>4, <2>6 DEF FlagOf
  <1>6. (hl \/ (flag /\ start # Len(data))) <=> AnyHl(j, start, Len(j))
    BY <1>3, <1>4, <1>5
  <1> QED BY <1>6 DEF j, FlagAfter

\* The words up to one of them.
LEMMA FirstOf ==
    ASSUME NEW s \in Seq(Words), NEW to \in Nat, to <= Len(s),
           NEW part, part = SubSeq(s, 1, to)
    PROVE  /\ part \in Seq(Words) /\ Len(part) = to
           /\ DOMAIN part = 1 .. to
           /\ \A i \in 1 .. to : i \in 1 .. Len(s) /\ part[i] = s[i]
  <1>1. Len(s) \in Nat
    BY WordParts
  <1>2. /\ 0 \in Nat /\ 0 <= to /\ to - 0 = to /\ 0 + 1 = 1
        /\ \A i \in Nat : 0 + i = i
    OBVIOUS
  <1>3. /\ part \in Seq(Words) /\ Len(part) = to - 0
        /\ DOMAIN part = 1 .. to - 0
        /\ \A i \in 1 .. to - 0 : 0 + i \in 1 .. Len(s) /\ part[i] = s[0 + i]
    <2>1. part = SubSeq(s, 0 + 1, to)
      BY <1>2
    <2>2. LET p == SubSeq(s, 0 + 1, to) IN
          /\ p \in Seq(Words) /\ Len(p) = to - 0
          /\ DOMAIN p = 1 .. to - 0
          /\ \A i \in 1 .. to - 0 : 0 + i \in 1 .. Len(s) /\ p[i] = s[0 + i]
      BY <1>2, Cut, ZenonT(60)
    <2> QED BY <2>1, <2>2, Zenon
  <1>4. \A i \in 1 .. to : i \in Nat
    OBVIOUS
  <1> QED BY <1>2, <1>3, <1>4

\* A stream that overflows keeps its complete packets.
Dropped(a, path, chunk, t) ==
    [a EXCEPT !.streams[path] = t,
              !.lost = @ \cup (Numbers(a.streams[path].data \o chunk)
                                 \ Numbers(t.data))]

LEMMA DropsIncomplete ==
    ASSUME NEW a, Consistent(a), NEW path \in Paths,
           NEW chunk \in Seq(Words), NEW s, s = a.streams[path],
           NEW flag \in BOOLEAN,
           NEW t, t = DropIncompletePacket([s EXCEPT !.path2DirectHl = flag]),
           NEW r, r = Dropped(a, path, chunk, t)
    PROVE  Submitted(a, r, path, chunk)
  <1>0. /\ Shape(a) /\ Tiled(a)
        /\ \A p \in Paths : Parsing(a, p) /\ Stuck(a.streams[p])
    BY DEF Consistent
  <1>1. /\ s \in Streams /\ s.data \in Seq(Words)
        /\ s.packetStart \in Nat /\ s.parseOffset \in Nat
        /\ Len(s.data) \in Nat /\ DOMAIN s.data = 1 .. Len(s.data)
    BY <1>0, StreamParts, WordParts
  <1>2. /\ s.packetStart <= Len(s.data) /\ Len(s.data) <= MaxStream
    <2>1. /\ s.packetStart <= s.parseOffset /\ s.parseOffset <= Len(s.data)
          /\ Len(s.data) <= MaxStream
      BY DEF Consistent, Parsing
    <2> QED BY <1>1, <2>1
  <1> DEFINE data == SubSeq(s.data, 1, s.packetStart)
  <1>3. /\ data \in Seq(Words) /\ Len(data) = s.packetStart
        /\ \A i \in 1 .. s.packetStart : data[i] = s.data[i]
    <2> HIDE DEF data
    <2>1. data = SubSeq(s.data, 1, s.packetStart)
      BY DEF data
    <2> QED BY <1>1, <1>2, <2>1, FirstOf, SMTT(60)
  <1>4. /\ t \in Streams
        /\ t.data = data /\ t.packetStart = s.packetStart
        /\ t.parseOffset = s.packetStart /\ t.path2DirectHl = FALSE
    <2> QED BY <1>1, <1>3 DEF Streams, DropIncompletePacket
  <1> HIDE DEF data
  <1>5. t.data = SubSeq(s.data, 1, s.packetStart)
    BY <1>4 DEF data
  <1> DEFINE lost == a.lost \cup (Numbers(s.data \o chunk) \ Numbers(t.data))
  <1>6. lost \in SUBSET Nat
    <2>1. s.data \o chunk \in Seq(Words)
      BY <1>1, Joined
    <2>2. \A k \in DOMAIN (s.data \o chunk) : (s.data \o chunk)[k].n \in Nat
      BY <2>1, WordParts
    <2>3. a.lost \in SUBSET Nat
      BY <1>0, ArbiterParts
    <2> QED BY <2>2, <2>3, SMTT(60) DEF Numbers
  <1>7. r = Replaced(a, path, t, lost)
    BY DEF Consistent, Shape, Arbiters, Replaced, Dropped
  <1> HIDE DEF lost
  <1>8. /\ Shape(r) /\ r.queue = a.queue /\ r.handed = a.handed
        /\ r.arrived = a.arrived /\ r.reservations = a.reservations
        /\ r.lost = lost /\ r.streams[path] = t
        /\ \A p \in Paths \ {path} : r.streams[p] = a.streams[p]
    <2>1. Shape(a) /\ t \in Streams
      BY <1>0, <1>4
    <2>2. WithStreams(a, r, path, t, lost)
      BY <1>6, <1>7, <2>1, WithStream, Zenon
    <2> QED BY <2>2 DEF WithStreams
  <1>9. Tiled(r)
    <2>1. \A p \in Paths :
              /\ r.streams[p].packetStart = a.streams[p].packetStart
              /\ \A i \in 1 .. a.streams[p].packetStart :
                    r.streams[p].data[i].hl = a.streams[p].data[i].hl
      BY <1>3, <1>4, <1>8
    <2>2. SameTiles(a, r)
      BY <1>8, <2>1 DEF SameTiles
    <2> QED BY <1>0, <1>8, <2>2, TiledSame
  <1>10. ASSUME NEW p \in Paths PROVE Parsing(r, p) /\ Stuck(r.streams[p])
    <2>1. CASE p = path
      <3>1. Stuck(t)
        BY <1>3, <1>4 DEF Stuck
      <3>2. Len(t.data) <= MaxStream
        BY <1>1, <1>2, <1>3, <1>4, ConstantsAssumption
      <3>3. ~(t.packetStart < Len(t.data)) /\ t.packetStart <= t.parseOffset
            /\ t.parseOffset <= Len(t.data)
        BY <1>1, <1>3, <1>4
      <3> QED BY <1>8, <2>1, <3>1, <3>2, <3>3 DEF Parsing
    <2>2. CASE p # path
      BY <1>8, <2>2 DEF Parsing, Consistent
    <2> QED BY <2>1, <2>2
  <1>11. /\ Len(a.queue) \in Nat /\ Len(a.queue) <= Len(r.queue)
         /\ \A i \in 1 .. Len(a.queue) : r.queue[i] = a.queue[i]
         /\ \A i \in Len(a.queue) + 1 .. Len(r.queue) : FALSE
    <2>1. Len(a.queue) \in Nat
      BY <1>0, ArbiterParts, QueueParts
    <2> QED BY <1>8, <2>1
  <1>12. r.lost = a.lost \cup (Numbers(s.data \o chunk) \ Numbers(t.data))
    BY <1>8 DEF lost
  <1> QED BY <1>4, <1>5, <1>8, <1>9, <1>10, <1>11, <1>12 DEF Submitted

\* The words do not fit, or the parser goes on with them.
Parses(a, r, path, chunk, hl) ==
    \/ r.streams[path].packetStart = Len(r.streams[path].data)
    \/ \E g :
          /\ Shape(g) /\ Flagged(g, path, hl, Len(a.streams[path].data))
          /\ Turned(g, g, path, Len(a.streams[path].data))
          /\ g.streams[path].data = a.streams[path].data \o chunk
          /\ g.streams[path].packetStart = a.streams[path].packetStart
          /\ g.streams[path].parseOffset = a.streams[path].parseOffset
          /\ r = Parsed(g, path, hl, Len(g.streams[path].data))

LEMMA SubmitDoes ==
    ASSUME NEW a, Consistent(a), NEW path \in Paths, NEW hl \in BOOLEAN,
           NEW chunk \in Seq(Words), chunk # <<>>,
           AllHl(chunk, hl),
           path # 2 => ~hl /\ Plain(a.streams[path].data),
           NEW r, r = Submit(a, path, chunk, hl)
    PROVE  Submitted(a, r, path, chunk) /\ Parses(a, r, path, chunk, hl)
  <1>0. /\ Shape(a) /\ Tiled(a)
        /\ \A p \in Paths : Parsing(a, p) /\ Stuck(a.streams[p])
    BY DEF Consistent
  <1> DEFINE s == a.streams[path]
             flag == hl \/ (s.path2DirectHl /\ s.packetStart # Len(s.data))
             flagged == [s EXCEPT !.path2DirectHl = flag]
             grown == [flagged EXCEPT !.data = s.data \o chunk]
             t == DropIncompletePacket(flagged)
             g == [a EXCEPT !.streams[path] = grown]
             full == [a EXCEPT !.streams[path] = t,
                         !.lost = @ \cup (Numbers(s.data \o chunk) \ Numbers(t.data))]
  <1>1. /\ s \in Streams /\ s.data \in Seq(Words)
        /\ s.packetStart \in Nat /\ s.parseOffset \in Nat
        /\ s.path2DirectHl \in BOOLEAN
        /\ Len(s.data) \in Nat
    BY <1>0, StreamParts, WordParts
  <1>2. flag \in BOOLEAN
    OBVIOUS
  <1>3. /\ Len(s.data \o chunk) = Len(s.data) + Len(chunk)
        /\ s.data \o chunk \in Seq(Words)
        /\ \A i \in 1 .. Len(s.data) : (s.data \o chunk)[i] = s.data[i]
        /\ \A i \in 1 .. Len(chunk) : (s.data \o chunk)[Len(s.data) + i] = chunk[i]
        /\ Len(chunk) \in Nat /\ Len(chunk) # 0 /\ DOMAIN chunk = 1 .. Len(chunk)
    BY <1>1, Joined, WordParts
  <1>4. /\ grown \in Streams
        /\ grown.data = s.data \o chunk
        /\ grown.packetStart = s.packetStart /\ grown.parseOffset = s.parseOffset
        /\ grown.path2DirectHl = flag
    <2> HIDE DEF flag
    <2> QED BY <1>1, <1>2, <1>3 DEF Streams
  <1>5. r = IF Len(s.data \o chunk) > MaxStream THEN full
            ELSE Parsed(g, path, hl, Len(s.data \o chunk))
    <2>1. /\ [s EXCEPT !.path2DirectHl =
                  hl \/ (@ /\ s.packetStart # Len(s.data))] = flagged
          /\ flagged.data = s.data
      BY <1>1 DEF Streams
    <2>2. [flagged EXCEPT !.data = @ \o chunk] = grown
      BY <2>1
    <2>3. grown.data = s.data \o chunk
      BY <1>4
    <2>4. r = LET flagged1 == [s EXCEPT !.path2DirectHl =
                                hl \/ (@ /\ s.packetStart # Len(s.data))]
                  grown1 == [flagged1 EXCEPT !.data = @ \o chunk]
                  kept1 == DropIncompletePacket(flagged1)
              IN  IF Len(grown1.data) > MaxStream
                  THEN [a EXCEPT !.streams[path] = kept1,
                                 !.lost = @ \cup (Numbers(grown1.data)
                                                   \ Numbers(kept1.data))]
                  ELSE Parsed([a EXCEPT !.streams[path] = grown1], path, hl,
                              Len(grown1.data))
      BY Zenon DEF Submit
    <2> HIDE DEF grown, flagged
    <2> QED BY <2>1, <2>2, <2>3, <2>4
  <1>6. CASE Len(s.data \o chunk) > MaxStream
    <2>1. r = full
      BY <1>5, <1>6
    <2> HIDE DEF flag, full, t
    <2>2. t = DropIncompletePacket([s EXCEPT !.path2DirectHl = flag])
      BY DEF t
    <2>3. full = Dropped(a, path, chunk, t)
      BY DEF full, Dropped
    <2> HIDE DEF s, flagged
    <2>4. s = a.streams[path]
      BY DEF s
    <2>5. Submitted(a, r, path, chunk)
      BY <1>2, <2>1, <2>2, <2>3, <2>4, DropsIncomplete
    <2>6. r.streams[path].packetStart = Len(r.streams[path].data)
      <3>1. /\ s.packetStart \in Nat /\ s.packetStart <= Len(s.data)
            /\ s.data \in Seq(Words)
        <4>1. s.packetStart <= s.parseOffset /\ s.parseOffset <= Len(s.data)
          BY <1>0, <2>4 DEF Parsing
        <4> QED BY <1>1, <4>1
      <3>2. /\ t.data = SubSeq(s.data, 1, s.packetStart)
            /\ t.packetStart = s.packetStart
        BY <1>1, <1>2, <2>2 DEF Streams, DropIncompletePacket
      <3>3. r.streams[path] = t
        <4>1. t \in Streams
          <5>1. SubSeq(s.data, 1, s.packetStart) \in Seq(Words)
            BY <3>1, FirstOf
          <5> QED BY <1>1, <1>2, <2>2, <5>1 DEF Streams, DropIncompletePacket
        <4>2. a.streams \in [Paths -> Streams] /\ a \in Arbiters
          BY <1>0, ArbiterParts DEF Shape
        <4> QED BY <2>1, <2>3, <4>1, <4>2 DEF Dropped, Arbiters
      <3>4. Len(SubSeq(s.data, 1, s.packetStart)) = s.packetStart
        BY <3>1, FirstOf
      <3> QED BY <3>2, <3>3, <3>4
    <2> QED BY <2>5, <2>6 DEF Parses
  <1>7. CASE ~(Len(s.data \o chunk) > MaxStream)
    <2> DEFINE from == Len(s.data)
               n == Len(s.data \o chunk)
    <2>1. r = Parsed(g, path, hl, n)
      BY <1>5, <1>7
    <2>2. /\ Shape(g) /\ g.queue = a.queue /\ g.handed = a.handed
          /\ g.arrived = a.arrived /\ g.reservations = a.reservations
          /\ g.lost = a.lost /\ g.streams[path] = grown
          /\ \A p \in Paths \ {path} : g.streams[p] = a.streams[p]
      <3> HIDE DEF grown
      <3>1. g = Replaced(a, path, grown, a.lost)
        BY DEF Consistent, Shape, Arbiters, Replaced
      <3>2. a.lost \in SUBSET Nat
        BY <1>0, ArbiterParts
      <3>3. Shape(a) /\ grown \in Streams
        BY <1>0, <1>4
      <3>4. WithStreams(a, g, path, grown, a.lost)
        BY <3>1, <3>2, <3>3, WithStream, Zenon
      <3> QED BY <3>4 DEF WithStreams
    <2> HIDE DEF g, grown
    <2>3. Tiled(g)
      <3>1. s.packetStart <= Len(s.data)
        <4>1. s.packetStart <= s.parseOffset /\ s.parseOffset <= Len(s.data)
          BY DEF Consistent, Parsing
        <4> QED BY <1>1, <4>1
      <3>2. \A i \in 1 .. s.packetStart : grown.data[i] = s.data[i]
        BY <1>1, <1>3, <1>4, <3>1
      <3>3. \A p \in Paths :
              /\ g.streams[p].packetStart = a.streams[p].packetStart
              /\ \A i \in 1 .. a.streams[p].packetStart :
                    g.streams[p].data[i].hl = a.streams[p].data[i].hl
        BY <1>4, <2>2, <3>2
      <3>4. SameTiles(a, g)
        BY <2>2, <3>3 DEF SameTiles
      <3> QED BY <1>0, <2>2, <3>4, TiledSame
    <2>4. /\ s.packetStart <= s.parseOffset /\ s.parseOffset <= Len(s.data)
          /\ s.packetStart < Len(s.data) =>
                s.path2DirectHl = AnyHl(s.data, s.packetStart, Len(s.data))
      BY DEF Consistent, Parsing
    <2>5. n \in Nat /\ from \in Nat /\ from < n /\ n <= MaxStream
      <3>1. MaxStream \in Nat
        BY ConstantsAssumption
      <3>2. n = from + Len(chunk) /\ from \in Nat /\ ~(n > MaxStream)
        BY <1>1, <1>3, <1>7
      <3> HIDE DEF n, from
      <3> QED BY <1>3, <3>1, <3>2
    <2>6. Parsing(g, path)
      <3>1. flag = AnyHl(grown.data, grown.packetStart, Len(grown.data))
        <4>1. s.packetStart <= Len(s.data)
          BY <1>1, <2>4
        <4>2. flag <=> AnyHl(s.data \o chunk, s.packetStart, Len(s.data \o chunk))
          <5>1. FlagOf(s.path2DirectHl, s.data, s.packetStart)
            BY <2>4 DEF FlagOf
          <5> HIDE DEF s
          <5>2. FlagAfter(hl, s.path2DirectHl, s.data, s.packetStart, chunk)
            BY <1>1, <4>1, <5>1, FlagGrows, Zenon
          <5> QED BY <5>2 DEF FlagAfter
        <4>3. AnyHl(s.data \o chunk, s.packetStart, Len(s.data \o chunk)) \in BOOLEAN
          BY DEF AnyHl
        <4> HIDE DEF flag
        <4> QED BY <1>2, <1>4, <4>2, <4>3
      <3>2. /\ grown.packetStart <= grown.parseOffset
            /\ grown.parseOffset <= Len(grown.data)
            /\ Len(grown.data) <= MaxStream
        BY <1>1, <1>4, <2>4, <2>5
      <3>3. grown.path2DirectHl = AnyHl(grown.data, grown.packetStart, Len(grown.data))
        BY <1>4, <3>1
      <3> HIDE DEF flag
      <3> QED BY <2>2, <3>2, <3>3 DEF Parsing
    <2>7. grown.parseOffset = Len(grown.data) \/ from < NextEnd(grown)
      <3>1. CASE s.parseOffset = Len(s.data)
        <4>1. /\ s.parseOffset + 1 = from + 1 /\ 1 \in 1 .. Len(chunk)
          BY <1>1, <1>3, <3>1
        <4>2. grown.data[s.parseOffset + 1] = chunk[1]
          BY <1>3, <1>4, <4>1
        <4>3. chunk[1].size \in Nat \ {0}
          BY <1>3, <4>1, WordParts
        <4>4. from < from + chunk[1].size
          BY <2>5, <4>3
        <4> QED BY <1>4, <3>1, <4>2, <4>4 DEF NextEnd
      <3>2. CASE s.parseOffset # Len(s.data)
        <4>1. s.parseOffset + s.data[s.parseOffset + 1].size > Len(s.data)
          BY <3>2 DEF Consistent, Stuck
        <4>2. s.parseOffset + 1 \in 1 .. Len(s.data)
          BY <1>1, <2>4, <3>2, SMTT(60)
        <4>3. grown.data[s.parseOffset + 1] = s.data[s.parseOffset + 1]
          BY <1>3, <1>4, <4>2
        <4>4. s.data[s.parseOffset + 1].size \in Nat
          BY <1>1, <4>2, WordParts
        <4>5. from < s.parseOffset + s.data[s.parseOffset + 1].size
          BY <1>1, <4>1, <4>4
        <4> QED BY <1>4, <4>3, <4>5 DEF NextEnd
      <3> QED BY <3>1, <3>2
    <2>8. Flagged(g, path, hl, from)
      <3>1. ASSUME NEW k \in from + 1 .. n PROVE grown.data[k].hl = hl
        <4>1. k - from \in 1 .. Len(chunk) /\ k = from + (k - from)
          BY <1>1, <1>3
        <4>2. grown.data[k] = chunk[k - from]
          BY <1>3, <1>4, <4>1
        <4> QED BY <1>3, <4>1, <4>2 DEF AllHl
      <3>2. ASSUME path # 2 PROVE ~hl /\ Plain(grown.data)
        <4>1. ~hl /\ Plain(s.data)
          BY <3>2
        <4>2. Plain(chunk)
          BY <4>1, Zenon DEF Plain, AllHl
        <4> QED BY <1>1, <1>4, <4>1, <4>2, JoinedOrder
      <3> QED BY <1>4, <2>2, <3>1, <3>2 DEF Flagged
    <2>9. Turned(g, g, path, from)
      <3>1. Len(g.queue) \in Nat
        BY <2>2, ArbiterParts, QueueParts
      <3>2. /\ Len(g.queue) <= Len(g.queue)
            /\ \A i \in Len(g.queue) + 1 .. Len(g.queue) : FALSE
        BY <3>1
      <3> QED BY <2>2, <2>3, <2>6, <2>7, <3>2 DEF Turned, SameBut
    <2>10. n = Len(g.streams[path].data)
      BY <1>4, <2>2
    <2>11. Turned(g, r, path, from) /\ Stuck(r.streams[path])
      <3> HIDE DEF n, from
      <3> QED BY <2>1, <2>2, <2>5, <2>8, <2>9, <2>10, ParsedKeeps
    <2>12. /\ Shape(r) /\ SameBut(g, r, path) /\ Tiled(r) /\ Parsing(r, path)
           /\ Len(g.queue) <= Len(r.queue)
           /\ \A i \in 1 .. Len(g.queue) : r.queue[i] = g.queue[i]
           /\ \A i \in Len(g.queue) + 1 .. Len(r.queue) :
                 r.queue[i].path = path /\ from < End(r.queue[i])
      BY <2>11 DEF Turned
    <2>13. \A p \in Paths \ {path} : r.streams[p] = a.streams[p]
      BY <2>2, <2>12 DEF SameBut
    <2>14. \A p \in Paths : Parsing(r, p) /\ Stuck(r.streams[p])
      BY <2>11, <2>12, <2>13 DEF Parsing, Consistent
    <2>15. r.streams[path].data = s.data \o chunk
      BY <1>4, <2>2, <2>12 DEF SameBut
    <2>16. /\ r.arrived = a.arrived /\ r.handed = a.handed
           /\ r.reservations = a.reservations /\ r.lost = a.lost
      BY <2>2, <2>12 DEF SameBut
    <2>17. Submitted(a, r, path, chunk)
      BY <2>2, <2>12, <2>13, <2>14, <2>15, <2>16 DEF Submitted
    <2>18. /\ r = Parsed(g, path, hl, Len(g.streams[path].data))
           /\ g.streams[path].data = s.data \o chunk
           /\ g.streams[path].packetStart = s.packetStart
           /\ g.streams[path].parseOffset = s.parseOffset
      BY <1>4, <2>1, <2>2, <2>10
    <2>19. Parses(a, r, path, chunk, hl)
      BY <2>2, <2>8, <2>9, <2>18 DEF Parses
    <2> QED BY <2>17, <2>19
  <1> QED BY <1>6, <1>7

-----------------------------------------------------------------------------
(* A submission keeps the words of each path in order.                      *)

\* The chunks on their way once the first of a path is taken.
Taken(w, path) == [w EXCEPT ![path] = Tail(w[path])]

LEMMA NextWay ==
    ASSUME NEW w \in Ways, NEW path \in Paths, w[path] # <<>>,
           NEW v, v = Taken(w, path)
    PROVE  /\ v \in Ways
           /\ \A p \in Paths \ {path} : v[p] = w[p]
           /\ Len(w[path]) \in Nat \ {0}
           /\ Len(v[path]) = Len(w[path]) - 1
           /\ \A c \in 1 .. Len(w[path]) - 1 :
                 c + 1 \in 1 .. Len(w[path]) /\ v[path][c] = w[path][c + 1]
           /\ w[path][1] \in Seq(Words)
           /\ DOMAIN w[path] = 1 .. Len(w[path])
           /\ DOMAIN v[path] = 1 .. Len(w[path]) - 1
  <1>1. /\ w[path] \in Seq(Seq(Words)) /\ Len(w[path]) \in Nat
        /\ DOMAIN w[path] = 1 .. Len(w[path])
        /\ (w[path] = <<>> <=> Len(w[path]) = 0)
        /\ \A c \in 1 .. Len(w[path]) : w[path][c] \in Seq(Words)
    BY WayParts
  <1>2. Len(w[path]) \in Nat \ {0} /\ 1 \in 1 .. Len(w[path])
    BY <1>1
  <1> DEFINE rest == Tail(w[path])
  <1>3. /\ rest \in Seq(Seq(Words))
        /\ Len(rest) = Len(w[path]) - 1
        /\ \A i \in 1 .. Len(rest) : rest[i] = w[path][i + 1]
    BY <1>1, HeadTailProperties
  <1> HIDE DEF rest
  <1>4. v \in Ways /\ v[path] = rest /\ \A p \in Paths \ {path} : v[p] = w[p]
    BY <1>3 DEF Ways, Taken, rest
  <1>5. \A c \in 1 .. Len(w[path]) - 1 : c + 1 \in 1 .. Len(w[path])
    BY <1>2
  <1>6. DOMAIN rest = 1 .. Len(rest)
    BY <1>3
  <1> QED BY <1>1, <1>2, <1>3, <1>4, <1>5, <1>6

\* The chunk that is taken, and those that are left.
LEMMA TakenOrder ==
    ASSUME NEW w \in Ways, NEW path \in Paths, w[path] # <<>>,
           NEW v, v = Taken(w, path),
           InLine(w[path])
    PROVE  /\ InLine(v[path])
           /\ w[path][1] # <<>> /\ Increasing(w[path][1])
           /\ \A c \in DOMAIN v[path] : Before(w[path][1], v[path][c])
           /\ Coming(w[path]) = Numbers(w[path][1]) \cup Coming(v[path])
  <1> DEFINE n == Len(w[path])
  <1>1. /\ n \in Nat \ {0}
        /\ \A c \in 1 .. n - 1 : c + 1 \in 1 .. n /\ v[path][c] = w[path][c + 1]
        /\ DOMAIN w[path] = 1 .. n /\ DOMAIN v[path] = 1 .. n - 1
    BY NextWay
  <1> HIDE DEF n
  <1>2. /\ 1 \in 1 .. n
        /\ \A c \in 1 .. n - 1 : 1 < c + 1
        /\ \A c, d \in 1 .. n - 1 : c < d => c + 1 < d + 1
        /\ \A c \in 1 .. n : c = 1 \/ (c - 1 \in 1 .. n - 1 /\ (c - 1) + 1 = c)
    BY <1>1
  <1>3. InLine(v[path])
    <2>1. ASSUME NEW c \in 1 .. n - 1
          PROVE  /\ v[path][c] # <<>> /\ Increasing(v[path][c])
                 /\ \A d \in 1 .. n - 1 : c < d => Before(v[path][c], v[path][d])
      BY <1>1, <1>2 DEF InLine
    <2> QED BY <1>1, <2>1 DEF InLine
  <1>4. /\ w[path][1] # <<>> /\ Increasing(w[path][1])
        /\ \A c \in DOMAIN v[path] : Before(w[path][1], v[path][c])
    BY <1>1, <1>2 DEF InLine
  <1>5. Coming(w[path]) = Numbers(w[path][1]) \cup Coming(v[path])
    <2>1. ASSUME NEW x \in Coming(w[path])
          PROVE  x \in Numbers(w[path][1]) \cup Coming(v[path])
      <3>1. PICK c \in 1 .. n : x \in Numbers(w[path][c])
        BY <1>1, <2>1 DEF Coming
      <3>2. CASE c = 1
        BY <3>1, <3>2
      <3>3. CASE c - 1 \in 1 .. n - 1 /\ (c - 1) + 1 = c
        <4>1. v[path][c - 1] = w[path][c]
          BY <1>1, <3>3
        <4> QED BY <1>1, <3>1, <3>3, <4>1 DEF Coming
      <3> QED BY <1>2, <3>2, <3>3
    <2>2. ASSUME NEW x \in Coming(v[path]) PROVE x \in Coming(w[path])
      <3>1. PICK c \in 1 .. n - 1 : x \in Numbers(v[path][c])
        BY <1>1, <2>2 DEF Coming
      <3>2. c + 1 \in 1 .. n /\ v[path][c] = w[path][c + 1]
        BY <1>1
      <3> QED BY <1>1, <3>1, <3>2 DEF Coming
    <2>3. Numbers(w[path][1]) \subseteq Coming(w[path])
      BY <1>1, <1>2, SMTT(60) DEF Coming
    <2> QED BY <2>1, <2>2, <2>3
  <1> QED BY <1>3, <1>4, <1>5

\* What is joined of words that are in order, or the first of it, is in order.
LEMMA TakenInOrder ==
    ASSUME NEW a, Shape(a), NEW w \in Ways, NEW path \in Paths,
           w[path] # <<>>, Ordered(a, w, path),
           NEW r, r.handed = a.handed, NEW t, t = r.streams[path].data,
           NEW to \in Nat, to <= Len(a.streams[path].data),
           \/ t = a.streams[path].data \o w[path][1]
           \/ t = SubSeq(a.streams[path].data, 1, to)
    PROVE  /\ Ordered(r, Taken(w, path), path)
           /\ Plain(a.streams[path].data) /\ Plain(w[path][1]) => Plain(t)
           /\ Numbers(t) \subseteq Numbers(a.streams[path].data \o w[path][1])
  <1> DEFINE s == a.streams[path].data
             chunk == w[path][1]
             v == Taken(w, path)
  <1>1. /\ v \in Ways /\ chunk \in Seq(Words) /\ s \in Seq(Words)
        /\ \A c \in DOMAIN v[path] : v[path][c] \in Seq(Words)
    <2>1. v \in Ways /\ chunk \in Seq(Words)
      BY NextWay, Zenon
    <2>2. s \in Seq(Words)
      BY StreamParts
    <2> HIDE DEF v
    <2>3. \A c \in DOMAIN v[path] : v[path][c] \in Seq(Words)
      BY <2>1, WayParts
    <2> QED BY <2>1, <2>2, <2>3
  <1>2. 1 \in DOMAIN w[path]
    BY NextWay, SMTT(60)
  <1>3. /\ InLine(v[path])
        /\ chunk # <<>> /\ Increasing(chunk)
        /\ \A c \in DOMAIN v[path] : Before(chunk, v[path][c])
    BY TakenOrder DEF Ordered
  <1>4. /\ Before(s, chunk)
        /\ \A c \in DOMAIN v[path] :
              After(a.handed, path, v[path][c]) /\ Before(s, v[path][c])
    <2>1. \A c \in DOMAIN v[path] :
             c + 1 \in DOMAIN w[path] /\ v[path][c] = w[path][c + 1]
      <3>1. /\ DOMAIN w[path] = 1 .. Len(w[path])
            /\ DOMAIN v[path] = 1 .. Len(w[path]) - 1
            /\ \A c \in 1 .. Len(w[path]) - 1 :
                  c + 1 \in 1 .. Len(w[path]) /\ v[path][c] = w[path][c + 1]
        BY NextWay, SMTT(60)
      <3> HIDE DEF v
      <3> QED BY <3>1, Zenon
    <2>2. \A c \in DOMAIN w[path] :
              After(a.handed, path, w[path][c]) /\ Before(s, w[path][c])
      BY DEF Ordered
    <2> HIDE DEF v, s
    <2> QED BY <1>2, <2>1, <2>2, Zenon
  <1>5. /\ Delivered(a.handed, path) /\ Increasing(s)
        /\ After(a.handed, path, s) /\ After(a.handed, path, chunk)
    BY <1>2, SMTT(60) DEF Ordered
  <1>6. \A i \in DOMAIN a.handed : a.handed[i].words \in Seq(Words)
    BY HandedParts, SMTT(60)
  <1>7. /\ t \in Seq(Words) /\ Increasing(t)
        /\ \A x \in Seq(Words) :
              /\ Before(x, s) /\ Before(x, chunk) => Before(x, t)
              /\ Before(s, x) /\ Before(chunk, x) => Before(t, x)
        /\ Plain(s) /\ Plain(chunk) => Plain(t)
        /\ Numbers(t) \subseteq Numbers(s \o chunk)
    <2>1. CASE t = s \o chunk
      <3>1. /\ s \o chunk \in Seq(Words) /\ Increasing(s \o chunk)
            /\ Plain(s) /\ Plain(chunk) => Plain(s \o chunk)
            /\ \A x \in Seq(Words) :
                  /\ Before(x, s) /\ Before(x, chunk) => Before(x, s \o chunk)
                  /\ Before(s, x) /\ Before(chunk, x) => Before(s \o chunk, x)
        <4> HIDE DEF s, chunk
        <4> QED BY <1>1, <1>3, <1>4, <1>5, Joined, JoinedOrder, SMTT(60)
      <3> QED BY <2>1, <3>1, SMTT(60)
    <2>2. CASE t = SubSeq(s, 1, to)
      <3>1. /\ SubSeq(s, 0 + 1, to) = t /\ 0 \in Nat /\ 0 <= to
        BY <2>2
      <3>2. t \in Seq(Words)
        BY <1>1, <2>2, FirstOf, SMTT(60)
      <3>3. /\ Numbers(t) \subseteq Numbers(s)
            /\ Increasing(s) => Increasing(t)
            /\ Plain(s) => Plain(t)
            /\ \A x \in Seq(Words) :
                  /\ Before(x, s) => Before(x, t)
                  /\ Before(s, x) => Before(t, x)
        <4> HIDE DEF s
        <4>1. to <= Len(s)
          BY SMTT(60) DEF s
        <4>2. PartOf(s, t)
          BY <1>1, <3>1, <4>1, CutOrder
        <4> QED BY <4>2 DEF PartOf
      <3>4. Numbers(s \o chunk) = Numbers(s) \cup Numbers(chunk)
        BY <1>1, JoinedOrder, SMTT(60)
      <3> QED BY <1>5, <3>2, <3>3, <3>4
    <2> QED BY <2>1, <2>2
  <1> HIDE DEF s, chunk, v
  <1>8. After(a.handed, path, t)
    <2>1. ASSUME NEW i \in DOMAIN a.handed, a.handed[i].path = path
          PROVE  Before(a.handed[i].words, t)
      <3>1. Before(a.handed[i].words, s) /\ Before(a.handed[i].words, chunk)
        BY <1>5, <2>1, Zenon DEF After
      <3>2. a.handed[i].words \in Seq(Words)
        BY <1>6, <2>1, Zenon
      <3> QED BY <1>7, <3>1, <3>2, Zenon
    <2> QED BY <2>1, Zenon DEF After
  <1>9. \A c \in DOMAIN v[path] : Before(t, v[path][c])
    <2>1. ASSUME NEW c \in DOMAIN v[path] PROVE Before(t, v[path][c])
      <3>1. /\ v[path][c] \in Seq(Words)
            /\ Before(s, v[path][c]) /\ Before(chunk, v[path][c])
        BY <1>1, <1>3, <1>4, <2>1
      <3> QED BY <1>7, <3>1, Zenon
    <2> QED BY <2>1, Zenon
  <1>10. Ordered(r, v, path)
    BY <1>3, <1>4, <1>5, <1>7, <1>8, <1>9 DEF Ordered
  <1> QED BY <1>7, <1>10, SMTT(60) DEF s, chunk, v

\* Words before or behind others have no number of theirs.
LEMMA GoneApart ==
    ASSUME NEW a, Shape(a), NEW p, NEW words \in Seq(Words),
           After(a.handed, p, words)
    PROVE  Gone(a.handed, p) \cap Numbers(words) = {}
  <1>1. ASSUME NEW i \in DOMAIN a.handed, a.handed[i].path = p
        PROVE  Numbers(a.handed[i].words) \cap Numbers(words) = {}
    <2>1. Before(a.handed[i].words, words)
      BY <1>1 DEF After
    <2>2. a.handed[i].words \in Seq(Words)
      BY HandedParts
    <2> QED BY <2>1, <2>2, BeforeApart
  <1> QED BY <1>1 DEF Gone

LEMMA ComingApart ==
    ASSUME NEW w \in Ways, NEW p \in Paths, NEW words \in Seq(Words),
           \A c \in DOMAIN w[p] : Before(words, w[p][c])
    PROVE  Coming(w[p]) \cap Numbers(words) = {}
  <1>1. ASSUME NEW c \in DOMAIN w[p]
        PROVE  Numbers(w[p][c]) \cap Numbers(words) = {}
    <2>1. w[p][c] \in Seq(Words)
      BY WayParts
    <2>2. Numbers(words) \cap Numbers(w[p][c]) = {}
      BY <2>1, BeforeApart
    <2> QED BY <2>2
  <1> QED BY <1>1 DEF Coming

\* What a submission loses is no longer on its path.
Loses(a, w, r, path, lost) ==
    /\ Placed(r, Taken(w, path), path) = Placed(a, w, path) \ lost
    /\ lost \subseteq Placed(a, w, path)

LEMMA SubmitPlaces ==
    ASSUME NEW a, Shape(a), NEW w \in Ways, NEW path \in Paths,
           w[path] # <<>>, Ordered(a, w, path),
           NEW r, r.handed = a.handed,
           NEW joined, joined = a.streams[path].data \o w[path][1],
           Numbers(r.streams[path].data) \subseteq Numbers(joined)
    PROVE  Loses(a, w, r, path, Numbers(joined) \ Numbers(r.streams[path].data))
  <1> DEFINE s == a.streams[path].data
             chunk == w[path][1]
             v == Taken(w, path)
             D == Numbers(s)
             C == Numbers(chunk)
             T == Numbers(r.streams[path].data)
             G == Gone(a.handed, path)
             V == Coming(v[path])
  <1>1. /\ v \in Ways /\ chunk \in Seq(Words) /\ s \in Seq(Words)
        /\ 1 \in DOMAIN w[path]
    BY NextWay, StreamParts
  <1>2. Numbers(joined) = D \cup C
    <2> HIDE DEF s, chunk
    <2>1. joined = s \o chunk
      BY DEF s, chunk
    <2> QED BY <1>1, <2>1, JoinedOrder
  <1>3. Coming(w[path]) = C \cup V /\ \A c \in DOMAIN v[path] : Before(chunk, v[path][c])
    BY TakenOrder DEF Ordered
  <1>4. \A c \in DOMAIN v[path] : Before(s, v[path][c])
    <2>1. Ordered(a, w, path)
      OBVIOUS
    <2>2. /\ DOMAIN w[path] = 1 .. Len(w[path])
          /\ DOMAIN v[path] = 1 .. Len(w[path]) - 1
          /\ \A c \in 1 .. Len(w[path]) - 1 :
                c + 1 \in 1 .. Len(w[path]) /\ v[path][c] = w[path][c + 1]
      BY NextWay
    <2>3. \A c \in DOMAIN w[path] : Before(s, w[path][c])
      BY DEF Ordered
    <2> HIDE DEF v, s
    <2> QED BY <2>2, <2>3, Zenon
  <1>5. G \cap D = {} /\ G \cap C = {}
    <2>1. After(a.handed, path, s) /\ After(a.handed, path, chunk)
      BY <1>1 DEF Ordered
    <2> HIDE DEF s, chunk
    <2> QED BY <1>1, <2>1, GoneApart
  <1>6. V \cap D = {} /\ V \cap C = {}
    <2> HIDE DEF s, chunk, v
    <2> QED BY <1>1, <1>3, <1>4, ComingApart
  <1>7. /\ Placed(a, w, path) = D \cup G \cup (C \cup V)
        /\ Placed(r, v, path) = T \cup G \cup V
    BY <1>3 DEF Placed
  <1>8. T \subseteq D \cup C
    BY <1>2
  <1> HIDE DEF s, chunk, v, D, C, T, G, V
  <1>9. /\ T \cup G \cup V = (D \cup G \cup (C \cup V)) \ ((D \cup C) \ T)
        /\ (D \cup C) \ T \subseteq D \cup G \cup (C \cup V)
    BY <1>5, <1>6, <1>8
  <1>10. /\ Placed(r, v, path) = Placed(a, w, path) \ (Numbers(joined) \ T)
         /\ Numbers(joined) \ T \subseteq Placed(a, w, path)
    BY <1>2, <1>7, <1>9
  <1> QED BY <1>10 DEF v, T, Loses

\* What is lost of a path leaves every word lost or on one path.
LEMMA StillKept ==
    ASSUME NEW a, NEW w, Kept(a, w), NEW path \in Paths,
           NEW r, NEW v, r.arrived = a.arrived,
           \A p \in Paths \ {path} : Placed(r, v, p) = Placed(a, w, p),
           NEW lost, lost \subseteq Placed(a, w, path),
           Placed(r, v, path) = Placed(a, w, path) \ lost,
           r.lost = a.lost \cup lost
    PROVE  Kept(r, v)
  <1>1. \A p \in Paths : Placed(r, v, p) \subseteq Placed(a, w, p)
    OBVIOUS
  <1>2. \A p \in Paths : \A q \in Paths \ {p} :
            Placed(r, v, p) \cap Placed(r, v, q) = {}
    <2>1. \A p \in Paths : \A q \in Paths \ {p} :
              Placed(a, w, p) \cap Placed(a, w, q) = {}
      BY DEF Kept
    <2> QED BY <1>1, <2>1
  <1>3. \A p \in Paths : Placed(r, v, p) \cap r.lost = {}
    <2>1. ASSUME NEW p \in Paths PROVE Placed(r, v, p) \cap r.lost = {}
      <3>1. Placed(a, w, p) \cap a.lost = {}
        BY DEF Kept
      <3>2. CASE p = path
        BY <3>1, <3>2
      <3>3. CASE p # path
        <4>1. Placed(a, w, p) \cap Placed(a, w, path) = {}
          BY <3>3 DEF Kept
        <4> QED BY <3>1, <3>3, <4>1
      <3> QED BY <3>2, <3>3
    <2> QED BY <2>1
  <1>4. 1 .. r.arrived = r.lost \cup UNION {Placed(r, v, p) : p \in Paths}
    <2>1. 1 .. a.arrived = a.lost \cup UNION {Placed(a, w, p) : p \in Paths}
      BY DEF Kept
    <2>2. ASSUME NEW x, \E p \in Paths : x \in Placed(a, w, p)
          PROVE  x \in lost \/ \E p \in Paths : x \in Placed(r, v, p)
      BY <2>2
    <2>3. ASSUME NEW x, x \in lost \/ \E p \in Paths : x \in Placed(r, v, p)
          PROVE  \E p \in Paths : x \in Placed(a, w, p)
      BY <1>1, <2>3
    <2>4. UNION {Placed(a, w, p) : p \in Paths} =
              lost \cup UNION {Placed(r, v, p) : p \in Paths}
      BY <2>2, <2>3
    <2> QED BY <2>1, <2>4
  <1> QED BY <1>2, <1>3, <1>4 DEF Kept

LEMMA SubmitExact ==
    ASSUME NEW a, NEW w, Exact(a, w), NEW path \in Paths, NEW hl \in BOOLEAN,
           w[path] # <<>>, NEW chunk, chunk = w[path][1],
           AllHl(chunk, hl), path # 2 => ~hl,
           NEW r, r = Submit(a, path, chunk, hl)
    PROVE  Submitted(a, r, path, chunk) /\ Exact(r, Taken(w, path))
  <1> DEFINE s == a.streams[path]
             t == r.streams[path]
             v == Taken(w, path)
             joined == s.data \o chunk
             lost == Numbers(joined) \ Numbers(t.data)
  <1>1. /\ Shape(a) /\ w \in Ways /\ Consistent(a) /\ Unmixed(a, w) /\ Kept(a, w)
        /\ \A p \in Paths : Ordered(a, w, p)
    BY DEF Exact, Consistent
  <1>2. /\ chunk \in Seq(Words) /\ s.data \in Seq(Words) /\ v \in Ways
        /\ 1 \in DOMAIN w[path] /\ chunk # <<>>
        /\ \A p \in Paths \ {path} : v[p] = w[p]
    <2>1. w[path][1] # <<>>
      BY <1>1, TakenOrder DEF Ordered
    <2> QED BY <1>1, <2>1, NextWay, StreamParts
  <1>3. Submitted(a, r, path, chunk)
    <2>1. path # 2 => ~hl /\ Plain(a.streams[path].data)
      BY <1>1, SMTT(60) DEF Unmixed
    <2> QED BY <1>1, <1>2, <2>1, SubmitDoes DEF AllHl
  <1>4. /\ Shape(r) /\ Tiled(r)
        /\ \A p \in Paths : Parsing(r, p) /\ Stuck(r.streams[p])
        /\ r.arrived = a.arrived /\ r.handed = a.handed
        /\ \A p \in Paths \ {path} : r.streams[p] = a.streams[p]
    BY <1>3, ZenonT(60) DEF Submitted
  <1>5. /\ \/ t.data = joined
           \/ t.data = SubSeq(s.data, 1, s.packetStart)
        /\ r.lost = a.lost \cup lost
    <2>1. CASE t.data = joined /\ r.lost = a.lost
      BY <2>1
    <2>2. CASE /\ t.data = SubSeq(s.data, 1, s.packetStart)
               /\ r.lost = a.lost \cup lost
      BY <2>2
    <2> QED BY <1>3, <2>1, <2>2 DEF Submitted
  <1>6. s.packetStart \in Nat /\ s.packetStart <= Len(s.data)
    <2>1. s.packetStart <= s.parseOffset /\ s.parseOffset <= Len(s.data)
      BY <1>1 DEF Consistent, Parsing
    <2>2. s.packetStart \in Nat /\ s.parseOffset \in Nat /\ Len(s.data) \in Nat
      BY <1>1, <1>2, StreamParts, WordParts
    <2> QED BY <2>1, <2>2
  <1>7. /\ Ordered(r, v, path)
        /\ Plain(s.data) /\ Plain(chunk) => Plain(t.data)
        /\ Numbers(t.data) \subseteq Numbers(joined)
    <2>1. /\ t.data = r.streams[path].data
          /\ \/ t.data = a.streams[path].data \o w[path][1]
             \/ t.data = SubSeq(a.streams[path].data, 1, s.packetStart)
          /\ s.packetStart <= Len(a.streams[path].data)
      BY <1>5, <1>6, ZenonT(60)
    <2> HIDE DEF s, t, v, joined
    <2>2. /\ Ordered(r, Taken(w, path), path)
          /\ Plain(a.streams[path].data) /\ Plain(w[path][1]) => Plain(t.data)
          /\ Numbers(t.data) \subseteq Numbers(a.streams[path].data \o w[path][1])
      BY <1>1, <1>4, <1>6, <2>1, TakenInOrder, ZenonT(60)
    <2> QED BY <2>2, SMTT(60) DEF s, v, joined
  <1>8. \A p \in Paths : Ordered(r, v, p)
    <2>1. ASSUME NEW p \in Paths \ {path} PROVE Ordered(r, v, p)
      <3>1. Ordered(a, w, p)
        BY <1>1
      <3> HIDE DEF v
      <3> QED BY <1>2, <1>4, <3>1 DEF Ordered
    <2> HIDE DEF v
    <2> QED BY <1>7, <2>1
  <1>9. Unmixed(r, v)
    <2>1. ASSUME NEW p \in Paths \ {2}
          PROVE  /\ Plain(r.streams[p].data)
                 /\ \A c \in DOMAIN v[p] : Plain(v[p][c])
      <3>1. /\ Plain(a.streams[p].data)
            /\ \A c \in DOMAIN w[p] : Plain(w[p][c])
        BY <1>1 DEF Unmixed
      <3>2. CASE p = path
        <4>1. /\ DOMAIN w[path] = 1 .. Len(w[path])
              /\ DOMAIN v[path] = 1 .. Len(w[path]) - 1
              /\ \A c \in 1 .. Len(w[path]) - 1 :
                    c + 1 \in 1 .. Len(w[path]) /\ v[path][c] = w[path][c + 1]
          BY <1>1, NextWay
        <4>2. Plain(chunk)
          BY <1>2, <3>1, <3>2
        <4>3. Plain(t.data)
          BY <1>7, <3>1, <3>2, <4>2
        <4> HIDE DEF v
        <4>4. \A c \in DOMAIN v[path] : Plain(v[path][c])
          BY <3>1, <3>2, <4>1, Zenon
        <4> QED BY <3>2, <4>3, <4>4
      <3>3. CASE p # path
        <4> HIDE DEF v
        <4> QED BY <1>2, <1>4, <3>1, <3>3
      <3> QED BY <3>2, <3>3
    <2> QED BY <2>1 DEF Unmixed
  <1>10. Kept(r, v)
    <2>1. \A p \in Paths \ {path} : Placed(r, v, p) = Placed(a, w, p)
      <3> HIDE DEF v
      <3> QED BY <1>2, <1>4 DEF Placed
    <2>2. /\ Placed(r, v, path) = Placed(a, w, path) \ lost
          /\ lost \subseteq Placed(a, w, path)
      <3>1. joined = a.streams[path].data \o w[path][1]
        OBVIOUS
      <3>2. Numbers(r.streams[path].data) \subseteq Numbers(joined)
        BY <1>7
      <3> HIDE DEF joined
      <3>3. Ordered(a, w, path) /\ Shape(a) /\ w \in Ways /\ r.handed = a.handed
        BY <1>1, <1>4
      <3>4. Loses(a, w, r, path,
                  Numbers(joined) \ Numbers(r.streams[path].data))
        BY <3>1, <3>2, <3>3, SubmitPlaces, Zenon
      <3> QED BY <3>4 DEF Loses
    <2>3. Kept(a, w) /\ r.lost = a.lost \cup lost /\ r.arrived = a.arrived
      BY <1>1, <1>4, <1>5
    <2> HIDE DEF v, lost
    <2> QED BY <2>1, <2>2, <2>3, StillKept, ZenonT(60)
  <1> HIDE DEF v
  <1>11. Exact(r, v)
    BY <1>2, <1>4, <1>8, <1>9, <1>10 DEF Exact
  <1> QED BY <1>3, <1>11 DEF v

-----------------------------------------------------------------------------
(* The sort of the queue.                                                   *)

LEMMA GreatestNatural ==
    ASSUME NEW n \in Nat, NEW S \in SUBSET (0 .. n), S # {}
    PROVE  \E m \in S : \A k \in S : k <= m
  <1> DEFINE T == {x \in Nat : \A k \in S : k <= x}
  <1>1. n \in T
    OBVIOUS
  <1>2. PICK m \in T : \A y \in T : m <= y
    <2> HIDE DEF T
    <2>1. T \in SUBSET Nat
      BY DEF T
    <2> QED BY <1>1, <2>1, LeastNatural
  <1>3. m \in Nat /\ \A k \in S : k <= m
    BY <1>2
  <1>4. m \in S
    <2>1. SUFFICES ASSUME m \notin S PROVE FALSE
      OBVIOUS
    <2>0. \A x, y \in Nat : x <= y /\ x # y => x <= y - 1 /\ 1 <= y
      OBVIOUS
    <2>2. \A k \in S : k \in Nat /\ k <= m - 1 /\ 1 <= m
      <3>1. \A k \in S : k \in Nat /\ k # m
        BY <2>1
      <3> QED BY <1>3, <2>0, <3>1
    <2>3. 1 <= m /\ m - 1 \in Nat
      <3>1. 1 <= m
        BY <2>2
      <3> QED BY <1>3, <3>1
    <2>4. m - 1 \in T
      BY <2>2, <2>3
    <2>5. m <= m - 1
      BY <1>2, <2>4
    <2> QED BY <1>3, <2>5
  <1> QED BY <1>3, <1>4

With(t, s, at, e) ==
    /\ Len(t) = Len(s) + 1
    /\ t[at] = e
    /\ \A i \in 1 .. at - 1 : t[i] = s[i]
    /\ \A i \in at .. Len(s) : t[i + 1] = s[i]

LEMMA Inserted ==
    ASSUME NEW S, NEW s \in Seq(S), NEW e \in S, NEW at \in 1 .. Len(s) + 1,
           NEW t, t = InsertAt(s, at, e)
    PROVE  t \in Seq(S) /\ With(t, s, at, e)
  <1> DEFINE n == Len(s)
             u == SubSeq(s, 1, at - 1)
             v == SubSeq(s, at, n)
             w == u \o <<e>>
  <1>1. n \in Nat /\ \A i \in 1 .. n : s[i] \in S
    BY SeqParts
  <1>2. at \in Nat \ {0} /\ at <= n + 1
    BY <1>1
  <1>3. u \in Seq(S) /\ Len(u) = at - 1 /\ \A i \in 1 .. at - 1 : u[i] = s[i]
    <2>1. \A i \in 1 .. at - 1 : s[i] \in S
      BY <1>1, <1>2
    <2>2. 1 \in Int /\ at - 1 \in Int
      BY <1>2
    <2>3. /\ u \in Seq(S)
          /\ Len(u) = IF 1 <= at - 1 THEN at - 1 - 1 + 1 ELSE 0
          /\ \A i \in 1 .. at - 1 - 1 + 1 : u[i] = s[1 + i - 1]
      BY <2>1, <2>2, SubSeqProperties
    <2> HIDE DEF u
    <2>4. /\ at - 1 - 1 + 1 = at - 1 /\ (~(1 <= at - 1) => at - 1 = 0)
          /\ \A i \in 1 .. at - 1 : 1 + i - 1 = i
      BY <1>2
    <2> QED BY <2>3, <2>4
  <1>4. v \in Seq(S) /\ Len(v) = n - at + 1
        /\ \A i \in 1 .. n - at + 1 : v[i] = s[at + i - 1]
    <2>1. \A i \in at .. n : s[i] \in S
      BY <1>1, <1>2
    <2>2. /\ v \in Seq(S)
          /\ Len(v) = IF at <= n THEN n - at + 1 ELSE 0
          /\ \A i \in 1 .. n - at + 1 : v[i] = s[at + i - 1]
      BY <1>1, <1>2, <2>1, SubSeqProperties
    <2> HIDE DEF v
    <2>3. ~(at <= n) => n - at + 1 = 0
      BY <1>1, <1>2
    <2> QED BY <2>2, <2>3
  <1> HIDE DEF u, v
  <1>5. /\ w \in Seq(S) /\ Len(w) = at
        /\ \A i \in 1 .. at - 1 : w[i] = s[i]
        /\ w[at] = e
    <2>1. <<e>> \in Seq(S) /\ Len(<<e>>) = 1 /\ <<e>>[1] = e
      OBVIOUS
    <2>2. /\ w \in Seq(S) /\ Len(w) = Len(u) + 1
          /\ \A i \in 1 .. Len(u) + 1 :
                w[i] = IF i <= Len(u) THEN u[i] ELSE <<e>>[i - Len(u)]
      BY <1>3, <2>1, ConcatProperties
    <2> HIDE DEF w
    <2>3. /\ at - 1 + 1 = at /\ at \in 1 .. at /\ ~(at <= at - 1)
          /\ at - (at - 1) = 1
          /\ \A i \in 1 .. at - 1 : i \in 1 .. at /\ i <= at - 1
      BY <1>2
    <2> QED BY <1>3, <2>1, <2>2, <2>3
  <1>6. t = w \o v
    BY DEF InsertAt, u, v
  <1> HIDE DEF w
  <1>7. /\ t \in Seq(S) /\ Len(t) = at + (n - at + 1)
        /\ \A i \in 1 .. at + (n - at + 1) :
              t[i] = IF i <= at THEN w[i] ELSE v[i - at]
    <2>1. /\ w \o v \in Seq(S) /\ Len(w \o v) = Len(w) + Len(v)
          /\ \A i \in 1 .. Len(w) + Len(v) :
                (w \o v)[i] = IF i <= Len(w) THEN w[i] ELSE v[i - Len(w)]
      BY <1>4, <1>5, ConcatProperties
    <2>2. Len(w) = at /\ Len(v) = n - at + 1
      BY <1>4, <1>5
    <2> QED BY <1>6, <2>1, <2>2
  <1>8. /\ at + (n - at + 1) = n + 1
        /\ at \in 1 .. n + 1 /\ at <= at
        /\ \A i \in 1 .. at - 1 : i \in 1 .. n + 1 /\ i <= at
        /\ \A i \in at .. n :
              /\ i + 1 \in 1 .. n + 1 /\ ~(i + 1 <= at)
              /\ i + 1 - at \in 1 .. n - at + 1
              /\ at + (i + 1 - at) - 1 = i
    BY <1>1, <1>2
  <1>9. \A i \in at .. n : t[i + 1] = s[i]
    BY <1>4, <1>7, <1>8
  <1> HIDE DEF n
  <1>10. /\ t \in Seq(S) /\ Len(t) = n + 1
         /\ t[at] = e
         /\ \A i \in 1 .. at - 1 : t[i] = s[i]
         /\ \A i \in at .. n : t[i + 1] = s[i]
    BY <1>5, <1>7, <1>8, <1>9
  <1> QED BY <1>10 DEF n, With

\* One packet may stand before another when the queue is sorted.
Fits(packet, later) ==
    \/ packet.path < later.path
    \/ packet.path = later.path /\ End(packet) <= later.offset

InRow(queue) ==
    \A i, j \in DOMAIN queue : i < j => Fits(queue[i], queue[j])

\* The packets of a path come in the order of the stream and, since PATH2 is on
\* its own, the comparator asks for no more than the paths.
Sortable(queue) ==
    /\ \A i, j \in DOMAIN queue :
          i < j /\ queue[i].path = queue[j].path => Fits(queue[i], queue[j])
    /\ \A i, j \in DOMAIN queue :
          Precedes(queue[i], queue[j]) <=> queue[i].path < queue[j].path

\* The first packets in their places.
SortedSoFar(sorted, queue, n) ==
    /\ sorted \in Seq(QueuedPackets)
    /\ InRow(sorted)
    /\ \A i \in DOMAIN sorted : \E k \in 1 .. n : sorted[i] = queue[k]
    /\ \A k \in 1 .. n : \E i \in DOMAIN sorted : sorted[i] = queue[k]

LEMMA InsertPlace ==
    ASSUME NEW queue \in Seq(QueuedPackets), Sortable(queue),
           NEW n \in 1 .. Len(queue), NEW sorted,
           SortedSoFar(sorted, queue, n - 1)
    PROVE  \E at \in 1 .. Len(sorted) + 1 :
              /\ Insert(sorted, queue[n]) = InsertAt(sorted, at, queue[n])
              /\ \A i \in 1 .. at - 1 : Fits(sorted[i], queue[n])
              /\ \A i \in at .. Len(sorted) : Fits(queue[n], sorted[i])
  <1> DEFINE m == Len(sorted)
             packet == queue[n]
             kept == {i \in DOMAIN sorted : ~ Precedes(packet, sorted[i])}
  <1>1. /\ m \in Nat /\ DOMAIN sorted = 1 .. m
        /\ (sorted = <<>> <=> m = 0)
        /\ \A i \in 1 .. m : sorted[i].path \in Paths
    BY QueueParts DEF SortedSoFar
  <1>2. /\ Len(queue) \in Nat /\ DOMAIN queue = 1 .. Len(queue)
        /\ packet \in QueuedPackets /\ packet.path \in Paths
    BY QueueParts
  <1>3. \A i \in 1 .. m : \E k \in 1 .. n - 1 :
            k \in DOMAIN queue /\ k < n /\ sorted[i] = queue[k]
    <2>1. \A k \in 1 .. n - 1 : k \in 1 .. Len(queue) /\ k < n
      BY <1>2
    <2> QED BY <1>1, <1>2, <2>1 DEF SortedSoFar
  <1>4. ASSUME NEW i \in 1 .. m
        PROVE  /\ Precedes(packet, sorted[i]) <=> packet.path < sorted[i].path
               /\ sorted[i].path = packet.path => Fits(sorted[i], packet)
    <2>1. PICK k \in 1 .. n - 1 : k \in DOMAIN queue /\ k < n /\ sorted[i] = queue[k]
      BY <1>3
    <2>2. n \in DOMAIN queue
      BY <1>2
    <2> QED BY <2>1, <2>2 DEF Sortable
  <1> HIDE DEF packet
  <1>5. /\ \A x, y \in Paths : x < y \/ y < x \/ x = y
        /\ \A x, y \in Paths : x < y => ~(y < x)
        /\ \A x, y, z \in Paths : x < y /\ (y < z \/ y = z) => x < z
    BY DEF Paths
  <1>6. \A i \in kept : i \in 1 .. m /\ Fits(sorted[i], packet)
    BY <1>1, <1>2, <1>4, <1>5 DEF Fits
  <1>7. \A i \in 1 .. m : i \notin kept => Fits(packet, sorted[i])
    BY <1>1, <1>4 DEF Fits
  <1>8. CASE sorted = <<>> \/ Precedes(packet, sorted[1])
    <2>1. Insert(sorted, packet) = InsertAt(sorted, 1, packet)
      BY <1>8 DEF Insert
    <2>2. 1 \in 1 .. m + 1 /\ \A i \in 1 .. 1 - 1 : FALSE
      BY <1>1
    <2>3. ASSUME NEW i \in 1 .. m PROVE Fits(packet, sorted[i])
      <3>1. 1 \in 1 .. m /\ m # 0
        BY <1>1, <2>3
      <3>2. packet.path < sorted[1].path
        BY <1>1, <1>4, <1>8, <3>1
      <3>3. i = 1 \/ 1 < i
        BY <1>1
      <3>4. CASE 1 < i
        <4>1. Fits(sorted[1], sorted[i])
          BY <1>1, <3>1, <3>4 DEF SortedSoFar, InRow
        <4>2. packet.path < sorted[i].path
          BY <1>1, <1>2, <1>5, <3>1, <3>2, <4>1 DEF Fits
        <4> QED BY <4>2 DEF Fits
      <3> QED BY <3>2, <3>3, <3>4 DEF Fits
    <2>4. /\ \A i \in 1 .. 1 - 1 : Fits(sorted[i], packet)
          /\ \A i \in 1 .. Len(sorted) : Fits(packet, sorted[i])
      BY <2>2, <2>3
    <2> QED BY <2>1, <2>2, <2>4 DEF packet
  <1>9. CASE ~(sorted = <<>> \/ Precedes(packet, sorted[1]))
    <2>1. 1 \in 1 .. m /\ 1 \in kept
      BY <1>1, <1>9
    <2>2. PICK last \in kept : \A k \in kept : k <= last
      <3>1. kept \in SUBSET (0 .. m)
        BY <1>1
      <3> HIDE DEF kept
      <3> QED BY <1>1, <2>1, <3>1, GreatestNatural
    <2>3. Max(kept) = last
      <3>1. kept \in SUBSET Nat
        BY <1>1
      <3> HIDE DEF kept
      <3> QED BY <2>2, <3>1, MaxIs
    <2>4. Insert(sorted, packet) = InsertAt(sorted, last + 1, packet)
      BY <1>9, <2>3 DEF Insert
    <2>5. last \in 1 .. m /\ last + 1 \in 1 .. m + 1 /\ last + 1 - 1 = last
      BY <1>1, <2>2
    <2>6. \A i \in last + 1 .. m : i \in 1 .. m /\ i \notin kept
      <3>1. \A i \in last + 1 .. m : i \in 1 .. m /\ ~(i <= last)
        BY <1>1, <2>5
      <3> QED BY <2>2, <3>1
    <2>7. ASSUME NEW i \in 1 .. last PROVE Fits(sorted[i], packet)
      <3>1. i \in 1 .. m /\ (i = last \/ i < last)
        BY <1>1, <2>5
      <3>2. CASE i < last
        <4>1. Fits(sorted[i], sorted[last])
          BY <1>1, <2>5, <3>1, <3>2 DEF SortedSoFar, InRow
        <4>2. Fits(sorted[last], packet)
          BY <1>6, <2>2
        <4>3. sorted[i].path < packet.path \/ sorted[i].path = packet.path
          BY <1>1, <1>2, <1>5, <2>5, <3>1, <4>1, <4>2 DEF Fits
        <4> QED BY <1>4, <3>1, <4>3 DEF Fits
      <3> QED BY <1>6, <2>2, <3>1, <3>2
    <2>8. \A i \in last + 1 .. Len(sorted) : Fits(packet, sorted[i])
      BY <1>7, <2>6
    <2>9. /\ \A i \in 1 .. last + 1 - 1 : Fits(sorted[i], packet)
      BY <2>5, <2>7
    <2> QED BY <2>4, <2>5, <2>8, <2>9 DEF packet
  <1> QED BY <1>8, <1>9

LEMMA InsertSorts ==
    ASSUME NEW queue \in Seq(QueuedPackets), Sortable(queue),
           NEW n \in 1 .. Len(queue), NEW sorted,
           SortedSoFar(sorted, queue, n - 1),
           NEW t, t = Insert(sorted, queue[n])
    PROVE  SortedSoFar(t, queue, n)
  <1> DEFINE m == Len(sorted)
             packet == queue[n]
  <1>1. /\ sorted \in Seq(QueuedPackets) /\ m \in Nat /\ DOMAIN sorted = 1 .. m
        /\ Len(queue) \in Nat /\ packet \in QueuedPackets
    BY QueueParts DEF SortedSoFar
  <1>2. PICK at \in 1 .. m + 1 :
            /\ t = InsertAt(sorted, at, packet)
            /\ \A i \in 1 .. at - 1 : Fits(sorted[i], packet)
            /\ \A i \in at .. m : Fits(packet, sorted[i])
    BY InsertPlace
  <1> HIDE DEF packet
  <1>3. /\ t \in Seq(QueuedPackets) /\ Len(t) = m + 1
        /\ t[at] = packet
        /\ \A i \in 1 .. at - 1 : t[i] = sorted[i]
        /\ \A i \in at .. m : t[i + 1] = sorted[i]
    <2>1. t \in Seq(QueuedPackets) /\ With(t, sorted, at, packet)
      BY <1>1, <1>2, Inserted, Zenon
    <2> QED BY <2>1 DEF With
  <1> HIDE DEF m
  <1>4. DOMAIN t = 1 .. m + 1
    BY <1>3, QueueParts
  <1>5. /\ at \in 1 .. m + 1
        /\ \A i \in 1 .. m + 1 :
              \/ i = at
              \/ i \in 1 .. at - 1 /\ i \in 1 .. m
              \/ i - 1 \in at .. m /\ i - 1 \in 1 .. m /\ (i - 1) + 1 = i
        /\ \A i \in 1 .. m : \/ i \in 1 .. at - 1 /\ i \in 1 .. m + 1
                             \/ i \in at .. m /\ i + 1 \in 1 .. m + 1
    BY <1>1
  <1>6. ASSUME NEW i \in 1 .. m + 1, NEW j \in 1 .. m + 1, i < j
        PROVE  Fits(t[i], t[j])
    <2>0. \A k, l \in 1 .. m : k < l => Fits(sorted[k], sorted[l])
      BY <1>1 DEF SortedSoFar, InRow
    <2>1. CASE i = at
      <3>1. j - 1 \in at .. m /\ (j - 1) + 1 = j
        BY <1>1, <1>6, <2>1
      <3> QED BY <1>2, <1>3, <2>1, <3>1
    <2>2. CASE i \in 1 .. at - 1 /\ i \in 1 .. m
      <3>1. t[i] = sorted[i]
        BY <1>3, <2>2
      <3>2. CASE j = at
        BY <1>2, <1>3, <2>2, <3>1, <3>2
      <3>3. CASE j \in 1 .. at - 1 /\ j \in 1 .. m
        <4>1. t[j] = sorted[j]
          BY <1>3, <3>3
        <4> QED BY <1>6, <2>0, <2>2, <3>1, <3>3, <4>1
      <3>4. CASE j - 1 \in at .. m /\ j - 1 \in 1 .. m /\ (j - 1) + 1 = j
        <4>1. t[j] = sorted[j - 1]
          BY <1>3, <3>4
        <4>2. i < j - 1
          BY <1>1, <2>2, <3>4
        <4> QED BY <2>0, <2>2, <3>1, <3>4, <4>1, <4>2
      <3> QED BY <1>5, <3>2, <3>3, <3>4
    <2>3. CASE i - 1 \in at .. m /\ i - 1 \in 1 .. m /\ (i - 1) + 1 = i
      <3>1. j - 1 \in at .. m /\ j - 1 \in 1 .. m /\ (j - 1) + 1 = j /\ i - 1 < j - 1
        BY <1>1, <1>6, <2>3
      <3>2. t[i] = sorted[i - 1] /\ t[j] = sorted[j - 1]
        BY <1>3, <2>3, <3>1
      <3> QED BY <2>0, <2>3, <3>1, <3>2
    <2> QED BY <1>5, <2>1, <2>2, <2>3
  <1>7. /\ n \in 1 .. n
        /\ \A k \in 1 .. n - 1 : k \in 1 .. n
        /\ \A k \in 1 .. n : k = n \/ k \in 1 .. n - 1
    BY <1>1
  <1>8. ASSUME NEW i \in 1 .. m + 1 PROVE \E k \in 1 .. n : t[i] = queue[k]
    <2>0. \A l \in 1 .. m : \E k \in 1 .. n : sorted[l] = queue[k]
      BY <1>1, <1>7 DEF SortedSoFar
    <2>1. CASE i = at
      BY <1>3, <1>7, <2>1 DEF packet
    <2>2. CASE i \in 1 .. at - 1 /\ i \in 1 .. m
      BY <1>3, <2>0, <2>2
    <2>3. CASE i - 1 \in at .. m /\ i - 1 \in 1 .. m /\ (i - 1) + 1 = i
      <3>1. t[i] = sorted[i - 1]
        BY <1>3, <2>3
      <3> QED BY <2>0, <2>3, <3>1
    <2> QED BY <1>5, <2>1, <2>2, <2>3
  <1>9. ASSUME NEW k \in 1 .. n PROVE \E i \in 1 .. m + 1 : t[i] = queue[k]
    <2>1. CASE k = n
      BY <1>3, <1>5, <2>1 DEF packet
    <2>2. CASE k \in 1 .. n - 1
      <3>1. PICK i \in 1 .. m : sorted[i] = queue[k]
        BY <1>1, <2>2 DEF SortedSoFar
      <3>2. CASE i \in 1 .. at - 1 /\ i \in 1 .. m + 1
        BY <1>3, <3>1, <3>2
      <3>3. CASE i \in at .. m /\ i + 1 \in 1 .. m + 1
        BY <1>3, <3>1, <3>3
      <3> QED BY <1>5, <3>2, <3>3
    <2> QED BY <1>7, <2>1, <2>2
  <1> QED BY <1>3, <1>4, <1>6, <1>8, <1>9 DEF SortedSoFar, InRow

\* The sorted queue holds the packets of the queue and each where it fits.
LEMMA SortSorts ==
    ASSUME NEW queue \in Seq(QueuedPackets), Sortable(queue)
    PROVE  SortedSoFar(Sorted(queue), queue, Len(queue))
  <1> DEFINE n == Len(queue)
  <1>1. n \in Nat
    BY QueueParts
  <1>2. PICK sorted : SortedRun(sorted, queue, n) /\ Sorted(queue) = sorted[n]
    BY <1>1, SortedIs
  <1> DEFINE T == {k \in 0 .. n : SortedSoFar(sorted[k], queue, k)}
  <1>3. 0 \in T
    <2>1. sorted[0] = <<>>
      BY <1>2 DEF SortedRun
    <2>2. <<>> \in Seq(QueuedPackets) /\ DOMAIN <<>> = {}
      OBVIOUS
    <2>3. \A k \in 1 .. 0 : FALSE
      OBVIOUS
    <2>4. SortedSoFar(<<>>, queue, 0)
      BY <2>2, <2>3 DEF SortedSoFar, InRow
    <2> QED BY <1>1, <2>1, <2>4
  <1>4. ASSUME NEW k \in 1 .. n, k - 1 \in T PROVE k \in T
    <2>1. SortedSoFar(sorted[k - 1], queue, k - 1)
      BY <1>4
    <2>2. sorted[k] = Insert(sorted[k - 1], queue[k])
      BY <1>2 DEF SortedRun
    <2>3. SortedSoFar(sorted[k], queue, k)
      BY <2>1, <2>2, InsertSorts
    <2>4. k \in 0 .. n
      BY <1>1
    <2> QED BY <2>3, <2>4
  <1> HIDE DEF T, n
  <1>5. T \in SUBSET (0 .. n)
    BY DEF T
  <1>6. T = 0 .. n
    BY <1>1, <1>3, <1>4, <1>5, FirstNumbers
  <1>7. n \in T
    BY <1>1, <1>6
  <1> QED BY <1>2, <1>7 DEF T, n

\* The queue of a consistent arbiter can be sorted.
LEMMA QueueSortable ==
    ASSUME NEW a, Shape(a), Tiled(a), Apart(a)
    PROVE  Sortable(a.queue)
  <1> DEFINE queue == a.queue
  <1>1. /\ queue \in Seq(QueuedPackets)
        /\ Len(queue) \in Nat /\ DOMAIN queue = 1 .. Len(queue)
        /\ \A i \in 1 .. Len(queue) :
              /\ queue[i] \in QueuedPackets /\ queue[i].path \in Paths
              /\ queue[i].path2DirectHl \in BOOLEAN /\ queue[i].path3Image \in BOOLEAN
    BY ArbiterParts, QueueParts, PacketParts
  <1>2. ASSUME NEW i \in DOMAIN queue, NEW j \in DOMAIN queue, i < j,
               queue[i].path = queue[j].path
        PROVE  Fits(queue[i], queue[j])
    <2>1. queue[j].offset = Consumed(queue, j - 1, queue[j].path)
      BY DEF Tiled
    <2>2. j - 1 \in 0 .. Len(queue) /\ i \in 1 .. j - 1
      BY <1>1, <1>2
    <2>3. ConsumedIs(queue, j - 1, queue[j].path)
      BY <1>1, <2>2, ConsumedAlways
    <2> QED BY <1>2, <2>1, <2>2, <2>3 DEF ConsumedIs, Fits
  <1>3. ASSUME NEW i \in DOMAIN queue, NEW j \in DOMAIN queue
        PROVE  Precedes(queue[i], queue[j]) <=> queue[i].path < queue[j].path
    <2>1. Labelled(queue[i]) /\ Labelled(queue[j])
      BY DEF Shape
    <2>2. /\ ~(queue[i].path3Image /\ queue[j].path2DirectHl)
          /\ ~(queue[i].path2DirectHl /\ queue[j].path3Image)
      <3>1. CASE \A k \in DOMAIN queue : queue[k].path # 2
        BY <2>1, <3>1 DEF Labelled
      <3>2. CASE \A k \in DOMAIN queue : queue[k].path = 2
        <4>1. 2 # 3 /\ queue[i].path = 2 /\ queue[j].path = 2
          BY <3>2
        <4> QED BY <2>1, <4>1 DEF Labelled
      <3> QED BY <3>1, <3>2 DEF Apart
    <2> QED BY <2>2 DEF Precedes
  <1> QED BY <1>2, <1>3 DEF Sortable

-----------------------------------------------------------------------------
(* A drain.                                                                 *)

\* What a drain leaves of a stream.
Remains(s, t) ==
    /\ t \in Streams
    /\ t.data = SubSeq(s.data, s.packetStart + 1, Len(s.data))
    /\ t.packetStart = 0
    /\ t.parseOffset <= Len(t.data)
    /\ Len(t.data) <= Len(s.data)
    /\ 0 < Len(t.data) => t.path2DirectHl = AnyHl(t.data, 0, Len(t.data))
    /\ Stuck(t)

LEMMA RestRemains ==
    ASSUME NEW a, Consistent(a), NEW p \in Paths, NEW s, s = a.streams[p],
           NEW t, t = Rest(s, s.packetStart)
    PROVE  Remains(s, t)
  <1> DEFINE c == s.packetStart
             len == Len(s.data)
             data == SubSeq(s.data, c + 1, len)
  <1>1. /\ s \in Streams /\ s.data \in Seq(Words) /\ c \in Nat
        /\ s.parseOffset \in Nat /\ len \in Nat
        /\ s.path2DirectHl \in BOOLEAN /\ s.packetContainsImage \in BOOLEAN
    BY StreamParts, WordParts DEF Consistent
  <1>2. /\ c <= s.parseOffset /\ s.parseOffset <= len
        /\ c < len => s.path2DirectHl = AnyHl(s.data, c, len)
        /\ Stuck(s)
    BY DEF Consistent, Parsing
  <1>3. c <= len /\ len <= len /\ ~(c > len)
    BY <1>1, <1>2, SMTT(60)
  <1>4. /\ data \in Seq(Words) /\ Len(data) = len - c
        /\ \A i \in 1 .. len - c : c + i \in 1 .. len /\ data[i] = s.data[c + i]
    <2> HIDE DEF c
    <2> QED BY <1>1, <1>3, Cut
  <1> DEFINE flag == s.path2DirectHl /\ c # len
             image == s.packetContainsImage /\ c # len
             rest == [data |-> data, packetStart |-> 0,
                      parseOffset |-> s.parseOffset - c,
                      path2DirectHl |-> flag, packetContainsImage |-> image]
  <1>5. CASE c = 0
    <2>1. t = s
      BY <1>5 DEF Rest
    <2>2. data = s.data
      <3>1. Len(data) = Len(s.data) /\ \A i \in 1 .. len : data[i] = s.data[i]
        BY <1>1, <1>4, <1>5
      <3>2. s.data \in Seq(Words) /\ data \in Seq(Words)
        BY <1>1, <1>4
      <3> HIDE DEF data
      <3> QED BY <3>1, <3>2, SeqEqual
    <2>3. /\ s.parseOffset <= Len(s.data) /\ Len(s.data) <= Len(s.data)
          /\ 0 < Len(s.data) => s.path2DirectHl = AnyHl(s.data, 0, Len(s.data))
      BY <1>1, <1>2, <1>5
    <2>4. data = SubSeq(s.data, s.packetStart + 1, Len(s.data))
      OBVIOUS
    <2> HIDE DEF data
    <2> QED BY <1>1, <1>2, <1>5, <2>1, <2>2, <2>3, <2>4 DEF Remains
  <1>6. CASE c # 0
    <2>1. t = rest
      BY <1>3, <1>6 DEF Rest
    <2>0. \A x, y, z \in Nat :
              x <= y /\ y <= z => y - x \in Nat /\ y - x <= z - x /\ z - x <= z
      OBVIOUS
    <2>2. /\ s.parseOffset - c \in Nat /\ s.parseOffset - c <= len - c
          /\ len - c <= len
      <3> HIDE DEF c, len
      <3> QED BY <1>1, <1>2, <2>0
    <2>3. /\ t \in Streams /\ t.data = data /\ t.packetStart = 0
          /\ t.parseOffset = s.parseOffset - c /\ t.path2DirectHl = flag
      <3>1. flag \in BOOLEAN /\ image \in BOOLEAN
        OBVIOUS
      <3> HIDE DEF flag, image, data
      <3> QED BY <1>4, <2>1, <2>2, <3>1 DEF Streams
    <2>4. ASSUME 0 < len - c PROVE flag = AnyHl(data, 0, len - c)
      <3>1. c < len /\ c # len
        BY <1>1, <2>4
      <3>2. ASSUME NEW i \in 0 + 1 .. len - c, data[i].hl
            PROVE  c + i \in c + 1 .. len /\ s.data[c + i].hl
        <4>1. i \in 1 .. len - c /\ c + i \in c + 1 .. len
          BY <1>1, SMTT(60)
        <4> HIDE DEF data
        <4> QED BY <1>4, <3>2, <4>1
      <3>3. ASSUME NEW i \in c + 1 .. len, s.data[i].hl
            PROVE  i - c \in 0 + 1 .. len - c /\ data[i - c].hl
        <4>1. i - c \in 0 + 1 .. len - c /\ i - c \in 1 .. len - c /\ c + (i - c) = i
          BY <1>1
        <4> HIDE DEF data
        <4> QED BY <1>4, <3>3, <4>1
      <3>4. AnyHl(data, 0, len - c) <=> AnyHl(s.data, c, len)
        <4> HIDE DEF data, len, c
        <4> QED BY <3>2, <3>3 DEF AnyHl
      <3>5. s.path2DirectHl = AnyHl(s.data, c, len)
        BY <1>2, <3>1
      <3>6. AnyHl(data, 0, len - c) \in BOOLEAN /\ AnyHl(s.data, c, len) \in BOOLEAN
        BY DEF AnyHl
      <3> HIDE DEF data
      <3> QED BY <3>1, <3>4, <3>5, <3>6
    <2>5. Stuck(t)
      <3>1. CASE s.parseOffset = len
        <4>1. t.parseOffset = Len(t.data)
          BY <1>4, <2>3, <3>1
        <4> QED BY <4>1 DEF Stuck
      <3>2. CASE s.parseOffset # len
        <4>1. s.parseOffset + s.data[s.parseOffset + 1].size > len
          BY <1>2, <3>2 DEF Stuck
        <4>2. /\ s.parseOffset + 1 \in 1 .. len
              /\ s.parseOffset - c + 1 \in 1 .. len - c
              /\ c + (s.parseOffset - c + 1) = s.parseOffset + 1
          <5>1. \A x, y, z \in Nat : x <= y /\ y <= z /\ y # z =>
                    /\ y + 1 \in 1 .. z /\ y - x + 1 \in 1 .. z - x
                    /\ x + (y - x + 1) = y + 1
            OBVIOUS
          <5> HIDE DEF c, len
          <5> QED BY <1>1, <1>2, <3>2, <5>1
        <4>3. data[s.parseOffset - c + 1] = s.data[s.parseOffset + 1]
          BY <1>4, <4>2
        <4>4. s.data[s.parseOffset + 1].size \in Nat
          BY <1>1, <4>2, WordParts
        <4> HIDE DEF data
        <4>5. s.parseOffset - c + s.data[s.parseOffset + 1].size > len - c
          <5>1. \A x, y, z, n \in Nat : y + n > z => y - x + n > z - x
            OBVIOUS
          <5> HIDE DEF c, len
          <5> QED BY <1>1, <4>1, <4>4, <5>1
        <4>6. t.parseOffset + t.data[t.parseOffset + 1].size > Len(t.data)
          BY <1>4, <2>3, <4>3, <4>5
        <4> QED BY <4>6 DEF Stuck
      <3> QED BY <3>1, <3>2
    <2>6. data = SubSeq(s.data, s.packetStart + 1, Len(s.data))
      OBVIOUS
    <2> HIDE DEF data, flag
    <2> QED BY <1>4, <2>2, <2>3, <2>4, <2>5, <2>6 DEF Remains
  <1> QED BY <1>5, <1>6

\* The packet that the GS is handed for one of the queue.
HandedFor(a, q, h) ==
    /\ h \in HandedPackets /\ Labelled(h) /\ h.words # <<>>
    /\ h.path = q.path /\ h.path2DirectHl = q.path2DirectHl
    /\ h.path3Image = q.path3Image
    /\ h.words = SubSeq(a.streams[q.path].data, q.offset + 1, End(q))
    /\ q.offset < End(q) /\ End(q) <= a.streams[q.path].packetStart
    /\ End(q) <= Len(a.streams[q.path].data)
    /\ Len(h.words) = End(q) - q.offset

LEMMA OwnedIs ==
    ASSUME NEW a, Consistent(a), NEW k \in DOMAIN a.queue,
           NEW q, q = a.queue[k], NEW h, h = Owned(q, a.streams)
    PROVE  HandedFor(a, q, h)
  <1> DEFINE s == a.streams[q.path]
  <1>1. /\ a.queue \in Seq(QueuedPackets) /\ Len(a.queue) \in Nat
        /\ k \in 1 .. Len(a.queue)
        /\ q \in QueuedPackets /\ q.path \in Paths /\ q.offset \in Nat
        /\ q.size \in Nat \ {0} /\ End(q) \in Nat /\ q.offset < End(q)
        /\ q.path2DirectHl \in BOOLEAN /\ q.path3Image \in BOOLEAN
    BY ArbiterParts, QueueParts, PacketParts DEF Consistent
  <1>2. s.data \in Seq(Words) /\ s.packetStart \in Nat /\ Len(s.data) \in Nat
        /\ s.parseOffset \in Nat
    BY <1>1, StreamParts, WordParts DEF Consistent
  <1>3. End(q) <= s.packetStart
    <2>1. ConsumedIs(a.queue, Len(a.queue), q.path)
      BY <1>1, ConsumedAlways
    <2>2. s.packetStart = Consumed(a.queue, Len(a.queue), q.path)
      BY <1>1 DEF Consistent, Tiled
    <2> QED BY <1>1, <2>1, <2>2 DEF ConsumedIs
  <1>4. End(q) <= Len(s.data)
    <2>1. s.packetStart <= s.parseOffset /\ s.parseOffset <= Len(s.data)
      BY <1>1 DEF Consistent, Parsing
    <2> QED BY <1>1, <1>2, <1>3, <2>1, SMTT(60)
  <1> DEFINE words == SubSeq(s.data, q.offset + 1, End(q))
  <1>5. words \in Seq(Words) /\ Len(words) = End(q) - q.offset
    <2>1. q.offset <= End(q)
      BY <1>1
    <2> HIDE DEF s
    <2>2. LET part == SubSeq(s.data, q.offset + 1, End(q)) IN
          /\ part \in Seq(Words)
          /\ Len(part) = End(q) - q.offset
          /\ DOMAIN part = 1 .. End(q) - q.offset
          /\ \A i \in 1 .. End(q) - q.offset :
                /\ q.offset + i \in 1 .. Len(s.data)
                /\ part[i] = s.data[q.offset + i]
      BY <1>1, <1>2, <1>4, <2>1, Cut, ZenonT(60)
    <2> QED BY <2>2
  <1>6. words # <<>>
    <2>1. End(q) - q.offset # 0
      BY <1>1
    <2> HIDE DEF words
    <2> QED BY <1>5, <2>1
  <1>7. h = [path |-> q.path, path2DirectHl |-> q.path2DirectHl,
             path3Image |-> q.path3Image, words |-> words]
    BY DEF Owned, End
  <1>8. words = SubSeq(a.streams[q.path].data, q.offset + 1, End(q))
    OBVIOUS
  <1> HIDE DEF words
  <1>9. /\ h \in HandedPackets /\ h.path = q.path
        /\ h.path2DirectHl = q.path2DirectHl /\ h.path3Image = q.path3Image
        /\ h.words = words
    BY <1>1, <1>5, <1>7 DEF HandedPackets
  <1>10. Labelled(h)
    <2>1. Labelled(q)
      BY DEF Consistent, Shape
    <2> QED BY <1>9, <2>1 DEF Labelled
  <1> QED BY <1>1, <1>3, <1>4, <1>5, <1>6, <1>8, <1>9, <1>10 DEF HandedFor

\* What a drain does to an arbiter whose queue is sorted like that.
Drained(a, r, sorted) ==
    LET n == Len(a.handed)
        m == Len(sorted)
    IN  /\ Shape(r) /\ r.queue = <<>>
        /\ r.arrived = a.arrived /\ r.lost = a.lost
        /\ r.reservations = a.reservations
        /\ \A p \in Paths : Remains(a.streams[p], r.streams[p])
        /\ SortedSoFar(sorted, a.queue, Len(a.queue))
        /\ n \in Nat /\ m \in Nat /\ DOMAIN r.handed = 1 .. n + m
        /\ DOMAIN sorted = 1 .. m /\ DOMAIN a.handed = 1 .. n
        /\ DOMAIN a.queue = 1 .. Len(a.queue)
        /\ \A i \in 1 .. n : r.handed[i] = a.handed[i]
        /\ \A i \in 1 .. m : HandedFor(a, sorted[i], r.handed[n + i])

LEMMA DrainDoes ==
    ASSUME NEW a, Consistent(a), Apart(a), a.queue # <<>>, a.reservations = <<>>,
           NEW r, r = Drain(a)
    PROVE  Drained(a, r, Sorted(a.queue))
  <1> DEFINE sorted == Sorted(a.queue)
             queue == a.queue
             n == Len(a.handed)
             m == Len(sorted)
             more == [i \in DOMAIN sorted |-> Owned(sorted[i], a.streams)]
             left == [p \in Paths |->
                         Rest(a.streams[p], Consumed(queue, Len(queue), p))]
  <1>1. /\ Shape(a) /\ Tiled(a) /\ a \in Arbiters
        /\ queue \in Seq(QueuedPackets) /\ DOMAIN queue = 1 .. Len(queue)
        /\ Len(queue) \in Nat
        /\ a.handed \in Seq(HandedPackets) /\ n \in Nat /\ DOMAIN a.handed = 1 .. n
    BY ArbiterParts, QueueParts, HandedParts DEF Consistent, Shape
  <1>2. SortedSoFar(sorted, queue, Len(queue))
    <2>1. Sortable(queue)
      BY <1>1, QueueSortable
    <2>2. queue \in Seq(QueuedPackets)
      BY <1>1
    <2> QED BY <2>1, <2>2, SortSorts, Zenon
  <1>3. sorted \in Seq(QueuedPackets) /\ m \in Nat /\ DOMAIN sorted = 1 .. m
    <2> HIDE DEF sorted
    <2>1. sorted \in Seq(QueuedPackets)
      BY <1>2 DEF SortedSoFar
    <2> QED BY <2>1, QueueParts
  <1>4. r = [a EXCEPT !.handed = a.handed \o more, !.streams = left, !.queue = <<>>]
    BY <1>1 DEF Drain, Arbiters
  <1>5. ASSUME NEW i \in 1 .. m
        PROVE  HandedFor(a, sorted[i], more[i]) /\ more[i] \in HandedPackets
    <2>1. PICK k \in DOMAIN queue : sorted[i] = queue[k]
      BY <1>1, <1>2, <1>3 DEF SortedSoFar
    <2>2. more[i] = Owned(queue[k], a.streams)
      BY <1>3, <2>1
    <2> HIDE DEF more, sorted
    <2>3. HandedFor(a, queue[k], more[i])
      BY <2>1, <2>2, OwnedIs
    <2>4. HandedFor(a, sorted[i], more[i])
      BY <2>1, <2>3
    <2> QED BY <2>4 DEF HandedFor
  <1>6. more \in Seq(HandedPackets) /\ Len(more) = m /\ DOMAIN more = 1 .. m
    <2>1. DOMAIN more = 1 .. m
      BY <1>3
    <2>2. more = [i \in 1 .. m |-> more[i]]
      BY <1>3
    <2> HIDE DEF more, m
    <2>3. more \in [1 .. m -> HandedPackets]
      BY <1>5, <2>2
    <2>4. more \in Seq(HandedPackets)
      BY <1>3, <2>3
    <2> QED BY <1>3, <2>1, <2>4, LenProperties
  <1> DEFINE handed == a.handed \o more
  <1>7. /\ handed \in Seq(HandedPackets) /\ Len(handed) = n + m
        /\ DOMAIN handed = 1 .. n + m
        /\ \A i \in 1 .. n : handed[i] = a.handed[i]
        /\ \A i \in 1 .. m : handed[n + i] = more[i]
    <2>1. /\ handed \in Seq(HandedPackets) /\ Len(handed) = n + Len(more)
          /\ \A i \in 1 .. n : handed[i] = a.handed[i]
          /\ \A i \in 1 .. Len(more) : handed[n + i] = more[i]
      <3>1. a.handed \in Seq(HandedPackets) /\ more \in Seq(HandedPackets)
        BY <1>1, <1>6
      <3> HIDE DEF more
      <3> QED BY <3>1, JoinedSeq
    <2> HIDE DEF handed, more, m
    <2>2. DOMAIN handed = 1 .. Len(handed)
      BY <2>1
    <2> QED BY <1>6, <2>1, <2>2
  <1>8. \A p \in Paths : Remains(a.streams[p], left[p])
    <2>1. ASSUME NEW p \in Paths PROVE Remains(a.streams[p], left[p])
      <3>1. a.streams[p].packetStart = Consumed(queue, Len(queue), p)
        BY <1>1 DEF Tiled
      <3>2. left[p] = Rest(a.streams[p], a.streams[p].packetStart)
        BY <3>1
      <3> HIDE DEF left
      <3> QED BY <3>2, RestRemains
    <2> QED BY <2>1
  <1>9. left \in [Paths -> Streams]
    <2>1. \A p \in Paths : left[p] \in Streams
      BY <1>8 DEF Remains
    <2>2. left = [p \in Paths |-> left[p]]
      OBVIOUS
    <2> HIDE DEF left
    <2> QED BY <2>1, <2>2
  <1> HIDE DEF handed, left
  <1>10. r = [a EXCEPT !.handed = handed, !.streams = left, !.queue = <<>>]
    BY <1>4 DEF handed
  <1> HIDE DEF sorted, more, n, m, queue
  <1>11. /\ r \in Arbiters /\ r.queue = <<>> /\ r.arrived = a.arrived
         /\ r.lost = a.lost /\ r.reservations = a.reservations
         /\ r.handed = handed /\ r.streams = left
    <2>1. <<>> \in Seq(QueuedPackets)
      OBVIOUS
    <2>2. /\ a \in Arbiters /\ handed \in Seq(HandedPackets)
          /\ left \in [Paths -> Streams]
      BY <1>1, <1>7, <1>9
    <2> QED BY <1>10, <2>1, <2>2 DEF Arbiters
  <1>12. \A i \in 1 .. m : HandedFor(a, sorted[i], r.handed[n + i])
    BY <1>5, <1>7, <1>11
  <1>13. Shape(r)
    <2>1. ASSUME NEW i \in 1 .. n + m
          PROVE  Labelled(r.handed[i]) /\ r.handed[i].words # <<>>
      <3>1. CASE i \in 1 .. n
        BY <1>1, <1>7, <1>11, <3>1 DEF Shape
      <3>2. CASE i \notin 1 .. n
        <4>1. i - n \in 1 .. m /\ n + (i - n) = i
          BY <1>1, <1>3, <3>2
        <4>2. HandedFor(a, sorted[i - n], r.handed[n + (i - n)])
          BY <1>12, <4>1
        <4> QED BY <4>1, <4>2 DEF HandedFor
      <3> QED BY <3>1, <3>2
    <2>2. DOMAIN r.queue = {}
      BY <1>11
    <2> QED BY <1>7, <1>11, <2>1, <2>2 DEF Shape
  <1>14. /\ \A i \in 1 .. n : r.handed[i] = a.handed[i]
         /\ DOMAIN r.handed = 1 .. n + m
    BY <1>7, <1>11
  <1> QED BY <1>1, <1>2, <1>3, <1>8, <1>11, <1>12, <1>13, <1>14
          DEF Drained, queue, n, m, sorted

\* A packet that is handed over is old or comes from the queue.
LEMMA HandedWhence ==
    ASSUME NEW a, NEW r, NEW sorted, Drained(a, r, sorted),
           NEW j \in DOMAIN r.handed
    PROVE  \/ j \in DOMAIN a.handed /\ r.handed[j] = a.handed[j]
           \/ /\ j > Len(a.handed)
              /\ j - Len(a.handed) \in DOMAIN sorted
              /\ HandedFor(a, sorted[j - Len(a.handed)], r.handed[j])
              /\ \E k \in DOMAIN a.queue :
                    sorted[j - Len(a.handed)] = a.queue[k]
  <1> DEFINE n == Len(a.handed)
             m == Len(sorted)
  <1>1. /\ n \in Nat /\ m \in Nat /\ DOMAIN r.handed = 1 .. n + m
        /\ DOMAIN sorted = 1 .. m /\ DOMAIN a.handed = 1 .. n
        /\ \A i \in 1 .. n : r.handed[i] = a.handed[i]
        /\ \A i \in 1 .. m : HandedFor(a, sorted[i], r.handed[n + i])
        /\ SortedSoFar(sorted, a.queue, Len(a.queue))
        /\ DOMAIN a.queue = 1 .. Len(a.queue)
    BY DEF Drained
  <1> HIDE DEF n, m
  <1>2. CASE j \in 1 .. n
    BY <1>1, <1>2
  <1>3. CASE j \notin 1 .. n
    <2>1. j - n \in 1 .. m /\ n + (j - n) = j /\ j > n
      BY <1>1, <1>3
    <2>2. HandedFor(a, sorted[j - n], r.handed[j])
      <3>1. HandedFor(a, sorted[j - n], r.handed[n + (j - n)])
        BY <1>1, <2>1
      <3> QED BY <2>1, <3>1
    <2>3. \E k \in 1 .. Len(a.queue) : sorted[j - n] = a.queue[k]
      BY <1>1, <2>1 DEF SortedSoFar
    <2>4. 1 .. Len(a.queue) = DOMAIN a.queue
      BY <1>1
    <2> QED BY <1>1, <2>1, <2>2, <2>3, <2>4 DEF n
  <1> QED BY <1>2, <1>3

\* The parts of a stream: what is cut first is older.
LEMMA PartsApart ==
    ASSUME NEW s \in Seq(Words), Increasing(s),
           NEW from \in Nat, NEW to \in Nat, NEW from2 \in Nat, NEW to2 \in Nat,
           from <= to, to <= from2, from2 <= to2, to2 <= Len(s),
           NEW u, u = SubSeq(s, from + 1, to),
           NEW v, v = SubSeq(s, from2 + 1, to2)
    PROVE  Before(u, v)
  <1>1. Len(s) \in Nat /\ DOMAIN s = 1 .. Len(s) /\ to <= Len(s)
    BY WordParts
  <1>2. /\ DOMAIN u = 1 .. to - from
        /\ \A i \in 1 .. to - from : from + i \in 1 .. Len(s) /\ u[i] = s[from + i]
    BY <1>1, Cut, SMTT(60)
  <1>3. /\ DOMAIN v = 1 .. to2 - from2
        /\ \A i \in 1 .. to2 - from2 :
              from2 + i \in 1 .. Len(s) /\ v[i] = s[from2 + i]
    BY <1>1, Cut
  <1>4. ASSUME NEW k \in DOMAIN u, NEW l \in DOMAIN v PROVE u[k].n < v[l].n
    <2>1. /\ k \in 1 .. to - from /\ l \in 1 .. to2 - from2
      BY <1>2, <1>3
    <2>2. from + k < from2 + l
      BY <2>1
    <2>3. /\ from + k \in DOMAIN s /\ u[k] = s[from + k]
          /\ from2 + l \in DOMAIN s /\ v[l] = s[from2 + l]
      BY <1>1, <1>2, <1>3, <2>1
    <2> QED BY <2>2, <2>3 DEF Increasing
  <1> QED BY <1>4 DEF Before

\* The numbers of a consistent arbiter's positions.
LEMMA StreamNumbers ==
    ASSUME NEW a, Consistent(a), NEW p \in Paths, NEW s, s = a.streams[p]
    PROVE  /\ s.data \in Seq(Words) /\ Len(s.data) \in Nat
           /\ s.packetStart \in Nat /\ s.packetStart <= Len(s.data)
           /\ Len(s.data) <= MaxStream
  <1>1. /\ s.data \in Seq(Words) /\ Len(s.data) \in Nat
        /\ s.packetStart \in Nat /\ s.parseOffset \in Nat
    BY StreamParts, WordParts DEF Consistent
  <1>2. /\ s.packetStart <= s.parseOffset /\ s.parseOffset <= Len(s.data)
        /\ Len(s.data) <= MaxStream
    BY DEF Consistent, Parsing
  <1> QED BY <1>1, <1>2

LEMMA HandedPart ==
    ASSUME NEW a, Consistent(a), NEW q \in QueuedPackets, NEW h, HandedFor(a, q, h)
    PROVE  PartOf(a.streams[q.path].data, h.words)
  <1> DEFINE s == a.streams[q.path]
  <1>1. q.path \in Paths /\ q.offset \in Nat /\ End(q) \in Nat
    BY PacketParts
  <1>2. s.data \in Seq(Words)
    BY <1>1, StreamNumbers
  <1>3. /\ h.words = SubSeq(s.data, q.offset + 1, End(q))
        /\ q.offset < End(q) /\ End(q) <= Len(s.data)
    BY DEF HandedFor
  <1>4. q.offset <= End(q)
    BY <1>1, <1>3
  <1> HIDE DEF s
  <1>5. PartOf(s.data, h.words)
    BY <1>1, <1>2, <1>3, <1>4, CutOrder
  <1> QED BY <1>5 DEF s

LEMMA RestPart ==
    ASSUME NEW a, Consistent(a), NEW p \in Paths, NEW t,
           Remains(a.streams[p], t)
    PROVE  PartOf(a.streams[p].data, t.data)
  <1> DEFINE s == a.streams[p]
  <1>1. /\ s.data \in Seq(Words) /\ Len(s.data) \in Nat
        /\ s.packetStart \in Nat /\ s.packetStart <= Len(s.data)
    BY StreamNumbers
  <1>2. t.data = SubSeq(s.data, s.packetStart + 1, Len(s.data))
    BY DEF Remains
  <1>3. Len(s.data) <= Len(s.data)
    BY <1>1
  <1> HIDE DEF s
  <1>4. PartOf(s.data, t.data)
    BY <1>1, <1>2, <1>3, CutOrder
  <1> QED BY <1>4 DEF s

\* What is handed over of a path is in order, and so is what remains.
LEMMA DrainOrdered ==
    ASSUME NEW a, Consistent(a), NEW w \in Ways, NEW p \in Paths,
           Ordered(a, w, p),
           NEW r, NEW sorted, Drained(a, r, sorted)
    PROVE  Ordered(r, w, p)
  <1> DEFINE s == a.streams[p]
             t == r.streams[p]
             n == Len(a.handed)
  <1>1. /\ s.data \in Seq(Words) /\ Len(s.data) \in Nat
        /\ s.packetStart \in Nat /\ s.packetStart <= Len(s.data)
    BY StreamNumbers
  <1>2. /\ t.data = SubSeq(s.data, s.packetStart + 1, Len(s.data))
        /\ PartOf(s.data, t.data)
    BY RestPart DEF Drained, Remains
  <1>3. /\ Shape(a) /\ Shape(r) /\ n \in Nat /\ DOMAIN a.handed = 1 .. n
        /\ DOMAIN sorted \subseteq Nat
        /\ SortedSoFar(sorted, a.queue, Len(a.queue))
    BY DEF Drained, Consistent
  <1>4. /\ \A i \in DOMAIN a.handed : a.handed[i].words \in Seq(Words)
        /\ \A i \in DOMAIN r.handed : r.handed[i].words \in Seq(Words)
    BY <1>3, HandedParts
  <1>5. \A c \in DOMAIN w[p] : w[p][c] \in Seq(Words)
    BY WayParts
  <1>6. \A i \in DOMAIN sorted : sorted[i] \in QueuedPackets
    <2>1. sorted \in Seq(QueuedPackets)
      BY <1>3 DEF SortedSoFar
    <2> QED BY <2>1, QueueParts
  <1>7. /\ Delivered(a.handed, p) /\ Increasing(s.data)
        /\ InLine(w[p])
        /\ After(a.handed, p, s.data)
        /\ \A c \in DOMAIN w[p] :
              After(a.handed, p, w[p][c]) /\ Before(s.data, w[p][c])
    BY DEF Ordered
  \* Those of the path: old ones and parts of the stream before packetStart.
  <1> DEFINE Old(i) == i \in DOMAIN a.handed /\ r.handed[i] = a.handed[i]
             New(i) == /\ i > n /\ i - n \in DOMAIN sorted
                       /\ HandedFor(a, sorted[i - n], r.handed[i])
                       /\ sorted[i - n] \in QueuedPackets
                       /\ sorted[i - n].path = r.handed[i].path
  <1>8. \A i \in DOMAIN r.handed : Old(i) \/ New(i)
    <2>1. ASSUME NEW i \in DOMAIN r.handed PROVE Old(i) \/ New(i)
      <3>1. CASE Old(i)
        BY <3>1
      <3>2. CASE /\ i > n /\ i - n \in DOMAIN sorted
                 /\ HandedFor(a, sorted[i - n], r.handed[i])
        <4>1. sorted[i - n].path = r.handed[i].path
          BY <3>2 DEF HandedFor
        <4> QED BY <1>6, <3>2, <4>1
      <3> QED BY <3>1, <3>2, HandedWhence
    <2> QED BY <2>1
  <1>9. ASSUME NEW i \in DOMAIN r.handed, New(i), r.handed[i].path = p
        PROVE  PartOf(s.data, r.handed[i].words)
    BY <1>9, HandedPart
  <1>10. ASSUME NEW i \in DOMAIN r.handed, r.handed[i].path = p
         PROVE  /\ Increasing(r.handed[i].words)
                /\ Before(r.handed[i].words, t.data)
                /\ \A c \in DOMAIN w[p] : Before(r.handed[i].words, w[p][c])
    <2>1. CASE Old(i)
      <3>1. a.handed[i].path = p /\ r.handed[i].words = a.handed[i].words
        BY <1>10, <2>1
      <3>2. Increasing(a.handed[i].words) /\ Before(a.handed[i].words, s.data)
        BY <1>7, <2>1, <3>1 DEF Delivered, After
      <3>3. \A c \in DOMAIN w[p] : Before(a.handed[i].words, w[p][c])
        BY <1>7, <2>1, <3>1 DEF After
      <3>4. Before(a.handed[i].words, t.data)
        BY <1>2, <1>4, <2>1, <3>2 DEF PartOf
      <3> QED BY <3>1, <3>2, <3>3, <3>4
    <2>2. CASE New(i)
      <3>1. PartOf(s.data, r.handed[i].words)
        BY <1>9, <1>10, <2>2
      <3>2. Increasing(r.handed[i].words)
        BY <1>7, <3>1 DEF PartOf
      <3>3. \A c \in DOMAIN w[p] : Before(r.handed[i].words, w[p][c])
        BY <1>5, <1>7, <3>1 DEF PartOf
      <3>4. Before(r.handed[i].words, t.data)
        <4> DEFINE q == sorted[i - n]
        <4>1. /\ q.offset \in Nat /\ End(q) \in Nat /\ q.offset < End(q)
              /\ End(q) <= s.packetStart
              /\ r.handed[i].words = SubSeq(s.data, q.offset + 1, End(q))
          BY <1>10, <2>2, PacketParts DEF HandedFor
        <4> HIDE DEF q, s, t
        <4>2. q.offset <= End(q) /\ Len(s.data) <= Len(s.data)
          BY <1>1, <4>1
        <4> QED BY <1>1, <1>2, <1>7, <4>1, <4>2, PartsApart
      <3> QED BY <3>2, <3>3, <3>4
    <2> QED BY <1>8, <2>1, <2>2
  <1>11. ASSUME NEW i \in DOMAIN r.handed, NEW j \in DOMAIN r.handed, i < j,
                r.handed[i].path = p, r.handed[j].path = p
         PROVE  Before(r.handed[i].words, r.handed[j].words)
    <2>1. CASE Old(i) /\ Old(j)
      BY <1>7, <1>11, <2>1 DEF Delivered
    <2>2. CASE Old(i) /\ New(j)
      <3>1. Before(a.handed[i].words, s.data)
        BY <1>7, <1>11, <2>2 DEF After
      <3>2. PartOf(s.data, r.handed[j].words)
        BY <1>9, <1>11, <2>2
      <3> QED BY <1>4, <2>2, <3>1, <3>2 DEF PartOf
    <2>3. CASE New(i) /\ Old(j)
      <3>1. j \in 1 .. n /\ i > n /\ i - n \in Nat
        BY <1>3, <2>3
      <3>2. i \in Nat
        BY <1>3, <1>4 DEF Drained
      <3> QED BY <1>3, <1>11, <3>1, <3>2
    <2>4. CASE New(i) /\ New(j)
      <3> DEFINE q == sorted[i - n]
                 u == sorted[j - n]
      <3>1. i \in Nat /\ j \in Nat
        BY DEF Drained
      <3>2. i - n \in DOMAIN sorted /\ j - n \in DOMAIN sorted /\ i - n < j - n
        BY <1>3, <1>11, <2>4, <3>1
      <3>3. Fits(q, u)
        BY <1>3, <3>2 DEF SortedSoFar, InRow
      <3>4. /\ q.path = p /\ u.path = p
            /\ q \in QueuedPackets /\ u \in QueuedPackets
        BY <1>11, <2>4
      <3>5. End(q) <= u.offset
        <4>1. ~(q.path < u.path)
          BY <3>4 DEF Paths
        <4> QED BY <3>3, <4>1 DEF Fits
      <3>6. /\ q.offset \in Nat /\ End(q) \in Nat /\ q.offset < End(q)
            /\ u.offset \in Nat /\ End(u) \in Nat /\ u.offset < End(u)
        <4> HIDE DEF q, u
        <4> QED BY <3>4, PacketParts
      <3>7. /\ r.handed[i].words = SubSeq(s.data, q.offset + 1, End(q))
            /\ r.handed[j].words = SubSeq(s.data, u.offset + 1, End(u))
            /\ End(u) <= Len(s.data)
        BY <2>4, <3>4 DEF HandedFor
      <3> HIDE DEF q, u, s
      <3>8. q.offset <= End(q) /\ u.offset <= End(u)
        BY <3>6
      <3> QED BY <1>1, <1>7, <3>5, <3>6, <3>7, <3>8, PartsApart
    <2> QED BY <1>8, <2>1, <2>2, <2>3, <2>4
  <1>12. Delivered(r.handed, p)
    BY <1>10, <1>11 DEF Delivered
  <1>13. After(r.handed, p, t.data) /\ \A c \in DOMAIN w[p] : After(r.handed, p, w[p][c])
    BY <1>10 DEF After
  <1>14. Increasing(t.data) /\ \A c \in DOMAIN w[p] : Before(t.data, w[p][c])
    BY <1>2, <1>5, <1>7 DEF PartOf
  <1> QED BY <1>7, <1>12, <1>13, <1>14 DEF Ordered

\* A word between two positions is in what is cut out there.
LEMMA CutHolds ==
    ASSUME NEW s \in Seq(Words), NEW from \in Nat, NEW to \in Nat,
           from <= to, to <= Len(s), NEW part, part = SubSeq(s, from + 1, to),
           NEW k \in from + 1 .. to
    PROVE  s[k].n \in Numbers(part)
  <1>1. Numbers(part) = {s[l].n : l \in from + 1 .. to}
    BY CutOrder
  <1> QED BY <1>1

\* A drain takes words from no path.
LEMMA DrainPlaces ==
    ASSUME NEW a, Consistent(a), NEW w \in Ways, NEW p \in Paths,
           NEW r, NEW sorted, Drained(a, r, sorted)
    PROVE  Placed(r, w, p) = Placed(a, w, p)
  <1> DEFINE s == a.streams[p]
             t == r.streams[p]
             n == Len(a.handed)
  <1>1. /\ s.data \in Seq(Words) /\ Len(s.data) \in Nat
        /\ s.packetStart \in Nat /\ s.packetStart <= Len(s.data)
        /\ DOMAIN s.data = 1 .. Len(s.data)
    BY StreamNumbers, WordParts
  <1>2. /\ t.data = SubSeq(s.data, s.packetStart + 1, Len(s.data))
        /\ PartOf(s.data, t.data)
    BY RestPart DEF Drained, Remains
  <1>3. /\ SortedSoFar(sorted, a.queue, Len(a.queue))
        /\ DOMAIN a.queue = 1 .. Len(a.queue) /\ DOMAIN sorted = 1 .. Len(sorted)
        /\ n \in Nat /\ Len(sorted) \in Nat
        /\ DOMAIN a.handed = 1 .. n /\ DOMAIN r.handed = 1 .. n + Len(sorted)
        /\ \A i \in 1 .. n : r.handed[i] = a.handed[i]
        /\ \A i \in 1 .. Len(sorted) : HandedFor(a, sorted[i], r.handed[n + i])
    BY DEF Drained
  <1>4. \A i \in DOMAIN sorted : sorted[i] \in QueuedPackets
    <2>1. sorted \in Seq(QueuedPackets)
      BY <1>3 DEF SortedSoFar
    <2> QED BY <2>1, QueueParts
  <1>5. /\ \A i \in 1 .. n : i \in 1 .. n + Len(sorted)
        /\ \A i \in 1 .. Len(sorted) : n + i \in 1 .. n + Len(sorted)
    BY <1>3
  <1>6. Gone(a.handed, p) \subseteq Gone(r.handed, p)
    BY <1>3, <1>5 DEF Gone
  <1>7. Gone(r.handed, p) \subseteq Gone(a.handed, p) \cup Numbers(s.data)
    <2>1. ASSUME NEW i \in DOMAIN r.handed, r.handed[i].path = p,
                 NEW x \in Numbers(r.handed[i].words)
          PROVE  x \in Gone(a.handed, p) \cup Numbers(s.data)
      <3>1. CASE i \in DOMAIN a.handed /\ r.handed[i] = a.handed[i]
        BY <2>1, <3>1 DEF Gone
      <3>2. CASE /\ i - n \in DOMAIN sorted
                 /\ HandedFor(a, sorted[i - n], r.handed[i])
        <4>1. sorted[i - n] \in QueuedPackets /\ sorted[i - n].path = p
          BY <1>4, <2>1, <3>2 DEF HandedFor
        <4>2. PartOf(a.streams[sorted[i - n].path].data, r.handed[i].words)
          BY <3>2, <4>1, HandedPart, SMTT(60)
        <4> QED BY <2>1, <4>1, <4>2 DEF PartOf
      <3> QED BY <3>1, <3>2, HandedWhence
    <2> QED BY <2>1 DEF Gone
  <1>8. Numbers(s.data) \subseteq Numbers(t.data) \cup Gone(r.handed, p)
    <2>1. ASSUME NEW k \in 1 .. Len(s.data)
          PROVE  s.data[k].n \in Numbers(t.data) \cup Gone(r.handed, p)
      <3>1. CASE k \in 1 .. s.packetStart
        <4>1. PICK i \in DOMAIN a.queue :
                  /\ a.queue[i].path = p
                  /\ a.queue[i].offset < k /\ k <= End(a.queue[i])
          BY <3>1 DEF Consistent, Tiled
        <4>2. PICK j \in DOMAIN sorted : sorted[j] = a.queue[i]
          BY <1>3 DEF SortedSoFar
        <4> DEFINE q == sorted[j]
                   h == r.handed[n + j]
        <4>3. HandedFor(a, q, h) /\ n + j \in DOMAIN r.handed
          BY <1>3, <1>5
        <4>4. q \in QueuedPackets /\ q.path = p
          BY <1>4, <4>1, <4>2
        <4>5. q.offset < k /\ k <= End(q)
          BY <4>1, <4>2
        <4> HIDE DEF q, h
        <4>6. /\ h.path = p /\ h.words = SubSeq(s.data, q.offset + 1, End(q))
              /\ End(q) <= Len(s.data)
          BY <4>3, <4>4 DEF HandedFor
        <4>7. q.offset \in Nat /\ End(q) \in Nat
          BY <4>4, PacketParts
        <4>8. q.offset <= End(q) /\ k \in q.offset + 1 .. End(q)
          BY <4>5, <4>7
        <4>9. s.data[k].n \in Numbers(h.words)
          <5> HIDE DEF s
          <5> QED BY <1>1, <4>6, <4>7, <4>8, CutHolds
        <4>10. Numbers(h.words) \subseteq Gone(r.handed, p)
          BY <4>3, <4>6 DEF Gone, h
        <4> QED BY <4>9, <4>10
      <3>2. CASE k \notin 1 .. s.packetStart
        <4>1. k \in s.packetStart + 1 .. Len(s.data) /\ Len(s.data) <= Len(s.data)
          BY <1>1, <3>2
        <4>2. s.data[k].n \in Numbers(t.data)
          <5> HIDE DEF s, t
          <5> QED BY <1>1, <1>2, <4>1, CutHolds
        <4> QED BY <4>2
      <3> QED BY <3>1, <3>2
    <2> QED BY <1>1, <2>1 DEF Numbers
  <1>9. Numbers(t.data) \subseteq Numbers(s.data)
    BY <1>2 DEF PartOf
  <1> HIDE DEF s, t
  <1>10. Numbers(t.data) \cup Gone(r.handed, p) = Numbers(s.data) \cup Gone(a.handed, p)
    BY <1>6, <1>7, <1>8, <1>9
  <1> QED BY <1>10 DEF Placed, s, t

LEMMA DrainExact ==
    ASSUME NEW a, NEW w, Exact(a, w), Apart(a), NEW r, r = Drain(a)
    PROVE  Exact(r, w)
  <1>1. CASE a.queue = <<>> \/ a.reservations # <<>>
    <2>1. r = a
      BY <1>1 DEF Drain
    <2> QED BY <2>1
  <1>2. CASE ~(a.queue = <<>> \/ a.reservations # <<>>)
    <2> DEFINE sorted == Sorted(a.queue)
    <2>1. Consistent(a) /\ w \in Ways
      BY DEF Exact, Consistent
    <2>2. Drained(a, r, sorted)
      BY <1>2, <2>1, DrainDoes
    <2> HIDE DEF sorted
    <2>3. /\ Shape(r) /\ r.queue = <<>> /\ r.arrived = a.arrived /\ r.lost = a.lost
          /\ \A p \in Paths : Remains(a.streams[p], r.streams[p])
      BY <2>2 DEF Drained
    <2>4. Tiled(r)
      <3>1. DOMAIN r.queue = {} /\ Len(r.queue) = 0
        BY <2>3
      <3>2. ASSUME NEW p \in Paths
            PROVE  /\ r.streams[p].packetStart = Consumed(r.queue, Len(r.queue), p)
                   /\ \A k \in 1 .. r.streams[p].packetStart : FALSE
        <4>1. Consumed(r.queue, 0, p) = 0
          BY ConsumedNone
        <4>2. r.streams[p].packetStart = 0 /\ \A k \in 1 .. 0 : FALSE
          BY <2>3 DEF Remains
        <4> QED BY <3>1, <4>1, <4>2
      <3> QED BY <3>1, <3>2 DEF Tiled
    <2>5. ASSUME NEW p \in Paths PROVE Parsing(r, p) /\ Stuck(r.streams[p])
      <3>1. /\ Remains(a.streams[p], r.streams[p])
            /\ Len(a.streams[p].data) <= MaxStream /\ Len(a.streams[p].data) \in Nat
        BY <2>1, <2>3, StreamNumbers
      <3>2. /\ r.streams[p].parseOffset \in Nat /\ Len(r.streams[p].data) \in Nat
        BY <2>3, StreamParts, WordParts
      <3>3. MaxStream \in Nat
        BY ConstantsAssumption
      <3>4. /\ r.streams[p].packetStart <= r.streams[p].parseOffset
            /\ r.streams[p].parseOffset <= Len(r.streams[p].data)
            /\ Len(r.streams[p].data) <= MaxStream
        <4>1. /\ r.streams[p].packetStart = 0
              /\ r.streams[p].parseOffset <= Len(r.streams[p].data)
              /\ Len(r.streams[p].data) <= Len(a.streams[p].data)
          BY <3>1 DEF Remains
        <4>2. \A x, y, z \in Nat : x <= y /\ y <= z => x <= z
          OBVIOUS
        <4>3. /\ Len(r.streams[p].data) <= MaxStream /\ 0 <= r.streams[p].parseOffset
          BY <3>1, <3>2, <3>3, <4>1, <4>2
        <4> QED BY <4>1, <4>3
      <3> QED BY <3>1, <3>4 DEF Parsing, Remains
    <2>6. Unmixed(r, w)
      <3>1. ASSUME NEW p \in Paths \ {2} PROVE Plain(r.streams[p].data)
        <4>1. PartOf(a.streams[p].data, r.streams[p].data)
          BY <2>1, <2>3, RestPart
        <4> QED BY <4>1 DEF PartOf, Exact, Unmixed
      <3> QED BY <3>1 DEF Exact, Unmixed
    <2>7. \A p \in Paths : Ordered(r, w, p)
      <3>1. \A p \in Paths : Ordered(a, w, p)
        BY DEF Exact
      <3> QED BY <2>1, <2>2, <3>1, DrainOrdered
    <2>8. Kept(r, w)
      <3>1. \A p \in Paths : Placed(r, w, p) = Placed(a, w, p)
        <4>1. ASSUME NEW p \in Paths PROVE Placed(r, w, p) = Placed(a, w, p)
          BY <2>1, <2>2, DrainPlaces
        <4> QED BY <4>1
      <3>2. Kept(a, w)
        BY DEF Exact
      <3> QED BY <2>3, <3>1, <3>2 DEF Kept
    <2> QED BY <2>1, <2>3, <2>4, <2>5, <2>6, <2>7, <2>8 DEF Exact
  <1> QED BY <1>1, <1>2

\* What a drain hands over respects the places and the images.
LEMMA DrainPlaceKept ==
    ASSUME NEW a, Consistent(a), InPlace(a), NEW r, NEW sorted,
           Drained(a, r, sorted)
    PROVE  PlaceKept(r.handed)
  <1> DEFINE n == Len(a.handed)
             Old(i) == i \in DOMAIN a.handed /\ r.handed[i] = a.handed[i]
             New(i) == /\ i > n /\ i - n \in DOMAIN sorted
                       /\ HandedFor(a, sorted[i - n], r.handed[i])
  <1>1. \A i \in DOMAIN r.handed : Old(i) \/ New(i)
    <2>1. ASSUME NEW i \in DOMAIN r.handed PROVE Old(i) \/ New(i)
      BY HandedWhence
    <2> QED BY <2>1
  <1>2. /\ SortedSoFar(sorted, a.queue, Len(a.queue)) /\ n \in Nat
        /\ DOMAIN r.handed \subseteq Nat /\ DOMAIN sorted \subseteq Nat
        /\ DOMAIN a.handed = 1 .. n
    BY DEF Drained
  <1>3. \A i \in DOMAIN sorted : sorted[i] \in QueuedPackets
    <2>1. sorted \in Seq(QueuedPackets)
      BY <1>2 DEF SortedSoFar
    <2> QED BY <2>1, QueueParts
  <1>4. ASSUME NEW i \in DOMAIN r.handed, NEW j \in DOMAIN r.handed, i < j,
               r.handed[i].path # 1, r.handed[j].path = 1,
               NEW k \in DOMAIN r.handed[i].words,
               NEW l \in DOMAIN r.handed[j].words
        PROVE  r.handed[i].words[k].n < r.handed[j].words[l].since
    <2>1. CASE Old(i) /\ Old(j)
      BY <1>4, <2>1 DEF InPlace, PlaceKept
    <2>2. CASE Old(i) /\ New(j)
      <3> DEFINE q == sorted[j - n]
                 s == a.streams[1]
      <3>1. /\ q \in QueuedPackets /\ q.path = 1
            /\ r.handed[j].words = SubSeq(s.data, q.offset + 1, End(q))
            /\ End(q) <= Len(s.data)
        BY <1>3, <1>4, <2>2 DEF HandedFor
      <3>2. q.offset \in Nat /\ End(q) \in Nat /\ q.offset < End(q)
        <4> HIDE DEF q
        <4> QED BY <3>1, PacketParts
      <3>3. s.data \in Seq(Words) /\ Len(s.data) \in Nat /\ DOMAIN s.data = 1 .. Len(s.data)
        BY StreamNumbers, WordParts DEF Paths
      <3> HIDE DEF q, s
      <3>4. q.offset <= End(q)
        BY <3>2
      <3>5. LET part == SubSeq(s.data, q.offset + 1, End(q)) IN
            /\ part \in Seq(Words)
            /\ Len(part) = End(q) - q.offset
            /\ DOMAIN part = 1 .. End(q) - q.offset
            /\ \A x \in 1 .. End(q) - q.offset :
                  /\ q.offset + x \in 1 .. Len(s.data)
                  /\ part[x] = s.data[q.offset + x]
        BY <3>1, <3>2, <3>3, <3>4, Cut, Zenon
      <3>6. /\ q.offset + l \in DOMAIN s.data
            /\ r.handed[j].words[l] = s.data[q.offset + l]
        BY <3>1, <3>3, <3>5
      <3>7. a.handed[i].words[k].n < s.data[q.offset + l].since
        BY <1>4, <2>2, <3>6 DEF InPlace, Ahead, s
      <3> QED BY <2>2, <3>6, <3>7, SMTT(60)
    <2>3. CASE New(i) /\ Old(j)
      BY <1>2, <1>4, <2>3
    <2>4. CASE New(i) /\ New(j)
      <3>1. i - n < j - n
        BY <1>2, <1>4
      <3>2. Fits(sorted[i - n], sorted[j - n])
        BY <2>4, <3>1, <1>2, SMTT(60) DEF SortedSoFar, InRow
      <3>3. sorted[i - n].path = r.handed[i].path /\ sorted[j - n].path = 1
        BY <1>4, <2>4 DEF HandedFor
      <3>4. sorted[i - n].path \in Paths
        BY <1>3, <2>4, PacketParts
      <3>5. ~(sorted[i - n].path < 1) /\ sorted[i - n].path # 1
        BY <1>4, <3>3, <3>4 DEF Paths
      <3> QED BY <3>2, <3>3, <3>5 DEF Fits
    <2> QED BY <1>1, <2>1, <2>2, <2>3, <2>4
  <1> QED BY <1>4 DEF PlaceKept

\* The last word of a packet is the last word before its end.
LEMMA LastOf ==
    ASSUME NEW a, Consistent(a), NEW q \in QueuedPackets, NEW h, HandedFor(a, q, h)
    PROVE  /\ Last(h.words) = a.streams[q.path].data[End(q)]
           /\ Len(h.words) \in DOMAIN h.words
           /\ Last(h.words) = h.words[Len(h.words)]
  <1> DEFINE s == a.streams[q.path]
  <1>1. q.path \in Paths /\ q.offset \in Nat /\ End(q) \in Nat /\ q.offset < End(q)
    BY PacketParts
  <1>2. s.data \in Seq(Words) /\ Len(s.data) \in Nat
    BY <1>1, StreamNumbers
  <1>3. /\ h.words = SubSeq(s.data, q.offset + 1, End(q))
        /\ End(q) <= Len(s.data) /\ q.offset <= End(q)
    BY <1>1 DEF HandedFor
  <1> HIDE DEF s
  <1>4. LET part == SubSeq(s.data, q.offset + 1, End(q)) IN
        /\ part \in Seq(Words)
        /\ Len(part) = End(q) - q.offset
        /\ DOMAIN part = 1 .. End(q) - q.offset
        /\ \A x \in 1 .. End(q) - q.offset :
              /\ q.offset + x \in 1 .. Len(s.data)
              /\ part[x] = s.data[q.offset + x]
    BY <1>1, <1>2, <1>3, Cut, Zenon
  <1>5. /\ End(q) - q.offset \in 1 .. End(q) - q.offset
        /\ q.offset + (End(q) - q.offset) = End(q)
    BY <1>1
  <1>6. /\ Len(h.words) = End(q) - q.offset /\ Len(h.words) \in DOMAIN h.words
        /\ h.words[Len(h.words)] = s.data[End(q)]
    BY <1>3, <1>4, <1>5
  <1>7. Last(h.words) = h.words[Len(h.words)]
    BY DEF Last
  <1> QED BY <1>6, <1>7 DEF s

LEMMA DrainImageKept ==
    ASSUME NEW a, Consistent(a), InPlace(a), NEW r, NEW sorted,
           Drained(a, r, sorted)
    PROVE  ImageKept(r.handed)
  <1> DEFINE n == Len(a.handed)
             Old(i) == i \in DOMAIN a.handed /\ r.handed[i] = a.handed[i]
             New(i) == /\ i > n /\ i - n \in DOMAIN sorted
                       /\ HandedFor(a, sorted[i - n], r.handed[i])
                       /\ \E k \in DOMAIN a.queue : sorted[i - n] = a.queue[k]
  <1>1. \A i \in DOMAIN r.handed : Old(i) \/ New(i)
    <2>1. ASSUME NEW i \in DOMAIN r.handed PROVE Old(i) \/ New(i)
      BY HandedWhence
    <2> QED BY <2>1
  <1>2. /\ SortedSoFar(sorted, a.queue, Len(a.queue)) /\ n \in Nat
        /\ DOMAIN r.handed \subseteq Nat /\ DOMAIN sorted \subseteq Nat
        /\ DOMAIN a.handed = 1 .. n /\ Shape(r) /\ Shape(a)
    BY DEF Drained, Consistent
  <1>3. \A i \in DOMAIN sorted : sorted[i] \in QueuedPackets
    <2>1. sorted \in Seq(QueuedPackets)
      BY <1>2 DEF SortedSoFar
    <2> QED BY <2>1, QueueParts
  <1>4. ASSUME NEW i \in DOMAIN r.handed, NEW j \in DOMAIN r.handed, i < j,
               r.handed[i].path2DirectHl, r.handed[j].path3Image
        PROVE  Last(r.handed[i].words).since <= Last(r.handed[j].words).n
    <2>0. r.handed[i].path = 2 /\ r.handed[j].path = 3
      BY <1>2, <1>4 DEF Shape, Labelled
    <2>1. CASE Old(i) /\ Old(j)
      BY <1>4, <2>1 DEF InPlace, ImageKept
    <2>2. CASE Old(i) /\ New(j)
      <3>1. PICK k \in DOMAIN a.queue : sorted[j - n] = a.queue[k]
        BY <2>2
      <3>2. HandedFor(a, a.queue[k], r.handed[j]) /\ a.queue[k] \in QueuedPackets
        BY <1>3, <2>2, <3>1, SMTT(60)
      <3>3. a.queue[k].path = 3
        BY <2>0, <3>2 DEF HandedFor
      <3>4. Last(r.handed[j].words) = a.streams[3].data[End(a.queue[k])]
        BY <3>2, <3>3, LastOf
      <3>5. \A l \in DOMAIN a.handed[i].words :
                a.handed[i].words[l].since <=
                    a.streams[3].data[End(a.queue[k])].n
        BY <1>4, <2>0, <2>2, <3>3, <3>4 DEF InPlace, Behind
      <3>6. /\ Last(a.handed[i].words) = a.handed[i].words[Len(a.handed[i].words)]
            /\ Len(a.handed[i].words) \in DOMAIN a.handed[i].words
        <4>1. a.handed[i].words \in Seq(Words) /\ a.handed[i].words # <<>>
          BY <1>2, <2>2, HandedParts
        <4>2. Len(a.handed[i].words) \in 1 .. Len(a.handed[i].words)
          BY <4>1, WordParts
        <4> QED BY <4>1, <4>2, WordParts DEF Last
      <3> QED BY <2>2, <3>4, <3>5, <3>6
    <2>3. CASE New(i) /\ Old(j)
      BY <1>2, <1>4, <2>3
    <2>4. CASE New(i) /\ New(j)
      <3>1. PICK k \in DOMAIN a.queue : sorted[i - n] = a.queue[k]
        BY <2>4
      <3>2. PICK l \in DOMAIN a.queue : sorted[j - n] = a.queue[l]
        BY <2>4, SMTT(60)
      <3>3. a.queue[k].path = 2 /\ a.queue[l].path = 3
        BY <2>0, <2>4, <3>1, <3>2 DEF HandedFor
      <3>4. a.queue[l].path # 2
        BY <3>3
      <3> QED BY <3>3, <3>4 DEF InPlace, Apart
    <2> QED BY <1>1, <2>1, <2>2, <2>3, <2>4
  <1> QED BY <1>4 DEF ImageKept

\* All the packets of PATH1 are complete.
Whole1(a) == a.streams[1].packetStart = Len(a.streams[1].data)

LEMMA DrainInPlace ==
    ASSUME NEW a, Consistent(a), InPlace(a), Whole1(a), a.reservations = <<>>,
           NEW r, r = Drain(a)
    PROVE  InPlace(r) /\ r.queue = <<>> /\ r.streams[1].data = <<>>
  <1>1. /\ a.streams[1].data \in Seq(Words) /\ Len(a.streams[1].data) \in Nat
    BY StreamNumbers DEF Paths
  <1>2. CASE a.queue = <<>>
    <2>1. r = a
      BY <1>2 DEF Drain
    <2>2. a.streams[1].packetStart = Consumed(a.queue, 0, 1)
      BY <1>2 DEF Consistent, Tiled, Paths
    <2>3. Len(a.streams[1].data) = 0
      BY <2>2, ConsumedNone DEF Whole1
    <2> QED BY <1>1, <1>2, <2>1, <2>3, WordParts
  <1>3. CASE a.queue # <<>>
    <2> DEFINE sorted == Sorted(a.queue)
    <2>1. Drained(a, r, sorted)
      BY <1>3, DrainDoes DEF InPlace
    <2> HIDE DEF sorted
    <2>2. r.queue = <<>> /\ Remains(a.streams[1], r.streams[1])
      BY <2>1 DEF Drained, Paths
    <2>3. r.streams[1].data = <<>>
      <3>1. r.streams[1].data =
                SubSeq(a.streams[1].data, Len(a.streams[1].data) + 1,
                       Len(a.streams[1].data))
        BY <2>2 DEF Remains, Whole1
      <3> QED BY <1>1, <3>1, SubSeqEmpty
    <2>4. Apart(r) /\ Behind(r) /\ Ahead(r)
      BY <2>2, <2>3 DEF Apart, Behind, Ahead
    <2>5. PlaceKept(r.handed) /\ ImageKept(r.handed)
      BY <2>1, DrainPlaceKept, DrainImageKept, SMTT(60)
    <2> QED BY <2>2, <2>3, <2>4, <2>5 DEF InPlace
  <1> QED BY <1>2, <1>3

-----------------------------------------------------------------------------
(* A submission and what was handed over.                                   *)

\* The place of the words is behind what the other paths were handed.
Placeable(a, chunk) ==
    \A l \in DOMAIN chunk :
        \A i \in DOMAIN a.handed : a.handed[i].path # 1 =>
            \A k \in DOMAIN a.handed[i].words :
                a.handed[i].words[k].n < chunk[l].since

\* Where the words of a stream are after a submission.
LEMMA SubmittedWords ==
    ASSUME NEW a, Consistent(a), NEW path \in Paths,
           NEW chunk \in Seq(Words), NEW r, Submitted(a, r, path, chunk),
           NEW l \in DOMAIN r.streams[path].data
    PROVE  \/ /\ l \in DOMAIN a.streams[path].data
              /\ r.streams[path].data[l] = a.streams[path].data[l]
           \/ /\ l > Len(a.streams[path].data)
              /\ l - Len(a.streams[path].data) \in DOMAIN chunk
              /\ r.streams[path].data[l] = chunk[l - Len(a.streams[path].data)]
  <1> DEFINE s == a.streams[path]
             t == r.streams[path]
  <1>1. /\ s.data \in Seq(Words) /\ Len(s.data) \in Nat /\ DOMAIN s.data = 1 .. Len(s.data)
        /\ s.packetStart \in Nat /\ s.packetStart <= Len(s.data)
        /\ DOMAIN chunk = 1 .. Len(chunk) /\ Len(chunk) \in Nat
    BY StreamNumbers, WordParts
  <1>2. CASE t.data = s.data \o chunk
    <2> HIDE DEF s
    <2>1. /\ t.data \in Seq(Words)
          /\ \A i \in 1 .. Len(s.data) : t.data[i] = s.data[i]
          /\ \A i \in 1 .. Len(chunk) : t.data[Len(s.data) + i] = chunk[i]
          /\ \A i \in 1 .. Len(t.data) :
                \/ i \in 1 .. Len(s.data)
                \/ i - Len(s.data) \in 1 .. Len(chunk)
                   /\ i = Len(s.data) + (i - Len(s.data))
      <3> HIDE DEF t
      <3> QED BY <1>1, <1>2, Joined
    <2>2. l \in 1 .. Len(t.data)
      BY <2>1, WordParts
    <2>3. CASE l \in 1 .. Len(s.data)
      BY <1>1, <2>1, <2>3 DEF s
    <2>4. CASE /\ l - Len(s.data) \in 1 .. Len(chunk)
               /\ l = Len(s.data) + (l - Len(s.data))
      <3>1. t.data[l] = chunk[l - Len(s.data)]
        BY <2>1, <2>4
      <3>2. l > Len(s.data)
        BY <1>1, <2>4
      <3> QED BY <1>1, <2>4, <3>1, <3>2 DEF s
    <2> QED BY <2>1, <2>2, <2>3, <2>4
  <1>3. CASE t.data = SubSeq(s.data, 1, s.packetStart)
    <2> HIDE DEF s, t
    <2>1. /\ DOMAIN t.data = 1 .. s.packetStart
          /\ \A i \in 1 .. s.packetStart : i \in 1 .. Len(s.data) /\ t.data[i] = s.data[i]
      BY <1>1, <1>3, FirstOf
    <2>2. l \in 1 .. s.packetStart
      BY <2>1 DEF t
    <2> QED BY <1>1, <2>1, <2>2 DEF s, t
  <1> QED BY <1>2, <1>3 DEF Submitted

\* A packet that was in the queue ends at the same word.
LEMMA SubmittedEnd ==
    ASSUME NEW a, Consistent(a), NEW path \in Paths,
           NEW chunk \in Seq(Words), NEW r, Submitted(a, r, path, chunk),
           NEW j \in DOMAIN r.queue
    PROVE  LET q == r.queue[j] IN
           \/ /\ j \in DOMAIN a.queue /\ q = a.queue[j]
              /\ r.streams[q.path].data[End(q)] = a.streams[q.path].data[End(q)]
           \/ /\ q.path = path
              /\ End(q) > Len(a.streams[path].data)
              /\ End(q) \in DOMAIN r.streams[path].data
  <1> DEFINE q == r.queue[j]
  <1>1. /\ Shape(a) /\ Shape(r) /\ Tiled(a) /\ Tiled(r) /\ Consistent(r)
    BY DEF Consistent, Submitted
  <1>2. /\ r.queue \in Seq(QueuedPackets) /\ Len(r.queue) \in Nat
        /\ DOMAIN r.queue = 1 .. Len(r.queue)
        /\ q \in QueuedPackets /\ q.path \in Paths
        /\ End(q) \in Nat /\ q.offset \in Nat /\ q.offset < End(q)
        /\ a.queue \in Seq(QueuedPackets) /\ Len(a.queue) \in Nat
        /\ DOMAIN a.queue = 1 .. Len(a.queue)
    BY <1>1, ArbiterParts, QueueParts
  <1>3. CASE j \in 1 .. Len(a.queue)
    <2>1. q = a.queue[j] /\ j \in DOMAIN a.queue
      BY <1>2, <1>3 DEF Submitted
    <2>2. HandedFor(a, q, Owned(q, a.streams))
      BY <2>1, OwnedIs, SMTT(60)
    <2>3. End(q) <= a.streams[q.path].packetStart /\ End(q) <= Len(a.streams[q.path].data)
      BY <2>2 DEF HandedFor
    <2>4. r.streams[q.path].data[End(q)] = a.streams[q.path].data[End(q)]
      <3>1. CASE q.path # path
        BY <1>2, <3>1, SMTT(60) DEF Submitted
      <3>2. CASE q.path = path
        <4> DEFINE s == a.streams[path]
        <4>1. /\ s.data \in Seq(Words) /\ Len(s.data) \in Nat
              /\ s.packetStart \in Nat /\ s.packetStart <= Len(s.data)
          BY StreamNumbers
        <4>2. /\ End(q) \in 1 .. s.packetStart /\ End(q) \in 1 .. Len(s.data)
          BY <1>2, <2>3, <3>2, <4>1
        <4>3. CASE r.streams[path].data = s.data \o chunk
          <5> HIDE DEF s
          <5>1. (s.data \o chunk)[End(q)] = s.data[End(q)]
            BY <4>1, <4>2, Joined
          <5> QED BY <3>2, <4>3, <5>1 DEF s
        <4>4. CASE r.streams[path].data = SubSeq(s.data, 1, s.packetStart)
          <5> HIDE DEF s
          <5>1. \A i \in 1 .. s.packetStart : r.streams[path].data[i] = s.data[i]
            BY <4>1, <4>4, FirstOf
          <5> QED BY <3>2, <4>2, <5>1 DEF s
        <4> QED BY <4>3, <4>4 DEF Submitted
      <3> QED BY <3>1, <3>2
    <2> QED BY <2>1, <2>4
  <1>4. CASE j \notin 1 .. Len(a.queue)
    <2>1. j \in Len(a.queue) + 1 .. Len(r.queue)
      BY <1>2, <1>4
    <2>2. q.path = path /\ Len(a.streams[path].data) < End(q)
      BY <2>1 DEF Submitted
    <2>3. HandedFor(r, q, Owned(q, r.streams))
      BY <1>1, OwnedIs
    <2>4. End(q) <= Len(r.streams[path].data)
      BY <2>2, <2>3 DEF HandedFor
    <2>5. DOMAIN r.streams[path].data = 1 .. Len(r.streams[path].data)
          /\ Len(r.streams[path].data) \in Nat
      BY <1>1, StreamNumbers, WordParts
    <2>6. Len(a.streams[path].data) \in Nat
      BY StreamNumbers
    <2>7. End(q) > Len(a.streams[path].data) /\ End(q) \in 1 .. Len(r.streams[path].data)
      BY <1>2, <2>2, <2>4, <2>5, <2>6
    <2> QED BY <2>2, <2>5, <2>7
  <1> QED BY <1>3, <1>4

LEMMA SubmitInPlace ==
    ASSUME NEW a, Consistent(a), InPlace(a), NEW path \in Paths,
           NEW chunk \in Seq(Words), NEW r, Submitted(a, r, path, chunk),
           Apart(r), path = 3 => Recent(a, chunk),
           path = 1 => Placeable(a, chunk)
    PROVE  InPlace(r)
  <1>1. r.handed = a.handed
    BY DEF Submitted
  <1>2. Behind(r)
    <2>1. ASSUME NEW i \in DOMAIN r.handed, NEW j \in DOMAIN r.queue,
                 r.handed[i].path = 2, r.queue[j].path = 3,
                 NEW last, last = r.streams[3].data[End(r.queue[j])],
                 NEW k \in DOMAIN r.handed[i].words
          PROVE  r.handed[i].words[k].since <= last.n
      <3> DEFINE q == r.queue[j]
      <3>1. CASE /\ j \in DOMAIN a.queue /\ q = a.queue[j]
                 /\ r.streams[3].data[End(q)] = a.streams[3].data[End(q)]
        BY <1>1, <2>1, <3>1 DEF InPlace, Behind
      <3>2. CASE /\ path = 3
                 /\ End(q) > Len(a.streams[3].data)
                 /\ End(q) \in DOMAIN r.streams[3].data
        <4>1. End(q) \notin DOMAIN a.streams[3].data
          <5>1. /\ DOMAIN a.streams[3].data = 1 .. Len(a.streams[3].data)
                /\ Len(a.streams[3].data) \in Nat
            BY StreamNumbers, WordParts DEF Paths
          <5> QED BY <3>2, <5>1
        <4>2. /\ End(q) - Len(a.streams[3].data) \in DOMAIN chunk
              /\ last = chunk[End(q) - Len(a.streams[3].data)]
          <5> HIDE DEF q
          <5> QED BY <2>1, <3>2, <4>1, SubmittedWords DEF q
        <4>3. a.handed[i].words[k] \in Path2Words(a)
          BY <1>1, <2>1 DEF Path2Words, Range
        <4> QED BY <1>1, <3>2, <4>2, <4>3 DEF Recent, Reach
      <3> QED BY <2>1, <3>1, <3>2, SubmittedEnd, SMTT(60)
    <2> QED BY <2>1 DEF Behind
  <1>3. Ahead(r)
    <2>1. ASSUME NEW i \in DOMAIN r.handed, NEW l \in DOMAIN r.streams[1].data,
                 r.handed[i].path # 1, NEW k \in DOMAIN r.handed[i].words
          PROVE  r.handed[i].words[k].n < r.streams[1].data[l].since
      <3>1. CASE l \in DOMAIN a.streams[1].data
                 /\ r.streams[1].data[l] = a.streams[1].data[l]
        BY <1>1, <2>1, <3>1 DEF InPlace, Ahead
      <3>2. CASE path # 1
        <4>1. r.streams[1] = a.streams[1]
          BY <3>2 DEF Submitted, Paths
        <4> QED BY <3>1, <4>1
      <3>3. CASE /\ path = 1
                 /\ l - Len(a.streams[1].data) \in DOMAIN chunk
                 /\ r.streams[1].data[l] = chunk[l - Len(a.streams[1].data)]
        BY <1>1, <2>1, <3>3 DEF Placeable
      <3> QED BY <3>1, <3>2, <3>3, SubmittedWords
    <2> QED BY <2>1 DEF Ahead
  <1> QED BY <1>1, <1>2, <1>3 DEF InPlace


-----------------------------------------------------------------------------
(* What an XGKICK carries is complete.                                      *)

\* The places of the tags of words that are whole packets.
WholeTags(words, tags) ==
    /\ tags \in SUBSET DOMAIN words
    /\ 1 \in tags
    /\ \A t \in tags :
          t + words[t].size \in
              tags \cup (IF words[t].eop THEN {Len(words) + 1} ELSE {})

\* The parser of PATH1 stands before a tag or behind the last packet.
OnTags(s, from, tags) ==
    \/ s.packetStart = Len(s.data)
    \/ \E t \in tags : s.parseOffset + 1 = from + t

\* The words behind others are those of a chunk.
EndsWith(data, from, chunk) ==
    /\ Len(data) = from + Len(chunk)
    /\ \A i \in 1 .. Len(chunk) : data[from + i] = chunk[i]

LEMMA OnATag ==
    ASSUME NEW s \in Streams, NEW from \in Nat, NEW chunk \in Seq(Words),
           NEW tags, WholeTags(chunk, tags), EndsWith(s.data, from, chunk),
           NEW t \in tags, s.parseOffset + 1 = from + t
    PROVE  /\ t \in Nat /\ t <= Len(chunk)
           /\ s.data[s.parseOffset + 1] = chunk[t]
           /\ NextEnd(s) \in Nat
           /\ NextEnd(s) + 1 = from + (t + chunk[t].size)
           /\ s.parseOffset # Len(s.data)
  <1>1. /\ t \in 1 .. Len(chunk) /\ Len(chunk) \in Nat
        /\ chunk[t].size \in Nat \ {0}
        /\ s.parseOffset \in Nat /\ Len(s.data) = from + Len(chunk)
    BY WordParts DEF WholeTags, EndsWith, Streams
  <1>2. s.data[s.parseOffset + 1] = chunk[t]
    BY <1>1 DEF EndsWith
  <1>3. NextEnd(s) = s.parseOffset + chunk[t].size
    BY <1>2 DEF NextEnd
  <1>6. /\ t \in Nat /\ t <= Len(chunk) /\ chunk[t].size \in Nat
        /\ s.parseOffset + chunk[t].size \in Nat
    BY <1>1
  <1>7. (s.parseOffset + chunk[t].size) + 1 = from + (t + chunk[t].size)
    <2> DEFINE x == s.parseOffset
               z == chunk[t].size
    <2>1. x \in Nat /\ z \in Nat /\ x + 1 = from + t /\ t \in Nat
      BY <1>1, <1>6
    <2> HIDE DEF x, z
    <2>2. (x + z) + 1 = from + (t + z)
      BY <2>1
    <2> QED BY <2>2 DEF x, z
  <1>8. s.parseOffset # from + Len(chunk)
    <2> DEFINE x == s.parseOffset
               z == Len(chunk)
    <2>1. x \in Nat /\ z \in Nat /\ x + 1 = from + t /\ t <= z /\ t \in Nat
      BY <1>1, <1>6
    <2> HIDE DEF x, z
    <2>2. x # from + z
      BY <2>1
    <2> QED BY <2>2 DEF x, z
  <1> QED BY <1>1, <1>2, <1>3, <1>6, <1>7, <1>8

LEMMA ReadsOn ==
    ASSUME NEW b, Shape(b), Parsing(b, 1), NEW s, s = b.streams[1],
           NEW from \in Nat, NEW chunk \in Seq(Words), NEW tags,
           WholeTags(chunk, tags), EndsWith(s.data, from, chunk),
           OnTags(s, from, tags), NEW hl \in BOOLEAN,
           NEW r, r = ParseTag(b, 1, hl)
    PROVE  OnTags(r.streams[1], from, tags)
  <1>0. 1 \in Paths
    BY DEF Paths
  <1>1. CASE Stuck(s)
    <2>1. r = b
      BY <1>0, <1>1, TagIncomplete
    <2> QED BY <2>1
  <1>2. CASE ~Stuck(s)
    <2>1. /\ s \in Streams /\ s.packetStart \in Nat /\ s.parseOffset \in Nat
          /\ Len(s.data) \in Nat
      BY <1>0, StreamParts, WordParts
    <2>2. PICK t \in tags : s.parseOffset + 1 = from + t
      <3>1. s.packetStart # Len(s.data)
        <4>1. s.packetStart <= s.parseOffset /\ s.parseOffset <= Len(s.data)
          BY DEF Parsing
        <4> QED BY <1>2, <2>1, <4>1 DEF Stuck
      <3> QED BY <3>1 DEF OnTags
    <2>3. /\ s.data[s.parseOffset + 1] = chunk[t]
          /\ NextEnd(s) + 1 = from + (t + chunk[t].size)
          /\ NextEnd(s) \in Nat
      BY <2>1, <2>2, OnATag, SMTT(60)
    <2>4. t + chunk[t].size \in
              tags \cup (IF chunk[t].eop THEN {Len(chunk) + 1} ELSE {})
      BY DEF WholeTags
    <2>5. r.streams[1].parseOffset = NextEnd(s)
      BY <1>0, <1>2, TagContinues, TagEnds
    <2>6. CASE t + chunk[t].size \in tags
      BY <2>3, <2>5, <2>6 DEF OnTags
    <2>7. CASE t + chunk[t].size \notin tags
      <3>1. chunk[t].eop /\ t + chunk[t].size = Len(chunk) + 1
        BY <2>4, <2>7
      <3>2. r.streams[1].packetStart = NextEnd(s) /\ SameBut(b, r, 1)
        BY <1>0, <1>2, <2>3, <3>1, TagEnds
      <3>3. r.streams[1].data = s.data
        BY <1>0, <3>2 DEF SameBut
      <3>4. NextEnd(s) = Len(s.data)
        <4>1. Len(s.data) = from + Len(chunk) /\ Len(chunk) \in Nat
          BY WordParts DEF EndsWith
        <4>2. NextEnd(s) + 1 = from + (Len(chunk) + 1)
          BY <2>3, <3>1, SMTT(60)
        <4> QED BY <2>3, <4>1, <4>2
      <3> QED BY <3>2, <3>3, <3>4 DEF OnTags
    <2> QED BY <2>6, <2>7
  <1> QED BY <1>1, <1>2

\* Given whole packets, the parser comes to the end of the last.
LEMMA ReadsAll ==
    ASSUME NEW g, Shape(g), NEW from \in Nat, NEW hl \in BOOLEAN,
           Flagged(g, 1, hl, from), Turned(g, g, 1, from),
           NEW chunk \in Seq(Words), NEW tags, WholeTags(chunk, tags),
           EndsWith(g.streams[1].data, from, chunk),
           g.streams[1].parseOffset = from,
           NEW r, r = Parsed(g, 1, hl, Len(g.streams[1].data))
    PROVE  r.streams[1].packetStart = Len(r.streams[1].data)
  <1> DEFINE n == Len(g.streams[1].data)
  <1>0. 1 \in Paths /\ n \in Nat
    <2>1. 1 \in Paths
      BY DEF Paths
    <2> QED BY <2>1, StreamParts, WordParts
  <1>1. PICK turn : ParsedRun(turn, g, 1, hl, n) /\ Parsed(g, 1, hl, n) = turn[n]
    <2> HIDE DEF n
    <2> QED BY <1>0, ParsedIs, ZenonT(60)
  <1> DEFINE T == {k \in 0 .. n :
                     /\ Turned(g, turn[k], 1, from)
                     /\ OnTags(turn[k].streams[1], from, tags)}
  <1>2. 0 \in T
    <2>1. turn[0] = g
      BY <1>1 DEF ParsedRun
    <2>2. OnTags(g.streams[1], from, tags)
      BY DEF OnTags, WholeTags
    <2> QED BY <1>0, <2>1, <2>2
  <1>3. ASSUME NEW k \in 1 .. n, k - 1 \in T PROVE k \in T
    <2> DEFINE b == turn[k - 1]
    <2>1. Turned(g, b, 1, from) /\ OnTags(b.streams[1], from, tags)
      BY <1>3
    <2>2. turn[k] = ParseTag(b, 1, hl)
      BY <1>1 DEF ParsedRun
    <2> HIDE DEF b
    <2>3. Turned(g, turn[k], 1, from)
      BY <1>0, <2>1, <2>2, TurnKeeps
    <2>4. /\ Shape(b) /\ Parsing(b, 1)
          /\ b.streams[1].data = g.streams[1].data
      BY <1>0, <2>1 DEF Turned, SameBut
    <2>5. OnTags(turn[k].streams[1], from, tags)
      BY <2>1, <2>2, <2>4, ReadsOn
    <2>6. k \in 0 .. n
      OBVIOUS
    <2> QED BY <2>3, <2>5, <2>6
  <1> HIDE DEF T
  <1>4. T \in SUBSET (0 .. n)
    BY DEF T
  <1> HIDE DEF n
  <1>5. T = 0 .. n
    BY <1>0, <1>2, <1>3, <1>4, FirstNumbers
  <1>6. n \in T
    BY <1>0, <1>5
  <1>7. r = turn[n]
    BY <1>1 DEF n
  <1>8. Turned(g, r, 1, from) /\ OnTags(r.streams[1], from, tags)
    BY <1>6, <1>7 DEF T
  <1>9. Stuck(r.streams[1])
    BY <1>0, ParsedKeeps
  <1> DEFINE s == r.streams[1]
  <1>10. s \in Streams /\ s.data = g.streams[1].data
    BY <1>0, <1>8, StreamParts DEF Turned, SameBut
  <1>11. ASSUME NEW t \in tags, s.parseOffset + 1 = from + t PROVE FALSE
    <2> HIDE DEF s
    <2>1. /\ NextEnd(s) + 1 = from + (t + chunk[t].size)
          /\ s.parseOffset # Len(s.data) /\ NextEnd(s) \in Nat
      BY <1>10, <1>11, OnATag
    <2>2. NextEnd(s) > Len(s.data)
      BY <1>9, <2>1 DEF Stuck, NextEnd, s
    <2>3. t + chunk[t].size \in tags \cup {Len(chunk) + 1}
      BY DEF WholeTags
    <2>4. /\ tags \in SUBSET (1 .. Len(chunk)) /\ Len(chunk) \in Nat
          /\ Len(s.data) = from + Len(chunk)
      BY <1>10, WordParts DEF WholeTags, EndsWith
    <2>5. t + chunk[t].size \in Nat /\ t + chunk[t].size <= Len(chunk) + 1
      <3>1. \A x \in 1 .. Len(chunk) : x \in Nat /\ x <= Len(chunk) + 1
        BY <2>4
      <3>2. Len(chunk) + 1 \in Nat /\ Len(chunk) + 1 <= Len(chunk) + 1
        BY <2>4
      <3>3. CASE t + chunk[t].size \in tags
        <4>1. t + chunk[t].size \in 1 .. Len(chunk)
          BY <2>4, <3>3, Zenon
        <4> QED BY <3>1, <4>1
      <3>4. CASE t + chunk[t].size = Len(chunk) + 1
        BY <3>2, <3>4
      <3> QED BY <2>3, <3>3, <3>4
    <2>6. \A e, f, l, x \in Nat : e + 1 = f + x /\ x <= l + 1 => ~(e > f + l)
      BY SMTT(60)
    <2> QED BY <2>1, <2>2, <2>4, <2>5, <2>6
  <1> QED BY <1>8, <1>11 DEF OnTags

\* What the VU kicks is given to PATH1.
Kick(a, chunk) == Submit(a, 1, chunk, FALSE)

LEMMA WholeSubmit ==
    ASSUME NEW a, Consistent(a), Whole1(a), NEW chunk \in Seq(Words),
           Whole(chunk), NEW hl \in BOOLEAN, NEW r, Parses(a, r, 1, chunk, hl)
    PROVE  Whole1(r)
  <1>1. CASE r.streams[1].packetStart = Len(r.streams[1].data)
    BY <1>1 DEF Whole1
  <1>2. ASSUME NEW g,
               /\ Shape(g) /\ Flagged(g, 1, hl, Len(a.streams[1].data))
               /\ Turned(g, g, 1, Len(a.streams[1].data))
               /\ g.streams[1].data = a.streams[1].data \o chunk
               /\ g.streams[1].packetStart = a.streams[1].packetStart
               /\ g.streams[1].parseOffset = a.streams[1].parseOffset
               /\ r = Parsed(g, 1, hl, Len(g.streams[1].data))
        PROVE  Whole1(r)
    <2> DEFINE s == a.streams[1]
               from == Len(s.data)
    <2>1. /\ 1 \in Paths /\ s.data \in Seq(Words) /\ from \in Nat
          /\ s.parseOffset \in Nat /\ s.packetStart = from
          /\ s.packetStart <= s.parseOffset /\ s.parseOffset <= from
      <3>1. 1 \in Paths
        BY DEF Paths
      <3> QED BY <3>1, StreamParts, WordParts DEF Consistent, Parsing, Whole1
    <2>2. s.parseOffset = from
      BY <2>1
    <2>3. EndsWith(g.streams[1].data, from, chunk)
      <3> HIDE DEF s
      <3>1. EndsWith(s.data \o chunk, Len(s.data), chunk)
        BY <2>1, Joined DEF EndsWith
      <3> QED BY <1>2, <3>1 DEF s
    <2>4. PICK tags : WholeTags(chunk, tags)
      BY DEF Whole, WholeTags
    <2>5. /\ Flagged(g, 1, hl, from) /\ Turned(g, g, 1, from) /\ Shape(g)
          /\ g.streams[1].parseOffset = from
          /\ r = Parsed(g, 1, hl, Len(g.streams[1].data))
      BY <1>2, <2>2
    <2> HIDE DEF from
    <2> QED BY <2>1, <2>3, <2>4, <2>5, ReadsAll DEF Whole1
  <1> QED BY <1>1, <1>2 DEF Parses

-----------------------------------------------------------------------------
(* Words arrive.                                                            *)

\* The words of a chunk as they come after those of an arbiter.
Arrival(a, chunk, hl, since, words) ==
    /\ words \in Seq(Words) /\ words # <<>>
    /\ Len(words) = Len(chunk) /\ Len(chunk) \in Nat /\ a.arrived \in Nat
    /\ AllHl(words, hl)
    /\ \A k \in 1 .. Len(words) :
          /\ words[k].n = a.arrived + k
          /\ words[k].since = IF since = 0 THEN a.arrived + k ELSE since
    /\ Whole(chunk) => Whole(words)

LEMMA ArrivingIs ==
    ASSUME NEW a, a.arrived \in Nat, NEW chunk \in Seq(Tags) \ {<<>>},
           NEW hl \in BOOLEAN, NEW since \in Nat,
           NEW words, words = Arriving(a, chunk, hl, since)
    PROVE  Arrival(a, chunk, hl, since, words)
  <1>1. /\ Len(chunk) \in Nat /\ DOMAIN chunk = 1 .. Len(chunk)
        /\ \A i \in 1 .. Len(chunk) : chunk[i] \in Tags
        /\ Len(chunk) # 0
    BY SeqParts
  <1> DEFINE Word(i) ==
               [size |-> chunk[i].size, eop |-> chunk[i].eop,
                image |-> chunk[i].image, hl |-> hl, n |-> a.arrived + i,
                since |-> IF since = 0 THEN a.arrived + i ELSE since]
  <1>2. words = [i \in 1 .. Len(chunk) |-> Word(i)]
    BY <1>1 DEF Arriving
  <1>3. \A i \in 1 .. Len(chunk) : Word(i) \in Words
    <2> TAKE i \in 1 .. Len(chunk)
    <2>1. /\ chunk[i].size \in Nat \ {0} /\ chunk[i].eop \in BOOLEAN
          /\ chunk[i].image \in BOOLEAN
      <3>1. /\ chunk[i].size \in 1 .. MaxStream /\ chunk[i].eop \in BOOLEAN
            /\ chunk[i].image \in BOOLEAN
        BY <1>1 DEF Tags
      <3>2. \A x \in 1 .. MaxStream : x \in Nat \ {0}
        BY ConstantsAssumption
      <3> QED BY <3>1, <3>2
    <2>2. a.arrived + i \in Nat
      OBVIOUS
    <2> QED BY <2>1, <2>2 DEF Words
  <1>4. /\ \A i \in 1 .. Len(chunk) :
              /\ Word(i).n = a.arrived + i
              /\ Word(i).since = IF since = 0 THEN a.arrived + i ELSE since
              /\ Word(i).hl = hl
              /\ Word(i).size = chunk[i].size /\ Word(i).eop = chunk[i].eop
    OBVIOUS
  <1> HIDE DEF Word
  <1>5. words \in Seq(Words) /\ Len(words) = Len(chunk) /\ DOMAIN words = 1 .. Len(chunk)
    BY <1>1, <1>2, <1>3, IsASeq
  <1>6. \A i \in 1 .. Len(chunk) : words[i] = Word(i)
    BY <1>2
  <1>7. words # <<>>
    BY <1>1, <1>5, WordParts
  <1>8. AllHl(words, hl)
    BY <1>4, <1>5, <1>6 DEF AllHl
  <1>9. Whole(chunk) => Whole(words)
    <2>1. SUFFICES ASSUME NEW tags \in SUBSET DOMAIN chunk, 1 \in tags,
                          \A t \in tags :
                             t + chunk[t].size \in
                                tags \cup (IF chunk[t].eop
                                           THEN {Len(chunk) + 1} ELSE {})
                   PROVE  Whole(words)
      BY DEF Whole
    <2>2. \A t \in tags : words[t].size = chunk[t].size /\ words[t].eop = chunk[t].eop
      BY <1>1, <1>4, <1>6
    <2>3. \A t \in tags :
             t + words[t].size \in
                tags \cup (IF words[t].eop THEN {Len(words) + 1} ELSE {})
      BY <1>5, <2>1, <2>2
    <2> QED BY <1>1, <1>5, <2>1, <2>3 DEF Whole
  <1> QED BY <1>1, <1>4, <1>5, <1>6, <1>7, <1>8, <1>9 DEF Arrival

\* A chunk joins those on their way to a path.
Joins(w, p, words) == [w EXCEPT ![p] = Append(@, words)]

LEMMA JoinsWay ==
    ASSUME NEW w \in Ways, NEW p \in Paths, NEW words \in Seq(Words),
           NEW v, v = Joins(w, p, words)
    PROVE  /\ v \in Ways
           /\ \A q \in Paths \ {p} : v[q] = w[q]
           /\ Len(v[p]) = Len(w[p]) + 1 /\ Len(w[p]) \in Nat
           /\ DOMAIN w[p] = 1 .. Len(w[p])
           /\ DOMAIN v[p] = 1 .. Len(w[p]) + 1
           /\ \A c \in 1 .. Len(w[p]) : v[p][c] = w[p][c]
           /\ v[p][Len(w[p]) + 1] = words
  <1>1. /\ w[p] \in Seq(Seq(Words)) /\ Len(w[p]) \in Nat
        /\ DOMAIN w[p] = 1 .. Len(w[p])
    BY WayParts
  <1>2. v[p] = Append(w[p], words) /\ v \in [Paths -> Seq(Seq(Words))]
        /\ \A q \in Paths \ {p} : v[q] = w[q]
    <2>1. Append(w[p], words) \in Seq(Seq(Words))
      BY <1>1, AppendProperties
    <2> QED BY <2>1 DEF Joins, Ways
  <1> QED BY <1>1, <1>2, AppendProperties DEF Ways

\* What arrives is behind what has arrived.
LEMMA NewerThan ==
    ASSUME NEW a, NEW chunk, NEW hl, NEW since, NEW words,
           Arrival(a, chunk, hl, since, words),
           NEW old \in Seq(Words), Numbers(old) \subseteq 1 .. a.arrived
    PROVE  Before(old, words)
  <1>1. ASSUME NEW k \in DOMAIN old, NEW l \in DOMAIN words
        PROVE  old[k].n < words[l].n
    <2>1. old[k].n \in 1 .. a.arrived
      BY DEF Numbers
    <2>2. l \in 1 .. Len(words) /\ words[l].n = a.arrived + l /\ a.arrived \in Nat
          /\ Len(words) \in Nat
      BY WordParts DEF Arrival
    <2> QED BY <2>1, <2>2
  <1> QED BY <1>1 DEF Before

LEMMA ArrivalOrder ==
    ASSUME NEW a, NEW chunk, NEW hl, NEW since, NEW words,
           Arrival(a, chunk, hl, since, words)
    PROVE  /\ Increasing(words)
           /\ Numbers(words) = a.arrived + 1 .. a.arrived + Len(chunk)
           /\ ~hl => Plain(words)
  <1>1. /\ DOMAIN words = 1 .. Len(chunk) /\ Len(chunk) \in Nat
        /\ a.arrived \in Nat
        /\ \A k \in 1 .. Len(chunk) : words[k].n = a.arrived + k
    BY WordParts DEF Arrival
  <1>2. Increasing(words)
    BY <1>1 DEF Increasing
  <1>3. Numbers(words) = a.arrived + 1 .. a.arrived + Len(chunk)
    <2>1. ASSUME NEW x \in a.arrived + 1 .. a.arrived + Len(chunk)
          PROVE  x - a.arrived \in 1 .. Len(chunk) /\ a.arrived + (x - a.arrived) = x
      BY <1>1
    <2>2. \A x \in a.arrived + 1 .. a.arrived + Len(chunk) : x \in Numbers(words)
      <3> TAKE x \in a.arrived + 1 .. a.arrived + Len(chunk)
      <3>1. words[x - a.arrived].n = x /\ x - a.arrived \in DOMAIN words
        BY <1>1, <2>1
      <3> QED BY <3>1 DEF Numbers
    <2>3. \A k \in 1 .. Len(chunk) :
              a.arrived + k \in a.arrived + 1 .. a.arrived + Len(chunk)
      BY <1>1
    <2> QED BY <1>1, <2>2, <2>3 DEF Numbers
  <1>4. ~hl => Plain(words)
    BY Zenon DEF Arrival, AllHl, Plain
  <1> QED BY <1>2, <1>3, <1>4

\* An arbiter after a chunk has arrived.
Receives(a, r, chunk) ==
    /\ Shape(r)
    /\ r.streams = a.streams /\ r.queue = a.queue /\ r.handed = a.handed
    /\ r.reservations = a.reservations /\ r.lost = a.lost
    /\ r.arrived = a.arrived + Len(chunk)

LEMMA ReceivedIs ==
    ASSUME NEW a, Shape(a), NEW chunk, Len(chunk) \in Nat,
           NEW r, r = Received(a, chunk)
    PROVE  Receives(a, r, chunk)
  <1>1. a \in Arbiters /\ a.arrived + Len(chunk) \in Nat
    BY ArbiterParts DEF Shape
  <1>2. r = [a EXCEPT !.arrived = a.arrived + Len(chunk)]
    BY DEF Received
  <1>3. /\ r \in Arbiters /\ r.streams = a.streams /\ r.queue = a.queue
        /\ r.handed = a.handed /\ r.reservations = a.reservations
        /\ r.lost = a.lost /\ r.arrived = a.arrived + Len(chunk)
    BY <1>1, <1>2 DEF Arbiters
  <1> QED BY <1>3 DEF Shape, Receives

LEMMA PlacedArrived ==
    ASSUME NEW a, NEW w, Kept(a, w), NEW p \in Paths
    PROVE  /\ Numbers(a.streams[p].data) \subseteq 1 .. a.arrived
           /\ \A i \in DOMAIN a.handed : a.handed[i].path = p =>
                 Numbers(a.handed[i].words) \subseteq 1 .. a.arrived
           /\ \A c \in DOMAIN w[p] : Numbers(w[p][c]) \subseteq 1 .. a.arrived
           /\ Placed(a, w, p) \subseteq 1 .. a.arrived
  <1>1. Placed(a, w, p) \subseteq 1 .. a.arrived
    BY DEF Kept
  <1>2. \A c \in DOMAIN w[p] : Numbers(w[p][c]) \subseteq Placed(a, w, p)
    BY DEF Placed, Coming
  <1>3. \A i \in DOMAIN a.handed : a.handed[i].path = p =>
            Numbers(a.handed[i].words) \subseteq Placed(a, w, p)
    BY DEF Placed, Gone
  <1> QED BY <1>1, <1>2, <1>3 DEF Placed

LEMMA ArriveOrdered ==
    ASSUME NEW a, NEW w, Exact(a, w), NEW p \in Paths, NEW chunk, NEW hl,
           NEW since, NEW words, Arrival(a, chunk, hl, since, words),
           NEW v, v = Joins(w, p, words), NEW r, Receives(a, r, chunk)
    PROVE  Ordered(r, v, p)
  <1> DEFINE n == Len(w[p])
             s == a.streams[p].data
  <1>1. /\ Shape(a) /\ w \in Ways /\ Kept(a, w) /\ Ordered(a, w, p)
        /\ words \in Seq(Words) /\ words # <<>> /\ s \in Seq(Words)
    BY StreamParts DEF Exact, Arrival
  <1>2. /\ v \in Ways /\ n \in Nat
        /\ DOMAIN w[p] = 1 .. n /\ DOMAIN v[p] = 1 .. n + 1
        /\ \A c \in 1 .. n : v[p][c] = w[p][c]
        /\ v[p][n + 1] = words
    BY <1>1, JoinsWay
  <1>3. \A c \in 1 .. n + 1 : c \in 1 .. n \/ c = n + 1
    BY <1>2
  <1>4. Increasing(words)
    BY ArrivalOrder
  <1>5. \A c \in 1 .. n : w[p][c] \in Seq(Words) /\ Before(w[p][c], words)
    <2> TAKE c \in 1 .. n
    <2>1. w[p][c] \in Seq(Words)
      BY <1>1, <1>2, WayParts
    <2>2. Numbers(w[p][c]) \subseteq 1 .. a.arrived
      BY <1>1, <1>2, PlacedArrived
    <2> QED BY <2>1, <2>2, NewerThan
  <1>6. Before(s, words)
    <2>1. Numbers(s) \subseteq 1 .. a.arrived
      BY <1>1, PlacedArrived
    <2> HIDE DEF s
    <2> QED BY <1>1, <2>1, NewerThan
  <1>7. After(a.handed, p, words)
    <2>1. ASSUME NEW i \in DOMAIN a.handed, a.handed[i].path = p
          PROVE  Before(a.handed[i].words, words)
      <3>1. a.handed[i].words \in Seq(Words)
        BY <1>1, HandedParts
      <3>2. Numbers(a.handed[i].words) \subseteq 1 .. a.arrived
        BY <1>1, <2>1, PlacedArrived
      <3> QED BY <3>1, <3>2, NewerThan
    <2> QED BY <2>1 DEF After
  <1>8. /\ InLine(w[p]) /\ Delivered(a.handed, p) /\ Increasing(s)
        /\ After(a.handed, p, s)
        /\ \A c \in DOMAIN w[p] :
              After(a.handed, p, w[p][c]) /\ Before(s, w[p][c])
    BY <1>1 DEF Ordered
  <1> HIDE DEF n
  <1>9. InLine(v[p])
    <2>1. ASSUME NEW c \in 1 .. n + 1
          PROVE  v[p][c] # <<>> /\ Increasing(v[p][c])
      <3>1. CASE c = n + 1
        BY <1>1, <1>2, <1>4, <3>1
      <3>2. CASE c \in 1 .. n
        BY <1>2, <1>8, <3>2 DEF InLine
      <3> QED BY <1>3, <3>1, <3>2
    <2>2. ASSUME NEW c \in 1 .. n + 1, NEW d \in 1 .. n + 1, c < d
          PROVE  Before(v[p][c], v[p][d])
      <3>1. c \in 1 .. n
        BY <1>2, <2>2
      <3>2. CASE d = n + 1
        BY <1>2, <1>5, <3>1, <3>2
      <3>3. CASE d \in 1 .. n
        BY <1>2, <1>8, <2>2, <3>1, <3>3 DEF InLine
      <3> QED BY <1>3, <3>2, <3>3
    <2> QED BY <1>2, <2>1, <2>2 DEF InLine
  <1>10. \A c \in 1 .. n + 1 :
             After(a.handed, p, v[p][c]) /\ Before(s, v[p][c])
    <2> TAKE c \in 1 .. n + 1
    <2>1. CASE c = n + 1
      BY <1>2, <1>6, <1>7, <2>1
    <2>2. CASE c \in 1 .. n
      BY <1>2, <1>8, <2>2
    <2> QED BY <1>3, <2>1, <2>2
  <1>11. r.streams = a.streams /\ r.handed = a.handed
    BY DEF Receives
  <1> QED BY <1>2, <1>8, <1>9, <1>10, <1>11 DEF Ordered

LEMMA ArriveKept ==
    ASSUME NEW a, NEW w, Exact(a, w), NEW p \in Paths, NEW chunk, NEW hl,
           NEW since, NEW words, Arrival(a, chunk, hl, since, words),
           NEW v, v = Joins(w, p, words), NEW r, Receives(a, r, chunk)
    PROVE  Kept(r, v)
  <1> DEFINE N == Numbers(words)
             n == Len(w[p])
  <1>1. /\ Shape(a) /\ w \in Ways /\ Kept(a, w) /\ words \in Seq(Words)
        /\ Len(chunk) \in Nat /\ a.arrived \in Nat
    BY DEF Exact, Arrival
  <1>2. /\ \A q \in Paths \ {p} : v[q] = w[q]
        /\ n \in Nat
        /\ DOMAIN w[p] = 1 .. n /\ DOMAIN v[p] = 1 .. n + 1
        /\ \A c \in 1 .. n : v[p][c] = w[p][c]
        /\ v[p][n + 1] = words
    BY <1>1, JoinsWay
  <1>3. r.streams = a.streams /\ r.handed = a.handed /\ r.lost = a.lost
        /\ r.arrived = a.arrived + Len(chunk)
    BY DEF Receives
  <1>4. Placed(r, v, p) = Placed(a, w, p) \cup N
    <2> HIDE DEF n
    <2>1. \A c \in 1 .. n + 1 : c \in 1 .. n \/ c = n + 1
      BY <1>2
    <2>2. \A c \in 1 .. n : c \in 1 .. n + 1
      BY <1>2
    <2>3. n + 1 \in 1 .. n + 1
      BY <1>2
    <2>4. Coming(v[p]) = Coming(w[p]) \cup N
      BY <1>2, <2>1, <2>2, <2>3 DEF Coming
    <2> QED BY <1>3, <2>4 DEF Placed
  <1>5. \A q \in Paths \ {p} : Placed(r, v, q) = Placed(a, w, q)
    BY <1>2, <1>3 DEF Placed
  <1>6. N = a.arrived + 1 .. a.arrived + Len(chunk)
    BY ArrivalOrder
  <1>7. N \cap (1 .. a.arrived) = {} /\ 1 .. r.arrived = (1 .. a.arrived) \cup N
    BY <1>1, <1>3, <1>6
  <1> HIDE DEF N
  <1>8. /\ \A q \in Paths : Placed(a, w, q) \subseteq 1 .. a.arrived
        /\ a.lost \subseteq 1 .. a.arrived
    BY <1>1 DEF Kept
  <1>9. 1 .. r.arrived = r.lost \cup UNION {Placed(r, v, q) : q \in Paths}
    <2> DEFINE Now == UNION {Placed(r, v, q) : q \in Paths}
               Then == UNION {Placed(a, w, q) : q \in Paths}
    <2>1. \A x : x \in Now => x \in N \/ x \in Then
      BY <1>4, <1>5
    <2>2. \A x : x \in N \/ x \in Then => x \in Now
      BY <1>4, <1>5
    <2>3. 1 .. a.arrived = a.lost \cup Then
      BY <1>1 DEF Kept
    <2> HIDE DEF Now, Then
    <2>4. Now = N \cup Then
      BY <2>1, <2>2
    <2>5. 1 .. r.arrived = r.lost \cup Now
      BY <1>3, <1>7, <2>3, <2>4
    <2> QED BY <2>5 DEF Now
  <1>10. ASSUME NEW q \in Paths PROVE Placed(r, v, q) \cap r.lost = {}
    <2>1. Placed(a, w, q) \cap a.lost = {}
      BY <1>1 DEF Kept
    <2> QED BY <1>3, <1>4, <1>5, <1>7, <1>8, <2>1
  <1>11. ASSUME NEW q \in Paths, NEW o \in Paths \ {q}
         PROVE  Placed(r, v, q) \cap Placed(r, v, o) = {}
    <2>1. Placed(a, w, q) \cap Placed(a, w, o) = {}
      BY <1>1 DEF Kept
    <2> QED BY <1>4, <1>5, <1>7, <1>8, <2>1
  <1> QED BY <1>9, <1>10, <1>11 DEF Kept

LEMMA ArriveExact ==
    ASSUME NEW a, NEW w, Exact(a, w), NEW p \in Paths, NEW chunk,
           NEW hl \in BOOLEAN, NEW since, NEW words,
           Arrival(a, chunk, hl, since, words), p # 2 => ~hl,
           NEW v, v = Joins(w, p, words), NEW r, Receives(a, r, chunk)
    PROVE  Exact(r, v)
  <1>1. /\ Shape(a) /\ w \in Ways /\ words \in Seq(Words)
        /\ Tiled(a) /\ Unmixed(a, w)
        /\ \A q \in Paths : Parsing(a, q) /\ Stuck(a.streams[q])
        /\ \A q \in Paths : Ordered(a, w, q)
    BY DEF Exact, Arrival
  <1>2. /\ v \in Ways /\ Len(w[p]) \in Nat
        /\ \A q \in Paths \ {p} : v[q] = w[q]
        /\ DOMAIN w[p] = 1 .. Len(w[p]) /\ DOMAIN v[p] = 1 .. Len(w[p]) + 1
        /\ \A c \in 1 .. Len(w[p]) : v[p][c] = w[p][c]
        /\ v[p][Len(w[p]) + 1] = words
    BY <1>1, JoinsWay
  <1>3. Shape(r) /\ r.streams = a.streams /\ r.queue = a.queue /\ r.handed = a.handed
    BY DEF Receives
  <1>4. Tiled(r)
    BY <1>1, <1>3 DEF Tiled
  <1>5. \A q \in Paths : Parsing(r, q) /\ Stuck(r.streams[q])
    BY <1>1, <1>3 DEF Parsing
  <1>6. Unmixed(r, v)
    <2>1. ASSUME NEW q \in Paths \ {2}, NEW c \in DOMAIN v[q] PROVE Plain(v[q][c])
      <3>1. \A d \in DOMAIN w[q] : Plain(w[q][d])
        BY <1>1 DEF Unmixed
      <3>2. CASE q # p
        BY <1>2, <3>1, <3>2
      <3>3. CASE q = p /\ c \in 1 .. Len(w[p])
        BY <1>2, <3>1, <3>3
      <3>4. CASE q = p /\ c = Len(w[p]) + 1
        <4>1. Plain(words)
          BY <3>4, ArrivalOrder
        <4> QED BY <1>2, <3>4, <4>1
      <3>5. q = p => c \in 1 .. Len(w[p]) \/ c = Len(w[p]) + 1
        BY <1>2
      <3> QED BY <3>2, <3>3, <3>4, <3>5
    <2> QED BY <1>1, <1>3, <2>1 DEF Unmixed
  <1>7. ASSUME NEW q \in Paths PROVE Ordered(r, v, q)
    <2>1. CASE q = p
      BY <2>1, ArriveOrdered
    <2>2. CASE q # p
      BY <1>1, <1>2, <1>3, <2>2 DEF Ordered
    <2> QED BY <2>1, <2>2
  <1>8. Kept(r, v)
    BY ArriveKept
  <1> QED BY <1>2, <1>3, <1>4, <1>5, <1>6, <1>7, <1>8 DEF Exact

-----------------------------------------------------------------------------
(* Nothing in the buffers; places given and given up.                       *)

NoWay == [p \in Paths |-> <<>>]

LEMMA NoWayIs == /\ NoWay \in Ways
                 /\ \A p \in Paths : NoWay[p] = <<>> /\ DOMAIN NoWay[p] = {}
  <1>1. <<>> \in Seq(Seq(Words)) /\ DOMAIN <<>> = {}
    BY EmptySeq
  <1> QED BY <1>1 DEF NoWay, Ways

LEMMA EmptyIs ==
    /\ EmptyStreams \in [Paths -> Streams]
    /\ \A p \in Paths :
          LET s == EmptyStreams[p] IN
          /\ s.data = <<>> /\ s.packetStart = 0 /\ s.parseOffset = 0
          /\ DOMAIN s.data = {} /\ Len(s.data) = 0 /\ Numbers(s.data) = {}
  <1>1. <<>> \in Seq(Words) /\ DOMAIN <<>> = {} /\ Len(<<>>) = 0
    BY EmptySeq
  <1>2. EmptyStream \in Streams
    BY <1>1 DEF EmptyStream, Streams
  <1> QED BY <1>1, <1>2 DEF EmptyStreams, EmptyStream, Numbers

\* An arbiter with nothing in its buffers.
LEMMA EmptiedExact ==
    ASSUME NEW r, Shape(r), r.streams = EmptyStreams, r.queue = <<>>,
           \A p \in Paths : Delivered(r.handed, p),
           Kept(r, NoWay), PlaceKept(r.handed), ImageKept(r.handed)
    PROVE  Exact(r, NoWay) /\ InPlace(r)
  <1>1. /\ DOMAIN r.queue = {} /\ Len(r.queue) = 0
        /\ r.queue \in Seq(QueuedPackets)
    BY EmptySeq
  <1>2. \A p \in Paths : Consumed(r.queue, 0, p) = 0
    BY ConsumedNone
  <1>3. \A p \in Paths :
            LET s == r.streams[p] IN
            /\ s.data = <<>> /\ s.packetStart = 0 /\ s.parseOffset = 0
            /\ DOMAIN s.data = {} /\ Len(s.data) = 0
    BY EmptyIs
  <1>4. Tiled(r)
    BY <1>1, <1>2, <1>3 DEF Tiled
  <1>5. \A p \in Paths : Parsing(r, p) /\ Stuck(r.streams[p])
    BY <1>3, ConstantsAssumption DEF Parsing, Stuck
  <1>6. Unmixed(r, NoWay)
    BY <1>3, NoWayIs DEF Unmixed, Plain
  <1>7. \A p \in Paths : Ordered(r, NoWay, p)
    BY <1>3, NoWayIs DEF Ordered, Increasing, InLine, After, Before
  <1>8. InPlace(r)
    BY <1>1, <1>3 DEF InPlace, Apart, Behind, Ahead, Paths
  <1> QED BY <1>4, <1>5, <1>6, <1>7, <1>8, NoWayIs DEF Exact

\* Two arbiters that differ in their reservations only.
Renewed(a, r, reservations) ==
    /\ Shape(r)
    /\ r.streams = a.streams /\ r.queue = a.queue /\ r.handed = a.handed
    /\ r.arrived = a.arrived /\ r.lost = a.lost
    /\ r.reservations = reservations

LEMMA RenewedIs ==
    ASSUME NEW a, Shape(a), NEW reservations \in Seq(Nat),
           NEW r, r = [a EXCEPT !.reservations = reservations]
    PROVE  Renewed(a, r, reservations)
  <1>1. /\ r \in Arbiters /\ r.streams = a.streams /\ r.queue = a.queue
        /\ r.handed = a.handed /\ r.lost = a.lost /\ r.arrived = a.arrived
        /\ r.reservations = reservations
    BY DEF Shape, Arbiters
  <1> QED BY <1>1 DEF Shape, Renewed

LEMMA RenewedExact ==
    ASSUME NEW a, NEW w, Exact(a, w), NEW r, NEW reservations,
           Renewed(a, r, reservations)
    PROVE  /\ Exact(r, w)
           /\ InPlace(a) => InPlace(r)
           /\ Whole1(a) => Whole1(r)
           /\ \A moment : HandedBefore(a, moment) => HandedBefore(r, moment)
  <1>1. /\ Shape(r) /\ r.streams = a.streams /\ r.queue = a.queue
        /\ r.handed = a.handed /\ r.lost = a.lost /\ r.arrived = a.arrived
    BY DEF Renewed
  <1>2. Tiled(r)
    BY <1>1 DEF Exact, Tiled
  <1>3. \A p \in Paths : Parsing(r, p) /\ Stuck(r.streams[p])
    BY <1>1 DEF Exact, Parsing
  <1>4. Unmixed(r, w)
    BY <1>1 DEF Exact, Unmixed
  <1>5. \A p \in Paths : Ordered(r, w, p)
    BY <1>1 DEF Exact, Ordered
  <1>6. Kept(r, w)
    <2>1. \A p \in Paths : Placed(r, w, p) = Placed(a, w, p)
      BY <1>1 DEF Placed
    <2> QED BY <1>1, <2>1 DEF Exact, Kept
  <1>7. Exact(r, w)
    BY <1>1, <1>2, <1>3, <1>4, <1>5, <1>6 DEF Exact
  <1>8. InPlace(a) => InPlace(r)
    BY <1>1 DEF InPlace, Apart, Behind, Ahead
  <1>9. Whole1(a) => Whole1(r)
    BY <1>1 DEF Whole1
  <1>10. \A moment : HandedBefore(a, moment) => HandedBefore(r, moment)
    BY <1>1 DEF HandedBefore
  <1> QED BY <1>7, <1>8, <1>9, <1>10

\* The only place is given up.
LEMMA ReleaseIs ==
    ASSUME NEW token \in Nat, NEW places,
           places = <<>> \/ places = <<token>>
    PROVE  RemoveFirst(places, token) = <<>>
  <1>1. CASE places = <<>>
    <2>1. ~ \E i \in 1 .. Len(places) : places[i] = token
      BY <1>1, EmptySeq
    <2> QED BY <1>1, <2>1 DEF RemoveFirst
  <1>2. CASE places = <<token>>
    <2>1. Len(places) = 1 /\ places[1] = token
      BY <1>2
    <2>2. \E i \in 1 .. Len(places) : places[i] = token
      BY <2>1
    <2>3. SelectInSeq(places, LAMBDA v : v = token) = 1
      <3>1. {i \in 1 .. Len(places) : places[i] = token} = {1}
        BY <2>1
      <3>2. Min({1}) = 1
        BY DEF Min
      <3> QED BY <3>1, <3>2 DEF SelectInSeq
    <2>4. RemoveFirst(places, token) = RemoveAt(places, 1)
      BY <2>2, <2>3 DEF RemoveFirst
    <2>5. RemoveAt(places, 1) = <<>>
      <3>1. SubSeq(places, 1, 1 - 1) = <<>> /\ SubSeq(places, 1 + 1, Len(places)) = <<>>
        BY <2>1, SubSeqEmpty
      <3>2. <<>> \o <<>> = <<>>
        BY EmptySeq, ConcatEmptySeq
      <3> QED BY <3>1, <3>2 DEF RemoveAt
    <2> QED BY <2>4, <2>5
  <1> QED BY <1>1, <1>2

\* All that was handed over has arrived.
LEMMA HandedArrived ==
    ASSUME NEW a, NEW w, Exact(a, w)
    PROVE  HandedBefore(a, a.arrived + 1)
  <1>1. ASSUME NEW i \in DOMAIN a.handed, NEW k \in DOMAIN a.handed[i].words
        PROVE  a.handed[i].words[k].n < a.arrived + 1
    <2>1. a.handed[i].path \in Paths /\ a.arrived \in Nat
      BY HandedParts, ArbiterParts DEF Exact
    <2>2. Numbers(a.handed[i].words) \subseteq 1 .. a.arrived
      BY <2>1, PlacedArrived DEF Exact
    <2>3. a.handed[i].words[k].n \in 1 .. a.arrived
      BY <2>2 DEF Numbers
    <2> QED BY <2>1, <2>3
  <1> QED BY <1>1 DEF HandedBefore

LEMMA WaitingIs ==
    ASSUME NEW chunks \in Seq(Seq(Words))
    PROVE  /\ Waiting(chunks) \in Ways
           /\ Waiting(chunks)[3] = chunks
           /\ \A p \in Paths : p # 3 =>
                 Waiting(chunks)[p] = <<>> /\ DOMAIN Waiting(chunks)[p] = {}
  <1>1. <<>> \in Seq(Seq(Words)) /\ DOMAIN <<>> = {}
    BY EmptySeq
  <1>2. \A p \in Paths : Waiting(chunks)[p] = IF p = 3 THEN chunks ELSE <<>>
    BY DEF Waiting
  <1>3. Waiting(chunks) \in [Paths -> Seq(Seq(Words))]
    BY <1>1 DEF Waiting
  <1>4. 3 \in Paths
    BY DEF Paths
  <1> QED BY <1>1, <1>2, <1>3, <1>4 DEF Ways

LEMMA NothingWaiting == Waiting(<<>>) = NoWay
  BY DEF Waiting, NoWay

LEMMA InitExact ==
    Exact(EmptyArbiter, NoWay) /\ InPlace(EmptyArbiter)
  <1> DEFINE r == EmptyArbiter
  <1>1. /\ r.streams = EmptyStreams /\ r.queue = <<>> /\ r.handed = <<>>
        /\ r.reservations = <<>> /\ r.arrived = 0 /\ r.lost = {}
        /\ DOMAIN r.handed = {} /\ DOMAIN r.queue = {}
    BY EmptySeq DEF EmptyArbiter
  <1>2. Shape(r)
    <2>1. /\ r.queue \in Seq(QueuedPackets) /\ r.handed \in Seq(HandedPackets)
          /\ r.reservations \in Seq(Nat) /\ r.arrived \in Nat /\ r.lost \in SUBSET Nat
          /\ r.streams \in [Paths -> Streams]
      BY <1>1, EmptySeq, EmptyIs
    <2>2. r = [streams |-> r.streams, queue |-> r.queue,
               reservations |-> r.reservations, arrived |-> r.arrived,
               lost |-> r.lost, handed |-> r.handed]
      BY DEF EmptyArbiter
    <2> HIDE DEF r
    <2>3. r \in Arbiters
      BY <2>1, <2>2 DEF Arbiters
    <2> QED BY <1>1, <2>3 DEF Shape
  <1> HIDE DEF r
  <1>3. \A p \in Paths : Delivered(r.handed, p)
    BY <1>1 DEF Delivered
  <1>4. Kept(r, NoWay)
    <2>1. \A p \in Paths : Placed(r, NoWay, p) = {}
      BY <1>1, NoWayIs, EmptyIs DEF Placed, Gone, Coming
    <2> QED BY <1>1, <2>1 DEF Kept
  <1>5. PlaceKept(r.handed) /\ ImageKept(r.handed)
    BY <1>1 DEF PlaceKept, ImageKept
  <1> QED BY <1>1, <1>2, <1>3, <1>4, <1>5, EmptiedExact DEF r

\* What a GIF reset leaves.
Emptied(a, r) ==
    /\ r.streams = EmptyStreams /\ r.queue = <<>> /\ r.reservations = <<>>
    /\ r.arrived = a.arrived /\ r.handed = a.handed

LostBy(a, held) ==
    a.lost \cup (UNION {Numbers(a.streams[p].data) : p \in Paths})
           \cup (UNION {Numbers(held[i]) : i \in DOMAIN held})

LEMMA ResetLoses ==
    ASSUME NEW a, NEW held \in Seq(Seq(Words)), Exact(a, Waiting(held)),
           NEW lost, lost = LostBy(a, held)
    PROVE  /\ lost \in SUBSET Nat
           /\ 1 .. a.arrived = lost \cup UNION {Gone(a.handed, p) : p \in Paths}
           /\ \A p \in Paths : Gone(a.handed, p) \cap lost = {}
  <1> DEFINE w == Waiting(held)
  <1>1. /\ Shape(a) /\ Kept(a, w) /\ w \in Ways
        /\ \A p \in Paths : Ordered(a, w, p)
        /\ w[3] = held /\ \A p \in Paths : p # 3 => DOMAIN w[p] = {}
        /\ 3 \in Paths
    BY WaitingIs DEF Exact, Paths
  <1> HIDE DEF w
  <1>2. /\ \A p \in Paths \ {3} :
              Placed(a, w, p) = Numbers(a.streams[p].data) \cup Gone(a.handed, p)
        /\ Placed(a, w, 3) = Numbers(a.streams[3].data) \cup Gone(a.handed, 3)
                                \cup (UNION {Numbers(held[i]) : i \in DOMAIN held})
    BY <1>1 DEF Placed, Coming
  <1> DEFINE D == UNION {Numbers(a.streams[p].data) : p \in Paths}
             H == UNION {Numbers(held[i]) : i \in DOMAIN held}
             G == UNION {Gone(a.handed, p) : p \in Paths}
             P == UNION {Placed(a, w, p) : p \in Paths}
  <1>3. P = D \cup H \cup G
    <2>1. \A x : x \in P => x \in D \/ x \in H \/ x \in G
      BY <1>2
    <2>2. \A x : x \in D \/ x \in H \/ x \in G => x \in P
      BY <1>1, <1>2
    <2> HIDE DEF P, D, H, G
    <2> QED BY <2>1, <2>2
  <1>4. 1 .. a.arrived = a.lost \cup P
    BY <1>1 DEF Kept
  <1>5. lost = a.lost \cup D \cup H
    BY DEF LostBy
  <1>6. /\ 1 .. a.arrived = lost \cup G
        /\ lost \subseteq 1 .. a.arrived
    <2> HIDE DEF P, D, H, G
    <2>1. a.lost \cup (D \cup H \cup G) = (a.lost \cup D \cup H) \cup G
      OBVIOUS
    <2>2. 1 .. a.arrived = (a.lost \cup D \cup H) \cup G
      BY <1>3, <1>4, <2>1, Zenon
    <2>3. 1 .. a.arrived = lost \cup G
      BY <1>5, <2>2, Zenon
    <2> QED BY <2>3
  <1>7. lost \in SUBSET Nat
    <2>1. \A x \in 1 .. a.arrived : x \in Nat
      OBVIOUS
    <2> HIDE DEF D, H, G, P
    <2> QED BY <1>6, <2>1, Zenon
  <1>8. ASSUME NEW p \in Paths, NEW x, x \in Gone(a.handed, p), x \in lost
        PROVE  FALSE
    <2>1. x \in Placed(a, w, p)
      BY <1>8 DEF Placed
    <2>2. x \notin a.lost
      BY <1>1, <2>1 DEF Kept
    <2>3. \A q \in Paths \ {p} : x \notin Placed(a, w, q)
      BY <1>1, <2>1 DEF Kept
    <2>4. x \notin D
      <3>1. Gone(a.handed, p) \cap Numbers(a.streams[p].data) = {}
        BY <1>1, GoneApart, StreamParts DEF Ordered
      <3>2. \A q \in Paths \ {p} : x \notin Numbers(a.streams[q].data)
        BY <2>3 DEF Placed
      <3> QED BY <1>8, <3>1, <3>2
    <2>5. x \notin H
      <3>1. CASE p # 3
        BY <1>1, <1>2, <2>3, <3>1
      <3>2. CASE p = 3
        <4>1. \A i \in DOMAIN held : Gone(a.handed, 3) \cap Numbers(held[i]) = {}
          <5> TAKE i \in DOMAIN held
          <5>1. After(a.handed, 3, held[i]) /\ held[i] \in Seq(Words)
            BY <1>1, SeqParts DEF Ordered
          <5> QED BY <1>1, <5>1, GoneApart
        <4> QED BY <1>8, <3>2, <4>1
      <3> QED BY <3>1, <3>2
    <2> HIDE DEF D, H
    <2> QED BY <1>5, <1>8, <2>2, <2>4, <2>5
  <1>9. \A p \in Paths : Gone(a.handed, p) \cap lost = {}
    BY <1>8
  <1> QED BY <1>6, <1>7, <1>9

LEMMA ResetExact ==
    ASSUME NEW a, NEW held \in Seq(Seq(Words)), Exact(a, Waiting(held)),
           InPlace(a), NEW r, r = Reset(a, held)
    PROVE  Exact(r, NoWay) /\ InPlace(r) /\ Emptied(a, r)
  <1> DEFINE lost == LostBy(a, held)
  <1>1. /\ lost \in SUBSET Nat
        /\ 1 .. a.arrived = lost \cup UNION {Gone(a.handed, p) : p \in Paths}
        /\ \A p \in Paths : Gone(a.handed, p) \cap lost = {}
    BY ResetLoses, Zenon
  <1>2. r = [a EXCEPT !.streams = EmptyStreams, !.queue = <<>>,
                      !.reservations = <<>>, !.lost = lost]
    BY DEF Reset, Exact, Shape, Arbiters, LostBy
  <1> HIDE DEF lost
  <1>3. a \in Arbiters /\ Shape(a)
    BY DEF Exact, Shape
  <1>4. /\ r \in Arbiters /\ r.streams = EmptyStreams /\ r.queue = <<>>
        /\ r.reservations = <<>> /\ r.arrived = a.arrived
        /\ r.handed = a.handed /\ r.lost = lost
    <2>1. /\ <<>> \in Seq(QueuedPackets) /\ <<>> \in Seq(Nat)
          /\ EmptyStreams \in [Paths -> Streams]
      BY EmptySeq, EmptyIs
    <2> QED BY <1>1, <1>2, <1>3, <2>1 DEF Arbiters
  <1>5. Shape(r)
    BY <1>3, <1>4, EmptySeq DEF Shape
  <1>6. \A p \in Paths : Delivered(r.handed, p)
    BY <1>4 DEF Exact, Ordered
  <1>7. \A p \in Paths : Placed(r, NoWay, p) = Gone(a.handed, p)
    BY <1>4, NoWayIs, EmptyIs DEF Placed, Coming
  <1>8. \A p \in Paths : Gone(a.handed, p) \subseteq Placed(a, Waiting(held), p)
    BY DEF Placed
  <1>9. Kept(r, NoWay)
    <2>1. \A p \in Paths : \A q \in Paths \ {p} :
              Gone(a.handed, p) \cap Gone(a.handed, q) = {}
      <3>1. \A p \in Paths : \A q \in Paths \ {p} :
                Placed(a, Waiting(held), p) \cap Placed(a, Waiting(held), q) = {}
        BY DEF Exact, Kept
      <3> QED BY <1>8, <3>1
    <2>2. UNION {Placed(r, NoWay, p) : p \in Paths} =
              UNION {Gone(a.handed, p) : p \in Paths}
      BY <1>7
    <2> QED BY <1>1, <1>4, <1>7, <2>1, <2>2 DEF Kept
  <1>10. PlaceKept(r.handed) /\ ImageKept(r.handed)
    BY <1>4 DEF InPlace
  <1> QED BY <1>4, <1>5, <1>6, <1>9, <1>10, EmptiedExact DEF Emptied

-----------------------------------------------------------------------------
(* The words of PATH2.                                                      *)

LEMMA CutRange ==
    ASSUME NEW s \in Seq(Words), NEW from \in Nat, NEW to \in Nat,
           from <= to, to <= Len(s),
           NEW part, part = SubSeq(s, from + 1, to)
    PROVE  Range(part) \subseteq Range(s)
  <1>1. /\ DOMAIN part = 1 .. to - from
        /\ \A i \in 1 .. to - from : part[i] = s[from + i] /\ from + i \in 1 .. Len(s)
    BY Cut
  <1>2. DOMAIN s = 1 .. Len(s)
    BY WordParts
  <1> QED BY <1>1, <1>2 DEF Range

LEMMA Path2Are ==
    ASSUME NEW a, Consistent(a)
    PROVE  \A v \in Path2Words(a) : v.since \in Nat
  <1>1. a.streams[2].data \in Seq(Words)
    BY StreamNumbers DEF Paths
  <1>2. \A i \in DOMAIN a.handed : a.handed[i].words \in Seq(Words)
    BY HandedParts DEF Consistent
  <1>3. \A words \in Seq(Words) : \A v \in Range(words) : v.since \in Nat
    BY WordParts DEF Range
  <1> QED BY <1>1, <1>2, <1>3 DEF Path2Words

\* A drain takes words of PATH2 from the stream to the GS.
LEMMA DrainPath2 ==
    ASSUME NEW a, Consistent(a), Apart(a), NEW r, r = Drain(a)
    PROVE  Path2Words(r) \subseteq Path2Words(a)
  <1>1. CASE a.queue = <<>> \/ a.reservations # <<>>
    <2>1. r = a
      BY <1>1 DEF Drain
    <2> QED BY <2>1
  <1>2. CASE ~(a.queue = <<>> \/ a.reservations # <<>>)
    <2> DEFINE sorted == Sorted(a.queue)
    <2>1. Drained(a, r, sorted)
      BY <1>2, DrainDoes
    <2> HIDE DEF sorted
    <2>2. Range(r.streams[2].data) \subseteq Range(a.streams[2].data)
      <3> DEFINE s == a.streams[2]
      <3>1. /\ s.data \in Seq(Words) /\ Len(s.data) \in Nat
            /\ s.packetStart \in Nat /\ s.packetStart <= Len(s.data)
        BY StreamNumbers DEF Paths
      <3>2. r.streams[2].data = SubSeq(s.data, s.packetStart + 1, Len(s.data))
        <4>1. 2 \in Paths
          BY DEF Paths
        <4>2. Remains(s, r.streams[2])
          BY <2>1, <4>1, Zenon DEF Drained
        <4> QED BY <4>2, Zenon DEF Remains
      <3>3. Len(s.data) <= Len(s.data)
        BY <3>1
      <3> HIDE DEF s
      <3>4. Range(r.streams[2].data) \subseteq Range(s.data)
        BY <3>1, <3>2, <3>3, CutRange
      <3> QED BY <3>4 DEF s
    <2>3. ASSUME NEW j \in DOMAIN r.handed, r.handed[j].path = 2
          PROVE  Range(r.handed[j].words) \subseteq Path2Words(a)
      <3>1. CASE j \in DOMAIN a.handed /\ r.handed[j] = a.handed[j]
        BY <2>3, <3>1 DEF Path2Words
      <3>2. CASE /\ j - Len(a.handed) \in DOMAIN sorted
                 /\ HandedFor(a, sorted[j - Len(a.handed)], r.handed[j])
        <4> DEFINE q == sorted[j - Len(a.handed)]
                   s == a.streams[2]
        <4>1. q \in QueuedPackets
          <5>1. sorted \in Seq(QueuedPackets)
            BY <2>1 DEF Drained, SortedSoFar
          <5> QED BY <3>2, <5>1, QueueParts
        <4> HIDE DEF q
        <4>2. HandedFor(a, q, r.handed[j])
          BY <3>2 DEF q
        <4>3. /\ q.path = 2 /\ q.offset \in Nat /\ End(q) \in Nat
              /\ q.offset < End(q)
          BY <2>3, <4>1, <4>2, PacketParts DEF HandedFor
        <4>4. /\ r.handed[j].words = SubSeq(s.data, q.offset + 1, End(q))
              /\ End(q) <= Len(s.data)
          BY <4>2, <4>3 DEF HandedFor
        <4>5. s.data \in Seq(Words) /\ q.offset <= End(q)
          BY <4>3, StreamNumbers DEF Paths
        <4> HIDE DEF s
        <4>6. Range(r.handed[j].words) \subseteq Range(s.data)
          BY <4>3, <4>4, <4>5, CutRange
        <4> QED BY <4>6 DEF s, Path2Words
      <3> QED BY <2>1, <3>1, <3>2, HandedWhence
    <2> QED BY <2>2, <2>3 DEF Path2Words
  <1> QED BY <1>1, <1>2

\* A submission to another path leaves them, one to PATH2 adds the chunk.
LEMMA SubmitPath2 ==
    ASSUME NEW a, Consistent(a), NEW path \in Paths,
           NEW chunk \in Seq(Words), NEW r, Submitted(a, r, path, chunk)
    PROVE  /\ path # 2 => Path2Words(r) = Path2Words(a)
           /\ Path2Words(r) \subseteq Path2Words(a) \cup Range(chunk)
  <1>1. r.handed = a.handed
    BY DEF Submitted
  <1>2. path # 2 => r.streams[2] = a.streams[2]
    BY DEF Submitted, Paths
  <1>3. ASSUME path = 2, NEW l \in DOMAIN r.streams[2].data
        PROVE  r.streams[2].data[l] \in Range(a.streams[2].data) \cup Range(chunk)
    BY <1>3, SubmittedWords DEF Range
  <1>4. path = 2 =>
            Range(r.streams[2].data) \subseteq
                Range(a.streams[2].data) \cup Range(chunk)
    BY <1>3 DEF Range
  <1> QED BY <1>1, <1>2, <1>4 DEF Path2Words

\* Nothing new of PATH2.
LEMMA ReachedKeeps ==
    ASSUME NEW a, Consistent(a), NEW r, NEW chunks,
           Path2Words(r) \subseteq Path2Words(a),
           a.arrived \in Nat, r.arrived \in Nat, a.arrived <= r.arrived,
           Reached(a, chunks)
    PROVE  Reached(r, chunks) /\ Reached(r, <<>>)
  <1>1. \A v \in Path2Words(a) : v.since \in Nat /\ v.since <= a.arrived
    BY Path2Are DEF Reached, Reach
  <1>2. Reach(r, r.arrived)
    BY <1>1 DEF Reach
  <1>3. \A c \in DOMAIN chunks : Recent(r, chunks[c])
    BY DEF Reached, Recent, Reach
  <1>4. DOMAIN <<>> = {}
    BY EmptySeq
  <1> QED BY <1>2, <1>3, <1>4 DEF Reached

\* What arrives may be handed over behind all of PATH2 so far.
LEMMA ArrivedRecent ==
    ASSUME NEW a, Consistent(a), Reach(a, a.arrived),
           NEW chunk, NEW hl, NEW since, NEW words,
           Arrival(a, chunk, hl, since, words),
           NEW r, Path2Words(r) \subseteq Path2Words(a)
    PROVE  Recent(r, words)
  <1>1. ASSUME NEW l \in DOMAIN words, NEW v \in Path2Words(r)
        PROVE  v.since <= words[l].n
    <2>1. v.since \in Nat /\ v.since <= a.arrived
      BY Path2Are DEF Reach
    <2>2. l \in 1 .. Len(words) /\ words[l].n = a.arrived + l /\ a.arrived \in Nat
          /\ Len(words) \in Nat
      BY WordParts DEF Arrival
    <2> QED BY <2>1, <2>2
  <1> QED BY <1>1 DEF Recent, Reach

-----------------------------------------------------------------------------
(* What a chunk that is given to the arbiter and drained leaves.            *)

\* Only PATH3 has complete packets that wait, and PATH1 has nothing.
Settled(a, w) ==
    /\ Exact(a, w) /\ InPlace(a)
    /\ a.streams[1].data = <<>>
    /\ \A j \in DOMAIN a.queue : a.queue[j].path = 3

\* Nothing was handed over between, nor any place given or taken, nor PATH2
\* touched.
SameHanded(a, r) ==
    /\ r.handed = a.handed /\ r.reservations = a.reservations
    /\ r.arrived = a.arrived
    /\ Path2Words(r) = Path2Words(a)

LEMMA ExactParts ==
    ASSUME NEW a, NEW w, Exact(a, w)
    PROVE  /\ Shape(a) /\ Consistent(a) /\ w \in Ways
           /\ a.arrived \in Nat /\ a.reservations \in Seq(Nat)
           /\ a.queue \in Seq(QueuedPackets) /\ Len(a.queue) \in Nat
           /\ DOMAIN a.queue = 1 .. Len(a.queue)
           /\ a.queue = <<>> <=> Len(a.queue) = 0
           /\ \A p \in Paths :
                 /\ a.streams[p].data \in Seq(Words)
                 /\ Len(a.streams[p].data) \in Nat
  <1>1. Shape(a) /\ Consistent(a) /\ w \in Ways
    BY DEF Exact, Consistent
  <1> QED BY <1>1, ArbiterParts, QueueParts, StreamNumbers

LEMMA EmptyWhole ==
    ASSUME NEW a, Consistent(a), a.streams[1].data = <<>>
    PROVE  Whole1(a)
  <1>1. 1 \in Paths /\ Len(<<>>) = 0
    BY EmptySeq DEF Paths
  <1>2. /\ a.streams[1].packetStart \in Nat
        /\ a.streams[1].packetStart <= Len(a.streams[1].data)
    BY <1>1, StreamNumbers
  <1> QED BY <1>1, <1>2 DEF Whole1

LEMMA DrainSettles ==
    ASSUME NEW a, NEW w, Exact(a, w), InPlace(a), Whole1(a),
           a.reservations # <<>> => Settled(a, w),
           NEW r, r = Drain(a)
    PROVE  /\ Settled(r, w)
           /\ r.reservations = a.reservations /\ r.arrived = a.arrived
           /\ a.reservations = <<>> => r.queue = <<>>
           /\ a.reservations # <<>> => r = a
           /\ Path2Words(r) \subseteq Path2Words(a)
  <1>0. Path2Words(r) \subseteq Path2Words(a)
    BY ExactParts, DrainPath2 DEF InPlace
  <1>1. CASE a.reservations # <<>>
    <2>1. r = a
      BY <1>1 DEF Drain
    <2> QED BY <1>1, <2>1
  <1>2. CASE a.reservations = <<>>
    <2>1. Exact(r, w)
      BY DrainExact DEF InPlace
    <2>2. InPlace(r) /\ r.queue = <<>> /\ r.streams[1].data = <<>>
      BY <1>2, ExactParts, DrainInPlace
    <2>3. r.reservations = a.reservations /\ r.arrived = a.arrived
      <3>1. CASE a.queue = <<>>
        BY <3>1 DEF Drain
      <3>2. CASE a.queue # <<>>
        BY <1>2, <3>2, ExactParts, DrainDoes DEF Drained, InPlace
      <3> QED BY <3>1, <3>2
    <2>4. DOMAIN r.queue = {}
      BY <2>2, EmptySeq
    <2> QED BY <1>0, <1>2, <2>1, <2>2, <2>3, <2>4 DEF Settled
  <1> QED BY <1>1, <1>2

\* The queue after a submission.
LEMMA SubmittedQueue ==
    ASSUME NEW a, NEW w, Exact(a, w), NEW path, NEW chunk, NEW r,
           Submitted(a, r, path, chunk)
    PROVE  \A j \in DOMAIN r.queue :
              \/ j \in DOMAIN a.queue /\ r.queue[j] = a.queue[j]
              \/ r.queue[j].path = path
  <1>1. /\ DOMAIN a.queue = 1 .. Len(a.queue) /\ Len(a.queue) \in Nat
    BY ExactParts, SMTT(60)
  <1>2. DOMAIN r.queue = 1 .. Len(r.queue) /\ Len(r.queue) \in Nat
    BY ArbiterParts, QueueParts DEF Submitted
  <1>3. \A j \in 1 .. Len(r.queue) :
            j \in 1 .. Len(a.queue) \/ j \in Len(a.queue) + 1 .. Len(r.queue)
    BY <1>1, <1>2
  <1> QED BY <1>1, <1>2, <1>3 DEF Submitted

\* A chunk of PATH3 that waits is flushed.
LEMMA FlushSettles ==
    ASSUME NEW a, NEW w, Settled(a, w), w[3] # <<>>,
           NEW chunk, chunk = w[3][1], Recent(a, chunk),
           NEW r, r = Flush(a, chunk)
    PROVE  Settled(r, Taken(w, 3)) /\ SameHanded(a, r)
  <1>1. /\ Exact(a, w) /\ InPlace(a) /\ Consistent(a) /\ w \in Ways
        /\ 3 \in Paths \ {2} /\ 1 \in Paths \ {3} /\ FALSE \in BOOLEAN
    BY ExactParts DEF Settled, Paths
  <1>2. chunk \in Seq(Words) /\ 1 \in DOMAIN w[3]
    BY <1>1, NextWay
  <1>3. AllHl(chunk, FALSE)
    <2>1. Plain(chunk)
      BY <1>1, <1>2 DEF Exact, Unmixed
    <2>2. \A k \in DOMAIN chunk : chunk[k].hl \in BOOLEAN
      BY <1>2, WordParts
    <2> QED BY <2>1, <2>2 DEF Plain, AllHl
  <1>4. Submitted(a, r, 3, chunk) /\ Exact(r, Taken(w, 3))
    <2>1. \A hl \in BOOLEAN : ~hl =>
              (AllHl(chunk, hl) /\ r = Submit(a, 3, chunk, hl) =>
                  Submitted(a, r, 3, chunk) /\ Exact(r, Taken(w, 3)))
      BY <1>1, SubmitExact
    <2>2. r = Submit(a, 3, chunk, FALSE)
      BY DEF Flush
    <2> QED BY <1>3, <2>1, <2>2
  <1>5. \A j \in DOMAIN r.queue : r.queue[j].path = 3
    BY <1>1, <1>4, SubmittedQueue DEF Settled
  <1>6. Apart(r)
    BY <1>5 DEF Apart
  <1>7. InPlace(r)
    BY <1>1, <1>2, <1>4, <1>6, SubmitInPlace, SMTT(60)
  <1>8. r.streams[1].data = <<>> /\ SameHanded(a, r)
    <2>1. 3 \in Paths /\ 3 # 2
      BY <1>1
    <2>2. Path2Words(r) = Path2Words(a)
      BY <1>1, <1>2, <1>4, <2>1, SubmitPath2
    <2> QED BY <1>1, <1>4, <2>2 DEF Submitted, SameHanded, Settled
  <1> QED BY <1>4, <1>5, <1>7, <1>8 DEF Settled

LEMMA RecentSame ==
    ASSUME NEW a, NEW r, SameHanded(a, r), NEW chunk, Recent(a, chunk)
    PROVE  Recent(r, chunk)
  BY DEF SameHanded, Recent, Reach

\* The chunks on their way to PATH3 behind the first k.
Later(w, v, k) ==
    /\ v \in Ways
    /\ \A p \in Paths \ {3} : v[p] = w[p]
    /\ Len(v[3]) = Len(w[3]) - k
    /\ \A c \in 1 .. Len(w[3]) - k : v[3][c] = w[3][c + k]

LEMMA LaterNext ==
    ASSUME NEW w \in Ways, NEW k \in Nat, k < Len(w[3]),
           NEW v, Later(w, v, k)
    PROVE  /\ v[3] # <<>> /\ v[3][1] = w[3][k + 1]
           /\ Later(w, Taken(v, 3), k + 1)
  <1>1. 3 \in Paths /\ v \in Ways
    BY DEF Paths, Later
  <1>2. /\ Len(w[3]) \in Nat /\ Len(v[3]) = Len(w[3]) - k
        /\ Len(v[3]) # 0 /\ 1 \in 1 .. Len(w[3]) - k
    BY <1>1, WayParts DEF Later
  <1>3. v[3] # <<>> /\ v[3][1] = w[3][1 + k] /\ 1 + k = k + 1
    BY <1>1, <1>2, WayParts DEF Later
  <1> DEFINE u == Taken(v, 3)
  <1>4. /\ u \in Ways /\ \A p \in Paths \ {3} : u[p] = v[p]
        /\ Len(u[3]) = Len(v[3]) - 1
        /\ \A c \in 1 .. Len(v[3]) - 1 : u[3][c] = v[3][c + 1]
    BY <1>1, <1>3, NextWay
  <1> HIDE DEF u
  <1>5. Len(u[3]) = Len(w[3]) - (k + 1)
    BY <1>2, <1>4
  <1>6. ASSUME NEW c \in 1 .. Len(w[3]) - (k + 1)
        PROVE  u[3][c] = w[3][c + (k + 1)]
    <2>1. /\ c \in 1 .. Len(v[3]) - 1 /\ c + 1 \in 1 .. Len(w[3]) - k
          /\ (c + 1) + k = c + (k + 1)
      BY <1>2
    <2> QED BY <1>4, <2>1 DEF Later
  <1>7. \A p \in Paths \ {3} : u[p] = w[p]
    BY <1>4 DEF Later
  <1>8. Later(w, u, k + 1)
    BY <1>4, <1>5, <1>6, <1>7 DEF Later
  <1> QED BY <1>3, <1>8 DEF u

LEMMA FlushAll ==
    ASSUME NEW a, NEW w, Settled(a, w), NEW chunks, chunks = fifo,
           chunks \in Seq(Seq(Words)), Len(chunks) <= Len(w[3]),
           \A c \in 1 .. Len(chunks) :
              w[3][c] = chunks[c] /\ Recent(a, chunks[c]),
           NEW r, r = FlushMaskedPath3Packets(a)
    PROVE  /\ SameHanded(a, r)
           /\ \E v : Later(w, v, Len(chunks)) /\ Settled(r, v)
  <1> DEFINE n == Len(chunks)
  <1>1. n \in Nat /\ w \in Ways /\ 3 \in Paths /\ Len(w[3]) \in Nat
    BY SeqParts, ExactParts, WayParts DEF Settled, Paths
  <1>2. PICK flushed : FlushedRun(flushed, a, chunks, n) /\ r = flushed[n]
    <2>1. \E flushed : /\ FlushedRun(flushed, a, chunks, Len(chunks))
                       /\ FlushMaskedPath3Packets(a) = flushed[Len(chunks)]
      BY <1>1, FlushedIs, Zenon
    <2> QED BY <2>1
  <1> DEFINE Good(b, k) == /\ SameHanded(a, b)
                           /\ \E v : Later(w, v, k) /\ Settled(b, v)
             T == {k \in 0 .. n : Good(flushed[k], k)}
  <1>3. 0 \in T
    <2>1. flushed[0] = a
      BY <1>2 DEF FlushedRun
    <2>2. Later(w, w, 0)
      <3>1. \A c \in 1 .. Len(w[3]) - 0 : c + 0 = c
        BY <1>1
      <3> QED BY <1>1, <3>1 DEF Later
    <2>3. Good(a, 0)
      BY <2>2 DEF SameHanded
    <2> QED BY <1>1, <2>1, <2>3
  <1>4. ASSUME NEW k \in 1 .. n, k - 1 \in T PROVE k \in T
    <2> DEFINE b == flushed[k - 1]
    <2>1. SameHanded(a, b) /\ k - 1 \in Nat /\ (k - 1) + 1 = k
          /\ k - 1 < Len(w[3]) /\ k \in 0 .. n
      BY <1>1, <1>4
    <2>2. PICK v : Later(w, v, k - 1) /\ Settled(b, v)
      BY <1>4
    <2>3. flushed[k] = Flush(b, chunks[k])
      BY <1>2 DEF FlushedRun
    <2> HIDE DEF b
    <2>4. /\ v[3] # <<>> /\ v[3][1] = w[3][(k - 1) + 1]
          /\ Later(w, Taken(v, 3), (k - 1) + 1)
      BY <1>1, <2>1, <2>2, LaterNext
    <2>5. v[3][1] = chunks[k] /\ Recent(b, chunks[k]) /\ Later(w, Taken(v, 3), k)
      BY <2>1, <2>4, RecentSame
    <2>6. Settled(flushed[k], Taken(v, 3)) /\ SameHanded(b, flushed[k])
      BY <2>2, <2>3, <2>4, <2>5, FlushSettles
    <2>7. SameHanded(a, flushed[k])
      BY <2>1, <2>6 DEF SameHanded
    <2> QED BY <2>1, <2>5, <2>6, <2>7
  <1>5. T \in SUBSET (0 .. n)
    OBVIOUS
  <1> HIDE DEF T, n
  <1>6. T = 0 .. n
    BY <1>1, <1>3, <1>4, <1>5, FirstNumbers
  <1>7. n \in T
    BY <1>1, <1>6
  <1> QED BY <1>2, <1>7 DEF T, n

\* Nothing remains.
LEMMA NoneLater ==
    ASSUME NEW chunks \in Seq(Seq(Words)), NEW v,
           Later(Waiting(chunks), v, Len(chunks))
    PROVE  v = NoWay
  <1> DEFINE w == Waiting(chunks)
  <1>1. /\ w[3] = chunks /\ 3 \in Paths /\ Len(chunks) \in Nat
        /\ \A p \in Paths \ {3} : w[p] = <<>>
    BY WaitingIs, SeqParts DEF Paths
  <1>2. v \in Ways /\ Len(v[3]) = 0
    BY <1>1 DEF Later
  <1>3. v[3] = <<>>
    BY <1>1, <1>2, WayParts
  <1>4. \A p \in Paths : v[p] = <<>>
    BY <1>1, <1>3 DEF Later
  <1>5. v \in [Paths -> Seq(Seq(Words))]
    BY <1>2 DEF Ways
  <1>6. v = [p \in Paths |-> v[p]]
    BY <1>5
  <1> QED BY <1>4, <1>6 DEF NoWay

-----------------------------------------------------------------------------
(* PATH2 and PATH3.                                                         *)

JoinedWay(w, p, words, v) ==
    /\ v \in Ways /\ \A q \in Paths \ {p} : v[q] = w[q]
    /\ Len(v[p]) = Len(w[p]) + 1 /\ v[p][Len(w[p]) + 1] = words

LEMMA JoinsIs ==
    ASSUME NEW w \in Ways, NEW p \in Paths, NEW words \in Seq(Words),
           NEW v, v = Joins(w, p, words)
    PROVE  JoinedWay(w, p, words, v)
  BY JoinsWay DEF JoinedWay

LEMMA TakenBack ==
    ASSUME NEW w \in Ways, NEW p \in Paths, w[p] = <<>>,
           NEW words \in Seq(Words), NEW v, v = Joins(w, p, words)
    PROVE  /\ v \in Ways /\ v[p] # <<>> /\ v[p][1] = words
           /\ Taken(v, p) = w
  <1>1. /\ v \in Ways /\ \A q \in Paths \ {p} : v[q] = w[q]
        /\ Len(w[p]) = 0 /\ Len(v[p]) = 1 /\ v[p][1] = words
    <2>1. Len(w[p]) = 0 /\ 0 + 1 = 1
      BY EmptySeq
    <2>2. /\ v \in Ways /\ \A q \in Paths \ {p} : v[q] = w[q]
          /\ Len(v[p]) = Len(w[p]) + 1 /\ v[p][Len(w[p]) + 1] = words
      <3>1. JoinedWay(w, p, words, v)
        BY JoinsIs, Zenon
      <3> QED BY <3>1 DEF JoinedWay
    <2> QED BY <2>1, <2>2
  <1>2. v[p] # <<>>
    BY <1>1, EmptySeq
  <1> DEFINE u == Taken(v, p)
  <1>3. /\ u \in Ways /\ \A q \in Paths \ {p} : u[q] = v[q]
        /\ Len(u[p]) = 0
    BY <1>1, <1>2, NextWay, SMTT(60)
  <1> HIDE DEF u
  <1>4. u[p] = <<>>
    BY <1>3, WayParts
  <1>5. \A q \in Paths : u[q] = w[q]
    BY <1>1, <1>3, <1>4
  <1>6. u = w
    <2>1. u = [q \in Paths |-> u[q]] /\ w = [q \in Paths |-> w[q]]
      BY <1>3 DEF Ways
    <2> QED BY <1>5, <2>1
  <1> QED BY <1>1, <1>2, <1>6 DEF u

LEMMA ArriveSettles ==
    ASSUME NEW a, NEW w, Settled(a, w), NEW p \in Paths, NEW chunk,
           NEW hl \in BOOLEAN, NEW since, NEW words,
           Arrival(a, chunk, hl, since, words), p # 2 => ~hl,
           NEW v, v = Joins(w, p, words), NEW r, Receives(a, r, chunk)
    PROVE  Settled(r, v)
  <1>1. Exact(r, v)
    BY ArriveExact DEF Settled
  <1>2. /\ r.streams = a.streams /\ r.queue = a.queue /\ r.handed = a.handed
    BY DEF Receives
  <1>3. InPlace(r)
    BY <1>2 DEF Settled, InPlace, Apart, Behind, Ahead
  <1> QED BY <1>1, <1>2, <1>3 DEF Settled

LEMMA DirectSettles ==
    ASSUME NEW a, NEW w, Settled(a, w), w[2] = <<>>,
           a.reservations = <<>>, a.queue = <<>>,
           NEW chunk \in Seq(Tags) \ {<<>>}, NEW hl \in BOOLEAN,
           NEW since \in Nat,
           NEW r, r = Drain(Submit(Received(a, chunk), 2,
                                   Arriving(a, chunk, hl, since), hl))
    PROVE  /\ Settled(r, w) /\ r.reservations = <<>> /\ r.queue = <<>>
           /\ r.arrived = a.arrived + Len(chunk)
           /\ \E words : /\ Arrival(a, chunk, hl, since, words)
                         /\ Path2Words(r) \subseteq Path2Words(a) \cup Range(words)
  <1> DEFINE words == Arriving(a, chunk, hl, since)
             b == Received(a, chunk)
             v == Joins(w, 2, words)
             c == Submit(b, 2, words, hl)
  <1>1. /\ Exact(a, w) /\ Shape(a) /\ w \in Ways /\ a.arrived \in Nat
        /\ 2 \in Paths /\ 1 \in Paths \ {2}
    BY ExactParts DEF Settled, Paths
  <1>2. Arrival(a, chunk, hl, since, words)
    BY <1>1, ArrivingIs
  <1> HIDE DEF words
  <1>3. words \in Seq(Words) /\ AllHl(words, hl) /\ Len(chunk) \in Nat
    BY <1>2 DEF Arrival
  <1>4. Receives(a, b, chunk)
    BY <1>1, <1>3, ReceivedIs
  <1> HIDE DEF b
  <1>5. Settled(b, v)
    BY <1>1, <1>2, <1>4, ArriveSettles
  <1>6. v \in Ways /\ v[2] # <<>> /\ v[2][1] = words /\ Taken(v, 2) = w
    BY <1>1, <1>3, TakenBack
  <1> HIDE DEF v
  <1>7. Submitted(b, c, 2, words) /\ Exact(c, w)
    <2>1. Exact(b, v)
      BY <1>5 DEF Settled
    <2>2. Submitted(b, c, 2, words) /\ Exact(c, Taken(v, 2))
      BY <1>1, <1>3, <1>6, <2>1, SubmitExact
    <2> QED BY <1>6, <2>2
  <1> HIDE DEF c
  <1>8. Apart(c)
    <2>1. DOMAIN b.queue = {}
      BY <1>4, EmptySeq DEF Receives
    <2>2. Exact(b, v)
      BY <1>5 DEF Settled
    <2>3. \A j \in DOMAIN c.queue : c.queue[j].path = 2
      BY <1>7, <2>1, <2>2, SubmittedQueue
    <2> QED BY <2>3 DEF Apart
  <1>9. InPlace(c)
    <2>1. Consistent(b) /\ InPlace(b)
      BY <1>5, ExactParts DEF Settled
    <2> QED BY <1>1, <1>3, <1>7, <1>8, <2>1, SubmitInPlace
  <1>10. Whole1(c)
    <2>1. c.streams[1].data = <<>>
      BY <1>1, <1>5, <1>7 DEF Submitted, Settled
    <2> QED BY <1>7, <2>1, ExactParts, EmptyWhole
  <1>11. c.reservations = <<>> /\ c.arrived = a.arrived + Len(chunk)
    BY <1>4, <1>7 DEF Submitted, Receives
  <1>12. r = Drain(c)
    BY DEF c, b, words
  <1>13. Path2Words(c) \subseteq Path2Words(a) \cup Range(words)
    <2>1. Path2Words(b) = Path2Words(a) /\ Consistent(b)
      BY <1>4, <1>5, ExactParts DEF Receives, Path2Words, Settled
    <2>2. Path2Words(c) \subseteq Path2Words(b) \cup Range(words)
      BY <1>1, <1>3, <1>7, <2>1, SubmitPath2
    <2> QED BY <2>1, <2>2
  <1>14. /\ Settled(r, w) /\ r.reservations = <<>> /\ r.queue = <<>>
         /\ r.arrived = a.arrived + Len(chunk)
         /\ Path2Words(r) \subseteq Path2Words(c)
    BY <1>7, <1>9, <1>10, <1>11, <1>12, DrainSettles
  <1> QED BY <1>2, <1>13, <1>14

\* PATH3 after a drain: what was handed over before a place was reserved still
\* is, for as long as it is.
Drains3(a, r) ==
    /\ r.reservations = a.reservations
    /\ a.reservations = <<>> => r.queue = <<>>
    /\ a.reservations # <<>> => r.handed = a.handed
    /\ Path2Words(r) \subseteq Path2Words(a)

LEMMA DrainPath3 ==
    ASSUME NEW a, NEW w, Settled(a, w), NEW r, r = Drain(a)
    PROVE  Settled(r, w) /\ Drains3(a, r) /\ r.arrived = a.arrived
  <1>1. Exact(a, w) /\ InPlace(a) /\ Whole1(a)
    BY ExactParts, EmptyWhole DEF Settled
  <1> QED BY <1>1, DrainSettles DEF Drains3

LEMMA UnmaskSettles ==
    ASSUME NEW a, fifo \in Seq(Seq(Words)), Settled(a, Waiting(fifo)),
           Reached(a, fifo),
           NEW r, r = Drain(FlushMaskedPath3Packets(a))
    PROVE  Settled(r, NoWay) /\ Drains3(a, r) /\ r.arrived = a.arrived
  <1> DEFINE w == Waiting(fifo)
             b == FlushMaskedPath3Packets(a)
  <1>1. /\ w[3] = fifo /\ Len(fifo) \in Nat /\ DOMAIN fifo = 1 .. Len(fifo)
        /\ Len(fifo) <= Len(fifo)
    BY WaitingIs, SeqParts
  <1> HIDE DEF w, b
  <1>2. /\ SameHanded(a, b)
        /\ \E v : Later(w, v, Len(fifo)) /\ Settled(b, v)
    <2>1. Settled(a, w) /\ b = FlushMaskedPath3Packets(a)
      BY DEF w, b
    <2>2. \A c \in 1 .. Len(fifo) : w[3][c] = fifo[c] /\ Recent(a, fifo[c])
      BY <1>1 DEF Reached
    <2> QED BY <1>1, <2>1, <2>2, FlushAll
  <1>3. PICK v : Later(w, v, Len(fifo)) /\ Settled(b, v)
    BY <1>2
  <1>4. v = NoWay
    BY <1>3, NoneLater DEF w
  <1>5. Settled(r, NoWay) /\ Drains3(b, r) /\ r.arrived = b.arrived
    BY <1>3, <1>4, DrainPath3 DEF b
  <1> QED BY <1>2, <1>5 DEF SameHanded, Drains3

\* The words of a transfer that did not come by DIRECTHL.
PlainWords(a, chunk, since) == Arriving(a, chunk, FALSE, since)

LEMMA PlainArrival ==
    ASSUME NEW a, a.arrived \in Nat, NEW chunk \in Seq(Tags) \ {<<>>},
           NEW since \in Nat,
           NEW words, words = PlainWords(a, chunk, since)
    PROVE  \E hl \in BOOLEAN : ~hl /\ Arrival(a, chunk, hl, since, words)
  <1>1. \A hl \in BOOLEAN : ~hl =>
            (words = Arriving(a, chunk, hl, since) =>
                Arrival(a, chunk, hl, since, words))
    BY ArrivingIs
  <1>2. words = Arriving(a, chunk, FALSE, since)
    BY DEF PlainWords
  <1>3. FALSE \in BOOLEAN /\ ~FALSE
    OBVIOUS
  <1>4. Arrival(a, chunk, FALSE, since, words)
    BY <1>1, <1>2, <1>3, Zenon
  <1> QED BY <1>3, <1>4, Zenon

LEMMA JoinsHeld ==
    ASSUME NEW chunks \in Seq(Seq(Words)), NEW words \in Seq(Words)
    PROVE  Joins(Waiting(chunks), 3, words) = Waiting(Append(chunks, words))
  <1> DEFINE v == Joins(Waiting(chunks), 3, words)
             u == Waiting(Append(chunks, words))
  <1>1. /\ Waiting(chunks) \in Ways /\ Waiting(chunks)[3] = chunks /\ 3 \in Paths
        /\ \A p \in Paths : p # 3 => Waiting(chunks)[p] = <<>>
    BY WaitingIs DEF Paths
  <1>2. v = [Waiting(chunks) EXCEPT ![3] = Append(chunks, words)]
    BY <1>1 DEF Joins
  <1>3. v = [p \in Paths |-> v[p]] /\ \A p \in Paths :
            v[p] = IF p = 3 THEN Append(chunks, words) ELSE <<>>
    BY <1>1, <1>2 DEF Ways
  <1>4. u = [p \in Paths |-> u[p]] /\ \A p \in Paths :
            u[p] = IF p = 3 THEN Append(chunks, words) ELSE <<>>
    BY DEF Waiting
  <1> HIDE DEF v, u
  <1>5. v = u
    BY <1>3, <1>4
  <1> QED BY <1>5 DEF v, u

\* A transfer that is held back.
LEMMA HoldSettles ==
    ASSUME NEW a, NEW chunks \in Seq(Seq(Words)), Settled(a, Waiting(chunks)),
           NEW chunk \in Seq(Tags) \ {<<>>}, Reached(a, chunks),
           NEW words, words = PlainWords(a, chunk, 0),
           NEW r, r = Received(a, chunk)
    PROVE  /\ Settled(r, Waiting(Append(chunks, words)))
           /\ Receives(a, r, chunk) /\ Len(chunk) \in Nat
           /\ Reached(r, Append(chunks, words))
  <1>1. /\ Shape(a) /\ a.arrived \in Nat /\ 3 \in Paths /\ 3 # 2 /\ 0 \in Nat
    BY ExactParts DEF Settled, Paths
  <1>2. PICK hl \in BOOLEAN : ~hl /\ Arrival(a, chunk, hl, 0, words)
    BY <1>1, PlainArrival
  <1>3. words \in Seq(Words) /\ Len(chunk) \in Nat
    BY <1>2 DEF Arrival
  <1>4. Receives(a, r, chunk)
    BY <1>1, <1>3, ReceivedIs
  <1>5. Reached(r, Append(chunks, words))
    <2>1. /\ Path2Words(r) = Path2Words(a) /\ Consistent(a)
          /\ r.arrived = a.arrived + Len(chunk)
      BY <1>4, ExactParts DEF Receives, Path2Words, Settled
    <2>2. Reached(r, chunks)
      <3>1. r.arrived \in Nat /\ a.arrived <= r.arrived
        BY <1>1, <1>3, <2>1
      <3> QED BY <1>1, <2>1, <3>1, ReachedKeeps
    <2>3. Recent(r, words)
      BY <1>2, <2>1, ArrivedRecent DEF Reached
    <2>4. /\ Len(chunks) \in Nat /\ DOMAIN chunks = 1 .. Len(chunks)
          /\ DOMAIN Append(chunks, words) = 1 .. Len(chunks) + 1
          /\ \A c \in 1 .. Len(chunks) : Append(chunks, words)[c] = chunks[c]
          /\ Append(chunks, words)[Len(chunks) + 1] = words
      BY <1>3, SeqParts, AppendProperties
    <2>5. \A c \in 1 .. Len(chunks) + 1 :
              c \in 1 .. Len(chunks) \/ c = Len(chunks) + 1
      BY <2>4
    <2> QED BY <2>2, <2>3, <2>4, <2>5 DEF Reached
  <1> DEFINE v == Joins(Waiting(chunks), 3, words)
  <1> HIDE DEF v
  <1>6. Settled(r, v)
    BY <1>1, <1>2, <1>4, ArriveSettles DEF v
  <1>7. v = Waiting(Append(chunks, words))
    BY <1>3, JoinsHeld DEF v
  <1> QED BY <1>3, <1>4, <1>5, <1>6, <1>7

\* A transfer that goes behind those held back.
LEMMA TransferSettles ==
    ASSUME NEW a, fifo \in Seq(Seq(Words)), Settled(a, Waiting(fifo)),
           Reached(a, fifo),
           NEW chunk \in Seq(Tags) \ {<<>>},
           NEW words, words = PlainWords(a, chunk, 0),
           NEW r, r = Drain(Flush(FlushMaskedPath3Packets(Received(a, chunk)), words))
    PROVE  /\ Settled(r, NoWay) /\ Drains3(a, r) /\ Len(chunk) \in Nat
           /\ r.arrived = a.arrived + Len(chunk)
  <1> DEFINE b == Received(a, chunk)
             n == Len(fifo)
             v == Joins(Waiting(fifo), 3, words)
             d == FlushMaskedPath3Packets(b)
             e == Flush(d, words)
  <1>1. /\ Shape(a) /\ Exact(a, Waiting(fifo)) /\ a.arrived \in Nat
        /\ 3 \in Paths /\ 3 # 2 /\ 0 \in Nat
    BY ExactParts DEF Settled, Paths
  <1>2. PICK hl \in BOOLEAN : ~hl /\ Arrival(a, chunk, hl, 0, words)
    BY <1>1, PlainArrival
  <1>3. /\ words \in Seq(Words) /\ Len(chunk) \in Nat
        /\ \A k \in DOMAIN words : words[k].n = a.arrived + k /\ k \in Nat /\ k >= 1
    BY <1>2, WordParts DEF Arrival
  <1>4. Receives(a, b, chunk)
    BY <1>1, <1>3, ReceivedIs
  <1> HIDE DEF b
  <1>5. Settled(b, v)
    BY <1>1, <1>2, <1>4, ArriveSettles
  <1>6. /\ n \in Nat /\ DOMAIN fifo = 1 .. n
        /\ v \in Ways /\ Len(v[3]) = n + 1
        /\ \A c \in 1 .. n : v[3][c] = fifo[c]
        /\ v[3][n + 1] = words
    <2>1. Waiting(fifo) \in Ways /\ Waiting(fifo)[3] = fifo
      BY WaitingIs
    <2>2. n \in Nat /\ DOMAIN fifo = 1 .. n
      BY SeqParts
    <2> DEFINE w == Waiting(fifo)
    <2>3. /\ v \in Ways /\ Len(v[3]) = Len(w[3]) + 1
          /\ \A c \in 1 .. Len(w[3]) : v[3][c] = w[3][c]
          /\ v[3][Len(w[3]) + 1] = words
      <3>1. w \in Ways /\ v = Joins(w, 3, words)
        BY <2>1
      <3> HIDE DEF w, v
      <3> QED BY <1>1, <1>3, <3>1, JoinsWay
    <2>4. w[3] = fifo /\ Len(w[3]) = n
      BY <2>1
    <2> HIDE DEF v, w, n
    <2> QED BY <2>2, <2>3, <2>4
  <1>7. v = Waiting(Append(fifo, words)) /\ Append(fifo, words) \in Seq(Seq(Words))
        /\ Len(Append(fifo, words)) = n + 1
    BY <1>3, JoinsHeld, AppendProperties
  <1> HIDE DEF v
  <1>8. Path2Words(b) = Path2Words(a) /\ Consistent(a)
    BY <1>1, <1>4, ExactParts DEF Receives, Path2Words
  <1>9. /\ SameHanded(b, d)
        /\ \E u : Later(v, u, n) /\ Settled(d, u)
    <2>1. /\ n <= Len(v[3])
          /\ \A c \in 1 .. n : v[3][c] = fifo[c] /\ Recent(b, fifo[c])
      <3> HIDE DEF n
      <3>1. n <= n + 1
        BY <1>6
      <3>2. \A c \in 1 .. n : Recent(b, fifo[c])
        BY <1>6, <1>8 DEF Reached, Recent, Reach
      <3> QED BY <1>6, <3>1, <3>2
    <2> QED BY <1>5, <2>1, FlushAll
  <1>10. PICK u : Later(v, u, n) /\ Settled(d, u)
    BY <1>9
  <1> HIDE DEF d, n
  <1>11. u[3] # <<>> /\ u[3][1] = words /\ Later(v, Taken(u, 3), n + 1)
    <2>1. n < Len(v[3])
      BY <1>6
    <2> QED BY <1>6, <1>10, <2>1, LaterNext
  <1>12. Recent(d, words)
    <2>1. Path2Words(d) = Path2Words(a)
      BY <1>8, <1>9 DEF SameHanded
    <2> QED BY <1>2, <1>8, <2>1, ArrivedRecent DEF Reached
  <1>13. Settled(e, Taken(u, 3)) /\ SameHanded(d, e)
    BY <1>10, <1>11, <1>12, FlushSettles
  <1> HIDE DEF e
  <1>14. Taken(u, 3) = NoWay
    BY <1>7, <1>11, NoneLater
  <1>15. Settled(r, NoWay) /\ Drains3(e, r) /\ r.arrived = e.arrived
    BY <1>13, <1>14, DrainPath3 DEF e, d, b
  <1>16. /\ e.handed = a.handed /\ e.reservations = a.reservations
         /\ e.arrived = a.arrived + Len(chunk)
         /\ Path2Words(e) = Path2Words(a)
    BY <1>4, <1>8, <1>9, <1>13 DEF SameHanded, Receives
  <1> QED BY <1>3, <1>15, <1>16 DEF Drains3

-----------------------------------------------------------------------------
(* What the VU publishes.                                                   *)

\* A packet is submitted and drained.
Publish(a, packet, since) ==
    Drain(Kick(Received(a, packet), PlainWords(a, packet, since)))

\* The arbiter after each of the packets.
PublishedRun(after, a, packets, since, n) ==
    /\ after = [k \in 0 .. n |-> after[k]]
    /\ after[0] = a
    /\ \A k \in 1 .. n : after[k] = Publish(after[k - 1], packets[k], since)

LEMMA PublishedRunExists ==
    ASSUME NEW a, NEW packets, NEW since, NEW n \in Nat
    PROVE  \E after : PublishedRun(after, a, packets, since, n)
  <1> DEFINE T == {k \in 0 .. n : \E after : PublishedRun(after, a, packets, since, k)}
  <1>1. 0 \in T
    <2>1. PublishedRun([k \in 0 .. 0 |-> a], a, packets, since, 0)
      BY DEF PublishedRun
    <2> QED BY <2>1
  <1>2. ASSUME NEW m \in 1 .. n, m - 1 \in T PROVE m \in T
    <2>1. PICK after : PublishedRun(after, a, packets, since, m - 1)
      BY <1>2
    <2> DEFINE next == [k \in 0 .. m |->
                           IF k = m THEN Publish(after[m - 1], packets[m], since) ELSE after[k]]
    <2>2. next[0] = a
      BY <2>1 DEF PublishedRun
    <2>3. ASSUME NEW k \in 1 .. m
          PROVE  next[k] = Publish(next[k - 1], packets[k], since)
      <3>1. CASE k = m
        BY <3>1
      <3>2. CASE k # m
        <4>1. k \in 1 .. m - 1 /\ k - 1 # m /\ k - 1 \in 0 .. m
          BY <3>2
        <4>2. next[k] = after[k] /\ next[k - 1] = after[k - 1]
          BY <3>2, <4>1
        <4>3. after[k] = Publish(after[k - 1], packets[k], since)
          BY <2>1, <4>1 DEF PublishedRun
        <4> QED BY <4>2, <4>3
      <3> QED BY <3>1, <3>2
    <2>4. next = [k \in 0 .. m |-> next[k]]
      OBVIOUS
    <2> HIDE DEF next
    <2>5. PublishedRun(next, a, packets, since, m)
      BY <2>2, <2>3, <2>4 DEF PublishedRun
    <2> QED BY <2>5
  <1> HIDE DEF T
  <1>3. T \in SUBSET (0 .. n)
    BY DEF T
  <1>4. T = 0 .. n
    BY <1>1, <1>2, <1>3, FirstNumbers
  <1>5. n \in T
    BY <1>4
  <1> QED BY <1>5 DEF T

LEMMA PublishedIs ==
    ASSUME NEW a, NEW packets, NEW since, Len(packets) \in Nat
    PROVE  \E after :
              /\ PublishedRun(after, a, packets, since, Len(packets))
              /\ Published(a, packets, since) = after[Len(packets)]
  <1> DEFINE Defines(f) ==
               f = [k \in 0 .. Len(packets) |->
                       IF k = 0 THEN a ELSE Publish(f[k - 1], packets[k], since)]
             f == CHOOSE g : Defines(g)
  <1>1. Len(packets) \in Nat
    OBVIOUS
  <1>2. PICK after : PublishedRun(after, a, packets, since, Len(packets))
    BY <1>1, PublishedRunExists
  <1>3. Defines(after)
    <2>1. \A k \in 0 .. Len(packets) :
            after[k] = IF k = 0 THEN a ELSE Publish(after[k - 1], packets[k], since)
      <3> TAKE k \in 0 .. Len(packets)
      <3>1. CASE k = 0
        BY <1>2, <3>1 DEF PublishedRun
      <3>2. CASE k # 0
        <4>1. k \in 1 .. Len(packets)
          BY <1>1, <3>2
        <4> QED BY <1>2, <3>2, <4>1 DEF PublishedRun
      <3> QED BY <3>1, <3>2
    <2> QED BY <1>2, <2>1 DEF PublishedRun
  <1>4. Defines(f)
    BY <1>3
  <1>5. Published(a, packets, since) = f[Len(packets)]
    BY DEF Published, Publish, Kick, PlainWords
  <1>6. PublishedRun(f, a, packets, since, Len(packets))
    <2> HIDE DEF f
    <2>1. f[0] = a
      BY <1>1, <1>4
    <2>2. ASSUME NEW k \in 1 .. Len(packets)
          PROVE  f[k] = Publish(f[k - 1], packets[k], since)
      <3>1. k \in 0 .. Len(packets) /\ k # 0
        BY <1>1
      <3> QED BY <1>4, <3>1
    <2>3. f = [k \in 0 .. Len(packets) |-> f[k]]
      BY <1>4
    <2> QED BY <2>1, <2>2, <2>3 DEF PublishedRun
  <1> QED BY <1>5, <1>6


\* The arbiter while packets of the VU are published.
Publishing(a, b, w) ==
    /\ Exact(b, w) /\ InPlace(b) /\ Whole1(b)
    /\ \A j \in DOMAIN b.queue : b.queue[j].path # 2
    /\ b.reservations = a.reservations
    /\ a.reservations # <<>> => b.handed = a.handed
    /\ a.arrived \in Nat /\ a.arrived <= b.arrived
    /\ Path2Words(b) \subseteq Path2Words(a)

\* The place of a packet: the moment it arrives or, for as long as a place is
\* reserved, a moment after all that was handed over.
PlaceGiven(a, since) ==
    /\ since \in Nat
    /\ since # 0 => a.reservations # <<>> /\ HandedBefore(a, since)

LEMMA ArrivedPlaceable ==
    ASSUME NEW a, NEW b, NEW w, Publishing(a, b, w), NEW since,
           PlaceGiven(a, since), NEW chunk, NEW hl, NEW words,
           Arrival(b, chunk, hl, since, words)
    PROVE  Placeable(b, words)
  <1>1. ASSUME NEW l \in DOMAIN words, NEW i \in DOMAIN b.handed,
               NEW k \in DOMAIN b.handed[i].words
        PROVE  b.handed[i].words[k].n < words[l].since
    <2> DEFINE x == b.handed[i].words[k].n
               z == words[l].since
    <2>1. /\ b.arrived \in Nat /\ x \in Nat /\ Shape(b)
          /\ l \in Nat /\ l >= 1
          /\ z = IF since = 0 THEN b.arrived + l ELSE since
      <3>1. Shape(b) /\ b.arrived \in Nat
        BY ExactParts DEF Publishing
      <3>2. x \in Nat
        BY <3>1, HandedParts, WordParts
      <3>3. l \in 1 .. Len(words) /\ Len(words) \in Nat
        BY WordParts DEF Arrival
      <3>4. z = IF since = 0 THEN b.arrived + l ELSE since
        BY <3>3 DEF Arrival
      <3> QED BY <3>1, <3>2, <3>3, <3>4
    <2>2. CASE since = 0
      <3>1. HandedBefore(b, b.arrived + 1)
        BY HandedArrived DEF Publishing
      <3>2. x < b.arrived + 1
        BY <3>1 DEF HandedBefore
      <3> HIDE DEF x, z
      <3>3. x < z
        BY <2>1, <2>2, <3>2
      <3> QED BY <3>3 DEF x, z
    <2>3. CASE since # 0
      <3>1. HandedBefore(a, since) /\ b.handed = a.handed
        BY <2>3 DEF PlaceGiven, Publishing
      <3>2. x < since
        BY <3>1 DEF HandedBefore
      <3> HIDE DEF x, z
      <3>3. x < z
        BY <2>1, <2>3, <3>2
      <3> QED BY <3>3 DEF x, z
    <2> QED BY <2>2, <2>3
  <1> QED BY <1>1 DEF Placeable

\* A submission of a kick.
Kicked(a, r, words) ==
    /\ Submitted(a, r, 1, words)
    /\ \E hl \in BOOLEAN : Parses(a, r, 1, words, hl)

LEMMA KickExact ==
    ASSUME NEW a, NEW w, Exact(a, w), w[1] # <<>>,
           NEW words, words = w[1][1], NEW r, r = Kick(a, words)
    PROVE  Kicked(a, r, words) /\ Exact(r, Taken(w, 1))
  <1>1. /\ Consistent(a) /\ w \in Ways /\ 1 \in Paths \ {2} /\ FALSE \in BOOLEAN
    BY ExactParts DEF Paths
  <1>2. words \in Seq(Words) /\ 1 \in DOMAIN w[1] /\ words # <<>>
    BY <1>1, NextWay DEF Exact, Ordered, InLine
  <1>3. AllHl(words, FALSE) /\ Plain(a.streams[1].data)
    <2>1. Plain(words) /\ Plain(a.streams[1].data)
      BY <1>1, <1>2 DEF Exact, Unmixed
    <2>2. \A k \in DOMAIN words : words[k].hl \in BOOLEAN
      BY <1>2, WordParts
    <2> QED BY <2>1, <2>2 DEF Plain, AllHl
  <1>4. \A hl \in BOOLEAN : ~hl =>
            (AllHl(words, hl) /\ r = Submit(a, 1, words, hl) =>
                Submitted(a, r, 1, words) /\ Exact(r, Taken(w, 1)))
    BY <1>1, SubmitExact
  <1>5. \A hl \in BOOLEAN : ~hl =>
            (AllHl(words, hl) /\ r = Submit(a, 1, words, hl) =>
                Parses(a, r, 1, words, hl))
    BY <1>1, <1>2, <1>3, SubmitDoes
  <1>6. r = Submit(a, 1, words, FALSE)
    BY DEF Kick
  <1>7. Submitted(a, r, 1, words) /\ Exact(r, Taken(w, 1))
    BY <1>1, <1>3, <1>4, <1>6
  <1>8. Parses(a, r, 1, words, FALSE)
    BY <1>1, <1>3, <1>5, <1>6
  <1>9. \E hl \in BOOLEAN : Parses(a, r, 1, words, hl)
    BY <1>1, <1>8, Zenon
  <1> QED BY <1>7, <1>9 DEF Kicked

LEMMA PublishingDrain ==
    ASSUME NEW a, NEW b, NEW w, Publishing(a, b, w), NEW r, r = Drain(b)
    PROVE  Publishing(a, r, w) /\ r.arrived = b.arrived
  <1>1. CASE a.reservations # <<>>
    <2>1. r = b
      BY <1>1 DEF Drain, Publishing
    <2> QED BY <2>1
  <1>2. CASE a.reservations = <<>>
    <2>1. /\ Exact(b, w) /\ InPlace(b) /\ Whole1(b) /\ b.reservations = <<>>
      BY <1>2 DEF Publishing
    <2>2. /\ Settled(r, w) /\ r.reservations = <<>> /\ r.queue = <<>>
          /\ r.arrived = b.arrived
          /\ Path2Words(r) \subseteq Path2Words(b)
      BY <2>1, DrainSettles
    <2>3. Whole1(r) /\ DOMAIN r.queue = {}
      BY <2>2, ExactParts, EmptyWhole, EmptySeq DEF Settled
    <2> QED BY <1>2, <2>2, <2>3 DEF Publishing, Settled
  <1> QED BY <1>1, <1>2

LEMMA PublishStep ==
    ASSUME NEW a, NEW b, NEW w, Publishing(a, b, w), w[1] = <<>>,
           NEW since, PlaceGiven(a, since),
           NEW packet \in Seq(Tags) \ {<<>>}, Whole(packet),
           NEW r, r = Publish(b, packet, since)
    PROVE  /\ Publishing(a, r, w)
           /\ Len(packet) \in Nat /\ r.arrived = b.arrived + Len(packet)
  <1> DEFINE words == PlainWords(b, packet, since)
             c == Received(b, packet)
             v == Joins(w, 1, words)
             d == Kick(c, words)
  <1>1. /\ Exact(b, w) /\ Shape(b) /\ Consistent(b) /\ w \in Ways
        /\ b.arrived \in Nat /\ 1 \in Paths /\ 1 # 2 /\ since \in Nat
    BY ExactParts DEF Publishing, PlaceGiven, Paths
  <1>2. PICK hl \in BOOLEAN : ~hl /\ Arrival(b, packet, hl, since, words)
    BY <1>1, PlainArrival
  <1> HIDE DEF words
  <1>3. words \in Seq(Words) /\ Len(packet) \in Nat /\ Whole(words)
    BY <1>2 DEF Arrival
  <1>4. Placeable(b, words)
    BY <1>2, ArrivedPlaceable
  <1>5. Receives(b, c, packet)
    BY <1>1, <1>3, ReceivedIs
  <1> HIDE DEF c
  <1>6. Exact(c, v)
    BY <1>1, <1>2, <1>5, ArriveExact
  <1>7. v \in Ways /\ v[1] # <<>> /\ v[1][1] = words /\ Taken(v, 1) = w
    BY <1>1, <1>3, TakenBack
  <1> HIDE DEF v
  <1>8. Kicked(c, d, words) /\ Exact(d, w)
    BY <1>6, <1>7, KickExact
  <1> HIDE DEF d
  <1>9. /\ c.streams = b.streams /\ c.queue = b.queue /\ c.handed = b.handed
        /\ c.reservations = b.reservations /\ c.arrived = b.arrived + Len(packet)
    BY <1>5 DEF Receives
  <1>10. /\ Consistent(c) /\ Whole1(c) /\ InPlace(c) /\ Placeable(c, words)
         /\ \A j \in DOMAIN c.queue : c.queue[j].path # 2
    <2>1. Consistent(c)
      BY <1>6, ExactParts
    <2>2. Whole1(c)
      BY <1>9 DEF Whole1, Publishing
    <2>3. InPlace(c)
      BY <1>9 DEF Publishing, InPlace, Apart, Behind, Ahead
    <2> QED BY <1>4, <1>9, <2>1, <2>2, <2>3 DEF Publishing, Placeable
  <1>11. Submitted(c, d, 1, words)
    BY <1>8 DEF Kicked
  <1>12. \A j \in DOMAIN d.queue : d.queue[j].path # 2
    BY <1>1, <1>6, <1>10, <1>11, SubmittedQueue
  <1>13. InPlace(d)
    <2>1. Apart(d)
      BY <1>12 DEF Apart
    <2>2. 1 \in Paths /\ 1 # 3
      BY <1>1
    <2> QED BY <1>3, <1>10, <1>11, <2>1, <2>2, SubmitInPlace
  <1>14. Whole1(d)
    <2>1. PICK f \in BOOLEAN : Parses(c, d, 1, words, f)
      BY <1>8, SMTT(60) DEF Kicked
    <2> QED BY <1>3, <1>10, <2>1, WholeSubmit
  <1>15. Publishing(a, d, w) /\ d.arrived = b.arrived + Len(packet)
    <2>1. Path2Words(c) = Path2Words(b) /\ 1 # 2
      BY <1>9 DEF Path2Words
    <2>2. Path2Words(d) = Path2Words(c)
      BY <1>1, <1>3, <1>10, <1>11, <2>1, SubmitPath2
    <2>3. d.arrived = b.arrived + Len(packet)
      BY <1>9, <1>11 DEF Submitted
    <2>4. a.arrived \in Nat /\ a.arrived <= d.arrived
      BY <1>1, <1>3, <2>3 DEF Publishing
    <2>5. Path2Words(d) \subseteq Path2Words(a)
      BY <2>1, <2>2 DEF Publishing
    <2> QED BY <1>8, <1>9, <1>11, <1>12, <1>13, <1>14, <2>3, <2>4, <2>5
            DEF Publishing, Submitted
  <1>16. r = Drain(d)
    BY DEF Publish, d, c, words
  <1> QED BY <1>3, <1>15, <1>16, PublishingDrain

Kicks(packets) ==
    /\ Len(packets) \in Nat
    /\ \A k \in 1 .. Len(packets) :
          packets[k] \in Seq(Tags) \ {<<>>} /\ Whole(packets[k])

LEMMA PublishAll ==
    ASSUME NEW a, NEW w, Settled(a, w), w[1] = <<>>,
           NEW since, PlaceGiven(a, since), NEW packets, Kicks(packets),
           NEW r, r = Published(a, packets, since)
    PROVE  Publishing(a, r, w)
  <1> DEFINE n == Len(packets)
  <1>1. n \in Nat
    BY DEF Kicks
  <1>2. PICK after : PublishedRun(after, a, packets, since, n) /\ r = after[n]
    <2>1. \E after :
              /\ PublishedRun(after, a, packets, since, Len(packets))
              /\ Published(a, packets, since) = after[Len(packets)]
      BY <1>1, PublishedIs, Zenon
    <2> QED BY <2>1
  <1> DEFINE T == {k \in 0 .. n : Publishing(a, after[k], w)}
  <1>3. 0 \in T
    <2>1. after[0] = a
      BY <1>2 DEF PublishedRun
    <2>2. Publishing(a, a, w)
      <3>1. Consistent(a)
        BY ExactParts DEF Settled
      <3>2. Whole1(a)
        BY <3>1, EmptyWhole DEF Settled
      <3>3. a.arrived \in Nat /\ a.arrived <= a.arrived
        BY ExactParts DEF Settled
      <3> QED BY <3>2, <3>3 DEF Publishing, Settled
    <2> QED BY <1>1, <2>1, <2>2
  <1>4. ASSUME NEW k \in 1 .. n, k - 1 \in T PROVE k \in T
    <2>1. after[k] = Publish(after[k - 1], packets[k], since) /\ k \in 0 .. n
      BY <1>2 DEF PublishedRun
    <2>2. /\ Publishing(a, after[k - 1], w)
          /\ packets[k] \in Seq(Tags) \ {<<>>} /\ Whole(packets[k])
      BY <1>4 DEF Kicks
    <2>3. Publishing(a, after[k], w)
      BY <2>1, <2>2, PublishStep
    <2> QED BY <2>1, <2>3
  <1>5. T \in SUBSET (0 .. n)
    OBVIOUS
  <1> HIDE DEF T, n
  <1>6. T = 0 .. n
    BY <1>1, <1>3, <1>4, <1>5, FirstNumbers
  <1>7. n \in T
    BY <1>1, <1>6
  <1> QED BY <1>2, <1>7 DEF T

\* The place is given up behind all that.
LEMMA ReleaseSettles ==
    ASSUME NEW a, NEW b, NEW w, Publishing(a, b, w), NEW token \in Nat,
           a.reservations = <<>> \/ a.reservations = <<token>>,
           NEW r, r = Drain(ReleasePath1(b, token))
    PROVE  /\ Settled(r, w) /\ r.queue = <<>> /\ r.reservations = <<>>
           /\ r.arrived = b.arrived
           /\ Path2Words(r) \subseteq Path2Words(a)
  <1> DEFINE c == ReleasePath1(b, token)
  <1>1. Shape(b) /\ Exact(b, w) /\ b.reservations = a.reservations
    BY ExactParts DEF Publishing
  <1>2. c = [b EXCEPT !.reservations = RemoveFirst(b.reservations, token)]
    BY DEF ReleasePath1
  <1>3. RemoveFirst(b.reservations, token) = <<>> /\ <<>> \in Seq(Nat)
    BY <1>1, ReleaseIs, EmptySeq
  <1> HIDE DEF c
  <1>4. Renewed(b, c, <<>>)
    BY <1>1, <1>2, <1>3, RenewedIs
  <1>5. Exact(c, w) /\ InPlace(c) /\ Whole1(c)
    BY <1>1, <1>4, RenewedExact DEF Publishing
  <1>6. c.reservations = <<>> /\ c.arrived = b.arrived
    BY <1>4 DEF Renewed
  <1>7. r = Drain(c)
    BY DEF c
  <1>8. Path2Words(c) \subseteq Path2Words(a)
    BY <1>4 DEF Renewed, Path2Words, Publishing
  <1> QED BY <1>5, <1>6, <1>7, <1>8, DrainSettles

-----------------------------------------------------------------------------
(* The invariant holds.                                                     *)

LEMMA SettledInv ==
    ASSUME GInv
    PROVE  /\ Settled(arbiter, Waiting(fifo)) /\ fifo \in Seq(Seq(Words))
           /\ Reached(arbiter, fifo) /\ Consistent(arbiter)
           /\ Waiting(fifo)[1] = <<>> /\ Waiting(fifo)[2] = <<>>
           /\ arbiter.arrived \in Nat
  <1>1. Settled(arbiter, Waiting(fifo)) /\ Reached(arbiter, fifo)
    BY DEF GInv, Settled
  <1>2. /\ Waiting(fifo) \in Ways /\ arbiter.arrived \in Nat
        /\ Consistent(arbiter)
    BY <1>1, ExactParts DEF Settled
  <1>3. 1 \in Paths /\ 2 \in Paths /\ 3 \in Paths
    BY DEF Paths
  <1>4. /\ Waiting(fifo)[1] = <<>> /\ Waiting(fifo)[2] = <<>>
        /\ Waiting(fifo)[3] = fifo
    BY <1>3 DEF Waiting
  <1>5. fifo \in Seq(Seq(Words))
    BY <1>2, <1>3, <1>4 DEF Ways
  <1> QED BY <1>1, <1>2, <1>4, <1>5

\* What may be given to the arbiter.
LEMMA ChunksAre ==
    /\ \A chunk \in Chunks : chunk \in Seq(Tags) \ {<<>>}
    /\ \A packet \in Packets : packet \in Seq(Tags) \ {<<>>} /\ Whole(packet)
  BY ConstantsAssumption

\* The reservation and what it promises.
PlaceInv ==
    /\ arbiter.reservations = <<>> /\ ~stopped => arbiter.queue = <<>>
    /\ arbiter.reservations # <<>> =>
          /\ arbiter.reservations = <<pending>> /\ pending # 0
          /\ reservedAt # 0 /\ HandedBefore(arbiter, reservedAt)

LEMMA PlaceKeeps ==
    ASSUME PlaceInv, Drains3(arbiter, arbiter'),
           pending' = pending, reservedAt' = reservedAt
    PROVE  PlaceInv'
  BY DEF PlaceInv, Drains3, HandedBefore

LEMMA InvBySettled ==
    ASSUME ScalarsOK', Settled(arbiter', Waiting(fifo')),
           arbiter'.arrived <= MaxWords, PlaceInv',
           Reached(arbiter', fifo')
    PROVE  GInv'
  BY DEF GInv, PlaceInv, Settled

LEMMA InitInv == Init => GInv
  <1> SUFFICES ASSUME Init PROVE GInv
    OBVIOUS
  <1>1. /\ arbiter = EmptyArbiter /\ fifo = <<>>
        /\ arbiter.arrived = 0 /\ arbiter.queue = <<>>
        /\ arbiter.reservations = <<>> /\ arbiter.streams = EmptyStreams
    BY DEF Init, EmptyArbiter
  <1>2. Exact(arbiter, Waiting(fifo)) /\ InPlace(arbiter)
    BY <1>1, InitExact, NothingWaiting
  <1>3. DOMAIN fifo = {} /\ DOMAIN arbiter.queue = {}
    BY <1>1, EmptySeq
  <1>4. arbiter.streams[1].data = <<>>
    BY <1>1, EmptyIs DEF Paths
  <1>5. ScalarsOK /\ arbiter.arrived <= MaxWords
    <2>1. MaxWords \in Nat /\ MaxInvocations \in Nat /\ MaxControls \in Nat
      BY ConstantsAssumption
    <2>2. nextToken \in 1 .. MaxInvocations + 1 /\ pending \in 0 .. nextToken - 1
      BY <2>1 DEF Init
    <2>3. controls \in 0 .. MaxControls /\ reservedAt \in Nat
      BY <2>1 DEF Init
    <2>4. {vifMask, modeMask, stopped} \subseteq BOOLEAN
      BY DEF Init
    <2> QED BY <1>1, <2>1, <2>2, <2>3, <2>4 DEF ScalarsOK
  <1>6. Reached(arbiter, fifo)
    <2>1. arbiter.streams[2].data = <<>> /\ DOMAIN arbiter.handed = {}
          /\ DOMAIN <<>> = {}
      BY <1>1, EmptyIs, EmptySeq DEF EmptyArbiter, Paths
    <2>2. Path2Words(arbiter) = {}
      BY <2>1 DEF Path2Words, Range
    <2> QED BY <1>3, <2>2 DEF Reached, Reach
  <1> QED BY <1>1, <1>2, <1>3, <1>4, <1>5, <1>6 DEF GInv

\* The oldest of what is held back has arrived and is the oldest.
LEMMA OldestHeldIs ==
    ASSUME GInv
    PROVE  /\ OldestHeld \in Nat /\ OldestHeld <= arbiter.arrived
           /\ OldestHeld = 0 => DOMAIN fifo = {}
           /\ \A c \in DOMAIN fifo : \A l \in DOMAIN fifo[c] :
                 OldestHeld <= fifo[c][l].n /\ fifo[c][l].n \in Nat
  <1>1. fifo \in Seq(Seq(Words)) /\ arbiter.arrived \in Nat
    BY SettledInv
  <1>2. CASE fifo = <<>>
    BY <1>1, <1>2, EmptySeq DEF OldestHeld
  <1>3. CASE fifo # <<>>
    <2> DEFINE first == fifo[1]
    <2>1. 1 \in DOMAIN fifo /\ Waiting(fifo)[3] = fifo /\ 3 \in Paths
      BY <1>1, <1>3, SeqParts, WaitingIs DEF Paths
    <2>2. InLine(fifo)
      BY <2>1 DEF GInv, Exact, Ordered
    <2>3. /\ \A c \in DOMAIN fifo : fifo[c] \in Seq(Words) /\ fifo[c] # <<>>
          /\ \A c \in DOMAIN fifo : Numbers(fifo[c]) \subseteq 1 .. arbiter.arrived
      <3>1. \A c \in DOMAIN Waiting(fifo)[3] :
                Numbers(Waiting(fifo)[3][c]) \subseteq 1 .. arbiter.arrived
        BY <2>1, PlacedArrived DEF GInv, Exact
      <3> QED BY <1>1, <2>1, <2>2, <3>1, SeqParts DEF InLine
    <2>4. 1 \in DOMAIN first
      BY <2>1, <2>3, WordParts
    <2>5. first[1].n \in 1 .. arbiter.arrived
      BY <2>1, <2>3, <2>4 DEF Numbers
    <2>6. OldestHeld = first[1].n
      BY <1>3 DEF OldestHeld
    <2>7. ASSUME NEW c \in DOMAIN fifo, NEW l \in DOMAIN fifo[c]
          PROVE  first[1].n <= fifo[c][l].n /\ fifo[c][l].n \in Nat
      <3>1. fifo[c][l].n \in Nat /\ first[1].n \in Nat
        <4>1. fifo[c] \in Seq(Words)
          BY <2>3
        <4>2. fifo[c][l].n \in Nat
          BY <4>1, WordParts
        <4>3. \A x \in 1 .. arbiter.arrived : x \in Nat
          OBVIOUS
        <4> HIDE DEF first
        <4> QED BY <2>5, <4>2, <4>3
      <3>2. CASE c = 1
        <4>1. Increasing(first) /\ l \in DOMAIN first
          BY <2>1, <2>2, <3>2 DEF InLine
        <4>2. l = 1 \/ 1 < l
          BY <2>1, <2>3, <4>1, WordParts
        <4>3. 1 < l => first[1].n < first[l].n
          BY <2>4, <4>1 DEF Increasing
        <4> QED BY <3>1, <3>2, <4>2, <4>3
      <3>3. CASE c # 1
        <4>1. 1 < c
          BY <1>1, <2>7, <3>3, SeqParts
        <4>2. Before(first, fifo[c])
          BY <2>1, <2>2, <4>1 DEF InLine
        <4>3. first[1].n < fifo[c][l].n
          BY <2>4, <4>2 DEF Before
        <4> QED BY <3>1, <4>3
      <3> QED BY <3>2, <3>3
    <2> HIDE DEF first
    <2>8. first[1].n \in Nat /\ first[1].n # 0 /\ first[1].n <= arbiter.arrived
      BY <1>1, <2>5
    <2> QED BY <2>6, <2>7, <2>8
  <1> QED BY <1>2, <1>3

LEMMA DirectKeeps ==
    ASSUME GInv, NEW chunk \in Chunks, NEW hl \in BOOLEAN, Direct(chunk, hl)
    PROVE  GInv'
  <1>1. /\ Settled(arbiter, Waiting(fifo)) /\ Waiting(fifo)[2] = <<>>
        /\ chunk \in Seq(Tags) \ {<<>>}
    BY SettledInv, ChunksAre
  <1>2. arbiter.reservations = <<>> /\ arbiter.queue = <<>>
    BY DEF Direct, CanAcceptPath2, GInv
  <1>3. arbiter' = Drain(Submit(Received(arbiter, chunk), 2,
                                Arriving(arbiter, chunk, hl, OldestHeld), hl))
    BY DEF Direct
  <1>4. OldestHeld \in Nat
    BY OldestHeldIs
  <1>5. /\ Settled(arbiter', Waiting(fifo))
        /\ arbiter'.reservations = <<>> /\ arbiter'.queue = <<>>
        /\ arbiter'.arrived = arbiter.arrived + Len(chunk)
        /\ \E words : /\ Arrival(arbiter, chunk, hl, OldestHeld, words)
                      /\ Path2Words(arbiter') \subseteq
                            Path2Words(arbiter) \cup Range(words)
    BY <1>1, <1>2, <1>3, <1>4, DirectSettles
  <1>6. /\ arbiter'.arrived <= MaxWords /\ fifo' = fifo
        /\ ScalarsOK'
    BY <1>5 DEF Direct, GInv, ScalarsOK
  <1>7. PlaceInv'
    BY <1>5 DEF PlaceInv
  <1>8. Reached(arbiter', fifo')
    <2>1. PICK words : /\ Arrival(arbiter, chunk, hl, OldestHeld, words)
                       /\ Path2Words(arbiter') \subseteq
                             Path2Words(arbiter) \cup Range(words)
      BY <1>5
    <2>2. /\ words \in Seq(Words) /\ DOMAIN words = 1 .. Len(chunk)
          /\ Len(chunk) \in Nat /\ arbiter.arrived \in Nat
          /\ \A k \in 1 .. Len(chunk) :
                words[k].since = IF OldestHeld = 0 THEN arbiter.arrived + k
                                 ELSE OldestHeld
      BY <2>1, WordParts DEF Arrival
    <2>3. /\ OldestHeld \in Nat /\ OldestHeld <= arbiter.arrived
          /\ OldestHeld = 0 => DOMAIN fifo = {}
          /\ \A c \in DOMAIN fifo : \A l \in DOMAIN fifo[c] :
                OldestHeld <= fifo[c][l].n
      BY OldestHeldIs
    <2>4. Reached(arbiter, fifo) /\ Consistent(arbiter)
      BY SettledInv
    <2>5. \A v \in Path2Words(arbiter) : v.since \in Nat
      BY <2>4, Path2Are
    <2>6. ASSUME NEW v \in Path2Words(arbiter')
          PROVE  /\ v.since <= arbiter'.arrived
                 /\ \A c \in DOMAIN fifo : \A l \in DOMAIN fifo[c] :
                       v.since <= fifo[c][l].n
      <3>1. CASE v \in Path2Words(arbiter)
        <4>1. v.since \in Nat /\ v.since <= arbiter.arrived
          BY <2>4, <2>5, <3>1 DEF Reached, Reach
        <4>2. v.since <= arbiter'.arrived
          BY <1>5, <2>2, <4>1
        <4> QED BY <2>4, <3>1, <4>2 DEF Reached, Recent, Reach
      <3>2. CASE v \in Range(words)
        <4>1. PICK k \in 1 .. Len(chunk) : v = words[k]
          BY <2>2, <3>2 DEF Range
        <4>2. v.since = IF OldestHeld = 0 THEN arbiter.arrived + k ELSE OldestHeld
          BY <2>2, <4>1
        <4>3. v.since <= arbiter'.arrived
          BY <1>5, <2>2, <2>3, <4>2
        <4> QED BY <2>3, <4>2, <4>3
      <3> QED BY <2>1, <2>6, <3>1, <3>2
    <2> QED BY <1>6, <2>6 DEF Reached, Recent, Reach
  <1> QED BY <1>5, <1>6, <1>7, <1>8, InvBySettled

LEMMA ProcessKeeps ==
    ASSUME GInv, NEW chunk \in Chunks, ProcessGifPacket(chunk)
    PROVE  GInv'
  <1> DEFINE words == PlainWords(arbiter, chunk, 0)
             received == Received(arbiter, chunk)
  <1>1. /\ Settled(arbiter, Waiting(fifo)) /\ fifo \in Seq(Seq(Words))
        /\ Reached(arbiter, fifo) /\ Consistent(arbiter)
        /\ arbiter.arrived \in Nat
        /\ chunk \in Seq(Tags) \ {<<>>}
    BY SettledInv, ChunksAre
  <1>2. /\ arbiter.arrived + Len(chunk) <= MaxWords
        /\ PlaceInv /\ pending' = pending /\ reservedAt' = reservedAt
        /\ ScalarsOK'
    BY DEF ProcessGifPacket, GInv, PlaceInv, ScalarsOK
  <1>3. CASE Masked
    <2>1. fifo' = Append(fifo, words) /\ arbiter' = received
      BY <1>3 DEF ProcessGifPacket, PlainWords
    <2> HIDE DEF words
    <2>2. /\ Settled(received, Waiting(Append(fifo, words)))
          /\ Receives(arbiter, received, chunk)
          /\ Reached(received, Append(fifo, words))
      BY <1>1, HoldSettles DEF words
    <2> HIDE DEF received
    <2>3. Settled(arbiter', Waiting(fifo'))
      BY <2>1, <2>2
    <2>4. /\ arbiter'.arrived = arbiter.arrived + Len(chunk)
          /\ arbiter'.queue = arbiter.queue /\ arbiter'.handed = arbiter.handed
          /\ arbiter'.reservations = arbiter.reservations /\ stopped' = stopped
      BY <2>1, <2>2 DEF Receives, ProcessGifPacket
    <2>5. PlaceInv'
      BY <1>2, <2>4 DEF PlaceInv, HandedBefore
    <2>6. Reached(arbiter', fifo')
      BY <2>1, <2>2
    <2> QED BY <1>2, <2>3, <2>4, <2>5, <2>6, InvBySettled
  <1>4. CASE ~Masked
    <2>1. /\ fifo' = <<>>
          /\ arbiter' = Drain(Flush(FlushMaskedPath3Packets(received), words))
      BY <1>4 DEF ProcessGifPacket, PlainWords, Flush
    <2>2. /\ Settled(arbiter', NoWay) /\ Drains3(arbiter, arbiter')
          /\ arbiter'.arrived = arbiter.arrived + Len(chunk)
          /\ Len(chunk) \in Nat
      BY <1>1, <2>1, TransferSettles
    <2> HIDE DEF words, received
    <2>3. Settled(arbiter', Waiting(fifo'))
      BY <2>1, <2>2, NothingWaiting
    <2>4. PlaceInv'
      BY <1>2, <2>2, PlaceKeeps
    <2>5. Reached(arbiter', fifo')
      <3>1. arbiter'.arrived \in Nat /\ arbiter.arrived <= arbiter'.arrived
        BY <1>1, <2>2
      <3> QED BY <1>1, <2>1, <2>2, <3>1, ReachedKeeps DEF Drains3
    <2> QED BY <1>2, <2>2, <2>3, <2>4, <2>5, InvBySettled
  <1> QED BY <1>3, <1>4

LEMMA VifMaskKeeps ==
    ASSUME GInv, NEW mask \in BOOLEAN, SetVifMask(mask)
    PROVE  GInv'
  <1>1. /\ Settled(arbiter, Waiting(fifo)) /\ fifo \in Seq(Seq(Words))
        /\ Reached(arbiter, fifo) /\ Consistent(arbiter)
        /\ arbiter.arrived \in Nat /\ arbiter.arrived <= arbiter.arrived
    BY SettledInv
  <1>2. /\ PlaceInv /\ pending' = pending /\ reservedAt' = reservedAt
        /\ stopped' = stopped /\ arbiter.arrived <= MaxWords
    BY DEF SetVifMask, GInv, PlaceInv
  <1>3. ScalarsOK'
    <2>1. /\ controls \in Nat /\ MaxControls \in Nat
          /\ controls < MaxControls /\ controls' = controls + 1
      BY ConstantsAssumption DEF SetVifMask, GInv, ScalarsOK
    <2>2. controls' \in 0 .. MaxControls
      BY <2>1
    <2>3. /\ nextToken' = nextToken /\ vifMask' = mask /\ modeMask' = modeMask
      BY DEF SetVifMask
    <2> QED BY <1>2, <2>2, <2>3 DEF GInv, ScalarsOK
  <1> DEFINE Lifts == Masked /\ ~(mask \/ modeMask) /\ fifo # <<>>
  <1>4. CASE ~Lifts
    <2>1. arbiter' = arbiter /\ fifo' = fifo
      BY <1>4 DEF SetVifMask
    <2>2. PlaceInv'
      BY <1>2, <2>1 DEF PlaceInv
    <2> QED BY <1>1, <1>2, <1>3, <2>1, <2>2, InvBySettled
  <1>5. CASE Lifts
    <2>1. arbiter' = Drain(FlushMaskedPath3Packets(arbiter)) /\ fifo' = <<>>
      BY <1>5 DEF SetVifMask
    <2>2. /\ Settled(arbiter', NoWay) /\ Drains3(arbiter, arbiter')
          /\ arbiter'.arrived = arbiter.arrived
      BY <1>1, <2>1, UnmaskSettles
    <2>3. Settled(arbiter', Waiting(fifo'))
      BY <2>1, <2>2, NothingWaiting
    <2>4. PlaceInv'
      BY <1>2, <2>2, PlaceKeeps
    <2>5. Reached(arbiter', fifo')
      BY <1>1, <2>1, <2>2, ReachedKeeps DEF Drains3
    <2> QED BY <1>2, <1>3, <2>2, <2>3, <2>4, <2>5, InvBySettled
  <1> QED BY <1>4, <1>5

LEMMA GifModeKeeps ==
    ASSUME GInv, NEW mask \in BOOLEAN, WriteGifMode(mask)
    PROVE  GInv'
  <1>1. Settled(arbiter, Waiting(fifo)) /\ Reached(arbiter, fifo)
    BY SettledInv
  <1>2. /\ PlaceInv /\ pending' = pending /\ reservedAt' = reservedAt
        /\ stopped' = stopped /\ arbiter.arrived <= MaxWords
        /\ arbiter' = arbiter /\ fifo' = fifo
    BY DEF WriteGifMode, GInv, PlaceInv
  <1>3. ScalarsOK'
    <2>1. /\ controls \in Nat /\ MaxControls \in Nat
          /\ controls < MaxControls /\ controls' = controls + 1
      BY ConstantsAssumption DEF WriteGifMode, GInv, ScalarsOK
    <2>2. controls' \in 0 .. MaxControls
      BY <2>1
    <2>3. /\ nextToken' = nextToken /\ vifMask' = vifMask /\ modeMask' = mask
      BY DEF WriteGifMode
    <2> QED BY <1>2, <2>2, <2>3 DEF GInv, ScalarsOK
  <1>4. PlaceInv'
    BY <1>2 DEF PlaceInv
  <1> QED BY <1>1, <1>2, <1>3, <1>4, InvBySettled

LEMMA ResetKeeps == ASSUME GInv, GifReset PROVE GInv'
  <1>1. /\ Exact(arbiter, Waiting(fifo)) /\ InPlace(arbiter)
        /\ fifo \in Seq(Seq(Words))
        /\ Reached(arbiter, fifo) /\ Consistent(arbiter)
        /\ arbiter.arrived \in Nat /\ arbiter.arrived <= arbiter.arrived
    BY SettledInv DEF Settled
  <1>2. arbiter' = Reset(arbiter, fifo) /\ fifo' = <<>>
    BY DEF GifReset
  <1>3. /\ Exact(arbiter', NoWay) /\ InPlace(arbiter')
        /\ Emptied(arbiter, arbiter')
    BY <1>1, <1>2, ResetExact
  <1>4. /\ arbiter'.queue = <<>> /\ arbiter'.reservations = <<>>
        /\ arbiter'.arrived = arbiter.arrived /\ arbiter'.streams[1].data = <<>>
        /\ DOMAIN arbiter'.queue = {} /\ DOMAIN fifo' = {}
    BY <1>2, <1>3, EmptySeq, EmptyIs DEF Emptied, Paths
  <1>5. Settled(arbiter', Waiting(fifo'))
    BY <1>2, <1>3, <1>4, NothingWaiting DEF Settled
  <1>6. ScalarsOK'
    <2>1. /\ controls \in Nat /\ MaxControls \in Nat
          /\ controls < MaxControls /\ controls' = controls + 1
      BY ConstantsAssumption DEF GifReset, GInv, ScalarsOK
    <2>2. controls' \in 0 .. MaxControls
      BY <2>1
    <2>3. /\ nextToken' = nextToken /\ pending' = pending /\ vifMask' = vifMask
          /\ modeMask' = FALSE /\ stopped' = stopped /\ reservedAt' = reservedAt
      BY DEF GifReset
    <2> QED BY <2>2, <2>3 DEF GInv, ScalarsOK
  <1>7. PlaceInv' /\ arbiter.arrived <= MaxWords
    BY <1>4 DEF PlaceInv, GInv
  <1>8. Reached(arbiter', fifo')
    <2>1. arbiter'.streams[2].data = <<>> /\ arbiter'.handed = arbiter.handed
      BY <1>3, EmptyIs DEF Emptied, Paths
    <2>2. Range(arbiter'.streams[2].data) = {}
      BY <2>1, EmptySeq DEF Range
    <2>3. Path2Words(arbiter') \subseteq Path2Words(arbiter)
      BY <2>1, <2>2 DEF Path2Words
    <2> QED BY <1>1, <1>2, <1>4, <2>3, ReachedKeeps
  <1> QED BY <1>4, <1>5, <1>6, <1>7, <1>8, InvBySettled

LEMMA TokensAre ==
    ASSUME GInv
    PROVE  /\ nextToken \in Nat /\ nextToken # 0 /\ pending \in Nat
           /\ pending < nextToken
           /\ arbiter.reservations = <<>> \/ arbiter.reservations = <<pending>>
  <1>1. nextToken \in 1 .. MaxInvocations + 1 /\ pending \in 0 .. nextToken - 1
    BY DEF GInv, ScalarsOK
  <1>2. MaxInvocations \in Nat
    BY ConstantsAssumption
  <1>3. /\ nextToken \in Nat /\ nextToken # 0 /\ pending \in Nat
        /\ pending < nextToken
    BY <1>1, <1>2
  <1> QED BY <1>3 DEF GInv

LEMMA SubmitVu1Keeps == ASSUME GInv, SubmitVu1CoarseInvocation PROVE GInv'
  <1>1. /\ Settled(arbiter, Waiting(fifo)) /\ Exact(arbiter, Waiting(fifo))
        /\ Reached(arbiter, fifo)
        /\ arbiter.arrived \in Nat /\ Shape(arbiter)
        /\ nextToken \in Nat /\ nextToken # 0
    BY SettledInv, TokensAre DEF Settled, Exact
  <1>2. arbiter.reservations = <<>>
    BY DEF SubmitVu1CoarseInvocation, GInv
  <1>3. arbiter' = [arbiter EXCEPT !.reservations = <<nextToken>>]
    <2>1. Append(<<>>, nextToken) = <<nextToken>>
      OBVIOUS
    <2>2. arbiter' = [arbiter EXCEPT !.reservations =
                         Append(arbiter.reservations, nextToken)]
      BY DEF SubmitVu1CoarseInvocation
    <2> QED BY <1>2, <2>1, <2>2
  <1>4. Renewed(arbiter, arbiter', <<nextToken>>)
    <2>1. <<nextToken>> \in Seq(Nat)
      BY <1>1
    <2> QED BY <1>1, <1>3, <2>1, RenewedIs, Zenon
  <1>5. /\ arbiter'.streams = arbiter.streams /\ arbiter'.queue = arbiter.queue
        /\ arbiter'.arrived = arbiter.arrived
        /\ arbiter'.reservations = <<nextToken>>
    BY <1>4 DEF Renewed
  <1>6. Settled(arbiter', Waiting(fifo))
    <2>1. Exact(arbiter', Waiting(fifo)) /\ InPlace(arbiter')
      BY <1>1, <1>4, RenewedExact DEF Settled
    <2> QED BY <1>1, <1>5, <2>1 DEF Settled
  <1>7. HandedBefore(arbiter', arbiter.arrived + 1)
    <2>1. HandedBefore(arbiter, arbiter.arrived + 1)
      BY <1>1, HandedArrived
    <2> QED BY <1>1, <1>4, <2>1, RenewedExact
  <1>8. /\ fifo' = fifo /\ pending' = nextToken
        /\ nextToken' = nextToken + 1 /\ nextToken <= MaxInvocations
        /\ reservedAt' = arbiter.arrived + 1
        /\ vifMask' = vifMask /\ modeMask' = modeMask /\ stopped' = stopped
        /\ controls' = controls
    BY DEF SubmitVu1CoarseInvocation
  <1>9. ScalarsOK'
    <2>1. MaxInvocations \in Nat
      BY ConstantsAssumption
    <2>2. nextToken' \in 1 .. MaxInvocations + 1 /\ pending' \in 0 .. nextToken' - 1
      BY <1>1, <1>8, <2>1
    <2>3. reservedAt' \in Nat
      BY <1>1, <1>8
    <2> QED BY <1>8, <2>2, <2>3 DEF GInv, ScalarsOK
  <1>10. PlaceInv'
    <2>1. <<nextToken>> # <<>> /\ reservedAt' # 0
      BY <1>1, <1>8
    <2>2. HandedBefore(arbiter', reservedAt')
      BY <1>7, <1>8
    <2> QED BY <1>1, <1>5, <1>8, <2>1, <2>2 DEF PlaceInv
  <1>11. arbiter'.arrived <= MaxWords
    BY <1>5 DEF GInv
  <1>12. Reached(arbiter', fifo')
    BY <1>1, <1>4, <1>8 DEF Renewed, Reached, Recent, Reach, Path2Words
  <1> QED BY <1>6, <1>8, <1>9, <1>10, <1>11, <1>12, InvBySettled

LEMMA PublishKeeps ==
    ASSUME GInv, NEW packets \in SeqOf(Packets, 2),
           PublishVu1CoarseInvocation(packets)
    PROVE  GInv'
  <1> DEFINE since == IF pending \in Range(arbiter.reservations)
                      THEN reservedAt ELSE 0
             b == Published(arbiter, packets, since)
  <1>1. /\ Settled(arbiter, Waiting(fifo)) /\ Waiting(fifo)[1] = <<>>
        /\ Reached(arbiter, fifo) /\ Consistent(arbiter)
        /\ nextToken \in Nat /\ pending \in Nat /\ nextToken # 0
        /\ arbiter.reservations = <<>> \/ arbiter.reservations = <<pending>>
    BY SettledInv, TokensAre
  <1>2. /\ arbiter' = Drain(ReleasePath1(b, pending))
        /\ arbiter'.arrived <= MaxWords
        /\ pending' = 0 /\ reservedAt' = 0
        /\ nextToken' = nextToken /\ fifo' = fifo /\ vifMask' = vifMask
        /\ modeMask' = modeMask /\ stopped' = stopped /\ controls' = controls
    BY DEF PublishVu1CoarseInvocation
  <1>3. PlaceGiven(arbiter, since)
    <2>1. since \in Nat
      BY DEF GInv, ScalarsOK
    <2>2. ASSUME since # 0
          PROVE  arbiter.reservations # <<>> /\ HandedBefore(arbiter, since)
      <3>1. pending \in Range(arbiter.reservations) /\ since = reservedAt
        BY <2>2
      <3>2. arbiter.reservations # <<>>
        <4>1. Range(<<>>) = {}
          BY EmptySeq DEF Range
        <4> QED BY <3>1, <4>1
      <3> QED BY <3>1, <3>2 DEF GInv
    <2> QED BY <2>1, <2>2 DEF PlaceGiven
  <1> HIDE DEF since
  <1>4. Kicks(packets)
    <2>1. packets \in UNION {[1 .. m -> Packets] : m \in 0 .. 2}
      BY DEF SeqOf
    <2>2. PICK m \in 0 .. 2 : packets \in [1 .. m -> Packets]
      BY <2>1
    <2>3. Len(packets) = m /\ m \in Nat
      BY <2>2, LenProperties
    <2> QED BY <2>2, <2>3, ChunksAre DEF Kicks
  <1>5. Publishing(arbiter, b, Waiting(fifo))
    BY <1>1, <1>3, <1>4, PublishAll
  <1> HIDE DEF b
  <1>6. /\ Settled(arbiter', Waiting(fifo)) /\ arbiter'.queue = <<>>
        /\ arbiter'.reservations = <<>> /\ arbiter'.arrived = b.arrived
        /\ Path2Words(arbiter') \subseteq Path2Words(arbiter)
    BY <1>1, <1>2, <1>5, ReleaseSettles
  <1>7. PlaceInv'
    BY <1>6 DEF PlaceInv
  <1>8. ScalarsOK'
    <2>1. pending' \in 0 .. nextToken' - 1 /\ reservedAt' \in Nat
      BY <1>1, <1>2
    <2> QED BY <1>2, <2>1 DEF GInv, ScalarsOK
  <1>9. Reached(arbiter', fifo')
    <2>1. /\ arbiter.arrived \in Nat /\ arbiter'.arrived \in Nat
          /\ arbiter.arrived <= arbiter'.arrived
      BY <1>5, <1>6, ExactParts DEF Publishing, Settled
    <2> QED BY <1>1, <1>2, <1>6, <2>1, ReachedKeeps
  <1> QED BY <1>2, <1>6, <1>7, <1>8, <1>9, InvBySettled

LEMMA DiscardKeeps == ASSUME GInv, DiscardVu1CoarseInvocation PROVE GInv'
  <1>1. /\ Settled(arbiter, Waiting(fifo)) /\ Exact(arbiter, Waiting(fifo))
        /\ Reached(arbiter, fifo)
        /\ Shape(arbiter)
        /\ nextToken \in Nat /\ pending \in Nat /\ nextToken # 0
        /\ arbiter.reservations = <<>> \/ arbiter.reservations = <<pending>>
    BY SettledInv, TokensAre DEF Settled, Exact
  <1>2. arbiter' = [arbiter EXCEPT !.reservations =
                       RemoveFirst(arbiter.reservations, pending)]
    BY DEF DiscardVu1CoarseInvocation, ReleasePath1
  <1>3. RemoveFirst(arbiter.reservations, pending) = <<>> /\ <<>> \in Seq(Nat)
    BY <1>1, ReleaseIs, EmptySeq
  <1>4. Renewed(arbiter, arbiter', <<>>)
    <2> DEFINE left == RemoveFirst(arbiter.reservations, pending)
    <2> HIDE DEF left
    <2>1. /\ arbiter' = [arbiter EXCEPT !.reservations = left]
          /\ left = <<>> /\ left \in Seq(Nat)
      BY <1>2, <1>3 DEF left
    <2>2. Renewed(arbiter, arbiter', left)
      BY <1>1, <2>1, RenewedIs, Zenon
    <2> QED BY <2>1, <2>2
  <1>5. /\ arbiter'.streams = arbiter.streams /\ arbiter'.queue = arbiter.queue
        /\ arbiter'.arrived = arbiter.arrived /\ arbiter'.reservations = <<>>
    BY <1>4 DEF Renewed
  <1>6. Settled(arbiter', Waiting(fifo))
    <2>1. Exact(arbiter', Waiting(fifo)) /\ InPlace(arbiter')
      BY <1>1, <1>4, RenewedExact DEF Settled
    <2> QED BY <1>1, <1>5, <2>1 DEF Settled
  <1>7. /\ fifo' = fifo /\ pending' = 0 /\ reservedAt' = 0
        /\ nextToken' = nextToken /\ vifMask' = vifMask
        /\ modeMask' = modeMask /\ stopped' = TRUE /\ controls' = controls
    BY DEF DiscardVu1CoarseInvocation
  <1>8. ScalarsOK'
    <2>1. pending' \in 0 .. nextToken' - 1 /\ reservedAt' \in Nat
      BY <1>1, <1>7
    <2> QED BY <1>7, <2>1 DEF GInv, ScalarsOK
  <1>9. PlaceInv' /\ arbiter'.arrived <= MaxWords
    BY <1>5, <1>7 DEF PlaceInv, GInv
  <1>10. Reached(arbiter', fifo')
    BY <1>1, <1>4, <1>7 DEF Renewed, Reached, Recent, Reach, Path2Words
  <1> QED BY <1>6, <1>7, <1>8, <1>9, <1>10, InvBySettled

\* The inductive invariant: the arbiter is exact with the transfers held back
\* on their way, its queue is in place, PATH1 keeps nothing between two calls,
\* and whoever reserves a place does it before anything newer is handed over.
THEOREM GifArbiterInvariant == Spec => []GInv
  <1>1. ASSUME GInv, [Next]_vars PROVE GInv'
    <2>1. ASSUME NEW chunk \in Chunks, NEW hl \in BOOLEAN, Direct(chunk, hl)
          PROVE  GInv'
      BY <1>1, <2>1, DirectKeeps
    <2>2. ASSUME NEW chunk \in Chunks, ProcessGifPacket(chunk) PROVE GInv'
      BY <1>1, <2>2, ProcessKeeps
    <2>3. ASSUME NEW mask \in BOOLEAN, SetVifMask(mask) \/ WriteGifMode(mask)
          PROVE  GInv'
      BY <1>1, <2>3, VifMaskKeeps, GifModeKeeps
    <2>4. CASE ResetVif1
      <3>1. \A mask \in BOOLEAN : SetVifMask(mask) => GInv'
        BY <1>1, VifMaskKeeps
      <3> QED BY <2>4, <3>1 DEF ResetVif1
    <2>5. CASE GifReset
      BY <1>1, <2>5, ResetKeeps
    <2>6. CASE SubmitVu1CoarseInvocation
      BY <1>1, <2>6, SubmitVu1Keeps
    <2>7. ASSUME NEW packets \in SeqOf(Packets, 2),
                 PublishVu1CoarseInvocation(packets)
          PROVE  GInv'
      BY <1>1, <2>7, PublishKeeps
    <2>8. CASE DiscardVu1CoarseInvocation
      BY <1>1, <2>8, DiscardKeeps
    <2>9. CASE UNCHANGED vars
      <3>1. /\ arbiter' = arbiter /\ fifo' = fifo /\ ScalarsOK'
            /\ pending' = pending /\ reservedAt' = reservedAt /\ stopped' = stopped
        BY <1>1, <2>9 DEF vars, GInv, ScalarsOK
      <3> QED BY <1>1, <3>1 DEF GInv
    <2> QED BY <1>1, <2>1, <2>2, <2>3, <2>5, <2>6, <2>7, <2>8, <2>9, <2>4
        DEF Next
  <1> QED BY <1>1, InitInv, PTL DEF Spec

-----------------------------------------------------------------------------
(* The properties follow.                                                   *)

\* Stretches of words that follow each other.
InOrder(x) ==
    \A i, j \in DOMAIN x :
        \A k \in DOMAIN x[i], l \in DOMAIN x[j] :
            i < j \/ (i = j /\ k < l) => x[i][k].n < x[j][l].n

AllBefore(x, y) == \A i \in DOMAIN x, j \in DOMAIN y : Before(x[i], y[j])

Spread(x) == UNION {Numbers(words) : words \in Range(x)}

LEMMA InOrderJoined ==
    ASSUME NEW x \in Seq(Seq(Words)), NEW y \in Seq(Seq(Words)),
           InOrder(x), InOrder(y), AllBefore(x, y),
           NEW z, z = x \o y
    PROVE  z \in Seq(Seq(Words)) /\ InOrder(z)
  <1> DEFINE n == Len(x)
             m == Len(y)
  <1>1. /\ n \in Nat /\ m \in Nat /\ z \in Seq(Seq(Words))
        /\ DOMAIN x = 1 .. n /\ DOMAIN y = 1 .. m /\ DOMAIN z = 1 .. n + m
        /\ \A i \in 1 .. n : z[i] = x[i]
        /\ \A i \in 1 .. m : z[n + i] = y[i]
        /\ \A i \in 1 .. n + m :
              i \in 1 .. n \/ (i - n \in 1 .. m /\ i = n + (i - n))
    <2>1. /\ z \in Seq(Seq(Words)) /\ Len(z) = n + m
          /\ \A i \in 1 .. n : z[i] = x[i]
          /\ \A i \in 1 .. m : z[n + i] = y[i]
          /\ \A i \in 1 .. Len(z) :
                i \in 1 .. n \/ (i - n \in 1 .. m /\ i = n + (i - n))
      BY JoinedSeq
    <2> QED BY <2>1, SeqParts
  <1> HIDE DEF n, m
  <1>2. ASSUME NEW i \in DOMAIN z, NEW j \in DOMAIN z,
               NEW k \in DOMAIN z[i], NEW l \in DOMAIN z[j],
               i < j \/ (i = j /\ k < l)
        PROVE  z[i][k].n < z[j][l].n
    <2>0. i \in 1 .. n + m /\ j \in 1 .. n + m /\ i \in Nat /\ j \in Nat
      BY <1>1
    <2>1. CASE i \in 1 .. n /\ j \in 1 .. n
      <3>1. z[i] = x[i] /\ z[j] = x[j]
        BY <1>1, <2>1
      <3> QED BY <1>1, <1>2, <2>1, <3>1 DEF InOrder
    <2>2. CASE i \in 1 .. n /\ j - n \in 1 .. m /\ j = n + (j - n)
      <3>1. z[i] = x[i] /\ z[j] = y[j - n]
        BY <1>1, <2>2
      <3>2. Before(x[i], y[j - n])
        BY <1>1, <2>2 DEF AllBefore
      <3> QED BY <3>1, <3>2 DEF Before
    <2>3. CASE i - n \in 1 .. m /\ i = n + (i - n) /\ j - n \in 1 .. m /\ j = n + (j - n)
      <3> DEFINE e == i - n
                 f == j - n
      <3>1. z[i] = y[e] /\ z[j] = y[f] /\ e \in 1 .. m /\ f \in 1 .. m
        BY <1>1, <2>3
      <3>2. e < f \/ (e = f /\ k < l)
        BY <1>1, <1>2, <2>0
      <3> HIDE DEF e, f
      <3>3. k \in DOMAIN y[e] /\ l \in DOMAIN y[f]
        BY <1>2, <3>1
      <3>4. y[e][k].n < y[f][l].n
        BY <1>1, <3>1, <3>2, <3>3 DEF InOrder
      <3> QED BY <3>1, <3>4
    <2>4. CASE i - n \in 1 .. m /\ i = n + (i - n) /\ j \in 1 .. n
      <3>1. ~(i < j) /\ i # j
        BY <1>1, <2>0, <2>4, SMTT(60)
      <3> QED BY <1>2, <3>1
    <2>5. i \in 1 .. n \/ (i - n \in 1 .. m /\ i = n + (i - n))
      BY <1>1, <2>0
    <2>6. j \in 1 .. n \/ (j - n \in 1 .. m /\ j = n + (j - n))
      BY <1>1, <2>0
    <2> QED BY <2>1, <2>2, <2>3, <2>4, <2>5, <2>6
  <1>3. InOrder(z)
    BY <1>2, Zenon DEF InOrder
  <1> QED BY <1>1, <1>3

LEMMA SpreadJoined ==
    ASSUME NEW x \in Seq(Seq(Words)), NEW y \in Seq(Seq(Words))
    PROVE  Spread(x \o y) = Spread(x) \cup Spread(y)
  <1> DEFINE z == x \o y
  <1>1. /\ DOMAIN x = 1 .. Len(x) /\ DOMAIN y = 1 .. Len(y)
        /\ Len(x) \in Nat /\ Len(y) \in Nat
        /\ DOMAIN z = 1 .. Len(z) /\ Len(z) = Len(x) + Len(y)
        /\ \A i \in 1 .. Len(x) : z[i] = x[i]
        /\ \A i \in 1 .. Len(y) : z[Len(x) + i] = y[i]
        /\ \A i \in 1 .. Len(z) :
              \/ i \in 1 .. Len(x)
              \/ i - Len(x) \in 1 .. Len(y) /\ i = Len(x) + (i - Len(x))
    BY JoinedSeq, SeqParts
  <1>2. \A i \in 1 .. Len(x) : i \in 1 .. Len(z)
    BY <1>1
  <1>3. \A i \in 1 .. Len(y) : Len(x) + i \in 1 .. Len(z)
    BY <1>1
  <1> HIDE DEF z
  <1>4. ASSUME NEW i \in 1 .. Len(z)
        PROVE  z[i] \in Range(x) \cup Range(y)
    <2>1. CASE i \in 1 .. Len(x)
      BY <1>1, <2>1 DEF Range
    <2>2. CASE i - Len(x) \in 1 .. Len(y) /\ i = Len(x) + (i - Len(x))
      BY <1>1, <2>2 DEF Range
    <2> QED BY <1>1, <2>1, <2>2
  <1>5. Range(x) \subseteq Range(z)
    BY <1>1, <1>2 DEF Range
  <1>6. Range(y) \subseteq Range(z)
    BY <1>1, <1>3, ZenonT(60) DEF Range
  <1>7. Range(z) \subseteq Range(x) \cup Range(y)
    <2>1. \A words \in Range(z) : \E i \in 1 .. Len(z) : words = z[i]
      BY <1>1 DEF Range
    <2> QED BY <1>4, <2>1
  <1>8. Range(z) = Range(x) \cup Range(y)
    BY <1>5, <1>6, <1>7
  <1> QED BY <1>8 DEF Spread, z

\* What was handed over of a path, packet by packet.
HandedOn(p) ==
    [i \in DOMAIN arbiter.handed |->
        IF arbiter.handed[i].path = p THEN arbiter.handed[i].words ELSE <<>>]

LEMMA HandedOnIs ==
    ASSUME NEW w, Exact(arbiter, w), NEW p \in Paths
    PROVE  /\ HandedOn(p) \in Seq(Seq(Words))
           /\ DOMAIN HandedOn(p) = DOMAIN arbiter.handed
           /\ \A i \in DOMAIN arbiter.handed :
                 \/ /\ arbiter.handed[i].path = p
                    /\ HandedOn(p)[i] = arbiter.handed[i].words
                 \/ /\ arbiter.handed[i].path # p
                    /\ HandedOn(p)[i] = <<>>
                    /\ DOMAIN HandedOn(p)[i] = {}
  <1> DEFINE n == Len(arbiter.handed)
             h == HandedOn(p)
  <1>1. /\ n \in Nat /\ DOMAIN arbiter.handed = 1 .. n
        /\ \A i \in 1 .. n : arbiter.handed[i].words \in Seq(Words)
    BY HandedParts DEF Exact
  <1>2. <<>> \in Seq(Words) /\ DOMAIN <<>> = {}
    BY EmptySeq
  <1>3. h \in [1 .. n -> Seq(Words)]
    BY <1>1, <1>2 DEF HandedOn
  <1>4. \A i \in 1 .. n :
            \/ arbiter.handed[i].path = p /\ h[i] = arbiter.handed[i].words
            \/ arbiter.handed[i].path # p /\ h[i] = <<>>
    BY <1>1 DEF HandedOn
  <1> HIDE DEF h
  <1>5. h \in Seq(Seq(Words))
    BY <1>1, <1>3, SeqDef, SMTT(60)
  <1> QED BY <1>1, <1>2, <1>3, <1>4, <1>5 DEF h

LEMMA HandedOnOrder ==
    ASSUME NEW w, Exact(arbiter, w), NEW p \in Paths
    PROVE  InOrder(HandedOn(p)) /\ Spread(HandedOn(p)) = Gone(arbiter.handed, p)
  <1> DEFINE h == HandedOn(p)
             handed == arbiter.handed
  <1>1. /\ DOMAIN h = DOMAIN handed
        /\ \A i \in DOMAIN handed :
              \/ handed[i].path = p /\ h[i] = handed[i].words
              \/ handed[i].path # p /\ h[i] = <<>> /\ DOMAIN h[i] = {}
        /\ Delivered(handed, p)
    BY HandedOnIs DEF Exact, Ordered
  <1> HIDE DEF h, handed
  <1>2. ASSUME NEW i \in DOMAIN h, NEW j \in DOMAIN h,
               NEW k \in DOMAIN h[i], NEW l \in DOMAIN h[j],
               i < j \/ (i = j /\ k < l)
        PROVE  h[i][k].n < h[j][l].n
    <2>1. /\ handed[i].path = p /\ h[i] = handed[i].words
          /\ handed[j].path = p /\ h[j] = handed[j].words
      BY <1>1
    <2>2. CASE i < j
      <3>1. Before(handed[i].words, handed[j].words)
        BY <1>1, <2>1, <2>2 DEF Delivered
      <3> QED BY <2>1, <3>1 DEF Before
    <2>3. CASE i = j /\ k < l
      <3>1. Increasing(handed[i].words)
        BY <1>1, <2>1 DEF Delivered
      <3> QED BY <2>1, <2>3, <3>1 DEF Increasing
    <2> QED BY <1>2, <2>2, <2>3
  <1>3. InOrder(h)
    BY <1>2, Zenon DEF InOrder
  <1>4. Spread(h) \subseteq Gone(handed, p)
    <2>1. ASSUME NEW i \in DOMAIN h, NEW x \in Numbers(h[i])
          PROVE  x \in Gone(handed, p)
      <3>1. DOMAIN h[i] # {}
        BY DEF Numbers
      <3>2. handed[i].path = p /\ h[i] = handed[i].words
        BY <1>1, <3>1
      <3> QED BY <1>1, <3>2 DEF Gone
    <2> QED BY <2>1 DEF Spread, Range
  <1>5. Gone(handed, p) \subseteq Spread(h)
    <2>1. ASSUME NEW i \in DOMAIN handed, handed[i].path = p,
                 NEW x \in Numbers(handed[i].words)
          PROVE  x \in Spread(h)
      <3>1. h[i] = handed[i].words /\ i \in DOMAIN h
        BY <1>1, <2>1
      <3> QED BY <3>1 DEF Spread, Range
    <2> QED BY <2>1 DEF Gone
  <1> QED BY <1>3, <1>4, <1>5 DEF h, handed

LEMMA StretchesOrder ==
    ASSUME GInv, NEW p \in Paths
    PROVE  /\ InOrder(Stretches(p))
           /\ NumbersOn(p) = Placed(arbiter, Waiting(fifo), p)
  <1> DEFINE w == Waiting(fifo)
             h == HandedOn(p)
             d == arbiter.streams[p].data
             u == <<d>>
             f == IF p = 3 THEN fifo ELSE <<>>
             v == h \o u
  <1>1. /\ Exact(arbiter, w) /\ Shape(arbiter) /\ w \in Ways /\ d \in Seq(Words)
        /\ Ordered(arbiter, w, p)
    BY SettledInv, ExactParts DEF Settled, Exact
  <1>2. f = w[p]
    BY DEF Waiting
  <1>3. /\ h \in Seq(Seq(Words)) /\ DOMAIN h = DOMAIN arbiter.handed
        /\ \A i \in DOMAIN h :
              \/ /\ arbiter.handed[i].path = p
                 /\ h[i] = arbiter.handed[i].words
              \/ DOMAIN h[i] = {}
        /\ InOrder(h) /\ Spread(h) = Gone(arbiter.handed, p)
    BY <1>1, HandedOnIs, HandedOnOrder
  <1>4. Stretches(p) = v \o f
    BY DEF Stretches, HandedOn
  <1> HIDE DEF w, h, d, f
  <1>5. /\ f \in Seq(Seq(Words)) /\ DOMAIN f = 1 .. Len(f)
        /\ Len(f) \in Nat
    BY <1>1, <1>2, WayParts
  <1>6. /\ u \in Seq(Seq(Words)) /\ DOMAIN u = {1} /\ u[1] = d
    BY <1>1
  <1> HIDE DEF u
  <1>7. InOrder(u) /\ Spread(u) = Numbers(d)
    <2>1. Increasing(d)
      BY <1>1 DEF Ordered, d
    <2>2. \A i, j \in DOMAIN u : i = j /\ ~(i < j)
      BY <1>6
    <2>3. Range(u) = {d}
      BY <1>6 DEF Range
    <2> QED BY <1>6, <2>1, <2>2, <2>3 DEF InOrder, Increasing, Spread
  <1>8. InOrder(f) /\ Spread(f) = Coming(w[p])
    <2>1. InLine(f)
      BY <1>1, <1>2 DEF Ordered
    <2>2. ASSUME NEW i \in DOMAIN f, NEW j \in DOMAIN f,
                 NEW k \in DOMAIN f[i], NEW l \in DOMAIN f[j],
                 i < j \/ (i = j /\ k < l)
          PROVE  f[i][k].n < f[j][l].n
      <3>1. CASE i < j
        BY <2>1, <3>1 DEF InLine, Before
      <3>2. CASE i = j /\ k < l
        BY <2>1, <3>2 DEF InLine, Increasing
      <3> QED BY <2>2, <3>1, <3>2
    <2>3. InOrder(f)
      BY <2>2, Zenon DEF InOrder
    <2>4. Spread(f) = Coming(f)
      BY DEF Spread, Coming, Range
    <2> QED BY <1>2, <2>3, <2>4
  <1>9. AllBefore(h, u)
    BY <1>1, <1>3, <1>6 DEF AllBefore, Ordered, After, Before, d
  <1>10. /\ v \in Seq(Seq(Words)) /\ InOrder(v)
         /\ Spread(v) = Gone(arbiter.handed, p) \cup Numbers(d)
    BY <1>3, <1>6, <1>7, <1>9, InOrderJoined, SpreadJoined
  <1>11. AllBefore(v, f)
    <2>1. ASSUME NEW i \in DOMAIN v, NEW j \in DOMAIN f
          PROVE  Before(v[i], f[j])
      <3>1. \/ i \in DOMAIN h /\ v[i] = h[i]
            \/ v[i] = d
        <4>1. /\ DOMAIN v = 1 .. Len(v) /\ Len(u) = 1
              /\ DOMAIN h = 1 .. Len(h)
              /\ \A c \in 1 .. Len(h) : v[c] = h[c]
              /\ \A c \in 1 .. Len(u) : v[Len(h) + c] = u[c]
              /\ \A c \in 1 .. Len(v) :
                    \/ c \in 1 .. Len(h)
                    \/ c - Len(h) \in 1 .. Len(u) /\ c = Len(h) + (c - Len(h))
          BY <1>3, <1>6, <1>10, JoinedSeq, SeqParts DEF u
        <4>2. \A c \in 1 .. Len(u) : u[c] = d
          BY <1>6, <4>1
        <4> HIDE DEF v
        <4> QED BY <4>1, <4>2
      <3>2. /\ After(arbiter.handed, p, f[j]) /\ Before(d, f[j])
        BY <1>1, <1>2 DEF Ordered, d
      <3>3. ASSUME i \in DOMAIN h, v[i] = h[i] PROVE Before(v[i], f[j])
        BY <1>3, <3>2, <3>3 DEF After, Before
      <3> QED BY <3>1, <3>2, <3>3
    <2> QED BY <2>1 DEF AllBefore
  <1> HIDE DEF v
  <1>12. /\ InOrder(v \o f) /\ Spread(v \o f) = Spread(v) \cup Spread(f)
    BY <1>5, <1>8, <1>10, <1>11, InOrderJoined, SpreadJoined
  <1>13. NumbersOn(p) = Spread(Stretches(p))
    BY DEF NumbersOn, Spread
  <1>14. Placed(arbiter, w, p) =
            Numbers(d) \cup Gone(arbiter.handed, p) \cup Coming(w[p])
    BY DEF Placed, d
  <1>15. Spread(Stretches(p)) = (Gone(arbiter.handed, p) \cup Numbers(d)) \cup Coming(w[p])
    BY <1>4, <1>8, <1>10, <1>12
  <1> QED BY <1>4, <1>12, <1>13, <1>14, <1>15 DEF w

LEMMA InvTypeOK == ASSUME GInv PROVE TypeOK
  <1>1. /\ Exact(arbiter, Waiting(fifo)) /\ Shape(arbiter) /\ arbiter \in Arbiters
        /\ arbiter.arrived \in Nat /\ arbiter.arrived <= MaxWords
    BY SettledInv, ExactParts DEF Settled, Shape, GInv
  <1>2. MaxWords \in Nat /\ MaxInvocations \in Nat /\ MaxControls \in Nat
    BY ConstantsAssumption
  <1>3. DOMAIN arbiter = DOMAIN EmptyArbiter
    <2>1. DOMAIN EmptyArbiter =
              {"streams", "queue", "reservations", "arrived", "lost", "handed"}
      BY DEF EmptyArbiter
    <2>2. \A a \in Arbiters : DOMAIN a =
              {"streams", "queue", "reservations", "arrived", "lost", "handed"}
      BY DEF Arbiters
    <2> QED BY <1>1, <2>1, <2>2
  <1>4. ASSUME NEW p \in Paths
        PROVE  /\ Len(arbiter.streams[p].data) <= MaxStream
               /\ \A f \in Flags : arbiter.streams[p][f] \in BOOLEAN
    <2>1. Len(arbiter.streams[p].data) <= MaxStream
      BY <1>1 DEF Exact, Parsing
    <2>2. /\ arbiter.streams[p].path2DirectHl \in BOOLEAN
          /\ arbiter.streams[p].packetContainsImage \in BOOLEAN
      BY <1>1, StreamParts
    <2> QED BY <2>1, <2>2 DEF Flags
  <1>5. pending \in 0 .. MaxInvocations
    <2>1. nextToken \in 1 .. MaxInvocations + 1 /\ pending \in 0 .. nextToken - 1
      BY DEF GInv, ScalarsOK
    <2> QED BY <1>2, <2>1
  <1>6. arbiter.arrived \in 0 .. MaxWords
    BY <1>1, <1>2
  <1>7. /\ nextToken \in 1 .. MaxInvocations + 1
        /\ {vifMask, modeMask, stopped} \subseteq BOOLEAN
        /\ controls \in 0 .. MaxControls
    BY DEF GInv, ScalarsOK
  <1> QED BY <1>3, <1>4, <1>5, <1>6, <1>7 DEF TypeOK

LEMMA InvTiles == ASSUME GInv PROVE PacketsTileStreams
  <1>1. Tiled(arbiter) /\ \A p \in Paths : Parsing(arbiter, p)
    BY DEF GInv, Exact
  <1>2. \A i \in DOMAIN arbiter.queue :
            LET q == arbiter.queue[i] IN
            /\ q.offset = Consumed(arbiter.queue, i - 1, q.path)
            /\ q.path2DirectHl =
                  AnyHl(arbiter.streams[q.path].data, q.offset, q.offset + q.size)
    BY <1>1 DEF Tiled, End
  <1>3. \A p \in Paths :
            LET s == arbiter.streams[p] IN
            /\ s.packetStart = Consumed(arbiter.queue, Len(arbiter.queue), p)
            /\ s.packetStart <= s.parseOffset /\ s.parseOffset <= Len(s.data)
            /\ s.packetStart < Len(s.data) =>
                  s.path2DirectHl = AnyHl(s.data, s.packetStart, Len(s.data))
    BY <1>1 DEF Tiled, Parsing
  <1> QED BY <1>2, <1>3 DEF PacketsTileStreams

LEMMA InvOrder == ASSUME GInv PROVE PathsKeepOrder
  <1>1. Kept(arbiter, Waiting(fifo))
    BY DEF GInv, Exact
  <1>2. \A p \in Paths :
            /\ InOrder(Stretches(p))
            /\ NumbersOn(p) = Placed(arbiter, Waiting(fifo), p)
    BY StretchesOrder
  <1>3. \A p \in Paths :
            LET words == Stretches(p) IN
            \A i, j \in DOMAIN words :
                \A k \in DOMAIN words[i], l \in DOMAIN words[j] :
                    i < j \/ (i = j /\ k < l) => words[i][k].n < words[j][l].n
    BY <1>2, Zenon DEF InOrder
  <1>4. /\ 1 .. arbiter.arrived =
              arbiter.lost \cup UNION {NumbersOn(p) : p \in Paths}
        /\ \A p \in Paths :
              /\ NumbersOn(p) \cap arbiter.lost = {}
              /\ \A q \in Paths \ {p} : NumbersOn(p) \cap NumbersOn(q) = {}
    BY <1>1, <1>2 DEF Kept
  <1> QED BY <1>3, <1>4 DEF PathsKeepOrder

LEMMA InvHanded == ASSUME GInv PROVE HandedInOrder
  <1>1. PlaceKept(arbiter.handed) /\ ImageKept(arbiter.handed)
    BY DEF GInv, InPlace
  <1>2. FuturePath1First
    <2>1. ASSUME NEW i \in DOMAIN arbiter.handed, NEW j \in DOMAIN arbiter.handed,
                 i < j, arbiter.handed[i].path # 1, arbiter.handed[j].path = 1,
                 NEW w \in Range(arbiter.handed[i].words),
                 NEW v \in Range(arbiter.handed[j].words)
          PROVE  w.n < v.since
      <3>1. PICK k \in DOMAIN arbiter.handed[i].words :
                w = arbiter.handed[i].words[k]
        BY DEF Range
      <3>2. PICK l \in DOMAIN arbiter.handed[j].words :
                v = arbiter.handed[j].words[l]
        BY DEF Range
      <3> QED BY <1>1, <2>1, <3>1, <3>2 DEF PlaceKept
    <2> QED BY <2>1 DEF FuturePath1First
  <1>3. DirectHlBehindImage
    BY <1>1 DEF DirectHlBehindImage, ImageKept
  <1> QED BY <1>2, <1>3 DEF HandedInOrder

\* For any transfers: the queued packets tile the buffers of their paths, a
\* packet is DIRECTHL exactly if part of it came so, each path keeps the order
\* of its words, and a word is lost only by an overflow or a GIF reset.
THEOREM StreamsAlwaysExact == Spec => []StreamsExact
  <1>1. GInv => StreamsExact
    BY InvTypeOK, InvTiles, InvOrder DEF StreamsExact
  <1> QED BY <1>1, GifArbiterInvariant, PTL

\* The packets of a VU program reach the GS before whatever came after its
\* start, and no IMAGE packet behind a DIRECTHL packet but one that was not
\* complete, or was held back, when that was admitted.
THEOREM AlwaysHandedInOrder == Spec => []HandedInOrder
  <1>1. GInv => HandedInOrder
    BY InvHanded
  <1> QED BY <1>1, GifArbiterInvariant, PTL
=============================================================================
