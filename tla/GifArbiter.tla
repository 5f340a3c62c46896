------------------------------ MODULE GifArbiter ------------------------------
(***************************************************************************)
(* The GIF arbiter (ps2_gif_arbiter.cpp) with the callers that feed it:     *)
(* VIF1 DIRECT and DIRECTHL (PATH2), GIF DMA and the packets held while     *)
(* PATH3 is masked (PATH3), and the coarse VU1 invocation whose PATH1       *)
(* output is only known when it is published and which reserves its place   *)
(* before.  All of it runs on the thread that owns the EE.                  *)
(*                                                                          *)
(* A word is one quadword.  Whichever word stands where a GIF tag is        *)
(* expected is read as one: size is its length in words with its payload.   *)
(* A word carries what the observer needs: its arrival number n, whether it *)
(* came by DIRECTHL, and since: the first arrival that may be handed over   *)
(* behind it although it came before it.  That is the first after its place *)
(* was reserved for a word of PATH1, the oldest that is held back when it   *)
(* is admitted for one of PATH2, and otherwise its own.                     *)
(***************************************************************************)
EXTENDS Integers, SequencesExt, FiniteSetsExt

CONSTANTS
    Chunks,        \* what one PATH2 or PATH3 transfer may carry
    Packets,       \* what one XGKICK of the VU may carry: whole packets
    MaxStream,     \* kMaxBufferedGifPathBytes, in words
    MaxWords,      \* bound: words that ever arrive
    MaxInvocations,\* bound: reservations ever made
    MaxControls    \* bound: writes of the masks and GIF resets

\* What gifTagSize() reads of a tag; 32767 loops of 16 registers, the most a
\* tag can announce, are far from the limit of a stream.
Tags == [size : 1 .. MaxStream, eop : BOOLEAN, image : BOOLEAN]

\* The words are packets without an end missing: whoever reads a tag, goes on
\* behind its payload and so forth, reaches the end of the words at the end of
\* a packet.  advanceXgkick() collects them like that, tag by tag, before it
\* gives them to PATH1.
Whole(words) ==
    \E tags \in SUBSET DOMAIN words :
        /\ 1 \in tags
        /\ \A t \in tags :
              t + words[t].size \in
                  tags \cup (IF words[t].eop THEN {Len(words) + 1} ELSE {})

ASSUME ConstantsAssumption ==
    /\ MaxStream \in Nat \ {0}
    /\ {MaxWords, MaxInvocations, MaxControls} \subseteq Nat
    /\ Chunks \cup Packets \subseteq Seq(Tags) \ {<<>>}
    /\ \A packet \in Packets : Whole(packet)

Paths == 1 .. 3

VARIABLES
    arbiter,       \* m_pathStreams, m_queue, m_path1Reservations, and what
                   \* an observer of the GIF has seen: the words that have
                   \* arrived, the numbers of those dropped by an overflow or
                   \* a GIF reset, the packets handed to the GS in order
    nextToken,     \* m_nextPath1ReservationToken
    pending,       \* token of the unpublished coarse invocation, 0 for none
    fifo,          \* m_path3MaskedFifo
    vifMask,       \* m_path3Masked
    modeMask,      \* m_gifModePath3Masked
    stopped,       \* the failed invocation has ended the guest
    controls,      \* observer: writes of the masks and resets so far
    reservedAt     \* observer: arrivals when the pending place was reserved

vars == <<arbiter, nextToken, pending, fifo, vifMask, modeMask, stopped,
          controls, reservedAt>>

EmptyStream ==
    [data |-> <<>>, packetStart |-> 0, parseOffset |-> 0,
     path2DirectHl |-> FALSE, packetContainsImage |-> FALSE]

EmptyStreams == [p \in Paths |-> EmptyStream]

EmptyArbiter ==
    [streams |-> EmptyStreams, queue |-> <<>>, reservations |-> <<>>,
     arrived |-> 0, lost |-> {}, handed |-> <<>>]

Init ==
    /\ arbiter = EmptyArbiter
    /\ nextToken = 1
    /\ pending = 0
    /\ fifo = <<>>
    /\ vifMask = FALSE
    /\ modeMask = FALSE
    /\ stopped = FALSE
    /\ controls = 0
    /\ reservedAt = 0

\* The numbers of words.
Numbers(words) == {words[i].n : i \in DOMAIN words}

-----------------------------------------------------------------------------
(* submit().                                                                *)

DropIncompletePacket(s) ==
    [s EXCEPT !.data = SubSeq(@, 1, s.packetStart),
              !.parseOffset = s.packetStart,
              !.path2DirectHl = FALSE,
              !.packetContainsImage = FALSE]

\* Mutant: the flag of a DIRECTHL chunk sticks to the packet that begins with
\* the next chunk.
ParseTagKeepsDirectHl(a, path, hl) ==
    LET s == a.streams[path]
        tag == s.data[s.parseOffset + 1]
        offset == s.parseOffset + tag.size
        image == s.packetContainsImage \/ tag.image
        packet == [path |-> path,
                   path2DirectHl |-> path = 2 /\ s.path2DirectHl,
                   path3Image |-> path = 3 /\ image,
                   offset |-> s.packetStart,
                   size |-> offset - s.packetStart]
    IN  IF s.parseOffset = Len(s.data) \/ offset > Len(s.data) THEN a
        ELSE IF ~ tag.eop
        THEN [a EXCEPT !.streams[path] =
                 [s EXCEPT !.parseOffset = offset,
                           !.packetContainsImage = image]]
        ELSE [a EXCEPT !.queue = Append(@, packet),
                       !.streams[path] =
                           [s EXCEPT !.parseOffset = offset,
                                     !.packetStart = offset]]

\* One turn of the parse loop; an incomplete tag leaves everything as it is.
ParseTag(a, path, hl) ==
    LET s == a.streams[path]
        tag == s.data[s.parseOffset + 1]
        offset == s.parseOffset + tag.size
        image == s.packetContainsImage \/ tag.image
        packet == [path |-> path,
                   path2DirectHl |-> path = 2 /\ s.path2DirectHl,
                   path3Image |-> path = 3 /\ image,
                   offset |-> s.packetStart,
                   size |-> offset - s.packetStart]
    IN  IF s.parseOffset = Len(s.data) \/ offset > Len(s.data) THEN a
        ELSE IF ~ tag.eop
        THEN [a EXCEPT !.streams[path] =
                 [s EXCEPT !.parseOffset = offset,
                           !.packetContainsImage = image]]
        ELSE [a EXCEPT !.queue = Append(@, packet),
                       !.streams[path] =
                           [s EXCEPT !.parseOffset = offset,
                                     !.packetStart = offset,
                                     !.packetContainsImage = FALSE,
                                     !.path2DirectHl =
                                         offset < Len(s.data) /\ hl]]

\* The parse loop: n turns are enough for a stream of n words.
Parsed(a, path, hl, n) ==
    LET turn[k \in 0 .. n] ==
            IF k = 0 THEN a ELSE ParseTag(turn[k - 1], path, hl)
    IN  turn[n]

Submit(a, path, chunk, hl) ==
    LET s == a.streams[path]
        flagged == [s EXCEPT !.path2DirectHl =
                       hl \/ (@ /\ s.packetStart # Len(s.data))]
        grown == [flagged EXCEPT !.data = @ \o chunk]
        kept == DropIncompletePacket(flagged)
    IN  IF Len(grown.data) > MaxStream
        THEN [a EXCEPT !.streams[path] = kept,
                       !.lost = @ \cup (Numbers(grown.data) \ Numbers(kept.data))]
        ELSE Parsed([a EXCEPT !.streams[path] = grown], path, hl,
                    Len(grown.data))

-----------------------------------------------------------------------------
(* drain() and takeDrainBatch().                                            *)

\* The comparator of the sort.
Precedes(a, b) ==
    IF a.path3Image /\ b.path2DirectHl THEN TRUE
    ELSE IF a.path2DirectHl /\ b.path3Image THEN FALSE
    ELSE a.path < b.path

\* Mutant: the queue is drained in the order of arrival.
InsertLast(sorted, packet) == Append(sorted, packet)

\* std::stable_sort of a few packets is an insertion sort: a packet that
\* precedes the first goes to the front, any other is moved forward past those
\* it precedes, up to the first it does not.
Insert(sorted, packet) ==
    LET kept == {i \in DOMAIN sorted : ~ Precedes(packet, sorted[i])}
        at == IF sorted = <<>> \/ Precedes(packet, sorted[1])
              THEN 1 ELSE Max(kept) + 1
    IN  InsertAt(sorted, at, packet)

Sorted(queue) ==
    LET sorted[n \in 0 .. Len(queue)] ==
            IF n = 0 THEN <<>> ELSE Insert(sorted[n - 1], queue[n])
    IN  sorted[Len(queue)]

\* The bytes of a stream up to the end of the last of its complete packets
\* among the first n.
Consumed(queue, n, path) ==
    Max({0} \cup {queue[i].offset + queue[i].size :
                     i \in {j \in 1 .. n : queue[j].path = path}})

\* What is left of a stream once its complete packets are taken.
Rest(s, consumed) ==
    IF consumed = 0 \/ consumed > Len(s.data) THEN s
    ELSE [data |-> SubSeq(s.data, consumed + 1, Len(s.data)),
          packetStart |-> 0,
          parseOffset |-> s.parseOffset - consumed,
          path2DirectHl |-> s.path2DirectHl /\ consumed # Len(s.data),
          packetContainsImage |->
              s.packetContainsImage /\ consumed # Len(s.data)]

Owned(packet, streams) ==
    [path |-> packet.path,
     path2DirectHl |-> packet.path2DirectHl,
     path3Image |-> packet.path3Image,
     words |-> SubSeq(streams[packet.path].data, packet.offset + 1,
                      packet.offset + packet.size)]

Drain(a) ==
    LET sorted == Sorted(a.queue)
    IN  IF a.queue = <<>> \/ a.reservations # <<>> THEN a
        ELSE [a EXCEPT !.handed =
                           @ \o [i \in DOMAIN sorted |->
                                    Owned(sorted[i], a.streams)],
                       !.streams = [p \in Paths |->
                           Rest(a.streams[p],
                                Consumed(a.queue, Len(a.queue), p))],
                       !.queue = <<>>]

ReleasePath1(a, token) ==
    [a EXCEPT !.reservations = RemoveFirst(@, token)]

\* reset(), with the transfers that are dropped beside it.
Reset(a, held) ==
    [a EXCEPT !.streams = EmptyStreams,
              !.queue = <<>>,
              !.reservations = <<>>,
              !.lost = @ \cup (UNION {Numbers(a.streams[p].data) : p \in Paths})
                         \cup (UNION {Numbers(held[i]) : i \in DOMAIN held})]

CanAcceptPath2(a, hl) ==
    /\ a.reservations = <<>>
    /\ hl => \A i \in DOMAIN a.queue : ~ a.queue[i].path3Image

-----------------------------------------------------------------------------
(* PS2Memory.                                                               *)

Masked == vifMask \/ modeMask

\* The words of a chunk as they arrive, and that they have.
Arriving(a, chunk, hl, since) ==
    [i \in DOMAIN chunk |->
        [size |-> chunk[i].size, eop |-> chunk[i].eop,
         image |-> chunk[i].image, hl |-> hl, n |-> a.arrived + i,
         since |-> IF since = 0 THEN a.arrived + i ELSE since]]

Received(a, chunk) == [a EXCEPT !.arrived = @ + Len(chunk)]

FlushMaskedPath3Packets(a) ==
    LET flushed[n \in 0 .. Len(fifo)] ==
            IF n = 0 THEN a ELSE Submit(flushed[n - 1], 3, fifo[n], FALSE)
    IN  flushed[Len(fifo)]

\* The oldest arrival that is held back, 0 for none.
OldestHeld == IF fifo = <<>> THEN 0 ELSE fifo[1][1].n

\* VIF1 DIRECT and DIRECTHL; a command that is not admitted waits in VIF1.
\* What is held back of PATH3 is not asked about.
Direct(chunk, hl) ==
    /\ ~ stopped
    /\ CanAcceptPath2(arbiter, hl)
    /\ arbiter.arrived + Len(chunk) <= MaxWords
    /\ arbiter' = Drain(Submit(Received(arbiter, chunk), 2,
                               Arriving(arbiter, chunk, hl, OldestHeld), hl))
    /\ UNCHANGED <<nextToken, pending, fifo, vifMask, modeMask, stopped,
                   controls, reservedAt>>

\* Mutant: what is held back is only looked at when a mask of VIF1 is lifted.
ProcessWithoutFlush(chunk) ==
    LET words == Arriving(arbiter, chunk, FALSE, 0)
        received == Received(arbiter, chunk)
    IN  /\ ~ stopped
        /\ arbiter.arrived + Len(chunk) <= MaxWords
        /\ IF Masked
           THEN /\ fifo' = Append(fifo, words)
                /\ arbiter' = received
           ELSE /\ arbiter' = Drain(Submit(received, 3, words, FALSE))
                /\ fifo' = fifo
        /\ UNCHANGED <<nextToken, pending, vifMask, modeMask, stopped, controls,
                       reservedAt>>

\* A PATH3 transfer goes behind the ones held back, or joins them.
ProcessGifPacket(chunk) ==
    LET words == Arriving(arbiter, chunk, FALSE, 0)
        received == Received(arbiter, chunk)
    IN  /\ ~ stopped
        /\ arbiter.arrived + Len(chunk) <= MaxWords
        /\ IF Masked
           THEN /\ fifo' = Append(fifo, words)
                /\ arbiter' = received
           ELSE /\ arbiter' = Drain(Submit(FlushMaskedPath3Packets(received),
                                           3, words, FALSE))
                /\ fifo' = <<>>
        /\ UNCHANGED <<nextToken, pending, vifMask, modeMask, stopped, controls,
                       reservedAt>>

\* MSKPATH3: what was held back goes on if this lifts the last mask, not if
\* none was left.  To write the mask that is there changes nothing, here and
\* below, and is left to stuttering.
SetVifMask(mask) ==
    /\ ~ stopped
    /\ controls < MaxControls
    /\ controls' = controls + 1
    /\ mask # vifMask
    /\ vifMask' = mask
    /\ IF Masked /\ ~ (mask \/ modeMask) /\ fifo # <<>>
       THEN /\ arbiter' = Drain(FlushMaskedPath3Packets(arbiter))
            /\ fifo' = <<>>
       ELSE UNCHANGED <<arbiter, fifo>>
    /\ UNCHANGED <<nextToken, pending, modeMask, stopped, reservedAt>>

\* The reset of VIF1 by FBRST lifts its mask in the same way.
ResetVif1 == SetVifMask(FALSE)

\* A write of GIF_MODE.  What was held back stays where it is: it goes before
\* the next transfer of PATH3, or when the mask of VIF1 is set and lifted.
WriteGifMode(mask) ==
    /\ ~ stopped
    /\ controls < MaxControls
    /\ controls' = controls + 1
    /\ mask # modeMask
    /\ modeMask' = mask
    /\ UNCHANGED <<arbiter, nextToken, pending, fifo, vifMask, stopped,
                   reservedAt>>

\* The reset bit of GIF_CTRL.  A pending invocation keeps its stale token.
GifReset ==
    /\ ~ stopped
    /\ controls < MaxControls
    /\ controls' = controls + 1
    /\ arbiter' = Reset(arbiter, fifo)
    /\ fifo' = <<>>
    /\ modeMask' = FALSE
    /\ UNCHANGED <<nextToken, pending, vifMask, stopped, reservedAt>>

-----------------------------------------------------------------------------
(* The coarse VU1 invocation of PS2Runtime.                                 *)

SubmitVu1CoarseInvocation ==
    /\ ~ stopped
    /\ pending = 0
    /\ nextToken <= MaxInvocations
    /\ arbiter' = [arbiter EXCEPT !.reservations = Append(@, nextToken)]
    /\ pending' = nextToken
    /\ nextToken' = nextToken + 1
    /\ reservedAt' = arbiter.arrived + 1
    /\ UNCHANGED <<fifo, vifMask, modeMask, stopped, controls>>

\* Each packet of the invocation is submitted and drained, which does nothing
\* as long as the place is reserved.
Published(a, packets, since) ==
    LET after[n \in 0 .. Len(packets)] ==
            IF n = 0 THEN a
            ELSE Drain(Submit(Received(after[n - 1], packets[n]), 1,
                              Arriving(after[n - 1], packets[n], FALSE, since),
                              FALSE))
    IN  after[Len(packets)]

\* The place is given up when all is published.
PublishVu1CoarseInvocation(packets) ==
    LET since == IF pending \in Range(arbiter.reservations)
                 THEN reservedAt ELSE 0
    IN  /\ ~ stopped
        /\ pending # 0
        /\ arbiter' = Drain(ReleasePath1(Published(arbiter, packets, since),
                                         pending))
        /\ arbiter'.arrived <= MaxWords
        /\ pending' = 0
        /\ reservedAt' = 0
        /\ UNCHANGED <<nextToken, fifo, vifMask, modeMask, stopped, controls>>

\* discardVu1CoarseInvocationAfterFailure(), and the same at shutdown: the
\* place is given up, nothing is drained and the guest does not go on.
DiscardVu1CoarseInvocation ==
    /\ ~ stopped
    /\ pending # 0
    /\ arbiter' = ReleasePath1(arbiter, pending)
    /\ pending' = 0
    /\ reservedAt' = 0
    /\ stopped' = TRUE
    /\ UNCHANGED <<nextToken, fifo, vifMask, modeMask, controls>>

Next ==
    \/ \E chunk \in Chunks :
          \/ \E hl \in BOOLEAN : Direct(chunk, hl)
          \/ ProcessGifPacket(chunk)
    \/ \E mask \in BOOLEAN : SetVifMask(mask) \/ WriteGifMode(mask)
    \/ ResetVif1
    \/ GifReset
    \/ SubmitVu1CoarseInvocation
    \/ \E packets \in SeqOf(Packets, 2) : PublishVu1CoarseInvocation(packets)
    \/ DiscardVu1CoarseInvocation

Spec == Init /\ [][Next]_vars

-----------------------------------------------------------------------------
Flags == {"path2DirectHl", "packetContainsImage"}

TypeOK ==
    /\ DOMAIN arbiter = DOMAIN EmptyArbiter
    /\ \A p \in Paths :
          /\ Len(arbiter.streams[p].data) <= MaxStream
          /\ \A f \in Flags : arbiter.streams[p][f] \in BOOLEAN
    /\ nextToken \in 1 .. MaxInvocations + 1
    /\ pending \in 0 .. MaxInvocations
    /\ {vifMask, modeMask, stopped} \subseteq BOOLEAN
    /\ arbiter.arrived \in 0 .. MaxWords
    /\ controls \in 0 .. MaxControls

\* The flag the words from one offset to another deserve: some of them came
\* by DIRECTHL.
AnyHl(words, from, to) == \E i \in from + 1 .. to : words[i].hl

\* The queued packets of a path lie end to end from the start of its buffer to
\* packetStart, so that slicing the buffer at a drain hands the GS exactly
\* their bytes, and a packet is DIRECTHL exactly if part of it came that way.
PacketsTileStreams ==
    LET queue == arbiter.queue
        data(p) == arbiter.streams[p].data
    IN  /\ \A i \in DOMAIN queue :
              LET q == queue[i] IN
              /\ q.offset = Consumed(queue, i - 1, q.path)
              /\ q.path2DirectHl =
                    AnyHl(data(q.path), q.offset, q.offset + q.size)
        /\ \A p \in Paths :
              LET s == arbiter.streams[p] IN
              /\ s.packetStart = Consumed(queue, Len(queue), p)
              /\ s.packetStart <= s.parseOffset /\ s.parseOffset <= Len(data(p))
              /\ s.packetStart < Len(data(p)) =>
                    s.path2DirectHl = AnyHl(data(p), s.packetStart, Len(data(p)))

\* The words of a path that are not lost, in the order in which they travel:
\* handed over packet by packet, buffered, then held back.
Stretches(path) ==
    [i \in DOMAIN arbiter.handed |->
        IF arbiter.handed[i].path = path THEN arbiter.handed[i].words ELSE <<>>]
      \o <<arbiter.streams[path].data>>
      \o (IF path = 3 THEN fifo ELSE <<>>)

NumbersOn(path) == UNION {Numbers(words) : words \in Range(Stretches(path))}

\* Each path delivers its words in the order of their arrival, every word is
\* on one path, once, and none disappears but by an overflow or a reset of the
\* GIF.
PathsKeepOrder ==
    /\ \A p \in Paths :
          LET words == Stretches(p) IN
          \A i, j \in DOMAIN words :
              \A k \in DOMAIN words[i], l \in DOMAIN words[j] :
                  i < j \/ (i = j /\ k < l) => words[i][k].n < words[j][l].n
    /\ 1 .. arbiter.arrived =
          arbiter.lost \cup UNION {NumbersOn(p) : p \in Paths}
    /\ \A p \in Paths :
          /\ NumbersOn(p) \cap arbiter.lost = {}
          /\ \A q \in Paths \ {p} : NumbersOn(p) \cap NumbersOn(q) = {}

\* The arbiter's buffers are exact and no path loses or reorders anything.
StreamsExact == TypeOK /\ PacketsTileStreams /\ PathsKeepOrder

\* "Reserve its place before allowing later GIF paths to drain"
\* (ps2_gif_arbiter.h): whatever PATH2 or PATH3 sent after the VU1 program was
\* started reaches the GS behind the PATH1 packets of that program, however
\* much later those are published.
FuturePath1First ==
    LET handed == arbiter.handed IN
    \A i, j \in DOMAIN handed :
        i < j /\ handed[i].path # 1 /\ handed[j].path = 1 =>
            \A w \in Range(handed[i].words), v \in Range(handed[j].words) :
                w.n < v.since

\* "DIRECTHL cannot preempt PATH3 IMAGE transfers." (takeDrainBatch): an IMAGE
\* packet handed over behind a DIRECTHL packet was not complete when that was
\* admitted, or was still held back by PS2Memory.
DirectHlBehindImage ==
    LET handed == arbiter.handed IN
    \A i, j \in DOMAIN handed :
        i < j /\ handed[i].path2DirectHl /\ handed[j].path3Image =>
            Last(handed[i].words).since <= Last(handed[j].words).n

\* What the GS is handed respects the reserved places and the transfers
\* DIRECTHL may not interrupt.
HandedInOrder == FuturePath1First /\ DirectHlBehindImage
=============================================================================
