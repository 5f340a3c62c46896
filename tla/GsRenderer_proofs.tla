-------------------------- MODULE GsRenderer_proofs --------------------------
(***************************************************************************)
(* Every command and every read of the GS sees the memory of command order, *)
(* for any set of pages, any limits of a batch and of a deferred run and    *)
(* any number of calls.                                                     *)
(*                                                                          *)
(* Memory(r) takes of each page the copy that the ledger does not call      *)
(* older and Settled(r) draws on it what is queued or batched.  The calls   *)
(* that only move pages or draw what waits keep Settled (Goes), handing a   *)
(* command to a backend draws it on Settled (Draws), and what a command     *)
(* needs is what Settled shows when its turn comes (Sound).  Kept adds what *)
(* the router keeps between the calls, Captured what the frontend keeps.    *)
(* Shape is what even a renderer that threw keeps: its owner destroys it.   *)
(***************************************************************************)
EXTENDS GsRenderer, FiniteSetTheorems, SequenceTheorems, WellFoundedInduction, TLAPS

-----------------------------------------------------------------------------
(* The invariant.                                                           *)

Backends == {"None", "Software", "Accelerated"}

PageValues == [Pages -> Nat]

Commands ==
    [kind : Kinds, frame : Pages, sampled : PageSets, depth : {1, 2},
     needs : PageValues, feed : PageValues]

Images == [at : PageValues, held : BOOLEAN]

BatchSnapshots ==
    [mode : {"UploadHost", "CaptureResident", "ReuseResident"},
     image : Images, generation : Nat]

Residents == [valid : BOOLEAN, image : Images, generation : Nat]

Snapshots ==
    [valid : BOOLEAN, base : Pages \cup {"None"}, onDevice : BOOLEAN,
     truth : PageValues, generation : Nat]

Ledgers == [cpu : PageValues, gpu : PageValues, next : Nat \ {0}]

Fields ==
    {"mode", "active", "deferred", "tail", "inBatch", "queue", "batch",
     "batchReads", "batchWrites", "batchTextures", "batchSnapshot", "resident",
     "snapshot", "host", "ledger", "cpu", "gpu", "order", "failed", "shutDown",
     "threw", "recursing", "broken", "misread", "misfed", "serves"}

\* The frontend has a copy of the memory for what samples its own frame.
OnHost(r) == r.snapshot.valid /\ ~r.snapshot.onDevice

TypedFront(r) ==
    /\ r.mode \in Modes
    /\ {r.inBatch, r.shutDown} \subseteq BOOLEAN
    /\ r.snapshot \in Snapshots
    /\ r.host \in Images
    /\ r.order \in PageValues

TypedRouter(r) ==
    /\ r.active \in Backends
    /\ {r.queue, r.deferred} \subseteq Seq(Commands)

TypedBackend(r) ==
    /\ r.batch \in Seq(Commands)
    /\ {r.batchReads, r.batchWrites, r.batchTextures} \subseteq PageSets
    /\ r.batchSnapshot \in BatchSnapshots
    /\ r.resident \in Residents

TypedMemory(r) == r.ledger \in Ledgers /\ {r.cpu, r.gpu} \subseteq PageValues

TypedFlags(r) ==
    {r.failed, r.threw, r.recursing, r.broken, r.misread, r.misfed}
        \subseteq BOOLEAN

Shape(r) ==
    /\ DOMAIN r = Fields
    /\ TypedFront(r) /\ TypedRouter(r) /\ TypedBackend(r)
    /\ TypedMemory(r) /\ TypedFlags(r)
    /\ Len(r.batch) <= MaxBatch
    /\ OnHost(r) => r.host.held
    /\ \A i \in DOMAIN r.deferred :
          /\ r.deferred[i].kind \in Deferrable
          /\ r.deferred[i].kind \in Recursive => OnHost(r)
    /\ ~r.broken

\* The newer copy of each page.
Newer(ledger, cpu, gpu) ==
    [p \in Pages |-> IF ledger.gpu[p] > ledger.cpu[p] THEN gpu[p] ELSE cpu[p]]

Memory(r) == Newer(r.ledger, r.cpu, r.gpu)

Settled(r) == DrawnAll(DrawnAll(Memory(r), r.queue), r.batch)

\* Two copies of the same age are equal, but for pages that were drawn on and
\* are not yet noted.
Agree(r, unnoted) ==
    \A p \in Pages :
        /\ r.ledger.cpu[p] < r.ledger.next /\ r.ledger.gpu[p] < r.ledger.next
        /\ p \in unnoted => r.ledger.gpu[p] <= r.ledger.cpu[p]
        /\ p \notin unnoted /\ r.ledger.gpu[p] = r.ledger.cpu[p] =>
              r.cpu[p] = r.gpu[p]

\* The commands of the queue find their pages in the CPU's copy, which is
\* already noted as the newer where they write.
QueueOK(r, unnoted) ==
    /\ ~MisreadAny(Memory(r), r.queue, TRUE)
    /\ \A i \in DOMAIN r.queue :
          /\ \A p \in DirectReads(r.queue[i]) \cup Writes(r.queue[i]) :
                r.ledger.gpu[p] <= r.ledger.cpu[p]
          /\ \A p \in Writes(r.queue[i]) \ unnoted :
                r.ledger.gpu[p] < r.ledger.cpu[p]

BatchOK(r) ==
    /\ ~MisreadAny(Memory(r), r.batch, TRUE)
    /\ r.batchWrites = WritesOf(r.batch)
    /\ \A i \in DOMAIN r.batch :
          /\ r.batch[i].kind = Pipeline(r)
          /\ r.batch[i].kind \in DeviceKinds
          /\ DirectReads(r.batch[i]) \subseteq r.batchReads
          /\ r.batch[i].kind \notin Ordered =>
                \A j \in 1 .. i - 1 :
                    Writes(r.batch[j]) \cap
                        (DirectReads(r.batch[i]) \cup Writes(r.batch[i])) = {}
    /\ Pipeline(r) = "FeedbackNearest" => SampledImage(r).held
    /\ Pipeline(r) = "FeedbackLinear" => OnHost(r)

\* The device's image of a run is there once the run's batch is drained.
Captured(r) ==
    r.snapshot.valid /\ r.snapshot.onDevice =>
        r.resident.valid \/ Pipeline(r) = "FeedbackNearest"

Sound(r, unnoted) ==
    /\ Shape(r) /\ Alive(r) /\ ~r.failed /\ ~r.misread
    /\ Agree(r, unnoted)
    /\ r.queue = <<>> \/ r.batch = <<>>
    /\ QueueOK(r, unnoted)
    /\ BatchOK(r)
    /\ r.resident.valid => r.resident.image.held

Backed(r) ==
    /\ r.queue # <<>> => r.active = "Software"
    /\ r.batch # <<>> => r.active = "Accelerated"

\* What the memory will be once nothing waits.
Truth(r) == DrawnAll(Settled(r), r.deferred)

Whole(r) ==
    /\ Sound(r, {})
    /\ Backed(r)
    /\ ~MisreadAny(Settled(r), r.deferred, TRUE)
    /\ Truth(r) = r.order
    /\ r.tail # NoTail => r.active = "Accelerated" /\ r.deferred = <<>>
    /\ r.mode # "Hybrid" => r.tail = NoTail /\ r.deferred = <<>>
    /\ Len(r.deferred) < MaxDeferred
    /\ Captured(r)

RInv ==
    /\ operations \in 0 .. MaxOperations
    /\ Shape(renderer)
    /\ ~renderer.misread
    /\ Alive(renderer) /\ ~renderer.shutDown => ~renderer.failed
    /\ Alive(renderer) /\ ~renderer.failed => Whole(renderer)
    /\ Alive(renderer) => Len(renderer.deferred) < MaxDeferred
    /\ Alive(renderer) /\ ~renderer.failed /\ renderer.shutDown =>
          renderer.cpu = renderer.order

-----------------------------------------------------------------------------
(* Commands and what they draw.                                             *)

LEMMA CommandPages ==
    ASSUME NEW c \in Commands
    PROVE  /\ Reads(c) \subseteq Pages /\ Writes(c) \subseteq Pages
           /\ DirectReads(c) \subseteq Reads(c)
           /\ c.frame \in Pages /\ c.sampled \subseteq Pages
           /\ c.kind \notin EmptyKinds => Writes(c) = {c.frame}
  BY DEF Commands, PageSets, Reads, Writes, DirectReads

LEMMA SequenceParts ==
    ASSUME NEW commands \in Seq(Commands)
    PROVE  /\ Len(commands) \in Nat
           /\ DOMAIN commands = 1 .. Len(commands)
           /\ \A i \in 1 .. Len(commands) : commands[i] \in Commands
           /\ commands = <<>> <=> Len(commands) = 0
  BY LenProperties, ElementOfSeq, EmptySeq

LEMMA AppendParts ==
    ASSUME NEW commands \in Seq(Commands), NEW c \in Commands
    PROVE  LET longer == Append(commands, c) IN
           /\ longer \in Seq(Commands)
           /\ Len(longer) = Len(commands) + 1
           /\ longer # <<>>
           /\ \A i \in 1 .. Len(commands) : longer[i] = commands[i]
           /\ longer[Len(commands) + 1] = c
  BY AppendProperties, EmptySeq, LenProperties

\* How many of the first n commands write a page.
WritersAmong(commands, n, p) == {i \in 1 .. n : p \in Writes(commands[i])}

LEMMA WritersFinite ==
    ASSUME NEW commands, NEW n \in Nat, NEW p
    PROVE  /\ IsFiniteSet(WritersAmong(commands, n, p))
           /\ Cardinality(WritersAmong(commands, n, p)) \in Nat
  <1>1. IsFiniteSet(1 .. n)
    BY FS_Interval
  <1>2. WritersAmong(commands, n, p) \in SUBSET (1 .. n)
    BY DEF WritersAmong
  <1>3. IsFiniteSet(WritersAmong(commands, n, p))
    BY <1>1, <1>2, FS_Subset
  <1> QED BY <1>3, FS_CardinalityType

LEMMA DrawnType ==
    ASSUME NEW image \in PageValues, NEW commands, NEW n \in Nat
    PROVE  DrawnFirst(image, commands, n) \in PageValues
  <1>1. ASSUME NEW p \in Pages
        PROVE  image[p] + Cardinality(WritersAmong(commands, n, p)) \in Nat
    <2>1. Cardinality(WritersAmong(commands, n, p)) \in Nat
      BY WritersFinite
    <2>2. image[p] \in Nat
      BY DEF PageValues
    <2> QED BY <2>1, <2>2
  <1> QED BY <1>1 DEF DrawnFirst, WritersAmong, PageValues

LEMMA DrawnOneType ==
    ASSUME NEW image \in PageValues, NEW c
    PROVE  Drawn(image, c) \in PageValues
  BY DEF Drawn, PageValues

LEMMA DrawnNone ==
    ASSUME NEW image \in PageValues, NEW commands
    PROVE  DrawnFirst(image, commands, 0) = image
  <1>1. \A p \in Pages : {i \in 1 .. 0 : p \in Writes(commands[i])} = {}
    OBVIOUS
  <1> QED BY <1>1, FS_EmptySet DEF DrawnFirst, PageValues

LEMMA DrawnNext ==
    ASSUME NEW image \in PageValues, NEW commands, NEW n \in Nat
    PROVE  DrawnFirst(image, commands, n + 1) =
               Drawn(DrawnFirst(image, commands, n), commands[n + 1])
  <1>1. ASSUME NEW p \in Pages
        PROVE  LET few == WritersAmong(commands, n, p)
                   more == WritersAmong(commands, n + 1, p)
               IN  /\ Cardinality(few) \in Nat
                   /\ Cardinality(more) = IF p \in Writes(commands[n + 1])
                                          THEN Cardinality(few) + 1
                                          ELSE Cardinality(few)
    <2> DEFINE few == WritersAmong(commands, n, p)
               more == WritersAmong(commands, n + 1, p)
    <2>1. IsFiniteSet(few) /\ Cardinality(few) \in Nat
      BY WritersFinite
    <2>2. n + 1 \notin few
      BY DEF WritersAmong
    <2>3. more = IF p \in Writes(commands[n + 1]) THEN few \cup {n + 1} ELSE few
      BY DEF WritersAmong
    <2> HIDE DEF few, more
    <2>4. Cardinality(few \cup {n + 1}) = Cardinality(few) + 1
      BY <2>1, <2>2, FS_AddElement
    <2>5. /\ Cardinality(few) \in Nat
          /\ Cardinality(more) = IF p \in Writes(commands[n + 1])
                                 THEN Cardinality(few) + 1 ELSE Cardinality(few)
      BY <2>1, <2>3, <2>4
    <2> QED BY <2>5 DEF few, more
  <1> QED BY <1>1 DEF DrawnFirst, Drawn, WritersAmong, PageValues

\* Only the first commands count, and of the image only the page itself.
LEMMA DrawnSame ==
    ASSUME NEW image, NEW other, NEW commands, NEW longer, NEW n \in Nat,
           NEW p \in Pages, image[p] = other[p],
           \A i \in 1 .. n : commands[i] = longer[i]
    PROVE  DrawnFirst(image, commands, n)[p] = DrawnFirst(other, longer, n)[p]
  <1>1. {i \in 1 .. n : p \in Writes(commands[i])} =
            {i \in 1 .. n : p \in Writes(longer[i])}
    OBVIOUS
  <1> QED BY <1>1 DEF DrawnFirst

LEMMA DrawnPrefix ==
    ASSUME NEW image, NEW commands, NEW longer, NEW n \in Nat,
           \A i \in 1 .. n : commands[i] = longer[i]
    PROVE  DrawnFirst(image, commands, n) = DrawnFirst(image, longer, n)
  <1>1. \A p \in Pages :
            DrawnFirst(image, commands, n)[p] = DrawnFirst(image, longer, n)[p]
    BY DrawnSame
  <1> QED BY <1>1 DEF DrawnFirst

LEMMA DrawnKept ==
    ASSUME NEW image \in PageValues, NEW commands, NEW n \in Nat,
           NEW p \in Pages, \A i \in 1 .. n : p \notin Writes(commands[i])
    PROVE  DrawnFirst(image, commands, n)[p] = image[p]
  <1>1. {i \in 1 .. n : p \in Writes(commands[i])} = {}
    OBVIOUS
  <1> QED BY <1>1, FS_EmptySet DEF DrawnFirst, PageValues

LEMMA DrawnAllNone ==
    ASSUME NEW image \in PageValues
    PROVE  /\ DrawnAll(image, <<>>) = image
           /\ \A ordered : ~MisreadAny(image, <<>>, ordered)
  BY DrawnNone, EmptySeq DEF DrawnAll, MisreadAny

LEMMA DrawnAppend ==
    ASSUME NEW image \in PageValues, NEW commands \in Seq(Commands),
           NEW c \in Commands
    PROVE  /\ DrawnAll(image, Append(commands, c)) =
                  Drawn(DrawnAll(image, commands), c)
           /\ MisreadAny(image, Append(commands, c), TRUE) <=>
                  \/ MisreadAny(image, commands, TRUE)
                  \/ Misread(DrawnAll(image, commands), c)
  <1> DEFINE n == Len(commands)
             longer == Append(commands, c)
  <1>1. /\ n \in Nat /\ DOMAIN commands = 1 .. n
        /\ Len(longer) = n + 1 /\ DOMAIN longer = 1 .. n + 1
        /\ \A i \in 1 .. n : commands[i] = longer[i]
        /\ longer[n + 1] = c
    BY AppendParts, SequenceParts
  <1> HIDE DEF n, longer
  <1>2. \A k \in 0 .. n :
            DrawnFirst(image, commands, k) = DrawnFirst(image, longer, k)
    <2> SUFFICES ASSUME NEW k \in 0 .. n
                 PROVE  DrawnFirst(image, commands, k) = DrawnFirst(image, longer, k)
      OBVIOUS
    <2>1. k \in Nat /\ \A i \in 1 .. k : commands[i] = longer[i]
      BY <1>1
    <2> QED BY <2>1, DrawnPrefix
  <1>3. DrawnFirst(image, longer, n + 1) = Drawn(DrawnFirst(image, longer, n), c)
    BY <1>1, DrawnNext
  <1>4. DrawnAll(image, longer) = Drawn(DrawnAll(image, commands), c)
    BY <1>1, <1>2, <1>3 DEF DrawnAll, n
  <1>5. MisreadAny(image, longer, TRUE) <=>
            \E i \in 1 .. n + 1 : Misread(DrawnFirst(image, longer, i - 1), longer[i])
    BY <1>1 DEF MisreadAny
  <1>6. MisreadAny(image, commands, TRUE) <=>
            \E i \in 1 .. n : Misread(DrawnFirst(image, longer, i - 1), longer[i])
    <2>1. \A i \in 1 .. n :
              DrawnFirst(image, commands, i - 1) = DrawnFirst(image, longer, i - 1)
      BY <1>1, <1>2
    <2> QED BY <1>1, <2>1 DEF MisreadAny
  <1>7. Misread(DrawnAll(image, commands), c) <=>
            Misread(DrawnFirst(image, longer, (n + 1) - 1), longer[n + 1])
    BY <1>1, <1>2 DEF DrawnAll, n
  <1>8. MisreadAny(image, longer, TRUE) <=>
            \/ MisreadAny(image, commands, TRUE)
            \/ Misread(DrawnAll(image, commands), c)
    <2>1. \A i : i \in 1 .. n + 1 <=> i \in 1 .. n \/ i = n + 1
      BY <1>1
    <2> DEFINE Wrong(i) == Misread(DrawnFirst(image, longer, i - 1), longer[i])
    <2>2. (\E i \in 1 .. n + 1 : Wrong(i)) <=> (\E i \in 1 .. n : Wrong(i)) \/ Wrong(n + 1)
      <3>1. n + 1 \in 1 .. n + 1 /\ \A i \in 1 .. n : i \in 1 .. n + 1
        BY <1>1
      <3> HIDE DEF Wrong
      <3> QED BY <2>1, <3>1, Zenon
    <2> QED BY <1>5, <1>6, <1>7, <2>2
  <1> QED BY <1>4, <1>8 DEF longer

\* An image that shows the same of every command's pages.
LEMMA MisreadSame ==
    ASSUME NEW image, NEW other, NEW commands \in Seq(Commands),
           \A i \in 1 .. Len(commands) :
               \A p \in DirectReads(commands[i]) \cup Writes(commands[i]) :
                   image[p] = other[p]
    PROVE  MisreadAny(image, commands, TRUE) <=> MisreadAny(other, commands, TRUE)
  <1>1. ASSUME NEW i \in 1 .. Len(commands)
        PROVE  Misread(DrawnFirst(image, commands, i - 1), commands[i]) <=>
                   Misread(DrawnFirst(other, commands, i - 1), commands[i])
    <2>1. /\ i - 1 \in Nat
          /\ DirectReads(commands[i]) \cup Writes(commands[i]) \subseteq Pages
      BY SequenceParts, CommandPages
    <2>2. ASSUME NEW p \in DirectReads(commands[i]) \cup Writes(commands[i])
          PROVE  DrawnFirst(image, commands, i - 1)[p] =
                     DrawnFirst(other, commands, i - 1)[p]
      BY <2>1, DrawnSame
    <2> QED BY <2>2 DEF Misread
  <1> QED BY <1>1, SequenceParts DEF MisreadAny

\* Commands none of which needs what one before it writes may all read the
\* image that is there first.
LEMMA MisreadUnordered ==
    ASSUME NEW image \in PageValues, NEW commands \in Seq(Commands),
           \A i \in 1 .. Len(commands) : \A j \in 1 .. i - 1 :
               Writes(commands[j]) \cap
                   (DirectReads(commands[i]) \cup Writes(commands[i])) = {}
    PROVE  MisreadAny(image, commands, FALSE) <=> MisreadAny(image, commands, TRUE)
  <1>1. ASSUME NEW i \in 1 .. Len(commands)
        PROVE  Misread(DrawnFirst(image, commands, i - 1), commands[i]) <=>
                   Misread(image, commands[i])
    <2>1. /\ i - 1 \in Nat
          /\ DirectReads(commands[i]) \cup Writes(commands[i]) \subseteq Pages
      BY SequenceParts, CommandPages
    <2>2. ASSUME NEW p \in DirectReads(commands[i]) \cup Writes(commands[i])
          PROVE  DrawnFirst(image, commands, i - 1)[p] = image[p]
      <3>1. \A j \in 1 .. i - 1 : p \notin Writes(commands[j])
        OBVIOUS
      <3> QED BY <2>1, <3>1, DrawnKept
    <2> QED BY <2>2 DEF Misread
  <1> QED BY <1>1, SequenceParts DEF MisreadAny

-----------------------------------------------------------------------------
(* The parts of a renderer.                                                 *)

SameFrontend(r, d) ==
    /\ d.mode = r.mode /\ d.inBatch = r.inBatch /\ d.shutDown = r.shutDown
    /\ d.snapshot = r.snapshot /\ d.host = r.host /\ d.order = r.order

SameRouter(r, d) ==
    /\ d.active = r.active /\ d.deferred = r.deferred
    /\ d.tail = r.tail /\ d.queue = r.queue

SameBackend(r, d) ==
    /\ d.batch = r.batch /\ d.batchReads = r.batchReads
    /\ d.batchWrites = r.batchWrites /\ d.batchTextures = r.batchTextures
    /\ d.batchSnapshot = r.batchSnapshot /\ d.resident = r.resident

SameMemory(r, d) == d.ledger = r.ledger /\ d.cpu = r.cpu /\ d.gpu = r.gpu

SameFlags(r, d) ==
    /\ d.failed = r.failed /\ d.threw = r.threw /\ d.recursing = r.recursing
    /\ d.broken = r.broken /\ d.misread = r.misread /\ d.misfed = r.misfed

LEMMA SameAll ==
    ASSUME NEW r
    PROVE  /\ SameFrontend(r, r) /\ SameRouter(r, r) /\ SameBackend(r, r)
           /\ SameMemory(r, r) /\ SameFlags(r, r)
  BY DEF SameFrontend, SameRouter, SameBackend, SameMemory, SameFlags

LEMMA TypedSame ==
    ASSUME NEW r, NEW d, Shape(r)
    PROVE  /\ SameFrontend(r, d) => TypedFront(d) /\ (OnHost(d) <=> OnHost(r))
           /\ SameRouter(r, d) => TypedRouter(d)
           /\ SameBackend(r, d) => TypedBackend(d) /\ Len(d.batch) <= MaxBatch
           /\ SameMemory(r, d) => TypedMemory(d)
           /\ SameFlags(r, d) => TypedFlags(d) /\ (Alive(d) <=> Alive(r))
  BY DEF Shape, TypedFront, TypedRouter, TypedBackend, TypedMemory, TypedFlags,
         SameFrontend, SameRouter, SameBackend, SameMemory, SameFlags, OnHost,
         Alive

\* A call of the backend leaves the frontend and the router as they are.
LEMMA ShapeOfBackend ==
    ASSUME NEW r, NEW d, Shape(r), DOMAIN d = Fields,
           SameFrontend(r, d), SameRouter(r, d),
           TypedBackend(d), TypedMemory(d), TypedFlags(d),
           Len(d.batch) <= MaxBatch, ~d.broken
    PROVE  Shape(d)
  BY TypedSame DEF Shape, SameFrontend, SameRouter, OnHost

\* A page that the queue finds in the CPU's copy, or writes there, stays so.
StaysAhead(r, d, unnoted, noted) ==
    \A p \in Pages :
        /\ r.ledger.gpu[p] <= r.ledger.cpu[p] => d.ledger.gpu[p] <= d.ledger.cpu[p]
        /\ p \notin noted /\ (p \in unnoted \/ r.ledger.gpu[p] < r.ledger.cpu[p]) =>
              d.ledger.gpu[p] < d.ledger.cpu[p]

\* Nothing but the two copies changes, and they hold the same.
LEMMA SoundMoved ==
    ASSUME NEW r, NEW d, NEW unnoted, NEW noted,
           Sound(r, unnoted), Shape(d), Alive(d), ~d.failed, ~d.misread,
           SameFrontend(r, d), SameBackend(r, d), d.queue = r.queue,
           Memory(d) = Memory(r), Agree(d, noted),
           r.queue = <<>> \/ StaysAhead(r, d, unnoted, noted)
    PROVE  Sound(d, noted)
  <1>1. OnHost(d) <=> OnHost(r)
    BY DEF SameFrontend, OnHost
  <1>2. Pipeline(d) = Pipeline(r)
    BY DEF SameBackend, Pipeline
  <1>3. SampledImage(r).held => SampledImage(d).held
    BY DEF SameBackend, SampledImage, Sound, Shape, TypedBackend, BatchSnapshots
  <1>4. BatchOK(d)
    BY <1>1, <1>2, <1>3 DEF BatchOK, Sound, SameBackend
  <1>5. \A i \in DOMAIN r.queue :
            DirectReads(r.queue[i]) \cup Writes(r.queue[i]) \subseteq Pages
    BY SequenceParts, CommandPages DEF Sound, Shape, TypedRouter
  <1>6. QueueOK(d, noted)
    <2>1. CASE r.queue = <<>>
      <3>1. DOMAIN r.queue = {}
        BY <2>1, EmptySeq
      <3> QED BY <3>1 DEF QueueOK, Sound
    <2>2. CASE StaysAhead(r, d, unnoted, noted)
      BY <1>5, <2>2 DEF QueueOK, Sound, StaysAhead
    <2> QED BY <2>1, <2>2
  <1> QED BY <1>4, <1>6 DEF Sound, SameBackend

-----------------------------------------------------------------------------
(* The calls that move pages.                                               *)

LEMMA NoteType ==
    ASSUME NEW ledger \in Ledgers, NEW pages \in PageSets
    PROVE  LET noted == Ledger!NoteCpuWrite(ledger, pages) IN
           /\ noted \in Ledgers
           /\ \A p \in Pages :
                 /\ noted.gpu[p] = ledger.gpu[p]
                 /\ noted.cpu[p] = IF p \in pages THEN ledger.next ELSE ledger.cpu[p]
           /\ noted.next = IF pages = {} THEN ledger.next ELSE ledger.next + 1
  <1> DEFINE noted == Ledger!NoteCpuWrite(ledger, pages)
             raised == Ledger!Raised(ledger.cpu, pages, ledger.next)
  <1>1. /\ ledger = [cpu |-> ledger.cpu, gpu |-> ledger.gpu, next |-> ledger.next]
        /\ ledger.cpu \in PageValues /\ ledger.gpu \in PageValues
        /\ ledger.next \in Nat \ {0}
    BY DEF Ledgers
  <1>2. /\ raised \in PageValues
        /\ \A p \in Pages :
              raised[p] = IF p \in pages THEN ledger.next ELSE ledger.cpu[p]
    BY <1>1 DEF Ledger!Raised, PageValues
  <1>3. pages = {} => noted = ledger
    BY DEF Ledger!NoteCpuWrite
  <1>4. pages # {} =>
            noted = [cpu |-> raised, gpu |-> ledger.gpu, next |-> ledger.next + 1]
    BY <1>1 DEF Ledger!NoteCpuWrite
  <1> HIDE DEF noted, raised
  <1>5. CASE pages = {}
    BY <1>3, <1>5 DEF noted
  <1>6. CASE pages # {}
    <2>1. noted \in Ledgers
      BY <1>1, <1>2, <1>4, <1>6 DEF Ledgers
    <2> QED BY <1>1, <1>2, <1>4, <1>6, <2>1 DEF noted
  <1> QED BY <1>5, <1>6

LEMMA NoteGpuType ==
    ASSUME NEW ledger \in Ledgers, NEW pages \in PageSets
    PROVE  LET noted == Ledger!NoteGpuWriteBatch(ledger, pages) IN
           /\ noted \in Ledgers
           /\ \A p \in Pages :
                 /\ noted.cpu[p] = ledger.cpu[p]
                 /\ noted.gpu[p] = IF p \in pages THEN ledger.next ELSE ledger.gpu[p]
           /\ noted.next = IF pages = {} THEN ledger.next ELSE ledger.next + 1
  <1> DEFINE noted == Ledger!NoteGpuWriteBatch(ledger, pages)
             raised == Ledger!Raised(ledger.gpu, pages, ledger.next)
  <1>1. /\ ledger = [cpu |-> ledger.cpu, gpu |-> ledger.gpu, next |-> ledger.next]
        /\ ledger.cpu \in PageValues /\ ledger.gpu \in PageValues
        /\ ledger.next \in Nat \ {0}
    BY DEF Ledgers
  <1>2. /\ raised \in PageValues
        /\ \A p \in Pages :
              raised[p] = IF p \in pages THEN ledger.next ELSE ledger.gpu[p]
    BY <1>1 DEF Ledger!Raised, PageValues
  <1>3. pages = {} => noted = ledger
    BY DEF Ledger!NoteGpuWriteBatch
  <1>4. pages # {} =>
            noted = [cpu |-> ledger.cpu, gpu |-> raised, next |-> ledger.next + 1]
    BY <1>1 DEF Ledger!NoteGpuWriteBatch
  <1> HIDE DEF noted, raised
  <1>5. CASE pages = {}
    BY <1>3, <1>5 DEF noted
  <1>6. CASE pages # {}
    <2>1. noted \in Ledgers
      BY <1>1, <1>2, <1>4, <1>6 DEF Ledgers
    <2> QED BY <1>1, <1>2, <1>4, <1>6, <2>1 DEF noted
  <1> QED BY <1>5, <1>6

LEMMA CopyType ==
    ASSUME NEW ledger \in Ledgers, NEW pages \in PageSets,
           NEW cpu \in PageValues, NEW gpu \in PageValues
    PROVE  LET up == Ledger!CompleteCpuToGpu(ledger, pages)
               down == Ledger!CompleteGpuToCpu(ledger, pages)
           IN  /\ up \in Ledgers /\ down \in Ledgers
               /\ up.next = ledger.next /\ down.next = ledger.next
               /\ up.cpu = ledger.cpu /\ down.gpu = ledger.gpu
               /\ \A p \in Pages :
                     /\ up.gpu[p] = IF p \in pages THEN ledger.cpu[p] ELSE ledger.gpu[p]
                     /\ down.cpu[p] = IF p \in pages THEN ledger.gpu[p] ELSE ledger.cpu[p]
               /\ Ledger!Copied(cpu, gpu, pages) \in PageValues
               /\ \A p \in Pages : Ledger!Copied(cpu, gpu, pages)[p] =
                     IF p \in pages THEN gpu[p] ELSE cpu[p]
  BY DEF Ledger!CompleteCpuToGpu, Ledger!CompleteGpuToCpu, Ledger!Copied, Ledgers,
         PageValues, PageSets

\* A failed request changes nothing else.
LEMMA FailKeeps ==
    ASSUME NEW r, NEW d, Shape(r), d = FailRequest(r)
    PROVE  /\ Shape(d) /\ ~Alive(d) /\ d.failed
           /\ SameFrontend(r, d) /\ SameRouter(r, d) /\ SameBackend(r, d)
           /\ SameMemory(r, d) /\ d.misread = r.misread
  <1>1. /\ DOMAIN d = Fields /\ d.failed /\ d.threw /\ d.failed \in BOOLEAN
        /\ d.threw \in BOOLEAN
        /\ d.broken = r.broken /\ d.misread = r.misread /\ d.misfed = r.misfed
        /\ d.recursing = r.recursing
    BY DEF FailRequest, Shape, Fields
  <1>2. SameFrontend(r, d) /\ SameRouter(r, d)
    BY DEF FailRequest, Shape, Fields, SameFrontend, SameRouter
  <1>3. SameBackend(r, d) /\ SameMemory(r, d)
    BY DEF FailRequest, Shape, Fields, SameBackend, SameMemory
  <1>4. TypedFlags(d)
    BY <1>1 DEF Shape, TypedFlags
  <1>5. Shape(d)
    BY <1>1, <1>2, <1>3, <1>4, TypedSame, ShapeOfBackend DEF Shape
  <1> QED BY <1>1, <1>2, <1>3, <1>5 DEF Alive

\* Two renderers between which only the copies and what the ledger says of
\* their ages differ.
OnlyMoved(r, d) ==
    /\ SameFrontend(r, d) /\ SameRouter(r, d) /\ SameBackend(r, d)
    /\ d.misread = r.misread
    /\ Alive(d) => Alive(r) /\ d.failed = r.failed
    /\ ~Alive(d) => ~Alive(r) \/ d.failed
    /\ r.failed => d.failed

LEMMA UploadKeeps ==
    ASSUME NEW r, NEW d, Shape(r), NEW within \in PageSets,
           d = UploadCpuNewer(r, within)
    PROVE  /\ Shape(d) /\ OnlyMoved(r, d) /\ d.cpu = r.cpu
           /\ Alive(d) => \A p \in within : d.ledger.cpu[p] <= d.ledger.gpu[p]
           /\ Sound(r, {}) /\ Alive(d) /\ r.queue = <<>> =>
                 Sound(d, {}) /\ Memory(d) = Memory(r)
  <1> DEFINE pages == Ledger!CpuNewer(r.ledger, within)
             up == Ledger!CompleteCpuToGpu(r.ledger, pages)
             gpu == Ledger!Copied(r.gpu, r.cpu, pages)
  <1>1. /\ r.ledger \in Ledgers /\ r.cpu \in PageValues /\ r.gpu \in PageValues
        /\ pages \in PageSets
        /\ \A p \in Pages : r.ledger.cpu[p] \in Nat /\ r.ledger.gpu[p] \in Nat
    BY DEF Shape, TypedMemory, Ledgers, PageValues, PageSets, Ledger!CpuNewer
  <1>2. \A p \in Pages : p \in pages <=> p \in within /\ r.ledger.cpu[p] > r.ledger.gpu[p]
    BY DEF Ledger!CpuNewer
  <1>3. CASE ~Alive(r) \/ pages = {}
    <2>1. d = r
      BY <1>3 DEF UploadCpuNewer
    <2>2. Alive(r) => \A p \in within : d.ledger.cpu[p] <= d.ledger.gpu[p]
      BY <1>1, <1>2, <1>3, <2>1 DEF PageSets
    <2> QED BY <2>1, <2>2, SameAll DEF OnlyMoved, SameFlags
  <1>4. CASE Alive(r) /\ pages # {} /\ r.serves = 0
    <2>1. d = FailRequest(r)
      BY <1>4 DEF UploadCpuNewer
    <2> QED BY <2>1, FailKeeps DEF OnlyMoved, SameMemory
  <1>5. CASE Alive(r) /\ pages # {} /\ r.serves # 0
    <2>1. d = [r EXCEPT !.serves = r.serves - 1, !.gpu = gpu, !.ledger = up]
      BY <1>5 DEF UploadCpuNewer
    <2>2. /\ up \in Ledgers /\ gpu \in PageValues
          /\ up.next = r.ledger.next /\ up.cpu = r.ledger.cpu
          /\ \A p \in Pages :
                /\ up.gpu[p] = IF p \in pages THEN r.ledger.cpu[p] ELSE r.ledger.gpu[p]
                /\ gpu[p] = IF p \in pages THEN r.cpu[p] ELSE r.gpu[p]
      BY <1>1, CopyType
    <2> HIDE DEF up, gpu, pages
    <2>3. DOMAIN d = Fields /\ d.gpu = gpu /\ d.ledger = up /\ d.cpu = r.cpu
      BY <2>1 DEF Shape, Fields
    <2>4. SameFrontend(r, d) /\ SameRouter(r, d)
      BY <2>1 DEF Shape, Fields, SameFrontend, SameRouter
    <2>5. SameBackend(r, d) /\ SameFlags(r, d)
      BY <2>1 DEF Shape, Fields, SameBackend, SameFlags
    <2>6. Alive(d) /\ OnlyMoved(r, d)
      BY <1>5, <2>4, <2>5 DEF Alive, SameFlags, OnlyMoved
    <2>7. Shape(d)
      <3>1. TypedMemory(d)
        BY <1>1, <2>2, <2>3 DEF TypedMemory
      <3>2. TypedBackend(d) /\ TypedFlags(d) /\ Len(d.batch) <= MaxBatch /\ ~d.broken
        BY <2>5, TypedSame DEF Shape, SameFlags
      <3> QED BY <2>3, <2>4, <3>1, <3>2, ShapeOfBackend
    <2>8. \A p \in within : d.ledger.cpu[p] <= d.ledger.gpu[p]
      BY <1>1, <1>2, <2>2, <2>3 DEF PageSets
    <2>9. ASSUME Sound(r, {}), r.queue = <<>> PROVE Sound(d, {}) /\ Memory(d) = Memory(r)
      <3>1. Agree(d, {})
        BY <1>1, <1>2, <2>2, <2>3, <2>9 DEF Agree, Sound
      <3>2. Memory(d) = Memory(r)
        BY <1>1, <1>2, <2>2, <2>3 DEF Memory, Newer
      <3>3. ~d.failed /\ ~d.misread
        BY <2>5, <2>9 DEF SameFlags, Sound
      <3> QED
        BY <2>4, <2>5, <2>6, <2>7, <2>9, <3>1, <3>2, <3>3, SoundMoved
           DEF SameRouter
    <2> QED BY <2>3, <2>6, <2>7, <2>8, <2>9
  <1> QED BY <1>3, <1>4, <1>5

LEMMA DownloadKeeps ==
    ASSUME NEW r, NEW d, Shape(r), NEW within \in PageSets,
           d = DownloadGpuNewer(r, within)
    PROVE  /\ Shape(d) /\ OnlyMoved(r, d)
           /\ Alive(d) => \A p \in within : d.ledger.gpu[p] <= d.ledger.cpu[p]
           /\ Sound(r, {}) /\ Alive(d) => Sound(d, {}) /\ Memory(d) = Memory(r)
  <1> DEFINE pages == Ledger!GpuNewer(r.ledger, within)
             down == Ledger!CompleteGpuToCpu(r.ledger, pages)
             cpu == Ledger!Copied(r.cpu, r.gpu, pages)
  <1>1. /\ r.ledger \in Ledgers /\ r.cpu \in PageValues /\ r.gpu \in PageValues
        /\ pages \in PageSets
        /\ \A p \in Pages : r.ledger.cpu[p] \in Nat /\ r.ledger.gpu[p] \in Nat
    BY DEF Shape, TypedMemory, Ledgers, PageValues, PageSets, Ledger!GpuNewer
  <1>2. \A p \in Pages : p \in pages <=> p \in within /\ r.ledger.gpu[p] > r.ledger.cpu[p]
    BY DEF Ledger!GpuNewer
  <1>3. CASE ~Alive(r) \/ pages = {}
    <2>1. d = r
      BY <1>3 DEF DownloadGpuNewer
    <2>2. Alive(r) => \A p \in within : d.ledger.gpu[p] <= d.ledger.cpu[p]
      BY <1>1, <1>2, <1>3, <2>1 DEF PageSets
    <2> QED BY <2>1, <2>2, SameAll DEF OnlyMoved, SameFlags
  <1> DEFINE refused == r.failed \/ r.shutDown \/ r.serves = 0
  <1>4. CASE Alive(r) /\ pages # {} /\ refused
    <2>1. d = FailRequest(r)
      BY <1>4 DEF DownloadGpuNewer
    <2> QED BY <2>1, FailKeeps DEF OnlyMoved
  <1>5. CASE Alive(r) /\ pages # {} /\ ~refused
    <2>1. d = [r EXCEPT !.serves = r.serves - 1, !.cpu = cpu, !.ledger = down]
      BY <1>5 DEF DownloadGpuNewer
    <2>2. /\ down \in Ledgers /\ cpu \in PageValues
          /\ down.next = r.ledger.next /\ down.gpu = r.ledger.gpu
          /\ \A p \in Pages :
                /\ down.cpu[p] = IF p \in pages THEN r.ledger.gpu[p] ELSE r.ledger.cpu[p]
                /\ cpu[p] = IF p \in pages THEN r.gpu[p] ELSE r.cpu[p]
      <3> HIDE DEF pages
      <3> QED BY <1>1, CopyType, SMTT(60)
    <2> HIDE DEF down, cpu, pages
    <2>3. DOMAIN d = Fields /\ d.cpu = cpu /\ d.ledger = down /\ d.gpu = r.gpu
      BY <2>1 DEF Shape, Fields
    <2>4. SameFrontend(r, d) /\ SameRouter(r, d)
      BY <2>1 DEF Shape, Fields, SameFrontend, SameRouter
    <2>5. SameBackend(r, d) /\ SameFlags(r, d)
      BY <2>1 DEF Shape, Fields, SameBackend, SameFlags
    <2>6. Alive(d) /\ OnlyMoved(r, d)
      BY <1>5, <2>4, <2>5 DEF Alive, SameFlags, OnlyMoved
    <2>7. Shape(d)
      <3>1. TypedMemory(d)
        BY <1>1, <2>2, <2>3 DEF TypedMemory
      <3>2. TypedBackend(d) /\ TypedFlags(d) /\ Len(d.batch) <= MaxBatch /\ ~d.broken
        BY <2>5, TypedSame DEF Shape, SameFlags
      <3> QED BY <2>3, <2>4, <3>1, <3>2, ShapeOfBackend
    <2>8. StaysAhead(r, d, {}, {})
      BY <1>1, <1>2, <2>2, <2>3 DEF StaysAhead
    <2>9. \A p \in within : d.ledger.gpu[p] <= d.ledger.cpu[p]
      BY <1>1, <1>2, <2>2, <2>3 DEF PageSets
    <2>10. ASSUME Sound(r, {}) PROVE Sound(d, {}) /\ Memory(d) = Memory(r)
      <3>1. Agree(d, {})
        BY <1>1, <1>2, <2>2, <2>3, <2>10 DEF Agree, Sound
      <3>2. Memory(d) = Memory(r)
        BY <1>1, <1>2, <2>2, <2>3 DEF Memory, Newer
      <3>3. ~d.failed /\ ~d.misread
        BY <2>5, <2>10 DEF SameFlags, Sound
      <3> QED
        BY <2>4, <2>5, <2>6, <2>7, <2>8, <2>10, <3>1, <3>2, <3>3, SoundMoved
           DEF SameRouter
    <2> QED BY <2>6, <2>7, <2>9, <2>10
  <1> QED BY <1>3, <1>4, <1>5

\* The pages of the commands that the CPU drew are noted as newer there.
LEMMA NoteKeeps ==
    ASSUME NEW r, NEW d, Shape(r), NEW pages \in PageSets, Alive(r),
           \A p \in pages : r.ledger.gpu[p] <= r.ledger.cpu[p],
           d = NoteCpuWrite(r, pages)
    PROVE  /\ Shape(d) /\ OnlyMoved(r, d) /\ Alive(d)
           /\ d.cpu = r.cpu /\ d.gpu = r.gpu
           /\ Sound(r, pages) =>
                 /\ Sound(d, {}) /\ Memory(d) = Memory(r)
                 /\ \A p \in pages : d.ledger.gpu[p] <= d.ledger.cpu[p]
  <1> DEFINE noted == Ledger!NoteCpuWrite(r.ledger, pages)
  <1>1. /\ r.ledger \in Ledgers
        /\ r.ledger.next \in Nat
        /\ \A p \in Pages : r.ledger.cpu[p] \in Nat /\ r.ledger.gpu[p] \in Nat
    BY DEF Shape, TypedMemory, Ledgers, PageValues
  <1>2. Ledger!AcceptsCpuWrite(r.ledger, pages)
    BY <1>1 DEF Ledger!AcceptsCpuWrite, Ledger!GpuNewer, PageSets
  <1>3. d = [r EXCEPT !.ledger = noted]
    BY <1>2 DEF NoteCpuWrite, PageSets
  <1>4. /\ noted \in Ledgers
        /\ \A p \in Pages :
              /\ noted.gpu[p] = r.ledger.gpu[p]
              /\ noted.cpu[p] = IF p \in pages THEN r.ledger.next ELSE r.ledger.cpu[p]
        /\ noted.next = IF pages = {} THEN r.ledger.next ELSE r.ledger.next + 1
    BY <1>1, NoteType
  <1> HIDE DEF noted
  <1>5. DOMAIN d = Fields /\ d.ledger = noted /\ d.cpu = r.cpu /\ d.gpu = r.gpu
    BY <1>3 DEF Shape, Fields
  <1>6. SameFrontend(r, d) /\ SameRouter(r, d)
    BY <1>3 DEF Shape, Fields, SameFrontend, SameRouter
  <1>7. SameBackend(r, d) /\ SameFlags(r, d)
    BY <1>3 DEF Shape, Fields, SameBackend, SameFlags
  <1>8. Alive(d) /\ OnlyMoved(r, d)
    BY <1>6, <1>7 DEF Alive, SameFlags, OnlyMoved
  <1>9. Shape(d)
    <2>1. TypedMemory(d)
      BY <1>4, <1>5 DEF TypedMemory, Shape
    <2>2. TypedBackend(d) /\ TypedFlags(d) /\ Len(d.batch) <= MaxBatch /\ ~d.broken
      BY <1>7, TypedSame DEF Shape, SameFlags
    <2> QED BY <1>5, <1>6, <2>1, <2>2, ShapeOfBackend
  <1>10. ASSUME Sound(r, pages)
         PROVE  /\ Sound(d, {}) /\ Memory(d) = Memory(r)
                /\ \A p \in pages : d.ledger.gpu[p] <= d.ledger.cpu[p]
    <2>1. \A p \in Pages : r.ledger.gpu[p] < r.ledger.next
      BY <1>10 DEF Sound, Agree
    <2>2. Agree(d, {})
      BY <1>1, <1>4, <1>5, <1>10 DEF Agree, Sound, PageSets
    <2>3. Memory(d) = Memory(r)
      BY <1>1, <1>4, <1>5, <2>1 DEF Memory, Newer
    <2>4. StaysAhead(r, d, pages, {})
      BY <1>1, <1>4, <1>5, <2>1 DEF StaysAhead
    <2>5. ~d.failed /\ ~d.misread
      BY <1>7, <1>10 DEF SameFlags, Sound
    <2>6. Sound(d, {})
      BY <1>6, <1>7, <1>8, <1>9, <1>10, <2>2, <2>3, <2>4, <2>5, SoundMoved
         DEF SameRouter
    <2>7. \A p \in pages : d.ledger.gpu[p] <= d.ledger.cpu[p]
      BY <1>1, <1>4, <1>5, <2>1 DEF PageSets
    <2> QED BY <2>3, <2>6, <2>7
  <1> QED BY <1>5, <1>8, <1>9, <1>10

-----------------------------------------------------------------------------
(* Draining the resident batch.                                             *)

\* Nothing but the requests left to serve or what samples its own frame sees.
LEMMA SameKeeps ==
    ASSUME NEW r, NEW d, Shape(r), DOMAIN d = Fields,
           SameFrontend(r, d), SameRouter(r, d), SameBackend(r, d),
           SameMemory(r, d), SameFlags(r, d)
    PROVE  /\ Shape(d) /\ (Alive(d) <=> Alive(r))
           /\ Memory(d) = Memory(r) /\ Settled(d) = Settled(r)
           /\ Captured(r) => Captured(d)
           /\ \A unnoted : Sound(r, unnoted) => Sound(d, unnoted)
  <1>1. Shape(d) /\ (Alive(d) <=> Alive(r))
    BY TypedSame, ShapeOfBackend DEF Shape, SameFlags
  <1>2. Memory(d) = Memory(r)
    BY DEF SameMemory, Memory
  <1>3. Settled(d) = Settled(r)
    BY <1>2 DEF Settled, SameRouter, SameBackend
  <1>4. Captured(r) => Captured(d)
    BY DEF Captured, SameFrontend, SameBackend, Pipeline
  <1>5. ASSUME NEW unnoted, Sound(r, unnoted) PROVE Sound(d, unnoted)
    <2>1. Agree(d, unnoted)
      BY <1>5 DEF Agree, Sound, SameMemory
    <2>2. Alive(d) /\ ~d.failed /\ ~d.misread
      BY <1>1, <1>5 DEF Sound, SameFlags
    <2>3. StaysAhead(r, d, unnoted, unnoted)
      BY DEF StaysAhead, SameMemory
    <2> QED BY <1>1, <1>2, <1>5, <2>1, <2>2, <2>3, SoundMoved DEF SameRouter
  <1> QED BY <1>1, <1>2, <1>3, <1>4, <1>5

\* An empty batch is in order.
LEMMA NoBatch ==
    ASSUME NEW r, Shape(r), r.batch = <<>>, r.batchWrites = {}
    PROVE  BatchOK(r) /\ Pipeline(r) = "None"
  <1>1. Memory(r) \in PageValues
    BY DEF Shape, TypedMemory, Memory, Newer, PageValues
  <1>2. DOMAIN r.batch = {}
    BY EmptySeq
  <1>3. WritesOf(r.batch) = {}
    BY <1>2 DEF WritesOf
  <1>4. Pipeline(r) = "None"
    BY DEF Pipeline
  <1> QED BY <1>1, <1>2, <1>3, <1>4, DrawnAllNone DEF BatchOK

LEMMA ClearKeeps ==
    ASSUME NEW r, NEW d, Shape(r), d = ClearBatch(r)
    PROVE  /\ Shape(d) /\ (Alive(d) <=> Alive(r))
           /\ SameFrontend(r, d) /\ SameRouter(r, d) /\ SameMemory(r, d)
           /\ SameFlags(r, d) /\ d.resident = r.resident
           /\ d.batch = <<>> /\ d.batchWrites = {}
  <1>1. /\ DOMAIN d = Fields /\ d.resident = r.resident
        /\ d.batch = <<>> /\ d.batchReads = {} /\ d.batchWrites = {}
        /\ d.batchTextures = {} /\ d.batchSnapshot = EmptyBatchSnapshot
    BY DEF ClearBatch, Shape, Fields
  <1>2. SameFrontend(r, d) /\ SameRouter(r, d)
    BY DEF ClearBatch, Shape, Fields, SameFrontend, SameRouter
  <1>3. SameMemory(r, d) /\ SameFlags(r, d)
    BY DEF ClearBatch, Shape, Fields, SameMemory, SameFlags
  <1>4. TypedBackend(d)
    <2>1. EmptyBatchSnapshot \in BatchSnapshots
      BY DEF EmptyBatchSnapshot, NoImage, BatchSnapshots, Images, PageValues
    <2>2. <<>> \in Seq(Commands)
      BY EmptySeq
    <2> QED BY <1>1, <2>1, <2>2 DEF TypedBackend, Shape, PageSets
  <1>5. Len(d.batch) <= MaxBatch
    BY <1>1, EmptySeq, ConstantsAssumption
  <1> QED
    BY <1>1, <1>2, <1>3, <1>4, <1>5, TypedSame, ShapeOfBackend DEF Shape, SameFlags

\* What a call of the backend keeps of the frontend and the router, and what it
\* says of a request that failed.
OnlyBackend(r, d) ==
    /\ SameFrontend(r, d) /\ SameRouter(r, d)
    /\ Alive(d) => Alive(r) /\ d.failed = r.failed
    /\ ~Alive(d) => ~Alive(r) \/ d.failed
    /\ r.failed => d.failed

LEMMA RunType ==
    ASSUME NEW r, NEW d, Shape(r), d = RunBatch(r)
    PROVE  /\ Shape(d) /\ (Alive(d) <=> Alive(r))
           /\ SameFrontend(r, d) /\ SameRouter(r, d)
           /\ d.batch = r.batch /\ d.batchReads = r.batchReads
           /\ d.batchWrites = r.batchWrites
           /\ d.failed = r.failed /\ d.ledger = r.ledger /\ d.cpu = r.cpu
           /\ d.gpu = DrawnAll(r.gpu, r.batch)
           /\ d.misread <=> r.misread \/
                  MisreadAny(r.gpu, r.batch, Pipeline(r) \in Ordered)
           /\ Pipeline(r) = "FeedbackNearest" =>
                  d.resident.valid /\ d.resident.image = SampledImage(r)
           /\ Pipeline(r) \notin {"FeedbackNearest", "FeedbackLinear"} =>
                  d.resident = r.resident
           /\ Pipeline(r) = "FeedbackLinear" => ~d.resident.valid
  <1> DEFINE kind == Pipeline(r)
             sampled == SampledImage(r)
             resident ==
                CASE kind = "FeedbackNearest" ->
                         [valid |-> TRUE, image |-> sampled,
                          generation |-> r.batchSnapshot.generation]
                  [] kind = "FeedbackLinear" ->
                         [r.resident EXCEPT !.valid = FALSE]
                  [] OTHER -> r.resident
             gpu == DrawnAll(r.gpu, r.batch)
             misread == r.misread \/ MisreadAny(r.gpu, r.batch, kind \in Ordered)
             misfed == r.misfed \/ MisfedAny(sampled, r.batch)
  <1>1. d = [r EXCEPT !.gpu = gpu, !.misread = misread, !.misfed = misfed,
                      !.resident = resident]
    BY DEF RunBatch
  <1>2. misread \in BOOLEAN /\ misfed \in BOOLEAN
    OBVIOUS
  <1>3. sampled \in Images
    BY DEF SampledImage, Shape, TypedBackend, TypedMemory, BatchSnapshots,
           Residents, Images
  <1>4. resident \in Residents
    BY <1>3 DEF Shape, TypedBackend, Residents, BatchSnapshots
  <1>5. gpu \in PageValues
    <2>1. r.gpu \in PageValues /\ Len(r.batch) \in Nat
      BY SequenceParts DEF Shape, TypedMemory, TypedBackend
    <2> QED BY <2>1, DrawnType DEF DrawnAll
  <1>6. /\ kind = "FeedbackNearest" => resident.valid /\ resident.image = sampled
        /\ kind \notin {"FeedbackNearest", "FeedbackLinear"} => resident = r.resident
        /\ kind = "FeedbackLinear" => ~resident.valid
    BY DEF Shape, TypedBackend, Residents
  <1>7. misread <=> r.misread \/ MisreadAny(r.gpu, r.batch, kind \in Ordered)
    OBVIOUS
  <1> HIDE DEF kind, sampled, resident, gpu, misread, misfed
  <1>8. /\ DOMAIN d = Fields /\ d.gpu = gpu /\ d.cpu = r.cpu /\ d.ledger = r.ledger
        /\ d.misread = misread /\ d.misfed = misfed /\ d.resident = resident
        /\ d.failed = r.failed /\ d.threw = r.threw /\ d.recursing = r.recursing
        /\ d.broken = r.broken
    BY <1>1 DEF Shape, Fields
  <1>9. /\ d.batch = r.batch /\ d.batchReads = r.batchReads
        /\ d.batchWrites = r.batchWrites /\ d.batchTextures = r.batchTextures
        /\ d.batchSnapshot = r.batchSnapshot
    BY <1>1 DEF Shape, Fields
  <1>10. SameFrontend(r, d) /\ SameRouter(r, d)
    BY <1>1 DEF Shape, Fields, SameFrontend, SameRouter
  <1>11. TypedBackend(d)
    BY <1>4, <1>8, <1>9 DEF Shape, TypedBackend
  <1>12. TypedMemory(d) /\ TypedFlags(d)
    BY <1>2, <1>5, <1>8 DEF Shape, TypedMemory, TypedFlags
  <1>13. Shape(d)
    BY <1>8, <1>9, <1>10, <1>11, <1>12, ShapeOfBackend DEF Shape
  <1>14. Alive(d) <=> Alive(r)
    BY <1>8 DEF Alive
  <1> QED
    BY <1>6, <1>7, <1>8, <1>9, <1>10, <1>13, <1>14 DEF kind, sampled, gpu

\* The pages of a batch that ran are noted as newer in the GPU.
LEMMA RunAndNote ==
    ASSUME NEW r, NEW d, Shape(r), Alive(r), r.batch # <<>>,
           \A p \in r.batchReads \cup r.batchWrites :
               r.ledger.cpu[p] <= r.ledger.gpu[p],
           d = NoteGpuWrites(RunBatch(r))
    PROVE  /\ Shape(d) /\ Alive(d) /\ d.failed = r.failed
           /\ SameFrontend(r, d) /\ SameRouter(r, d) /\ d.batch = <<>>
           /\ Captured(r) /\ BatchOK(r) => Captured(d)
           /\ Sound(r, {}) => Sound(d, {}) /\ Settled(d) = Settled(r)
  <1> DEFINE run == RunBatch(r)
             pages == r.batchWrites
             access == r.batchReads \cup r.batchWrites
             noted == Ledger!NoteGpuWriteBatch(r.ledger, pages)
             kept == [run EXCEPT !.ledger = noted]
  <1>1. /\ Shape(run) /\ Alive(run)
        /\ SameFrontend(r, run) /\ SameRouter(r, run)
        /\ run.batch = r.batch /\ run.batchWrites = r.batchWrites
        /\ run.failed = r.failed /\ run.ledger = r.ledger /\ run.cpu = r.cpu
        /\ run.gpu = DrawnAll(r.gpu, r.batch)
        /\ run.misread <=> r.misread \/
               MisreadAny(r.gpu, r.batch, Pipeline(r) \in Ordered)
        /\ Pipeline(r) = "FeedbackNearest" =>
               run.resident.valid /\ run.resident.image = SampledImage(r)
        /\ Pipeline(r) \notin {"FeedbackNearest", "FeedbackLinear"} =>
               run.resident = r.resident
        /\ Pipeline(r) = "FeedbackLinear" => ~run.resident.valid
    BY RunType
  <1>2. /\ r.ledger \in Ledgers /\ r.cpu \in PageValues /\ r.gpu \in PageValues
        /\ pages \in PageSets /\ access \in PageSets
        /\ r.ledger.next \in Nat
        /\ \A p \in Pages : r.ledger.cpu[p] \in Nat /\ r.ledger.gpu[p] \in Nat
    BY DEF Shape, TypedMemory, TypedBackend, Ledgers, PageValues, PageSets
  <1>3. Ledger!AcceptsGpuWrite(run.ledger, run.batchWrites)
    BY <1>1, <1>2 DEF Ledger!AcceptsGpuWrite, Ledger!CpuNewer, PageSets
  <1>4. d = ClearBatch(kept)
    BY <1>1, <1>3 DEF NoteGpuWrites
  <1>5. /\ noted \in Ledgers
        /\ \A p \in Pages :
              /\ noted.cpu[p] = r.ledger.cpu[p]
              /\ noted.gpu[p] = IF p \in pages THEN r.ledger.next ELSE r.ledger.gpu[p]
        /\ noted.next = IF pages = {} THEN r.ledger.next ELSE r.ledger.next + 1
    BY <1>2, NoteGpuType
  <1> HIDE DEF run, noted
  <1>6. /\ DOMAIN kept = Fields /\ kept.ledger = noted /\ kept.cpu = r.cpu
        /\ kept.gpu = run.gpu /\ kept.resident = run.resident
        /\ SameFlags(run, kept) /\ SameFrontend(run, kept) /\ SameRouter(run, kept)
        /\ SameBackend(run, kept)
    BY <1>1 DEF Shape, Fields, SameFlags, SameFrontend, SameRouter, SameBackend
  <1>7. TypedMemory(kept)
    BY <1>1, <1>2, <1>5, <1>6 DEF Shape, TypedMemory
  <1> HIDE DEF kept
  <1>8. Shape(kept) /\ Alive(kept)
    BY <1>1, <1>6, <1>7, TypedSame, ShapeOfBackend DEF Shape, SameFlags
  <1>9. /\ Shape(d) /\ Alive(d)
        /\ SameFrontend(kept, d) /\ SameRouter(kept, d) /\ SameMemory(kept, d)
        /\ SameFlags(kept, d) /\ d.resident = kept.resident
        /\ d.batch = <<>> /\ d.batchWrites = {}
    BY <1>4, <1>8, ClearKeeps
  <1>10. SameFrontend(r, d) /\ SameRouter(r, d)
    BY <1>1, <1>6, <1>9 DEF SameFrontend, SameRouter
  <1>11. /\ d.failed = r.failed /\ d.resident = run.resident /\ d.ledger = noted
         /\ d.cpu = r.cpu /\ d.gpu = DrawnAll(r.gpu, r.batch)
         /\ d.misread = run.misread
    BY <1>1, <1>6, <1>9 DEF SameFlags, SameMemory
  <1>12. ASSUME Captured(r), BatchOK(r) PROVE Captured(d)
    BY <1>1, <1>10, <1>11, <1>12 DEF Captured, SameFrontend, BatchOK, OnHost
  <1>13. ASSUME Sound(r, {}) PROVE Sound(d, {}) /\ Settled(d) = Settled(r)
    <2> DEFINE image == Memory(r)
               n == Len(r.batch)
    <2>1. /\ r.batch \in Seq(Commands) /\ n \in Nat /\ DOMAIN r.batch = 1 .. n
          /\ image \in PageValues
      BY SequenceParts DEF Shape, TypedBackend, TypedMemory, Memory, Newer, PageValues
    <2>2. r.queue = <<>> /\ d.queue = <<>>
      BY <1>10, <1>13 DEF Sound, SameRouter
    <2>3. /\ ~MisreadAny(image, r.batch, TRUE)
          /\ pages = WritesOf(r.batch)
          /\ \A i \in 1 .. n :
                /\ r.batch[i].kind = Pipeline(r)
                /\ DirectReads(r.batch[i]) \cup Writes(r.batch[i]) \subseteq access
                /\ r.batch[i].kind \notin Ordered =>
                      \A j \in 1 .. i - 1 :
                          Writes(r.batch[j]) \cap
                              (DirectReads(r.batch[i]) \cup Writes(r.batch[i])) = {}
      BY <1>13, <2>1 DEF Sound, BatchOK, WritesOf
    <2>4. \A p \in access : image[p] = r.gpu[p]
      BY <1>2, <1>13 DEF Memory, Newer, Agree, Sound, PageSets
    <2> HIDE DEF image, n, access
    <2>5. MisreadAny(image, r.batch, TRUE) <=> MisreadAny(r.gpu, r.batch, TRUE)
      <3>1. \A i \in 1 .. n : \A p \in DirectReads(r.batch[i]) \cup Writes(r.batch[i]) :
                image[p] = r.gpu[p]
        BY <2>3, <2>4
      <3> QED BY <2>1, <3>1, MisreadSame DEF n
    <2>6. ~MisreadAny(r.gpu, r.batch, Pipeline(r) \in Ordered)
      <3>1. CASE Pipeline(r) \in Ordered
        <4>1. (Pipeline(r) \in Ordered) = TRUE
          BY <3>1
        <4> QED BY <2>3, <2>5, <4>1
      <3>2. CASE Pipeline(r) \notin Ordered
        <4>1. (Pipeline(r) \in Ordered) = FALSE
          BY <3>2
        <4>2. \A i \in 1 .. n : \A j \in 1 .. i - 1 :
                  Writes(r.batch[j]) \cap
                      (DirectReads(r.batch[i]) \cup Writes(r.batch[i])) = {}
          BY <2>3, <3>2
        <4>3. MisreadAny(r.gpu, r.batch, FALSE) <=> MisreadAny(r.gpu, r.batch, TRUE)
          BY <1>2, <2>1, <4>2, MisreadUnordered DEF n
        <4> QED BY <2>3, <2>5, <4>1, <4>3
      <3> QED BY <3>1, <3>2
    <2>7. Memory(d) = DrawnAll(image, r.batch)
      <3>1. ASSUME NEW p \in pages
            PROVE  Memory(d)[p] = DrawnAll(image, r.batch)[p]
        <4>1. p \in Pages /\ p \in access
          BY <1>2 DEF PageSets, access
        <4>2. Memory(d)[p] = d.gpu[p]
          <5>1. r.ledger.next > r.ledger.cpu[p]
            BY <1>2, <1>13, <4>1 DEF Sound, Agree
          <5>2. d.ledger.gpu[p] > d.ledger.cpu[p]
            BY <1>5, <1>11, <4>1, <5>1
          <5> QED BY <4>1, <5>2 DEF Memory, Newer
        <4>3. DrawnFirst(r.gpu, r.batch, n)[p] = DrawnFirst(image, r.batch, n)[p]
          BY <2>1, <2>4, <4>1, DrawnSame
        <4> QED BY <1>11, <4>2, <4>3 DEF DrawnAll, n
      <3>2. ASSUME NEW p \in Pages, p \notin pages
            PROVE  Memory(d)[p] = DrawnAll(image, r.batch)[p]
        <4>1. \A i \in 1 .. n : p \notin Writes(r.batch[i])
          BY <2>1, <2>3, <3>2 DEF WritesOf
        <4>2. /\ DrawnFirst(r.gpu, r.batch, n)[p] = r.gpu[p]
              /\ DrawnFirst(image, r.batch, n)[p] = image[p]
          BY <1>2, <2>1, <4>1, DrawnKept
        <4>3. /\ d.gpu[p] = r.gpu[p] /\ d.cpu[p] = r.cpu[p]
              /\ d.ledger.gpu[p] = r.ledger.gpu[p]
              /\ d.ledger.cpu[p] = r.ledger.cpu[p]
          BY <1>5, <1>11, <3>2, <4>2 DEF DrawnAll, n
        <4>4. Memory(d)[p] = image[p]
          BY <4>3 DEF Memory, Newer, image
        <4> QED BY <4>2, <4>4 DEF DrawnAll, n
      <3>3. \A p \in Pages : Memory(d)[p] = DrawnAll(image, r.batch)[p]
        BY <3>1, <3>2
      <3> QED BY <3>3 DEF Memory, Newer, DrawnAll, DrawnFirst
    <2>8. Settled(d) = Settled(r)
      <3>1. Memory(d) \in PageValues
        BY <2>1, <2>7, DrawnType DEF DrawnAll, n
      <3> QED BY <1>9, <2>1, <2>2, <2>7, <3>1, DrawnAllNone DEF Settled, image
    <2>9. Agree(d, {})
      <3>1. ASSUME NEW p \in Pages
            PROVE  /\ d.ledger.cpu[p] < d.ledger.next /\ d.ledger.gpu[p] < d.ledger.next
                   /\ d.ledger.gpu[p] = d.ledger.cpu[p] => d.cpu[p] = d.gpu[p]
        <4>1. /\ r.ledger.cpu[p] < r.ledger.next /\ r.ledger.gpu[p] < r.ledger.next
              /\ r.ledger.gpu[p] = r.ledger.cpu[p] => r.cpu[p] = r.gpu[p]
          BY <1>13 DEF Sound, Agree
        <4>2. p \notin pages => d.gpu[p] = r.gpu[p]
          <5>1. p \notin pages => \A i \in 1 .. n : p \notin Writes(r.batch[i])
            BY <2>1, <2>3 DEF WritesOf
          <5> QED BY <1>2, <1>11, <2>1, <5>1, DrawnKept DEF DrawnAll, n
        <4>3. /\ d.ledger.cpu[p] = r.ledger.cpu[p]
              /\ d.ledger.gpu[p] = IF p \in pages THEN r.ledger.next
                                   ELSE r.ledger.gpu[p]
              /\ d.ledger.next = IF pages = {} THEN r.ledger.next
                                 ELSE r.ledger.next + 1
          BY <1>5, <1>11
        <4> QED BY <1>2, <1>11, <4>1, <4>2, <4>3
      <3> QED BY <3>1 DEF Agree
    <2>10. BatchOK(d)
      BY <1>9, NoBatch
    <2>11. QueueOK(d, {})
      <3>1. DOMAIN d.queue = {}
        BY <2>2, EmptySeq
      <3> QED BY <3>1 DEF QueueOK, MisreadAny
    <2>12. d.resident.valid => d.resident.image.held
      BY <1>1, <1>11, <1>13 DEF Sound, BatchOK
    <2>13. ~d.failed /\ ~d.misread
      BY <1>1, <1>11, <1>13, <2>6 DEF Sound
    <2> QED
      BY <1>9, <2>2, <2>8, <2>9, <2>10, <2>11, <2>12, <2>13 DEF Sound
  <1> QED BY <1>9, <1>10, <1>11, <1>12, <1>13

LEMMA DrainKeeps ==
    ASSUME NEW r, NEW d, Shape(r), d = DrainBatch(r)
    PROVE  /\ Shape(d) /\ OnlyBackend(r, d)
           /\ Alive(d) => d.batch = <<>>
           /\ r.batch = <<>> => d = r
           /\ Sound(r, {}) /\ Alive(d) =>
                 /\ Sound(d, {}) /\ Settled(d) = Settled(r)
                 /\ Captured(r) => Captured(d)
           /\ Sound(r, {}) => ~d.misread
  <1>1. CASE ~Alive(r) \/ r.batch = <<>>
    <2>1. d = r
      BY <1>1 DEF DrainBatch
    <2> QED BY <1>1, <2>1, SameAll DEF OnlyBackend, Sound
  <1>2. CASE Alive(r) /\ r.batch # <<>>
    <2> DEFINE access == r.batchReads \cup r.batchWrites
               fused == Pipeline(r) = "T8" /\ Ledger!CpuNewer(r.ledger, access) # {}
               u == UploadCpuNewer(r, access)
               v == [u EXCEPT !.serves = IF fused THEN @ ELSE @ - 1]
    <2>1. d = IF u.threw \/ (~fused /\ u.serves = 0)
              THEN ClearBatch(FailRequest(u)) ELSE NoteGpuWrites(RunBatch(v))
      BY <1>2 DEF DrainBatch
    <2>2. access \in PageSets
      BY DEF Shape, TypedBackend, PageSets
    <2>3. /\ Shape(u) /\ OnlyMoved(r, u)
          /\ Alive(u) => \A p \in access : u.ledger.cpu[p] <= u.ledger.gpu[p]
          /\ Sound(r, {}) /\ Alive(u) /\ r.queue = <<>> =>
                Sound(u, {}) /\ Memory(u) = Memory(r)
      <3> DEFINE x == UploadCpuNewer(r, access)
      <3> HIDE DEF access
      <3>1. x = UploadCpuNewer(r, access)
        OBVIOUS
      <3> HIDE DEF x
      <3> QED BY <2>2, <3>1, UploadKeeps DEF x
    <2>4. u.recursing = FALSE
      BY <1>2 DEF UploadCpuNewer, Alive, FailRequest, Shape, Fields, TypedFlags
    <2>5. Captured(r) => Captured(u)
      BY <2>3 DEF Captured, OnlyMoved, SameFrontend, SameBackend, Pipeline
    <2> HIDE DEF u, fused
    <2>6. CASE u.threw \/ (~fused /\ u.serves = 0)
      <3> DEFINE f == FailRequest(u)
      <3>1. /\ Shape(f) /\ ~Alive(f) /\ f.failed
            /\ SameFrontend(u, f) /\ SameRouter(u, f) /\ f.misread = u.misread
        BY <2>3, FailKeeps
      <3>2. d = ClearBatch(f)
        BY <2>1, <2>6
      <3> HIDE DEF f
      <3>3. /\ Shape(d) /\ ~Alive(d) /\ SameFrontend(f, d) /\ SameRouter(f, d)
            /\ SameFlags(f, d)
        BY <3>1, <3>2, ClearKeeps
      <3>4. SameFrontend(r, d) /\ SameRouter(r, d)
        BY <2>3, <3>1, <3>3 DEF OnlyMoved, SameFrontend, SameRouter
      <3>5. d.failed /\ (Sound(r, {}) => ~d.misread)
        BY <2>3, <3>1, <3>3 DEF SameFlags, OnlyMoved, Sound
      <3> QED BY <1>2, <3>3, <3>4, <3>5 DEF OnlyBackend
    <2>7. CASE ~(u.threw \/ (~fused /\ u.serves = 0))
      <3>1. Alive(u)
        BY <2>4, <2>7 DEF Alive
      <3>2. /\ DOMAIN v = Fields /\ SameFrontend(u, v) /\ SameRouter(u, v)
            /\ SameBackend(u, v) /\ SameMemory(u, v) /\ SameFlags(u, v)
        BY <2>3 DEF Shape, Fields, SameFrontend, SameRouter, SameBackend,
                    SameMemory, SameFlags
      <3>3. d = NoteGpuWrites(RunBatch(v))
        BY <2>1, <2>7
      <3> HIDE DEF v
      <3>4. /\ Shape(v) /\ Alive(v) /\ Memory(v) = Memory(u)
            /\ Captured(u) => Captured(v)
            /\ Sound(u, {}) => Sound(v, {})
            /\ Settled(v) = Settled(u)
        BY <2>3, <3>1, <3>2, SameKeeps
      <3>5. /\ v.batch # <<>>
            /\ \A p \in v.batchReads \cup v.batchWrites :
                  v.ledger.cpu[p] <= v.ledger.gpu[p]
        BY <1>2, <2>3, <3>1, <3>2 DEF OnlyMoved, SameBackend, SameMemory
      <3>6. /\ Shape(d) /\ Alive(d) /\ d.failed = v.failed
            /\ SameFrontend(v, d) /\ SameRouter(v, d) /\ d.batch = <<>>
            /\ Captured(v) /\ BatchOK(v) => Captured(d)
            /\ Sound(v, {}) => Sound(d, {}) /\ Settled(d) = Settled(v)
        BY <3>3, <3>4, <3>5, RunAndNote
      <3>7. OnlyBackend(r, d)
        <4>1. SameFrontend(r, d) /\ SameRouter(r, d)
          BY <2>3, <3>2, <3>6 DEF OnlyMoved, SameFrontend, SameRouter
        <4>2. d.failed = r.failed
          BY <2>3, <3>1, <3>2, <3>6 DEF OnlyMoved, SameFlags
        <4> QED BY <1>2, <3>6, <4>1, <4>2 DEF OnlyBackend
      <3>8. ASSUME Sound(r, {})
            PROVE  /\ Sound(d, {}) /\ Settled(d) = Settled(r)
                   /\ Captured(r) => Captured(d)
        <4>1. Sound(v, {}) /\ Settled(u) = Settled(r)
          <5>1. r.queue = <<>>
            BY <1>2, <3>8 DEF Sound
          <5> QED
            BY <2>3, <3>1, <3>4, <3>8, <5>1
               DEF Settled, OnlyMoved, SameBackend, SameRouter
        <4>2. BatchOK(v)
          BY <4>1 DEF Sound
        <4> QED BY <2>5, <3>4, <3>6, <4>1, <4>2
      <3>9. Sound(r, {}) => ~d.misread
        BY <3>8 DEF Sound
      <3> QED BY <1>2, <3>6, <3>7, <3>8, <3>9
    <2> QED BY <2>6, <2>7
  <1> QED BY <1>1, <1>2

-----------------------------------------------------------------------------
(* Preparing an access of the CPU.                                          *)

\* The batch that was left alone does not see the access, nor it the batch.
Apart(r, reads, writes) ==
    \A i \in DOMAIN r.batch :
        /\ DirectReads(r.batch[i]) \cap writes = {}
        /\ Writes(r.batch[i]) \cap (reads \cup writes) = {}

LEMMA MovedSettled ==
    ASSUME NEW r, NEW d, OnlyMoved(r, d)
    PROVE  /\ OnlyBackend(r, d) /\ Pipeline(d) = Pipeline(r)
           /\ Memory(d) = Memory(r) => Settled(d) = Settled(r)
           /\ Captured(r) => Captured(d)
  BY DEF OnlyMoved, OnlyBackend, SameFrontend, SameRouter, SameBackend, Settled,
         Captured, Pipeline

LEMMA OnlyBackendTwice ==
    ASSUME NEW r, NEW u, NEW d, OnlyBackend(r, u), OnlyBackend(u, d)
    PROVE  OnlyBackend(r, d)
  BY DEF OnlyBackend, SameFrontend, SameRouter

\* Every command of a batch writes the surface it is drawn to.
LEMMA BatchWritesSome ==
    ASSUME NEW r, Shape(r), BatchOK(r), r.batch # <<>>
    PROVE  r.batchWrites # {} /\ r.batchWrites \subseteq Pages
  <1>1. /\ r.batch \in Seq(Commands) /\ 1 \in DOMAIN r.batch
        /\ r.batch[1] \in Commands
    BY SequenceParts DEF Shape, TypedBackend
  <1>2. Writes(r.batch[1]) = {r.batch[1].frame}
    BY <1>1, CommandPages DEF BatchOK, DeviceKinds, EmptyKinds
  <1>3. Writes(r.batch[1]) \subseteq r.batchWrites
    BY <1>1 DEF BatchOK, WritesOf
  <1> QED BY <1>2, <1>3 DEF Shape, TypedBackend, PageSets

LEMMA PrepareKeeps ==
    ASSUME NEW r, NEW d, Shape(r), NEW reads \in PageSets, NEW writes \in PageSets,
           d = PrepareCpuVramAccess(r, reads, writes)
    PROVE  /\ Shape(d) /\ OnlyBackend(r, d)
           /\ Alive(d) => \A p \in reads \cup writes :
                              d.ledger.gpu[p] <= d.ledger.cpu[p]
           /\ r.batch = <<>> => d.batch = <<>>
           /\ Sound(r, {}) => ~d.misread
           /\ Sound(r, {}) /\ Alive(d) =>
                 /\ Sound(d, {}) /\ Settled(d) = Settled(r)
                 /\ Captured(r) => Captured(d)
                 /\ Apart(d, reads, writes)
                 /\ reads \cup writes = Pages => d.batch = <<>>
  <1> DEFINE conflicts ==
                 \/ r.batchWrites \cap (reads \cup writes) # {}
                 \/ r.batchReads \cap writes # {}
             u == IF conflicts THEN DrainBatch(r) ELSE r
             within == reads \cup writes
  <1>1. d = DownloadGpuNewer(u, within) /\ within \in PageSets
    BY DEF PrepareCpuVramAccess, PageSets
  <1>2. /\ Shape(u) /\ OnlyBackend(r, u)
        /\ r.batch = <<>> => u.batch = <<>>
        /\ Sound(r, {}) => ~u.misread
        /\ Sound(r, {}) /\ Alive(u) =>
              /\ Sound(u, {}) /\ Settled(u) = Settled(r)
              /\ Captured(r) => Captured(u)
    <2>1. CASE conflicts
      <3>1. u = DrainBatch(r)
        BY <2>1
      <3> HIDE DEF u
      <3> QED BY <3>1, DrainKeeps
    <2>2. CASE ~conflicts
      <3>1. u = r
        BY <2>2
      <3> QED BY <3>1, SameAll DEF OnlyBackend, Sound
    <2> QED BY <2>1, <2>2
  <1>3. Sound(r, {}) /\ Alive(u) =>
            Apart(u, reads, writes) /\ (within = Pages => u.batch = <<>>)
    <2>1. CASE conflicts
      <3>1. u = DrainBatch(r)
        BY <2>1
      <3> HIDE DEF u
      <3>2. Alive(u) => u.batch = <<>>
        BY <3>1, DrainKeeps
      <3> QED BY <3>2, EmptySeq DEF Apart
    <2>2. CASE ~conflicts
      <3>1. u = r
        BY <2>2
      <3> SUFFICES ASSUME Sound(r, {})
                   PROVE  Apart(r, reads, writes) /\ (within = Pages => r.batch = <<>>)
        BY <3>1
      <3>2. ASSUME NEW i \in DOMAIN r.batch
            PROVE  /\ DirectReads(r.batch[i]) \subseteq r.batchReads
                   /\ Writes(r.batch[i]) \subseteq r.batchWrites
        BY DEF Sound, BatchOK, WritesOf
      <3>3. Apart(r, reads, writes)
        BY <2>2, <3>2 DEF Apart
      <3>4. ASSUME within = Pages, r.batch # <<>> PROVE FALSE
        BY <2>2, <3>4, BatchWritesSome DEF Sound
      <3> QED BY <3>3, <3>4
    <2> QED BY <2>1, <2>2
  <1> HIDE DEF u, within
  <1>4. /\ Shape(d) /\ OnlyMoved(u, d)
        /\ Alive(d) => \A p \in within : d.ledger.gpu[p] <= d.ledger.cpu[p]
        /\ Sound(u, {}) /\ Alive(d) => Sound(d, {}) /\ Memory(d) = Memory(u)
    BY <1>1, <1>2, DownloadKeeps
  <1>5. /\ OnlyBackend(u, d) /\ (Memory(d) = Memory(u) => Settled(d) = Settled(u))
        /\ Captured(u) => Captured(d)
    BY <1>4, MovedSettled
  <1>6. OnlyBackend(r, d)
    BY <1>2, <1>5, OnlyBackendTwice
  <1>7. d.batch = u.batch /\ d.misread = u.misread /\ (Alive(d) => Alive(u))
    BY <1>4 DEF OnlyMoved, SameBackend
  <1>8. Apart(u, reads, writes) => Apart(d, reads, writes)
    BY <1>7 DEF Apart
  <1> QED BY <1>2, <1>3, <1>4, <1>5, <1>6, <1>7, <1>8 DEF within

-----------------------------------------------------------------------------
(* The resident batch takes a command.                                      *)

\* In order as far as the calls went.
Fine(r) == Shape(r) /\ ~r.misread /\ (Alive(r) => Sound(r, {}))

\* A call of the backend that draws nothing on what the memory will be.
Stays(r, d) ==
    /\ Fine(d) /\ OnlyBackend(r, d)
    /\ Alive(d) => Settled(d) = Settled(r)

LEMMA StaysTwice ==
    ASSUME NEW r, NEW u, NEW d, Stays(r, u), Stays(u, d)
    PROVE  Stays(r, d)
  BY OnlyBackendTwice DEF Stays, OnlyBackend

LEMMA StaysSame ==
    ASSUME NEW r, Fine(r)
    PROVE  Stays(r, r)
  BY SameAll DEF Stays, OnlyBackend

LEMMA DrainFine ==
    ASSUME NEW r, NEW d, Fine(r), d = DrainBatch(r)
    PROVE  /\ Stays(r, d) /\ (Alive(d) => d.batch = <<>>)
           /\ Captured(r) /\ Alive(d) => Captured(d)
  <1>1. CASE ~Alive(r)
    <2>1. d = r
      BY <1>1 DEF DrainBatch
    <2> QED BY <1>1, <2>1, StaysSame
  <1>2. CASE Alive(r)
    <2>1. Sound(r, {}) /\ Shape(r)
      BY <1>2 DEF Fine
    <2>2. /\ Shape(d) /\ OnlyBackend(r, d)
          /\ Alive(d) => d.batch = <<>>
          /\ Sound(r, {}) /\ Alive(d) =>
                /\ Sound(d, {}) /\ Settled(d) = Settled(r)
                /\ Captured(r) => Captured(d)
          /\ Sound(r, {}) => ~d.misread
      BY <2>1, DrainKeeps
    <2> QED BY <2>1, <2>2 DEF Stays, Fine
  <1> QED BY <1>1, <1>2

\* The device's copy of the memory for what samples its own frame is dropped.
LEMMA DroppedFine ==
    ASSUME NEW r, NEW d, Fine(r), Alive(r) => r.batch = <<>>,
           d = [r EXCEPT !.resident.valid = FALSE]
    PROVE  Stays(r, d) /\ (Alive(d) => d.batch = <<>>)
  <1>1. /\ DOMAIN d = Fields /\ d.batch = r.batch /\ d.batchReads = r.batchReads
        /\ d.batchWrites = r.batchWrites /\ d.batchTextures = r.batchTextures
        /\ d.batchSnapshot = r.batchSnapshot
        /\ d.resident = [r.resident EXCEPT !.valid = FALSE]
    BY DEF Fine, Shape, Fields
  <1>2. SameFrontend(r, d) /\ SameRouter(r, d) /\ SameFlags(r, d) /\ SameMemory(r, d)
    BY DEF Fine, Shape, Fields, SameFrontend, SameRouter, SameFlags, SameMemory
  <1>3. d.resident \in Residents /\ ~d.resident.valid
    <2>1. r.resident \in Residents
      BY DEF Fine, Shape, TypedBackend
    <2>2. \A old \in Residents :
              LET new == [old EXCEPT !.valid = FALSE] IN
              new \in Residents /\ ~new.valid
      BY DEF Residents
    <2> QED BY <1>1, <2>1, <2>2
  <1>4. TypedBackend(d) /\ Len(d.batch) <= MaxBatch
    BY <1>1, <1>3 DEF Fine, Shape, TypedBackend
  <1>5. Shape(d) /\ (Alive(d) <=> Alive(r))
    <2>1. Shape(r) /\ ~d.broken
      BY <1>2 DEF Fine, Shape, SameFlags
    <2>2. TypedMemory(d) /\ TypedFlags(d) /\ (Alive(d) <=> Alive(r))
      BY <1>2, <2>1, TypedSame
    <2> QED BY <1>1, <1>2, <1>4, <2>1, <2>2, ShapeOfBackend
  <1>6. ASSUME Alive(d) PROVE Sound(d, {}) /\ Settled(d) = Settled(r)
    <2>1. Sound(r, {}) /\ d.batch = <<>> /\ d.batchWrites = {}
      <3>1. Sound(r, {}) /\ r.batch = <<>>
        BY <1>5, <1>6 DEF Fine
      <3>2. r.batchWrites = {}
        BY <3>1, EmptySeq DEF Sound, BatchOK, WritesOf
      <3> QED BY <1>1, <3>1, <3>2
    <2>2. BatchOK(d)
      BY <1>5, <2>1, NoBatch
    <2>3. Memory(d) = Memory(r)
      BY <1>2 DEF SameMemory, Memory
    <2>4. QueueOK(d, {}) /\ Agree(d, {})
      BY <1>2, <2>1, <2>3 DEF Sound, QueueOK, Agree, SameMemory, SameRouter
    <2>5. ~d.failed /\ ~d.misread
      BY <1>2, <2>1 DEF Sound, SameFlags
    <2>6. Settled(d) = Settled(r)
      BY <1>1, <1>2, <2>3 DEF Settled, SameRouter
    <2> QED BY <1>3, <1>5, <1>6, <2>1, <2>2, <2>4, <2>5, <2>6 DEF Sound
  <1> QED BY <1>1, <1>2, <1>5, <1>6 DEF Stays, Fine, OnlyBackend, SameFlags

\* What makes room for a command either leaves the batch or empties it.
Room(r, d, c) ==
    /\ Stays(r, d)
    /\ d = r \/ (Alive(d) => d.batch = <<>>)
    /\ Captured(r) /\ Alive(d) => Captured(d) \/ c.kind = "FeedbackNearest"

LEMMA RoomSame ==
    ASSUME NEW r, NEW c, Fine(r)
    PROVE  Room(r, r, c)
  BY StaysSame DEF Room

LEMMA RoomDrained ==
    ASSUME NEW r, NEW d, NEW c, Fine(r), d = DrainBatch(r)
    PROVE  Room(r, d, c) /\ (Alive(d) => d.batch = <<>>)
  BY DrainFine DEF Room

LEMMA RoomForPipeline ==
    ASSUME NEW r, NEW d, NEW c, Fine(r), d = DrainForPipeline(r, c)
    PROVE  Room(r, d, c) /\ (Alive(d) => d.batch = <<>> \/ Pipeline(d) = c.kind)
  <1>1. CASE Pipeline(r) \notin {"None", c.kind}
    BY <1>1, RoomDrained DEF DrainForPipeline
  <1>2. CASE Pipeline(r) \in {"None", c.kind}
    <2>1. d = r
      BY <1>2 DEF DrainForPipeline
    <2>2. ASSUME Alive(r), r.batch # <<>> PROVE Pipeline(r) # "None"
      <3>1. 1 \in DOMAIN r.batch
        BY <2>2, SequenceParts DEF Fine, Shape, TypedBackend
      <3>2. Pipeline(r) \in DeviceKinds
        BY <2>2, <3>1 DEF Fine, Sound, BatchOK
      <3> QED BY <3>2 DEF DeviceKinds
    <2> QED BY <1>2, <2>1, <2>2, RoomSame
  <1> QED BY <1>1, <1>2

LEMMA RoomForTarget ==
    ASSUME NEW r, NEW d, NEW c, Fine(r), d = DrainForTarget(r, c)
    PROVE  Room(r, d, c)
  <1>1. \/ d = r \/ d = DrainBatch(r)
        \/ c.kind = "FeedbackNearest" /\
              d = [DrainBatch(r) EXCEPT !.resident.valid = FALSE]
    BY DEF DrainForTarget
  <1>2. CASE c.kind = "FeedbackNearest" /\
                 d = [DrainBatch(r) EXCEPT !.resident.valid = FALSE]
    <2> DEFINE u == DrainBatch(r)
    <2>1. d = [u EXCEPT !.resident.valid = FALSE] /\ u = DrainBatch(r)
      BY <1>2
    <2> HIDE DEF u
    <2>2. Stays(r, u) /\ (Alive(u) => u.batch = <<>>)
      BY <2>1, DrainFine
    <2>3. Stays(u, d) /\ (Alive(d) => d.batch = <<>>)
      BY <2>1, <2>2, DroppedFine DEF Stays
    <2> QED BY <1>2, <2>2, <2>3, StaysTwice DEF Room
  <1> QED BY <1>1, <1>2, RoomSame, RoomDrained

LEMMA RoomForDependency ==
    ASSUME NEW r, NEW d, NEW c, Fine(r), d = DrainForDependency(r, c)
    PROVE  /\ Room(r, d, c)
           /\ Alive(d) /\ c.kind \notin Ordered =>
                 d.batchWrites \cap (DirectReads(c) \cup Writes(c)) = {}
  <1>1. CASE d = DrainBatch(r)
    <2>1. Room(r, d, c) /\ (Alive(d) => d.batch = <<>>)
      BY <1>1, RoomDrained
    <2>2. ASSUME Alive(d) PROVE d.batchWrites = {}
      BY <2>1, <2>2, EmptySeq DEF Room, Stays, Fine, Sound, BatchOK, WritesOf
    <2> QED BY <2>1, <2>2
  <1>2. CASE d # DrainBatch(r)
    BY <1>2, RoomSame DEF DrainForDependency
  <1> QED BY <1>1, <1>2

LEMMA RoomInFull ==
    ASSUME NEW r, NEW d, NEW c, Fine(r), d = DrainFull(r)
    PROVE  Room(r, d, c) /\ (Alive(d) => Len(d.batch) < MaxBatch)
  <1>1. CASE Len(r.batch) >= MaxBatch
    <2>1. Room(r, d, c) /\ (Alive(d) => d.batch = <<>>)
      BY <1>1, RoomDrained DEF DrainFull
    <2> QED BY <2>1, EmptySeq, ConstantsAssumption
  <1>2. CASE ~(Len(r.batch) >= MaxBatch)
    <2>1. Len(r.batch) \in Nat
      BY SequenceParts DEF Fine, Shape, TypedBackend
    <2> QED BY <1>2, <2>1, RoomSame, ConstantsAssumption DEF DrainFull
  <1> QED BY <1>1, <1>2

LEMMA RoomTwice ==
    ASSUME NEW r, NEW u, NEW d, NEW c, Room(r, u, c), Room(u, d, c)
    PROVE  Room(r, d, c)
  <1>1. Stays(r, d) /\ (Alive(d) => Alive(u))
    BY StaysTwice DEF Room, Stays, OnlyBackend
  <1>2. d = r \/ (Alive(d) => d.batch = <<>>)
    BY <1>1 DEF Room
  <1>3. Captured(r) /\ Alive(d) => Captured(d) \/ c.kind = "FeedbackNearest"
    BY <1>1 DEF Room
  <1> QED BY <1>1, <1>2, <1>3 DEF Room

\* What a command needs when its turn comes.
Ready(r, c) ==
    /\ c \in Commands
    /\ Alive(r) => ~Misread(Settled(r), c)

\* The batch has room for the command and no command it must not join.
Admits(r, c) ==
    /\ r.batch = <<>> \/ Pipeline(r) = c.kind
    /\ c.kind \notin Ordered =>
          r.batchWrites \cap (DirectReads(c) \cup Writes(c)) = {}
    /\ Len(r.batch) < MaxBatch

\* The snapshot of an opened batch, and what it samples.
LEMMA SnapshotOpened ==
    ASSUME NEW r, NEW c, NEW snapshot, Shape(r), snapshot = SnapshotFor(r, c)
    PROVE  /\ snapshot \in BatchSnapshots
           /\ snapshot.mode = "ReuseResident" => r.resident.valid
  <1>1. r.snapshot.generation \in Nat /\ HostSnapshot(r) \in Images
        /\ NoImage \in Images
    BY DEF Shape, TypedFront, Snapshots, HostSnapshot, NoImage, Images, PageValues
  <1> QED BY <1>1 DEF SnapshotFor, BatchSnapshots

\* The command is the last of the batch.
Joined(r, d, c, snapshot) ==
    /\ d.batch = Append(r.batch, c)
    /\ d.batchSnapshot = snapshot
    /\ d.batchReads = IF snapshot.mode = "CaptureResident" THEN Pages
                      ELSE r.batchReads \cup DirectReads(c)
    /\ d.batchWrites = r.batchWrites \cup Writes(c)
    /\ d.resident = r.resident

LEMMA JoinType ==
    ASSUME NEW r, NEW d, NEW c \in Commands, Fine(r), Alive(r), Admits(r, c),
           d = JoinBatch(r, c), d # FailRequest(r)
    PROVE  LET opens == r.batch = <<>> /\ c.kind \in Recursive
               snapshot == IF opens THEN SnapshotFor(r, c) ELSE r.batchSnapshot
           IN  /\ Shape(d) /\ Alive(d)
               /\ SameFrontend(r, d) /\ SameRouter(r, d)
               /\ SameMemory(r, d) /\ SameFlags(r, d)
               /\ Joined(r, d, c, snapshot)
               /\ opens /\ snapshot.mode = "UploadHost" => snapshot.image.held
               /\ snapshot.mode = "ReuseResident" /\ opens => r.resident.valid
  <1> DEFINE opens == r.batch = <<>> /\ c.kind \in Recursive
             snapshot == IF opens THEN SnapshotFor(r, c) ELSE r.batchSnapshot
             reads == IF snapshot.mode = "CaptureResident" THEN Pages
                      ELSE r.batchReads \cup DirectReads(c)
             textures == IF c.kind = "T8" THEN r.batchTextures \cup c.sampled
                         ELSE r.batchTextures
             writes == r.batchWrites \cup Writes(c)
             batch == Append(r.batch, c)
  <1>1. /\ d = [r EXCEPT !.batch = batch, !.batchSnapshot = snapshot,
                         !.batchReads = reads, !.batchWrites = writes,
                         !.batchTextures = textures]
        /\ opens /\ snapshot.mode = "UploadHost" => snapshot.image.held
    BY DEF JoinBatch
  <1>2. /\ batch \in Seq(Commands) /\ Len(batch) <= MaxBatch
    <2>1. r.batch \in Seq(Commands) /\ Len(r.batch) \in Nat
      BY SequenceParts DEF Fine, Shape, TypedBackend
    <2> QED BY <2>1, AppendParts, ConstantsAssumption DEF Admits
  <1>3. {reads, writes, textures} \subseteq PageSets
    BY CommandPages DEF Fine, Shape, TypedBackend, PageSets
  <1>4. /\ snapshot \in BatchSnapshots
        /\ snapshot.mode = "ReuseResident" /\ opens => r.resident.valid
    <2>1. /\ SnapshotFor(r, c) \in BatchSnapshots
          /\ SnapshotFor(r, c).mode = "ReuseResident" => r.resident.valid
      <3> DEFINE s == SnapshotFor(r, c)
      <3>1. s = SnapshotFor(r, c)
        OBVIOUS
      <3> HIDE DEF s
      <3>2. s \in BatchSnapshots /\ (s.mode = "ReuseResident" => r.resident.valid)
        BY <3>1, SnapshotOpened DEF Fine
      <3> QED BY <3>1, <3>2
    <2>2. r.batchSnapshot \in BatchSnapshots
      BY DEF Fine, Shape, TypedBackend
    <2> QED BY <2>1, <2>2
  <1> HIDE DEF opens, snapshot, reads, textures, writes, batch
  <1>5. /\ DOMAIN d = Fields /\ d.batch = batch /\ d.batchSnapshot = snapshot
        /\ d.batchReads = reads /\ d.batchWrites = writes
        /\ d.batchTextures = textures /\ d.resident = r.resident
    BY <1>1 DEF Fine, Shape, Fields
  <1>6. SameFrontend(r, d) /\ SameRouter(r, d) /\ SameFlags(r, d) /\ SameMemory(r, d)
    BY <1>1 DEF Fine, Shape, Fields, SameFrontend, SameRouter, SameFlags, SameMemory
  <1>7. TypedBackend(d) /\ Len(d.batch) <= MaxBatch
    BY <1>2, <1>3, <1>4, <1>5 DEF Fine, Shape, TypedBackend
  <1>8. Shape(d) /\ Alive(d)
    <2>1. Shape(r) /\ ~d.broken
      BY <1>6 DEF Fine, Shape, SameFlags
    <2>2. TypedMemory(d) /\ TypedFlags(d) /\ (Alive(d) <=> Alive(r))
      BY <1>6, <2>1, TypedSame
    <2> QED BY <1>5, <1>6, <1>7, <2>1, <2>2, ShapeOfBackend
  <1>9. Joined(r, d, c, snapshot)
    BY <1>5 DEF Joined, batch, reads, writes
  <1> QED BY <1>1, <1>4, <1>6, <1>8, <1>9 DEF opens, snapshot

LEMMA JoinKeeps ==
    ASSUME NEW r, NEW d, NEW c, Fine(r), Ready(r, c),
           Alive(r) => r.queue = <<>> /\ Admits(r, c),
           c.kind \in DeviceKinds, c.kind = "FeedbackLinear" => OnHost(r),
           d = JoinBatch(r, c)
    PROVE  /\ Fine(d) /\ OnlyBackend(r, d)
           /\ Alive(d) => /\ Settled(d) = Drawn(Settled(r), c)
                          /\ Pipeline(d) = c.kind
                          /\ Captured(r) => Captured(d)
  <1>1. CASE ~Alive(r)
    <2>1. d = r
      BY <1>1 DEF JoinBatch
    <2> QED BY <1>1, <2>1, StaysSame DEF Stays
  <1>2. CASE Alive(r) /\ d = FailRequest(r)
    BY <1>2, FailKeeps DEF Fine, OnlyBackend
  <1>3. CASE Alive(r) /\ d # FailRequest(r)
    <2> DEFINE opens == r.batch = <<>> /\ c.kind \in Recursive
               snapshot == IF opens THEN SnapshotFor(r, c) ELSE r.batchSnapshot
               n == Len(r.batch)
    <2>1. c \in Commands /\ Sound(r, {}) /\ Admits(r, c) /\ r.queue = <<>>
      BY <1>3 DEF Ready, Fine
    <2>2. /\ Shape(d) /\ Alive(d)
          /\ SameFrontend(r, d) /\ SameRouter(r, d)
          /\ SameMemory(r, d) /\ SameFlags(r, d)
          /\ Joined(r, d, c, snapshot)
          /\ opens /\ snapshot.mode = "UploadHost" => snapshot.image.held
          /\ snapshot.mode = "ReuseResident" /\ opens => r.resident.valid
      BY <1>3, <2>1, JoinType
    <2> HIDE DEF opens, snapshot, n
    <2>3. Memory(r) \in PageValues /\ Memory(d) = Memory(r)
      BY <2>2 DEF Fine, Shape, TypedMemory, Memory, Newer, PageValues, SameMemory
    <2>4. /\ r.batch \in Seq(Commands) /\ n \in Nat /\ DOMAIN r.batch = 1 .. n
          /\ d.batch \in Seq(Commands) /\ DOMAIN d.batch = 1 .. n + 1
          /\ \A i \in 1 .. n : d.batch[i] = r.batch[i]
          /\ d.batch[n + 1] = c /\ d.batch # <<>>
      <3>1. r.batch \in Seq(Commands) /\ d.batch = Append(r.batch, c)
        BY <2>2 DEF Fine, Shape, TypedBackend, Joined
      <3>2. n \in Nat /\ DOMAIN r.batch = 1 .. n
        BY <3>1, SequenceParts DEF n
      <3>3. /\ d.batch \in Seq(Commands) /\ Len(d.batch) = n + 1 /\ d.batch # <<>>
            /\ \A i \in 1 .. n : d.batch[i] = r.batch[i]
            /\ d.batch[n + 1] = c
        BY <2>1, <3>1, AppendParts DEF n
      <3>4. DOMAIN d.batch = 1 .. Len(d.batch)
        BY <3>3, SequenceParts
      <3> QED BY <3>1, <3>2, <3>3, <3>4
    <2>5. Settled(r) = DrawnAll(Memory(r), r.batch)
          /\ Settled(d) = DrawnAll(Memory(r), d.batch)
      BY <2>1, <2>2, <2>3, DrawnAllNone DEF Settled, SameRouter
    <2>6. /\ Settled(d) = Drawn(Settled(r), c)
          /\ ~MisreadAny(Memory(d), d.batch, TRUE)
      <3>1. ~Misread(Settled(r), c) /\ ~MisreadAny(Memory(r), r.batch, TRUE)
        BY <1>3, <2>1 DEF Ready, Sound, BatchOK
      <3> QED BY <2>1, <2>2, <2>3, <2>4, <2>5, <3>1, DrawnAppend DEF Joined
    <2>7. Pipeline(d) = c.kind
      <3>1. Pipeline(d) = d.batch[1].kind
        BY <2>4, HeadTailProperties DEF Pipeline
      <3>2. CASE n = 0
        BY <2>4, <3>1, <3>2
      <3>3. CASE n # 0
        <4>1. 1 \in 1 .. n /\ r.batch # <<>>
          BY <2>4, <3>3, EmptySeq DEF n
        <4>2. Pipeline(r) = c.kind /\ r.batch[1].kind = Pipeline(r)
          BY <2>1, <2>4, <4>1 DEF Admits, Sound, BatchOK
        <4> QED BY <2>4, <3>1, <4>1, <4>2
      <3> QED BY <3>2, <3>3
    <2>8. d.batchWrites = WritesOf(d.batch)
      <3>1. WritesOf(d.batch) = WritesOf(r.batch) \cup Writes(c)
        <4>1. 1 .. n + 1 = (1 .. n) \cup {n + 1}
          BY <2>4
        <4> QED BY <2>4, <4>1 DEF WritesOf
      <3> QED BY <2>1, <2>2, <3>1 DEF Sound, BatchOK, Joined
    <2>9. ASSUME NEW i \in 1 .. n + 1
          PROVE  /\ d.batch[i].kind = Pipeline(d)
                 /\ d.batch[i].kind \in DeviceKinds
                 /\ DirectReads(d.batch[i]) \subseteq d.batchReads
                 /\ d.batch[i].kind \notin Ordered =>
                       \A j \in 1 .. i - 1 :
                           Writes(d.batch[j]) \cap
                               (DirectReads(d.batch[i]) \cup Writes(d.batch[i])) = {}
      <3>1. CASE i = n + 1
        <4>1. d.batch[i] = c
          BY <2>4, <3>1
        <4>2. DirectReads(c) \subseteq d.batchReads
          BY <2>1, <2>2, CommandPages DEF Joined
        <4>3. ASSUME c.kind \notin Ordered, NEW j \in 1 .. i - 1
              PROVE  Writes(d.batch[j]) \cap (DirectReads(c) \cup Writes(c)) = {}
          <5>1. j \in 1 .. n /\ d.batch[j] = r.batch[j]
            BY <2>4, <3>1
          <5>2. Writes(r.batch[j]) \subseteq r.batchWrites
            BY <2>1, <2>4, <5>1 DEF Sound, BatchOK, WritesOf
          <5> QED BY <2>1, <4>3, <5>1, <5>2 DEF Admits
        <4> QED BY <2>7, <4>1, <4>2, <4>3
      <3>2. CASE i # n + 1
        <4>1. i \in 1 .. n /\ d.batch[i] = r.batch[i]
              /\ \A j \in 1 .. i - 1 : j \in 1 .. n /\ d.batch[j] = r.batch[j]
          BY <2>4, <3>2
        <4>2. r.batch # <<>>
          BY <2>4, <4>1, EmptySeq DEF n
        <4>3. Pipeline(r) = c.kind
          BY <2>1, <4>2 DEF Admits
        <4>4. r.batchReads \subseteq d.batchReads
          BY <2>2 DEF Joined, Fine, Shape, TypedBackend, PageSets
        <4>5. /\ r.batch[i].kind = Pipeline(r)
              /\ r.batch[i].kind \in DeviceKinds
              /\ DirectReads(r.batch[i]) \subseteq r.batchReads
              /\ r.batch[i].kind \notin Ordered =>
                    \A j \in 1 .. i - 1 :
                        Writes(r.batch[j]) \cap
                            (DirectReads(r.batch[i]) \cup Writes(r.batch[i])) = {}
          BY <2>1, <2>4, <4>1 DEF Sound, BatchOK
        <4> QED BY <2>7, <4>1, <4>3, <4>4, <4>5
      <3> QED BY <3>1, <3>2
    <2>10. c.kind = "FeedbackNearest" => SampledImage(d).held
      <3> SUFFICES ASSUME c.kind = "FeedbackNearest"
                   PROVE  SampledImage(d).held
        OBVIOUS
      <3>1. d.batchSnapshot = snapshot /\ d.resident = r.resident /\ d.gpu = r.gpu
        BY <2>2 DEF Joined, SameMemory
      <3>2. CASE opens
        <4>1. snapshot.mode \in {"UploadHost", "CaptureResident", "ReuseResident"}
          BY <2>2, <3>1 DEF Shape, TypedBackend, BatchSnapshots
        <4>2. r.resident.valid => r.resident.image.held
          BY <2>1 DEF Sound
        <4> QED BY <2>2, <3>1, <3>2, <4>1, <4>2 DEF SampledImage
      <3>3. CASE ~opens
        <4>1. r.batch # <<>>
          BY <3>3 DEF opens, Recursive
        <4>2. SampledImage(r).held
          BY <2>1, <4>1 DEF Admits, Sound, BatchOK
        <4>3. SampledImage(d) = SampledImage(r)
          BY <3>1, <3>3 DEF SampledImage, snapshot
        <4> QED BY <4>2, <4>3
      <3> QED BY <3>2, <3>3
    <2>11. OnHost(d) <=> OnHost(r)
      BY <2>2 DEF SameFrontend, OnHost
    <2>12. BatchOK(d)
      <3>1. DOMAIN d.batch = 1 .. n + 1
        BY <2>4
      <3> QED BY <2>6, <2>7, <2>8, <2>9, <2>10, <2>11, <3>1 DEF BatchOK
    <2>13. QueueOK(d, {}) /\ Agree(d, {})
      BY <2>1, <2>2, <2>3 DEF Sound, QueueOK, Agree, SameMemory, SameRouter
    <2>14. ~d.failed /\ ~d.misread
      BY <2>1, <2>2 DEF Sound, SameFlags
    <2>15. Sound(d, {})
      <3>1. d.queue = <<>> /\ (d.resident.valid => d.resident.image.held)
        BY <2>1, <2>2 DEF SameRouter, Joined, Sound
      <3> QED BY <2>2, <2>12, <2>13, <2>14, <3>1 DEF Sound
    <2>16. Captured(r) => Captured(d)
      <3>1. Pipeline(r) = "FeedbackNearest" => c.kind = "FeedbackNearest"
        BY <2>1 DEF Admits, Pipeline
      <3>2. d.resident = r.resident /\ d.snapshot = r.snapshot
        BY <2>2 DEF Joined, SameFrontend
      <3> QED BY <2>7, <3>1, <3>2 DEF Captured
    <2>17. OnlyBackend(r, d)
      BY <1>3, <2>2 DEF OnlyBackend, SameFlags
    <2> QED BY <2>2, <2>6, <2>7, <2>14, <2>15, <2>16, <2>17 DEF Fine
  <1> QED BY <1>1, <1>2, <1>3

\* The command is handed to the device: it draws on what was there before it.
LEMMA ResidentKeeps ==
    ASSUME NEW r, NEW d, NEW c, Fine(r), Ready(r, c), Alive(r) => r.queue = <<>>,
           c.kind \in DeviceKinds, c.kind = "FeedbackLinear" => OnHost(r),
           d = SubmitResident(r, c)
    PROVE  /\ Fine(d) /\ OnlyBackend(r, d)
           /\ Alive(d) => /\ Settled(d) = Drawn(Settled(r), c)
                          /\ Captured(r) => Captured(d)
                          /\ c.kind = "FeedbackNearest" => Captured(d)
  <1> DEFINE u == DrainForPipeline(r, c)
             v == DrainForTarget(u, c)
             w == DrainForDependency(v, c)
             x == DrainFull(w)
  <1>1. /\ u = DrainForPipeline(r, c) /\ v = DrainForTarget(u, c)
        /\ w = DrainForDependency(v, c) /\ x = DrainFull(w) /\ d = JoinBatch(x, c)
    BY DEF SubmitResident
  <1> HIDE DEF u, v, w, x
  <1>2. Room(r, u, c) /\ (Alive(u) => u.batch = <<>> \/ Pipeline(u) = c.kind)
    BY <1>1, RoomForPipeline
  <1>3. Room(u, v, c)
    BY <1>1, <1>2, RoomForTarget DEF Room, Stays
  <1>4. /\ Room(v, w, c)
        /\ Alive(w) /\ c.kind \notin Ordered =>
              w.batchWrites \cap (DirectReads(c) \cup Writes(c)) = {}
    BY <1>1, <1>3, RoomForDependency DEF Room, Stays
  <1>5. Room(w, x, c) /\ (Alive(x) => Len(x.batch) < MaxBatch)
    BY <1>1, <1>4, RoomInFull DEF Room, Stays
  <1>6. Room(u, x, c)
    BY <1>3, <1>4, <1>5, RoomTwice
  <1>7. Room(r, x, c)
    BY <1>2, <1>6, RoomTwice
  <1>8. Stays(r, x) /\ Fine(x) /\ OnlyBackend(r, x)
    BY <1>7 DEF Room, Stays
  <1>9. ASSUME Alive(x) PROVE Admits(x, c) /\ x.queue = <<>>
    <2>1. x.batch = <<>> \/ Pipeline(x) = c.kind
      BY <1>2, <1>6, <1>9 DEF Room
    <2>2. x.batch = <<>> => x.batchWrites = {}
      BY <1>8, <1>9, EmptySeq DEF Fine, Sound, BatchOK, WritesOf
    <2>3. c.kind \notin Ordered =>
              x.batchWrites \cap (DirectReads(c) \cup Writes(c)) = {}
      BY <1>4, <1>5, <1>9, <2>2 DEF Room
    <2>4. Alive(r) /\ x.queue = r.queue
      BY <1>8, <1>9 DEF OnlyBackend, SameRouter
    <2> QED BY <1>5, <1>9, <2>1, <2>3, <2>4 DEF Admits
  <1>10. Ready(x, c) /\ (c.kind = "FeedbackLinear" => OnHost(x))
    BY <1>8 DEF Ready, Stays, OnlyBackend, SameFrontend, OnHost
  <1>11. /\ Fine(d) /\ OnlyBackend(x, d)
         /\ Alive(d) => /\ Settled(d) = Drawn(Settled(x), c)
                        /\ Pipeline(d) = c.kind
                        /\ Captured(x) => Captured(d)
    BY <1>1, <1>8, <1>9, <1>10, JoinKeeps
  <1>12. OnlyBackend(r, d)
    BY <1>8, <1>11, OnlyBackendTwice
  <1>13. ASSUME Alive(d)
         PROVE  /\ Settled(d) = Drawn(Settled(r), c)
                /\ Captured(r) => Captured(d)
                /\ c.kind = "FeedbackNearest" => Captured(d)
    <2>1. Alive(x) /\ Settled(x) = Settled(r)
      BY <1>8, <1>11, <1>13 DEF OnlyBackend, Stays
    <2>2. Captured(r) => Captured(d)
      BY <1>7, <1>11, <1>13, <2>1 DEF Room, Captured
    <2>3. c.kind = "FeedbackNearest" => Captured(d)
      BY <1>11, <1>13 DEF Captured
    <2> QED BY <1>11, <1>13, <2>1, <2>2, <2>3
  <1> QED BY <1>11, <1>12, <1>13

-----------------------------------------------------------------------------
(* Rendering by the CPU.                                                    *)

\* A call that leaves the frontend and the deferred run as they are.
LEMMA ShapeOfRouter ==
    ASSUME NEW r, NEW d, Shape(r), DOMAIN d = Fields,
           SameFrontend(r, d), d.deferred = r.deferred,
           TypedRouter(d), TypedBackend(d), TypedMemory(d), TypedFlags(d),
           Len(d.batch) <= MaxBatch, ~d.broken
    PROVE  Shape(d)
  BY TypedSame DEF Shape, SameFrontend, OnHost

\* Only which backend is active, and which run it goes on with, differ.
OnlyRouted(r, d) ==
    /\ DOMAIN d = Fields
    /\ SameFrontend(r, d) /\ SameBackend(r, d)
    /\ SameMemory(r, d) /\ SameFlags(r, d)
    /\ d.queue = r.queue /\ d.deferred = r.deferred
    /\ d.active \in Backends
    /\ r.tail = NoTail => d.tail = NoTail

LEMMA RoutedKeeps ==
    ASSUME NEW r, NEW d, Shape(r), OnlyRouted(r, d)
    PROVE  /\ Shape(d) /\ (Alive(d) <=> Alive(r))
           /\ Memory(d) = Memory(r) /\ Settled(d) = Settled(r)
           /\ Captured(r) => Captured(d)
           /\ \A unnoted : Sound(r, unnoted) => Sound(d, unnoted)
  <1>1. Shape(d) /\ (Alive(d) <=> Alive(r))
    <2>1. TypedRouter(d)
      BY DEF OnlyRouted, Shape, TypedRouter
    <2>2. /\ TypedBackend(d) /\ TypedMemory(d) /\ TypedFlags(d)
          /\ (Alive(d) <=> Alive(r)) /\ Len(d.batch) <= MaxBatch
      BY TypedSame DEF OnlyRouted
    <2>3. ~d.broken
      BY DEF OnlyRouted, SameFlags, Shape
    <2> QED BY <2>1, <2>2, <2>3, ShapeOfRouter DEF OnlyRouted
  <1>2. Memory(d) = Memory(r)
    BY DEF OnlyRouted, SameMemory, Memory
  <1>3. Settled(d) = Settled(r)
    BY <1>2 DEF Settled, OnlyRouted, SameBackend
  <1>4. Captured(r) => Captured(d)
    BY DEF Captured, OnlyRouted, SameFrontend, SameBackend, Pipeline
  <1>5. ASSUME NEW unnoted, Sound(r, unnoted) PROVE Sound(d, unnoted)
    <2>1. Agree(d, unnoted)
      BY <1>5 DEF Agree, Sound, OnlyRouted, SameMemory
    <2>2. Alive(d) /\ ~d.failed /\ ~d.misread
      BY <1>1, <1>5 DEF Sound, OnlyRouted, SameFlags
    <2>3. StaysAhead(r, d, unnoted, unnoted)
      BY DEF StaysAhead, OnlyRouted, SameMemory
    <2> QED BY <1>1, <1>2, <1>5, <2>1, <2>2, <2>3, SoundMoved DEF OnlyRouted
  <1> QED BY <1>1, <1>2, <1>3, <1>4, <1>5

\* What the software renderer keeps: it draws on the CPU's copy.
OnlySoftware(r, d) ==
    /\ SameFrontend(r, d) /\ SameBackend(r, d)
    /\ d.ledger = r.ledger /\ d.gpu = r.gpu
    /\ d.deferred = r.deferred /\ d.failed = r.failed
    /\ r.tail = NoTail => d.tail = NoTail

\* The pages a command needs are in the CPU's copy.
InCpu(r, c) ==
    \A p \in DirectReads(c) \cup Writes(c) : r.ledger.gpu[p] <= r.ledger.cpu[p]

\* The types of a renderer whose CPU copy was drawn on.
LEMMA SoftwareShape ==
    ASSUME NEW r, NEW d, Shape(r), DOMAIN d = Fields, OnlySoftware(r, d),
           d.active = r.active, d.queue \in Seq(Commands), d.cpu \in PageValues,
           d.threw = r.threw, d.recursing = r.recursing, d.broken = r.broken,
           {d.misread, d.misfed} \subseteq BOOLEAN
    PROVE  Shape(d) /\ (Alive(d) <=> Alive(r))
  <1>1. TypedRouter(d)
    BY DEF Shape, TypedRouter, OnlySoftware
  <1>2. TypedBackend(d) /\ Len(d.batch) <= MaxBatch
    BY TypedSame DEF OnlySoftware
  <1>3. TypedMemory(d) /\ TypedFlags(d) /\ ~d.broken
    BY DEF Shape, TypedMemory, TypedFlags, OnlySoftware
  <1>4. Shape(d)
    BY <1>1, <1>2, <1>3, ShapeOfRouter DEF OnlySoftware
  <1> QED BY <1>4 DEF Alive

\* Of a drawn page the CPU's copy is the newer.
LEMMA SoftwareMemory ==
    ASSUME NEW r, NEW d, Shape(r), d.ledger = r.ledger, d.gpu = r.gpu,
           NEW image \in PageValues,
           \A p \in Pages :
               IF r.ledger.gpu[p] <= r.ledger.cpu[p]
               THEN d.cpu[p] = image[p] ELSE Memory(r)[p] = image[p]
    PROVE  Memory(d) = image
  <1>1. \A p \in Pages : r.ledger.gpu[p] \in Nat /\ r.ledger.cpu[p] \in Nat
    BY DEF Shape, TypedMemory, Ledgers, PageValues
  <1>2. \A p \in Pages : Memory(d)[p] = image[p]
    BY <1>1 DEF Memory, Newer
  <1> QED BY <1>2 DEF Memory, Newer, PageValues

\* A renderer without a queue and a batch is in order when its copies are.
LEMMA SoundEmpty ==
    ASSUME NEW r, NEW unnoted, Shape(r), Alive(r), ~r.failed, ~r.misread,
           r.queue = <<>>, r.batch = <<>>, r.batchWrites = {},
           r.resident.valid => r.resident.image.held, Agree(r, unnoted)
    PROVE  Sound(r, unnoted) /\ Settled(r) = Memory(r)
  <1>1. BatchOK(r)
    BY NoBatch
  <1>2. DOMAIN r.queue = {} /\ Memory(r) \in PageValues
    BY EmptySeq DEF Shape, TypedMemory, Memory, Newer, PageValues
  <1>3. QueueOK(r, unnoted) /\ Settled(r) = Memory(r)
    BY <1>2, DrawnAllNone DEF QueueOK, Settled
  <1> QED BY <1>1, <1>3 DEF Sound

LEMMA HostHeld ==
    ASSUME NEW r, Shape(r), OnHost(r)
    PROVE  HostSnapshot(r).held
  BY DEF Shape, OnHost, HostSnapshot

LEMMA RenderKeeps ==
    ASSUME NEW r, NEW d, NEW c \in Commands, Shape(r), Alive(r),
           c.kind \in Recursive => HostSnapshot(r).held, d = RenderSoftware(r, c)
    PROVE  /\ Shape(d) /\ Alive(d) /\ OnlySoftware(r, d) /\ SameRouter(r, d)
           /\ \A unnoted \in PageSets :
                 /\ Sound(r, unnoted) /\ r.queue = <<>> /\ r.batch = <<>>
                 /\ Writes(c) \subseteq unnoted
                 /\ InCpu(r, c) /\ ~Misread(Settled(r), c)
                 => Sound(d, unnoted) /\ Settled(d) = Drawn(Settled(r), c)
  <1> DEFINE cpu == Drawn(r.cpu, c)
             misread == r.misread \/ Misread(r.cpu, c)
             misfed == r.misfed \/ Misfed(r.host, c)
  <1>1. d = [r EXCEPT !.cpu = cpu, !.misread = misread, !.misfed = misfed]
    BY DEF RenderSoftware
  <1>2. r.cpu \in PageValues /\ cpu \in PageValues
    BY DrawnOneType DEF Shape, TypedMemory
  <1>3. {misread, misfed} \subseteq BOOLEAN /\ (misread <=> r.misread \/ Misread(r.cpu, c))
    OBVIOUS
  <1> HIDE DEF misread, misfed
  <1>4. /\ DOMAIN d = Fields /\ d.cpu = cpu /\ d.misread = misread
        /\ d.misfed = misfed /\ d.threw = r.threw /\ d.recursing = r.recursing
        /\ d.broken = r.broken
    BY <1>1 DEF Shape, Fields
  <1>5. OnlySoftware(r, d) /\ SameRouter(r, d)
    BY <1>1 DEF Shape, Fields, OnlySoftware, SameFrontend, SameBackend, SameRouter
  <1>6. Shape(d) /\ Alive(d)
    <2>1. d.queue \in Seq(Commands) /\ d.active = r.active
      BY <1>5 DEF SameRouter, Shape, TypedRouter
    <2> QED BY <1>2, <1>3, <1>4, <1>5, <2>1, SoftwareShape
  <1>7. ASSUME NEW unnoted \in PageSets,
               Sound(r, unnoted), r.queue = <<>>, r.batch = <<>>,
               Writes(c) \subseteq unnoted, InCpu(r, c), ~Misread(Settled(r), c)
        PROVE  Sound(d, unnoted) /\ Settled(d) = Drawn(Settled(r), c)
    <2>1. /\ r.batchWrites = {} /\ Memory(r) \in PageValues
          /\ Drawn(Memory(r), c) \in PageValues
      <3>1. r.batchWrites = {}
        BY <1>7, EmptySeq DEF Sound, BatchOK, WritesOf
      <3>2. Memory(r) \in PageValues
        BY DEF Shape, TypedMemory, Memory, Newer, PageValues
      <3> QED BY <3>1, <3>2, DrawnOneType
    <2>2. Settled(r) = Memory(r)
      BY <1>7, <2>1, DrawnAllNone DEF Settled
    <2>3. /\ \A p \in Pages : r.ledger.gpu[p] \in Nat /\ r.ledger.cpu[p] \in Nat
          /\ DirectReads(c) \subseteq Pages /\ Writes(c) \subseteq Pages
      BY CommandPages DEF Shape, TypedMemory, Ledgers, PageValues
    <2>4. \A p \in Pages : r.ledger.gpu[p] <= r.ledger.cpu[p] =>
              Memory(r)[p] = r.cpu[p]
      BY <2>3 DEF Memory, Newer
    <2>5. ~Misread(r.cpu, c)
      BY <1>7, <2>2, <2>3, <2>4 DEF Misread, InCpu
    <2>6. Memory(d) = Drawn(Memory(r), c)
      <3>1. ASSUME NEW p \in Pages
            PROVE  IF r.ledger.gpu[p] <= r.ledger.cpu[p]
                   THEN d.cpu[p] = Drawn(Memory(r), c)[p]
                   ELSE Memory(r)[p] = Drawn(Memory(r), c)[p]
        BY <1>4, <1>7, <2>4 DEF Drawn, InCpu
      <3> QED BY <1>5, <2>1, <3>1, SoftwareMemory DEF OnlySoftware
    <2>7. Agree(d, unnoted)
      BY <1>4, <1>5, <1>7 DEF Agree, Sound, OnlySoftware, Drawn
    <2>8. /\ ~d.failed /\ ~d.misread /\ d.queue = <<>> /\ d.batch = <<>>
          /\ d.batchWrites = {} /\ (d.resident.valid => d.resident.image.held)
      BY <1>3, <1>4, <1>5, <1>7, <2>1, <2>5
         DEF Sound, OnlySoftware, SameRouter, SameBackend
    <2> QED BY <1>6, <2>2, <2>6, <2>7, <2>8, SoundEmpty
  <1> QED BY <1>5, <1>6, <1>7

LEMMA MemoryType ==
    ASSUME NEW r, Shape(r)
    PROVE  Memory(r) \in PageValues /\ Settled(r) \in PageValues
  <1>1. Memory(r) \in PageValues
    BY DEF Shape, TypedMemory, Memory, Newer, PageValues
  <1>2. Len(r.queue) \in Nat /\ Len(r.batch) \in Nat
    BY SequenceParts DEF Shape, TypedRouter, TypedBackend
  <1>3. DrawnAll(Memory(r), r.queue) \in PageValues
    BY <1>1, <1>2, DrawnType DEF DrawnAll
  <1> QED BY <1>1, <1>2, <1>3, DrawnType DEF DrawnAll, Settled

\* The queue is drawn on the CPU's copy, where its pages are.
LEMMA FlushKeeps ==
    ASSUME NEW r, NEW d, Shape(r), d = FlushSoftware(r)
    PROVE  /\ Shape(d) /\ (Alive(d) <=> Alive(r)) /\ OnlySoftware(r, d)
           /\ d.active = r.active /\ d.tail = r.tail
           /\ Alive(d) => d.queue = <<>>
           /\ \A unnoted : Sound(r, unnoted) =>
                 Sound(d, unnoted) /\ Settled(d) = Settled(r)
  <1>1. CASE ~Alive(r) \/ r.queue = <<>>
    <2>1. d = r
      BY <1>1 DEF FlushSoftware
    <2> QED BY <1>1, <2>1, SameAll DEF OnlySoftware, SameMemory
  <1>2. CASE Alive(r) /\ r.queue # <<>>
    <2> DEFINE cpu == DrawnAll(r.cpu, r.queue)
               misread == r.misread \/ MisreadAny(r.cpu, r.queue, TRUE)
               misfed == r.misfed \/ MisfedAny(r.host, r.queue)
               n == Len(r.queue)
    <2>1. d = [r EXCEPT !.queue = <<>>, !.cpu = cpu, !.misread = misread,
                        !.misfed = misfed]
      BY <1>2 DEF FlushSoftware
    <2>2. /\ r.cpu \in PageValues /\ r.queue \in Seq(Commands) /\ n \in Nat
          /\ DOMAIN r.queue = 1 .. n
      BY SequenceParts DEF Shape, TypedMemory, TypedRouter
    <2>3. cpu \in PageValues
      BY <2>2, DrawnType DEF DrawnAll
    <2>4. /\ {misread, misfed} \subseteq BOOLEAN
          /\ misread <=> r.misread \/ MisreadAny(r.cpu, r.queue, TRUE)
      OBVIOUS
    <2> HIDE DEF misread, misfed, n
    <2>5. /\ DOMAIN d = Fields /\ d.cpu = cpu /\ d.misread = misread
          /\ d.misfed = misfed /\ d.threw = r.threw /\ d.recursing = r.recursing
          /\ d.broken = r.broken /\ d.queue = <<>> /\ d.active = r.active
          /\ d.tail = r.tail
      BY <2>1 DEF Shape, Fields
    <2>6. OnlySoftware(r, d)
      BY <2>1 DEF Shape, Fields, OnlySoftware, SameFrontend, SameBackend
    <2>7. Shape(d) /\ Alive(d)
      <3>1. d.queue \in Seq(Commands)
        BY <2>5, EmptySeq
      <3> QED BY <1>2, <2>3, <2>4, <2>5, <2>6, <3>1, SoftwareShape
    <2>8. ASSUME NEW unnoted, Sound(r, unnoted)
          PROVE  Sound(d, unnoted) /\ Settled(d) = Settled(r)
      <3> DEFINE image == DrawnAll(Memory(r), r.queue)
      <3>1. /\ r.batch = <<>> /\ r.batchWrites = {} /\ Memory(r) \in PageValues
            /\ image \in PageValues /\ Settled(r) = image
        <4>1. r.batch = <<>>
          BY <1>2, <2>8 DEF Sound
        <4>2. r.batchWrites = {}
          BY <2>8, <4>1, EmptySeq DEF Sound, BatchOK, WritesOf
        <4>3. Memory(r) \in PageValues /\ image \in PageValues
          BY <2>2, MemoryType, DrawnType DEF DrawnAll, n
        <4> QED BY <4>1, <4>2, <4>3, DrawnAllNone DEF Settled
      <3>2. \A p \in Pages : r.ledger.gpu[p] \in Nat /\ r.ledger.cpu[p] \in Nat
        BY DEF Shape, TypedMemory, Ledgers, PageValues
      <3>3. \A p \in Pages : r.ledger.gpu[p] <= r.ledger.cpu[p] =>
                Memory(r)[p] = r.cpu[p]
        BY <3>2 DEF Memory, Newer
      <3>4. \A i \in 1 .. n : InCpu(r, r.queue[i])
        BY <2>2, <2>8 DEF Sound, QueueOK, InCpu
      <3>5. \A i \in 1 .. n :
                DirectReads(r.queue[i]) \cup Writes(r.queue[i]) \subseteq Pages
        BY <2>2, SequenceParts, CommandPages DEF n
      <3>6. ~MisreadAny(r.cpu, r.queue, TRUE)
        <4>1. \A i \in 1 .. n :
                  \A p \in DirectReads(r.queue[i]) \cup Writes(r.queue[i]) :
                      r.cpu[p] = Memory(r)[p]
          BY <3>3, <3>4, <3>5 DEF InCpu
        <4>2. MisreadAny(r.cpu, r.queue, TRUE) <=>
                  MisreadAny(Memory(r), r.queue, TRUE)
          BY <2>2, <4>1, MisreadSame DEF n
        <4> QED BY <2>8, <4>2 DEF Sound, QueueOK
      <3>7. ASSUME NEW p \in Pages
            PROVE  IF r.ledger.gpu[p] <= r.ledger.cpu[p]
                   THEN d.cpu[p] = image[p] ELSE Memory(r)[p] = image[p]
        <4>1. CASE r.ledger.gpu[p] <= r.ledger.cpu[p]
          <5>1. DrawnFirst(r.cpu, r.queue, n)[p] = DrawnFirst(Memory(r), r.queue, n)[p]
            BY <2>2, <3>3, <4>1, DrawnSame
          <5> QED BY <2>5, <4>1, <5>1 DEF DrawnAll, n
        <4>2. CASE ~(r.ledger.gpu[p] <= r.ledger.cpu[p])
          <5>1. \A i \in 1 .. n : p \notin Writes(r.queue[i])
            BY <3>4, <4>2 DEF InCpu
          <5>2. DrawnFirst(Memory(r), r.queue, n)[p] = Memory(r)[p]
            BY <2>2, <3>1, <5>1, DrawnKept
          <5> QED BY <4>2, <5>2 DEF DrawnAll, n
        <4> QED BY <4>1, <4>2
      <3>8. Memory(d) = image
        BY <2>6, <3>1, <3>7, SoftwareMemory DEF OnlySoftware
      <3>9. Agree(d, unnoted)
        <4>1. ASSUME NEW p \in Pages, p \notin unnoted,
                     r.ledger.gpu[p] = r.ledger.cpu[p]
              PROVE  d.cpu[p] = r.cpu[p]
          <5>1. \A i \in 1 .. n : p \notin Writes(r.queue[i])
            BY <2>2, <2>8, <3>2, <4>1 DEF Sound, QueueOK
          <5>2. DrawnFirst(r.cpu, r.queue, n)[p] = r.cpu[p]
            BY <2>2, <5>1, DrawnKept
          <5> QED BY <2>5, <5>2 DEF DrawnAll, n
        <4> QED BY <2>6, <2>8, <4>1 DEF Agree, Sound, OnlySoftware
      <3>10. /\ ~d.failed /\ ~d.misread /\ d.batch = <<>> /\ d.batchWrites = {}
             /\ d.resident.valid => d.resident.image.held
        BY <2>4, <2>5, <2>6, <2>8, <3>1, <3>6
           DEF Sound, OnlySoftware, SameBackend
      <3> QED BY <2>5, <2>7, <3>1, <3>8, <3>9, <3>10, SoundEmpty
    <2> QED BY <1>2, <2>5, <2>6, <2>7, <2>8
  <1> QED BY <1>1, <1>2

\* The command is the last of the queue.
LEMMA QueuedKeeps ==
    ASSUME NEW r, NEW d, NEW c \in Commands, Shape(r),
           d = [r EXCEPT !.queue = Append(r.queue, c)]
    PROVE  /\ Shape(d) /\ (Alive(d) <=> Alive(r)) /\ OnlySoftware(r, d)
           /\ d.active = r.active
           /\ \A unnoted \in PageSets :
                 /\ Sound(r, unnoted) /\ r.batch = <<>>
                 /\ Writes(c) \subseteq unnoted
                 /\ InCpu(r, c) /\ ~Misread(Settled(r), c)
                 => Sound(d, unnoted) /\ Settled(d) = Drawn(Settled(r), c)
  <1> DEFINE queue == Append(r.queue, c)
             n == Len(r.queue)
  <1>1. r.queue \in Seq(Commands) /\ n \in Nat /\ DOMAIN r.queue = 1 .. n
    BY SequenceParts DEF Shape, TypedRouter
  <1>2. /\ queue \in Seq(Commands) /\ Len(queue) = n + 1
        /\ \A i \in 1 .. n : queue[i] = r.queue[i]
        /\ queue[n + 1] = c
    BY <1>1, AppendParts
  <1>3. DOMAIN queue = 1 .. n + 1
    BY <1>2, SequenceParts
  <1> HIDE DEF n
  <1>4. /\ DOMAIN d = Fields /\ d.queue = queue /\ d.cpu = r.cpu
        /\ d.misread = r.misread /\ d.misfed = r.misfed
        /\ d.threw = r.threw /\ d.recursing = r.recursing
        /\ d.broken = r.broken /\ d.active = r.active
    BY DEF Shape, Fields
  <1>5. OnlySoftware(r, d)
    BY DEF Shape, Fields, OnlySoftware, SameFrontend, SameBackend
  <1>6. Shape(d) /\ (Alive(d) <=> Alive(r))
    <2>1. d.cpu \in PageValues /\ {d.misread, d.misfed} \subseteq BOOLEAN
      BY <1>4 DEF Shape, TypedMemory, TypedFlags
    <2> QED BY <1>2, <1>4, <1>5, <2>1, SoftwareShape, ZenonT(60)
  <1>7. ASSUME NEW unnoted \in PageSets,
               Sound(r, unnoted), r.batch = <<>>,
               Writes(c) \subseteq unnoted, InCpu(r, c), ~Misread(Settled(r), c)
        PROVE  Sound(d, unnoted) /\ Settled(d) = Drawn(Settled(r), c)
    <2>1. Memory(r) \in PageValues /\ Memory(d) = Memory(r)
      BY <1>4, <1>5, MemoryType DEF Memory, OnlySoftware
    <2>2. /\ DrawnAll(Memory(r), queue) = Drawn(DrawnAll(Memory(r), r.queue), c)
          /\ MisreadAny(Memory(r), queue, TRUE) <=>
                \/ MisreadAny(Memory(r), r.queue, TRUE)
                \/ Misread(DrawnAll(Memory(r), r.queue), c)
      BY <1>1, <2>1, DrawnAppend
    <2>3. d.batch = <<>> /\ d.batchWrites = {}
      BY <1>5, <1>7, EmptySeq DEF OnlySoftware, SameBackend, Sound, BatchOK, WritesOf
    <2>4. /\ Settled(r) = DrawnAll(Memory(r), r.queue)
          /\ Settled(d) = DrawnAll(Memory(r), queue)
      <3>1. DrawnAll(Memory(r), r.queue) \in PageValues
        BY <1>1, <2>1, DrawnType DEF DrawnAll, n
      <3>2. DrawnAll(Memory(r), queue) \in PageValues
        BY <1>1, <1>2, <2>1, DrawnType DEF DrawnAll
      <3> QED BY <1>4, <1>7, <2>1, <2>3, <3>1, <3>2, DrawnAllNone DEF Settled
    <2>5. QueueOK(d, unnoted)
      <3>1. ~MisreadAny(Memory(d), d.queue, TRUE)
        BY <1>4, <1>7, <2>1, <2>2, <2>4 DEF Sound, QueueOK
      <3>2. ASSUME NEW i \in 1 .. n + 1
            PROVE  /\ \A p \in DirectReads(queue[i]) \cup Writes(queue[i]) :
                         r.ledger.gpu[p] <= r.ledger.cpu[p]
                   /\ \A p \in Writes(queue[i]) \ unnoted :
                         r.ledger.gpu[p] < r.ledger.cpu[p]
        <4>1. CASE i = n + 1
          BY <1>2, <1>7, <4>1 DEF InCpu
        <4>2. CASE i # n + 1
          <5>1. i \in 1 .. n /\ queue[i] = r.queue[i]
            BY <1>1, <1>2, <4>2
          <5> QED BY <1>1, <1>7, <5>1 DEF Sound, QueueOK
        <4> QED BY <4>1, <4>2
      <3>3. d.ledger = r.ledger
        BY <1>5 DEF OnlySoftware
      <3> QED BY <1>3, <1>4, <3>1, <3>2, <3>3 DEF QueueOK
    <2>6. BatchOK(d)
      BY <1>6, <2>3, NoBatch
    <2>7. Agree(d, unnoted)
      BY <1>4, <1>5, <1>7 DEF Agree, Sound, OnlySoftware
    <2>8. ~d.failed /\ ~d.misread /\ (d.resident.valid => d.resident.image.held)
      BY <1>4, <1>5, <1>7 DEF Sound, OnlySoftware, SameBackend
    <2> QED BY <1>6, <1>7, <2>2, <2>3, <2>4, <2>5, <2>6, <2>7, <2>8 DEF Sound
  <1> QED BY <1>4, <1>5, <1>6, <1>7

-----------------------------------------------------------------------------
(* The software backend takes a command.                                    *)

LEMMA ActivateKeeps ==
    ASSUME NEW r, NEW d, NEW backend \in Backends, Shape(r),
           d = Activate(r, backend)
    PROVE  OnlyRouted(r, d) /\ d.tail = r.tail /\ (Alive(r) => d.active = backend)
  <1>1. CASE ~Alive(r)
    BY <1>1, SameAll DEF Activate, OnlyRouted, Shape, TypedRouter
  <1>2. CASE Alive(r)
    <2>1. d = [r EXCEPT !.active = backend]
      BY <1>2 DEF Activate
    <2>2. /\ DOMAIN d = Fields /\ d.active = backend /\ d.tail = r.tail
          /\ d.queue = r.queue /\ d.deferred = r.deferred
      BY <2>1 DEF Shape, Fields
    <2>3. SameFrontend(r, d) /\ SameBackend(r, d)
      BY <2>1 DEF Shape, Fields, SameFrontend, SameBackend
    <2>4. SameMemory(r, d) /\ SameFlags(r, d)
      BY <2>1 DEF Shape, Fields, SameMemory, SameFlags
    <2> QED BY <2>2, <2>3, <2>4 DEF OnlyRouted
  <1> QED BY <1>1, <1>2

LEMMA ForgetKeeps ==
    ASSUME NEW r, NEW d, Shape(r), d = ForgetTail(r)
    PROVE  OnlyRouted(r, d) /\ d.tail = NoTail /\ d.active = r.active
  <1>1. d = [r EXCEPT !.tail = NoTail]
    BY DEF ForgetTail
  <1>2. /\ DOMAIN d = Fields /\ d.active = r.active /\ d.tail = NoTail
        /\ d.queue = r.queue /\ d.deferred = r.deferred
    BY <1>1 DEF Shape, Fields
  <1>3. SameFrontend(r, d) /\ SameBackend(r, d)
    BY <1>1 DEF Shape, Fields, SameFrontend, SameBackend
  <1>4. SameMemory(r, d) /\ SameFlags(r, d)
    BY <1>1 DEF Shape, Fields, SameMemory, SameFlags
  <1> QED BY <1>2, <1>3, <1>4 DEF OnlyRouted, Shape, TypedRouter

LEMMA RoutedSoftware ==
    ASSUME NEW r, NEW d, OnlyRouted(r, d)
    PROVE  OnlySoftware(r, d)
  BY DEF OnlyRouted, OnlySoftware, SameMemory, SameFlags

LEMMA SoftwareTwice ==
    ASSUME NEW r, NEW u, NEW d, OnlySoftware(r, u), OnlySoftware(u, d)
    PROVE  OnlySoftware(r, d)
  BY DEF OnlySoftware, SameFrontend, SameBackend

\* The queue is rendered when there may be one.
LEMMA RenderQueuedKeeps ==
    ASSUME NEW r, NEW d, Shape(r), d = RenderQueued(r)
    PROVE  /\ Shape(d) /\ (Alive(d) <=> Alive(r)) /\ OnlySoftware(r, d)
           /\ d.active = r.active /\ d.tail = r.tail
           /\ Alive(d) /\ r.active = "Software" => d.queue = <<>>
           /\ r.active # "Software" => d = r
           /\ \A unnoted : Sound(r, unnoted) =>
                 Sound(d, unnoted) /\ Settled(d) = Settled(r)
  <1>1. CASE r.active = "Software"
    BY <1>1, FlushKeeps DEF RenderQueued
  <1>2. CASE r.active # "Software"
    <2>1. d = r
      BY <1>2 DEF RenderQueued
    <2> QED BY <1>2, <2>1, SameAll DEF OnlySoftware, SameMemory, SameFlags
  <1> QED BY <1>1, <1>2

\* A command that the CPU may draw, on the memory it needs.
CpuReady(r, c, unnoted) ==
    /\ Sound(r, unnoted) /\ r.batch = <<>>
    /\ Writes(c) \subseteq unnoted
    /\ InCpu(r, c) /\ ~Misread(Settled(r), c)

LEMMA SoftwareKeeps ==
    ASSUME NEW r, NEW d, NEW c \in Commands, Shape(r),
           Alive(r) => r.active # "Accelerated",
           c.kind \in Recursive => OnHost(r), d = SubmitSoftware(r, c)
    PROVE  /\ Shape(d) /\ OnlySoftware(r, d)
           /\ Alive(d) => Alive(r) /\ d.active # "Accelerated"
           /\ \A unnoted \in PageSets : CpuReady(r, c, unnoted) =>
                 /\ ~d.misread
                 /\ Alive(d) => /\ Sound(d, unnoted)
                                /\ Settled(d) = Drawn(Settled(r), c)
  <1> DEFINE renders == ~(r.inBatch /\ c.kind \in Queueable)
             otherGroup == r.queue # <<>> /\ Head(r.queue).frame # c.frame
             queued(x) == [x EXCEPT !.queue = Append(x.queue, c)]
  <1>1. CASE ~Alive(r)
    <2>1. d = r
      BY <1>1 DEF SubmitSoftware
    <2> QED
      BY <1>1, <2>1, SameAll DEF OnlySoftware, SameMemory, SameFlags, CpuReady, Sound
  <1>2. CASE Alive(r) /\ renders
    <2> DEFINE u == FlushSoftware(r)
    <2>1. u = FlushSoftware(r) /\ d = RenderSoftware(u, c)
      BY <1>2 DEF SubmitSoftware
    <2> HIDE DEF u
    <2>2. /\ Shape(u) /\ Alive(u) /\ OnlySoftware(r, u)
          /\ u.active = r.active /\ u.queue = <<>>
          /\ \A unnoted : Sound(r, unnoted) =>
                Sound(u, unnoted) /\ Settled(u) = Settled(r)
      BY <1>2, <2>1, FlushKeeps
    <2>3. c.kind \in Recursive => HostSnapshot(u).held
      <3>1. c.kind \in Recursive => OnHost(u)
        BY <2>2 DEF OnlySoftware, SameFrontend, OnHost
      <3> QED BY <2>2, <3>1, HostHeld
    <2>4. /\ Shape(d) /\ Alive(d) /\ OnlySoftware(u, d) /\ SameRouter(u, d)
          /\ \A unnoted \in PageSets :
                /\ Sound(u, unnoted) /\ u.queue = <<>> /\ u.batch = <<>>
                /\ Writes(c) \subseteq unnoted
                /\ InCpu(u, c) /\ ~Misread(Settled(u), c)
                => Sound(d, unnoted) /\ Settled(d) = Drawn(Settled(u), c)
      BY <2>1, <2>2, <2>3, RenderKeeps
    <2>5. ASSUME NEW unnoted \in PageSets, CpuReady(r, c, unnoted)
          PROVE  Sound(d, unnoted) /\ Settled(d) = Drawn(Settled(r), c)
      <3>1. u.batch = <<>> /\ InCpu(u, c)
        BY <2>2, <2>5 DEF OnlySoftware, SameBackend, CpuReady, InCpu
      <3> QED BY <2>2, <2>4, <2>5, <3>1 DEF CpuReady
    <2>6. OnlySoftware(r, d) /\ d.active = r.active
      BY <2>2, <2>4, SoftwareTwice DEF SameRouter
    <2> QED BY <1>2, <2>4, <2>5, <2>6 DEF Sound
  <1>3. CASE Alive(r) /\ ~renders /\ ~otherGroup
    <2>1. d = [r EXCEPT !.queue = Append(r.queue, c)]
      BY <1>3 DEF SubmitSoftware
    <2>2. /\ Shape(d) /\ (Alive(d) <=> Alive(r)) /\ OnlySoftware(r, d)
          /\ d.active = r.active
          /\ \A unnoted \in PageSets :
                /\ Sound(r, unnoted) /\ r.batch = <<>>
                /\ Writes(c) \subseteq unnoted
                /\ InCpu(r, c) /\ ~Misread(Settled(r), c)
                => Sound(d, unnoted) /\ Settled(d) = Drawn(Settled(r), c)
      BY <2>1, QueuedKeeps
    <2> QED BY <1>3, <2>2 DEF CpuReady, Sound
  <1>4. CASE Alive(r) /\ ~renders /\ otherGroup /\ r.deferred # <<>>
    <2>1. d = [r EXCEPT !.recursing = TRUE]
      BY <1>4 DEF SubmitSoftware
    <2>2. /\ DOMAIN d = Fields /\ d.recursing /\ d.threw = r.threw
          /\ d.broken = r.broken /\ d.misread = r.misread /\ d.misfed = r.misfed
          /\ d.recursing \in BOOLEAN /\ d.failed = r.failed
      BY <2>1 DEF Shape, Fields
    <2>3. SameFrontend(r, d) /\ SameBackend(r, d)
      BY <2>1 DEF Shape, Fields, SameFrontend, SameBackend
    <2>4. SameRouter(r, d) /\ SameMemory(r, d)
      BY <2>1 DEF Shape, Fields, SameRouter, SameMemory
    <2>5. Shape(d)
      <3>1. TypedFlags(d)
        BY <2>2 DEF Shape, TypedFlags
      <3>2. TypedBackend(d) /\ TypedMemory(d) /\ Len(d.batch) <= MaxBatch /\ ~d.broken
        BY <2>2, <2>3, <2>4, TypedSame DEF Shape
      <3> QED BY <2>2, <2>3, <2>4, <3>1, <3>2, ShapeOfBackend
    <2>6. ~Alive(d)
      BY <2>2 DEF Alive
    <2>7. OnlySoftware(r, d)
      BY <2>2, <2>3, <2>4 DEF OnlySoftware, SameMemory, SameRouter
    <2> QED BY <2>2, <2>5, <2>6, <2>7 DEF CpuReady, Sound
  <1>5. CASE Alive(r) /\ ~renders /\ otherGroup /\ r.deferred = <<>>
    <2> DEFINE a == ForgetTail(r)
               b == DrainActive(a)
               e == Deactivate(b)
    <2>1. a = ForgetTail(r) /\ d = [e EXCEPT !.queue = Append(e.queue, c)]
      BY <1>5 DEF SubmitSoftware
    <2>2. e = Activate(b, "None") /\ b = DrainActive(a)
      BY DEF Deactivate
    <2> HIDE DEF a, b, e
    <2>3. OnlyRouted(r, a) /\ a.active = r.active
      BY <2>1, ForgetKeeps
    <2>4. /\ Shape(a) /\ Alive(a) /\ OnlySoftware(r, a)
          /\ \A unnoted : Sound(r, unnoted) =>
                Sound(a, unnoted) /\ Settled(a) = Settled(r)
      BY <1>5, <2>3, RoutedKeeps, RoutedSoftware
    <2>5. b = RenderQueued(a)
      BY <1>5, <2>2, <2>3 DEF DrainActive, RenderQueued
    <2>6. /\ Shape(b) /\ Alive(b) /\ OnlySoftware(a, b)
          /\ \A unnoted : Sound(a, unnoted) =>
                Sound(b, unnoted) /\ Settled(b) = Settled(a)
      BY <2>4, <2>5, RenderQueuedKeeps
    <2>7. OnlyRouted(b, e) /\ e.active = "None"
      BY <2>2, <2>6, ActivateKeeps DEF Backends
    <2>8. /\ Shape(e) /\ Alive(e) /\ OnlySoftware(b, e)
          /\ \A unnoted : Sound(b, unnoted) =>
                Sound(e, unnoted) /\ Settled(e) = Settled(b)
      BY <2>6, <2>7, RoutedKeeps, RoutedSoftware
    <2>9. /\ Shape(d) /\ (Alive(d) <=> Alive(e)) /\ OnlySoftware(e, d)
          /\ d.active = e.active
          /\ \A unnoted \in PageSets :
                /\ Sound(e, unnoted) /\ e.batch = <<>>
                /\ Writes(c) \subseteq unnoted
                /\ InCpu(e, c) /\ ~Misread(Settled(e), c)
                => Sound(d, unnoted) /\ Settled(d) = Drawn(Settled(e), c)
      BY <2>1, <2>8, QueuedKeeps, ZenonT(60)
    <2>10. OnlySoftware(r, e)
      BY <2>4, <2>6, <2>8, SoftwareTwice
    <2>11. OnlySoftware(r, d)
      BY <2>9, <2>10, SoftwareTwice
    <2>12. ASSUME NEW unnoted \in PageSets, CpuReady(r, c, unnoted)
           PROVE  Sound(d, unnoted) /\ Settled(d) = Drawn(Settled(r), c)
      <3>1. Sound(e, unnoted) /\ Settled(e) = Settled(r)
        BY <2>4, <2>6, <2>8, <2>12 DEF CpuReady
      <3>2. e.batch = <<>> /\ InCpu(e, c)
        BY <2>10, <2>12 DEF OnlySoftware, SameBackend, CpuReady, InCpu
      <3> QED BY <2>9, <2>12, <3>1, <3>2 DEF CpuReady
    <2> QED BY <1>5, <2>7, <2>9, <2>11, <2>12 DEF Sound
  <1> QED BY <1>1, <1>2, <1>3, <1>4, <1>5

-----------------------------------------------------------------------------
(* The calls of the router that draw nothing on what the memory will be.    *)

Follows(r, d) ==
    /\ SameFrontend(r, d) /\ d.deferred = r.deferred
    /\ Alive(d) => Alive(r) /\ d.failed = r.failed
    /\ r.tail = NoTail => d.tail = NoTail

Goes(r, d) ==
    /\ Fine(d) /\ Follows(r, d)
    /\ Alive(d) => /\ Settled(d) = Settled(r)
                   /\ Captured(r) => Captured(d)

LEMMA FollowsTwice ==
    ASSUME NEW r, NEW u, NEW d, Follows(r, u), Follows(u, d)
    PROVE  Follows(r, d)
  BY DEF Follows, SameFrontend

LEMMA GoesTwice ==
    ASSUME NEW r, NEW u, NEW d, Goes(r, u), Goes(u, d)
    PROVE  Goes(r, d)
  BY FollowsTwice DEF Goes, Follows

LEMMA GoesSame ==
    ASSUME NEW r
    PROVE  Follows(r, r) /\ (Fine(r) => Goes(r, r))
  BY SameAll DEF Goes, Follows

LEMMA RoutedGoes ==
    ASSUME NEW r, NEW d, Shape(r), OnlyRouted(r, d)
    PROVE  /\ Shape(d) /\ Follows(r, d) /\ (Alive(d) <=> Alive(r))
           /\ Fine(r) => Goes(r, d)
  <1>1. /\ Shape(d) /\ (Alive(d) <=> Alive(r))
        /\ Settled(d) = Settled(r) /\ (Captured(r) => Captured(d))
        /\ \A unnoted : Sound(r, unnoted) => Sound(d, unnoted)
    BY RoutedKeeps
  <1>2. Follows(r, d)
    BY <1>1 DEF OnlyRouted, Follows, SameFlags
  <1>3. Fine(r) => Fine(d)
    BY <1>1 DEF Fine, OnlyRouted, SameFlags
  <1> QED BY <1>1, <1>2, <1>3 DEF Goes

LEMMA DrainGoes ==
    ASSUME NEW r, NEW d, Shape(r), d = DrainBatch(r)
    PROVE  /\ Shape(d) /\ Follows(r, d) /\ (Fine(r) => Goes(r, d))
           /\ d.active = r.active /\ d.queue = r.queue /\ d.tail = r.tail
           /\ Alive(d) => d.batch = <<>>
  <1>1. Shape(d) /\ OnlyBackend(r, d) /\ (Alive(d) => d.batch = <<>>)
    BY DrainKeeps
  <1>2. Follows(r, d)
    BY <1>1 DEF OnlyBackend, Follows, SameRouter
  <1>3. ASSUME Fine(r) PROVE Goes(r, d)
    BY <1>2, <1>3, DrainFine DEF Stays, Goes
  <1> QED BY <1>1, <1>2, <1>3 DEF OnlyBackend, SameRouter

LEMMA RenderQueuedGoes ==
    ASSUME NEW r, NEW d, Shape(r), d = RenderQueued(r)
    PROVE  /\ Shape(d) /\ Follows(r, d) /\ (Fine(r) => Goes(r, d))
           /\ d.active = r.active /\ d.tail = r.tail /\ d.batch = r.batch
           /\ Alive(d) /\ r.active = "Software" => d.queue = <<>>
           /\ r.active # "Software" => d = r
  <1>1. /\ Shape(d) /\ (Alive(d) <=> Alive(r)) /\ OnlySoftware(r, d)
        /\ d.active = r.active /\ d.tail = r.tail
        /\ Alive(d) /\ r.active = "Software" => d.queue = <<>>
        /\ r.active # "Software" => d = r
        /\ \A unnoted : Sound(r, unnoted) =>
              Sound(d, unnoted) /\ Settled(d) = Settled(r)
    BY RenderQueuedKeeps
  <1>2. Follows(r, d) /\ d.batch = r.batch
    BY <1>1 DEF Follows, OnlySoftware, SameBackend
  <1>3. Captured(r) => Captured(d)
    BY <1>1 DEF Captured, OnlySoftware, SameFrontend, SameBackend, Pipeline
  <1>4. Fine(r) => Fine(d)
    <2>1. ~Alive(r) => d = r
      BY DEF RenderQueued, FlushSoftware
    <2> QED BY <1>1, <2>1 DEF Fine, Sound
  <1> QED BY <1>1, <1>2, <1>3, <1>4 DEF Goes, Fine

LEMMA FlushGoes ==
    ASSUME NEW r, NEW d, Shape(r), d = FlushSoftware(r)
    PROVE  /\ Shape(d) /\ Follows(r, d) /\ (Fine(r) => Goes(r, d))
           /\ d.active = r.active /\ d.tail = r.tail /\ d.batch = r.batch
           /\ Alive(d) => d.queue = <<>>
  <1>1. /\ Shape(d) /\ (Alive(d) <=> Alive(r)) /\ OnlySoftware(r, d)
        /\ d.active = r.active /\ d.tail = r.tail
        /\ Alive(d) => d.queue = <<>>
        /\ \A unnoted : Sound(r, unnoted) =>
              Sound(d, unnoted) /\ Settled(d) = Settled(r)
    BY FlushKeeps
  <1>2. Follows(r, d) /\ d.batch = r.batch
    BY <1>1 DEF Follows, OnlySoftware, SameBackend
  <1>3. Captured(r) => Captured(d)
    BY <1>1 DEF Captured, OnlySoftware, SameFrontend, SameBackend, Pipeline
  <1>4. Fine(r) => Fine(d)
    <2>1. ~Alive(r) => d = r
      BY DEF FlushSoftware
    <2> QED BY <1>1, <2>1 DEF Fine, Sound
  <1> QED BY <1>1, <1>2, <1>3, <1>4 DEF Goes, Fine

\* Nothing waits once what is active is drained.
LEMMA DrainActiveGoes ==
    ASSUME NEW r, NEW d, Shape(r), d = DrainActive(r)
    PROVE  /\ Shape(d) /\ Follows(r, d) /\ (Fine(r) => Goes(r, d))
           /\ d.active = r.active /\ d.tail = r.tail
           /\ Alive(d) /\ Backed(r) => d.queue = <<>> /\ d.batch = <<>>
  <1>1. CASE r.active = "Software"
    BY <1>1, FlushGoes DEF DrainActive, Backed
  <1>2. CASE r.active = "Accelerated"
    BY <1>2, DrainGoes DEF DrainActive, Backed
  <1>3. CASE r.active = "None"
    <2>1. d = r
      BY <1>3 DEF DrainActive
    <2> QED BY <1>3, <2>1, GoesSame DEF Backed
  <1> QED BY <1>1, <1>2, <1>3 DEF Shape, TypedRouter, Backends

LEMMA ActivateGoes ==
    ASSUME NEW r, NEW d, NEW backend \in Backends, Shape(r),
           d = Activate(r, backend)
    PROVE  /\ Shape(d) /\ Follows(r, d) /\ (Fine(r) => Goes(r, d))
           /\ (Alive(d) <=> Alive(r)) /\ (Alive(d) => d.active = backend)
           /\ d.queue = r.queue /\ d.batch = r.batch /\ d.tail = r.tail
           /\ d.ledger = r.ledger /\ d.cpu = r.cpu
           /\ d.order = r.order /\ d.failed = r.failed
  <1>1. OnlyRouted(r, d) /\ d.tail = r.tail /\ (Alive(r) => d.active = backend)
    BY ActivateKeeps
  <1>2. /\ Shape(d) /\ Follows(r, d) /\ (Alive(d) <=> Alive(r))
        /\ Fine(r) => Goes(r, d)
    BY <1>1, RoutedGoes
  <1> QED
    BY <1>1, <1>2 DEF OnlyRouted, SameBackend, SameMemory, SameFrontend, SameFlags

LEMMA ForgetGoes ==
    ASSUME NEW r, NEW d, Shape(r), d = ForgetTail(r)
    PROVE  /\ Shape(d) /\ Follows(r, d) /\ (Fine(r) => Goes(r, d))
           /\ (Alive(d) <=> Alive(r)) /\ d.tail = NoTail
           /\ d.active = r.active /\ d.queue = r.queue /\ d.batch = r.batch
           /\ d.failed = r.failed
  <1>1. OnlyRouted(r, d) /\ d.tail = NoTail /\ d.active = r.active
    BY ForgetKeeps
  <1>2. /\ Shape(d) /\ Follows(r, d) /\ (Alive(d) <=> Alive(r))
        /\ Fine(r) => Goes(r, d)
    BY <1>1, RoutedGoes
  <1> QED BY <1>1, <1>2 DEF OnlyRouted, SameBackend, SameFlags

\* What the other backend holds is drawn before a backend takes a command.
LEMMA TransitionGoes ==
    ASSUME NEW r, NEW d, NEW backend \in Backends, Shape(r),
           d = TransitionTo(r, backend)
    PROVE  /\ Shape(d) /\ Follows(r, d) /\ (Fine(r) => Goes(r, d))
           /\ Alive(d) => d.active = backend
           /\ Alive(d) /\ Backed(r) =>
                 /\ backend # "Software" => d.queue = <<>>
                 /\ backend # "Accelerated" => d.batch = <<>>
  <1>1. CASE ~Alive(r)
    <2>1. d = r
      BY <1>1 DEF TransitionTo
    <2> QED BY <1>1, <2>1, GoesSame
  <1>2. CASE Alive(r)
    <2> DEFINE u == IF r.active = backend THEN r ELSE DrainActive(r)
    <2>1. d = Activate(u, backend)
      BY <1>2 DEF TransitionTo
    <2>2. /\ Shape(u) /\ Follows(r, u) /\ (Fine(r) => Goes(r, u))
          /\ Alive(u) /\ Backed(r) =>
                /\ backend # "Software" => u.queue = <<>>
                /\ backend # "Accelerated" => u.batch = <<>>
      <3>1. CASE r.active = backend
        <4>1. u = r
          BY <3>1
        <4> QED BY <3>1, <4>1, GoesSame DEF Backed
      <3>2. CASE r.active # backend
        <4>1. u = DrainActive(r)
          BY <3>2
        <4> HIDE DEF u
        <4> QED BY <4>1, DrainActiveGoes
      <3> QED BY <3>1, <3>2
    <2> HIDE DEF u
    <2>3. /\ Shape(d) /\ Follows(u, d) /\ (Fine(u) => Goes(u, d))
          /\ (Alive(d) <=> Alive(u)) /\ (Alive(d) => d.active = backend)
          /\ d.queue = u.queue /\ d.batch = u.batch
      BY <2>1, <2>2, ActivateGoes
    <2>4. Follows(r, d)
      BY <2>2, <2>3, FollowsTwice
    <2>5. Fine(r) => Goes(r, d)
      BY <2>2, <2>3, GoesTwice DEF Goes
    <2> QED BY <2>2, <2>3, <2>4, <2>5
  <1> QED BY <1>1, <1>2

LEMMA PrepareGoes ==
    ASSUME NEW r, NEW d, Shape(r), NEW reads \in PageSets, NEW writes \in PageSets,
           d = PrepareCpuVramAccess(r, reads, writes)
    PROVE  /\ Shape(d) /\ Follows(r, d) /\ (Fine(r) => Goes(r, d))
           /\ d.active = r.active /\ d.queue = r.queue /\ d.tail = r.tail
           /\ ~Alive(d) => ~Alive(r) \/ d.failed
           /\ Alive(d) => \A p \in reads \cup writes :
                              d.ledger.gpu[p] <= d.ledger.cpu[p]
           /\ r.batch = <<>> => d.batch = <<>>
           /\ Fine(r) /\ Alive(d) =>
                 /\ Apart(d, reads, writes)
                 /\ reads \cup writes = Pages => d.batch = <<>>
  <1>1. /\ Shape(d) /\ OnlyBackend(r, d)
        /\ Alive(d) => \A p \in reads \cup writes :
                           d.ledger.gpu[p] <= d.ledger.cpu[p]
        /\ r.batch = <<>> => d.batch = <<>>
        /\ Sound(r, {}) => ~d.misread
        /\ Sound(r, {}) /\ Alive(d) =>
              /\ Sound(d, {}) /\ Settled(d) = Settled(r)
              /\ Captured(r) => Captured(d)
              /\ Apart(d, reads, writes)
              /\ reads \cup writes = Pages => d.batch = <<>>
    BY PrepareKeeps
  <1>2. Follows(r, d)
    BY <1>1 DEF OnlyBackend, Follows, SameRouter
  <1>3. ~Alive(r) => d = r
    BY DEF PrepareCpuVramAccess, DrainBatch, DownloadGpuNewer
  <1>4. ASSUME Fine(r) PROVE Goes(r, d)
    <2>1. CASE ~Alive(r)
      BY <1>3, <1>4, <2>1, GoesSame
    <2>2. CASE Alive(r)
      <3>1. Sound(r, {})
        BY <1>4, <2>2 DEF Fine
      <3> QED BY <1>1, <1>2, <3>1 DEF Goes, Fine
    <2> QED BY <2>1, <2>2
  <1> QED BY <1>1, <1>2, <1>4 DEF OnlyBackend, SameRouter, Fine

-----------------------------------------------------------------------------
(* The software backend takes a list of commands.                           *)

\* Every set of natural numbers has a least one.
LEMMA LeastNatural ==
    ASSUME NEW T \in SUBSET Nat, T # {}
    PROVE  \E x \in T : \A y \in T : x <= y
  <1> DEFINE R == {pair \in Nat \X Nat : pair[1] < pair[2]}
  <1>1. IsWellFoundedOn(R, Nat)
    BY NatLessThanWellFounded DEF OpToRel
  <1>2. \A a, b \in Nat : a < b => <<a, b>> \in R
    OBVIOUS
  <1> HIDE DEF R
  <1>3. PICK x \in T : \A y \in T : ~ (<<y, x>> \in R)
    BY <1>1, WFMin
  <1>4. \A y \in T : ~ (y < x)
    BY <1>2, <1>3
  <1> QED BY <1>4

\* A set of the first numbers that holds zero and the next of each holds all.
LEMMA FirstNumbers ==
    ASSUME NEW n \in Nat, NEW T \in SUBSET (0 .. n), 0 \in T,
           \A k \in 1 .. n : k - 1 \in T => k \in T
    PROVE  T = 0 .. n
  <1> DEFINE Bad == (0 .. n) \ T
  <1>1. SUFFICES ASSUME Bad # {} PROVE FALSE
    OBVIOUS
  <1>2. PICK k \in Bad : \A m \in Bad : k <= m
    <2>1. Bad \in SUBSET Nat
      OBVIOUS
    <2> HIDE DEF Bad
    <2> QED BY <1>1, <2>1, LeastNatural
  <1>3. k \in 1 .. n /\ k - 1 \in 0 .. n /\ k - 1 \in Nat
    BY <1>2
  <1>4. k - 1 \in T
    BY <1>2, <1>3
  <1> QED BY <1>2, <1>3, <1>4

\* The renderers after each of the first n commands.
SoftwareRun(after, prepared, commands, n) ==
    /\ after = [k \in 0 .. n |-> after[k]]
    /\ after[0] = prepared
    /\ \A k \in 1 .. n : after[k] = SubmitSoftware(after[k - 1], commands[k])

LEMMA SoftwareRunExists ==
    ASSUME NEW prepared, NEW commands, NEW n \in Nat
    PROVE  \E after : SoftwareRun(after, prepared, commands, n)
  <1> DEFINE T == {k \in 0 .. n : \E after : SoftwareRun(after, prepared, commands, k)}
  <1>1. 0 \in T
    <2>1. SoftwareRun([k \in 0 .. 0 |-> prepared], prepared, commands, 0)
      BY DEF SoftwareRun
    <2> QED BY <2>1
  <1>2. ASSUME NEW m \in 1 .. n, m - 1 \in T PROVE m \in T
    <2>1. PICK after : SoftwareRun(after, prepared, commands, m - 1)
      BY <1>2
    <2> DEFINE next == [k \in 0 .. m |->
                           IF k = m THEN SubmitSoftware(after[m - 1], commands[m])
                           ELSE after[k]]
    <2>2. next[0] = prepared
      BY <2>1 DEF SoftwareRun
    <2>3. ASSUME NEW k \in 1 .. m
          PROVE  next[k] = SubmitSoftware(next[k - 1], commands[k])
      <3>1. CASE k = m
        BY <3>1
      <3>2. CASE k # m
        <4>1. k \in 1 .. m - 1 /\ k - 1 # m /\ k - 1 \in 0 .. m
          BY <3>2
        <4>2. next[k] = after[k] /\ next[k - 1] = after[k - 1]
          BY <3>2, <4>1
        <4>3. after[k] = SubmitSoftware(after[k - 1], commands[k])
          BY <2>1, <4>1 DEF SoftwareRun
        <4> QED BY <4>2, <4>3
      <3> QED BY <3>1, <3>2
    <2>4. next = [k \in 0 .. m |-> next[k]]
      OBVIOUS
    <2> HIDE DEF next
    <2>5. SoftwareRun(next, prepared, commands, m)
      BY <2>2, <2>3, <2>4 DEF SoftwareRun
    <2> QED BY <2>5
  <1> HIDE DEF T
  <1>3. T \in SUBSET (0 .. n)
    BY DEF T
  <1>4. T = 0 .. n
    BY <1>1, <1>2, <1>3, FirstNumbers
  <1>5. n \in T
    BY <1>4
  <1> QED BY <1>5 DEF T

LEMMA RenderAllIs ==
    ASSUME NEW prepared, NEW commands \in Seq(Commands)
    PROVE  \E after :
              /\ SoftwareRun(after, prepared, commands, Len(commands))
              /\ RenderAll(prepared, commands) =
                    Activate(NoteCpuWrite(after[Len(commands)], WritesOf(commands)),
                             "Software")
  <1> DEFINE Defines(f) ==
               f = [n \in 0 .. Len(commands) |->
                       IF n = 0 THEN prepared
                       ELSE SubmitSoftware(f[n - 1], commands[n])]
             f == CHOOSE g : Defines(g)
  <1>1. Len(commands) \in Nat
    BY SequenceParts
  <1>2. PICK after : SoftwareRun(after, prepared, commands, Len(commands))
    BY <1>1, SoftwareRunExists
  <1>3. Defines(after)
    <2>1. \A n \in 0 .. Len(commands) :
            after[n] = IF n = 0 THEN prepared
                       ELSE SubmitSoftware(after[n - 1], commands[n])
      <3> TAKE n \in 0 .. Len(commands)
      <3>1. CASE n = 0
        BY <1>2, <3>1 DEF SoftwareRun
      <3>2. CASE n # 0
        <4>1. n \in 1 .. Len(commands)
          BY <1>1, <3>2
        <4> QED BY <1>2, <3>2, <4>1 DEF SoftwareRun
      <3> QED BY <3>1, <3>2
    <2> QED BY <1>2, <2>1 DEF SoftwareRun
  <1>4. Defines(f)
    BY <1>3
  <1>5. RenderAll(prepared, commands) =
            Activate(NoteCpuWrite(f[Len(commands)], WritesOf(commands)), "Software")
    BY DEF RenderAll
  <1>6. SoftwareRun(f, prepared, commands, Len(commands))
    <2> HIDE DEF f
    <2>1. f[0] = prepared
      BY <1>1, <1>4
    <2>2. ASSUME NEW k \in 1 .. Len(commands)
          PROVE  f[k] = SubmitSoftware(f[k - 1], commands[k])
      <3>1. k \in 0 .. Len(commands) /\ k # 0
        BY <1>1
      <3> QED BY <1>4, <3>1
    <2>3. f = [k \in 0 .. Len(commands) |-> f[k]]
      BY <1>4
    <2> QED BY <2>1, <2>2, <2>3 DEF SoftwareRun
  <1> QED BY <1>5, <1>6

LEMMA ListParts ==
    ASSUME NEW commands \in Seq(Commands)
    PROVE  /\ ReadsOf(commands) \in PageSets /\ WritesOf(commands) \in PageSets
           /\ \A i \in 1 .. Len(commands) :
                 /\ commands[i] \in Commands
                 /\ DirectReads(commands[i]) \subseteq ReadsOf(commands)
                 /\ Writes(commands[i]) \subseteq WritesOf(commands)
  BY SequenceParts, CommandPages DEF ReadsOf, WritesOf, PageSets

\* The first of the commands are drawn on what was there.
SoftwarePart(prepared, commands, k, d) ==
    /\ Shape(d) /\ OnlySoftware(prepared, d)
    /\ Alive(d) => Alive(prepared) /\ d.active # "Accelerated"
    /\ /\ Sound(prepared, WritesOf(commands)) /\ prepared.batch = <<>>
       /\ ~MisreadAny(Settled(prepared), commands, TRUE)
       /\ \A i \in DOMAIN commands : InCpu(prepared, commands[i])
       => /\ ~d.misread
          /\ Alive(d) => /\ Sound(d, WritesOf(commands))
                         /\ Settled(d) = DrawnFirst(Settled(prepared), commands, k)

LEMMA SoftwareRunKeeps ==
    ASSUME NEW prepared, NEW commands \in Seq(Commands), NEW after,
           Shape(prepared), Alive(prepared) => prepared.active # "Accelerated",
           \A i \in DOMAIN commands : commands[i].kind \in Recursive => OnHost(prepared),
           SoftwareRun(after, prepared, commands, Len(commands))
    PROVE  SoftwarePart(prepared, commands, Len(commands), after[Len(commands)])
  <1> DEFINE n == Len(commands)
             T == {k \in 0 .. n : SoftwarePart(prepared, commands, k, after[k])}
  <1>1. n \in Nat /\ DOMAIN commands = 1 .. n
    BY SequenceParts
  <1>2. SoftwarePart(prepared, commands, 0, after[0])
    <2>1. after[0] = prepared
      BY DEF SoftwareRun
    <2>2. OnlySoftware(prepared, prepared)
      BY SameAll DEF OnlySoftware
    <2>3. Settled(prepared) = DrawnFirst(Settled(prepared), commands, 0)
      BY MemoryType, DrawnNone
    <2> QED BY <2>1, <2>2, <2>3 DEF SoftwarePart, Sound
  <1>3. ASSUME NEW k \in 1 .. n,
               SoftwarePart(prepared, commands, k - 1, after[k - 1])
        PROVE  SoftwarePart(prepared, commands, k, after[k])
    <2> DEFINE u == after[k - 1]
               d == after[k]
               c == commands[k]
               pages == WritesOf(commands)
    <2>1. /\ d = SubmitSoftware(u, c) /\ k - 1 \in Nat /\ (k - 1) + 1 = k
          /\ c \in Commands /\ pages \in PageSets /\ Writes(c) \subseteq pages
      BY <1>1, ListParts DEF SoftwareRun
    <2>2. /\ Shape(u) /\ OnlySoftware(prepared, u)
          /\ Alive(u) => Alive(prepared) /\ u.active # "Accelerated"
      BY <1>3 DEF SoftwarePart
    <2> HIDE DEF u, d, c, pages
    <2>3. c.kind \in Recursive => OnHost(u)
      BY <1>1, <2>2 DEF OnlySoftware, SameFrontend, OnHost, c
    <2>4. /\ Shape(d) /\ OnlySoftware(u, d)
          /\ Alive(d) => Alive(u) /\ d.active # "Accelerated"
          /\ \A unnoted \in PageSets : CpuReady(u, c, unnoted) =>
                /\ ~d.misread
                /\ Alive(d) => /\ Sound(d, unnoted)
                               /\ Settled(d) = Drawn(Settled(u), c)
      BY <2>1, <2>2, <2>3, SoftwareKeeps
    <2>5. OnlySoftware(prepared, d)
      BY <2>2, <2>4, SoftwareTwice
    <2>6. ASSUME Sound(prepared, pages), prepared.batch = <<>>,
                 ~MisreadAny(Settled(prepared), commands, TRUE),
                 \A i \in DOMAIN commands : InCpu(prepared, commands[i])
          PROVE  /\ ~d.misread
                 /\ Alive(d) =>
                       /\ Sound(d, pages)
                       /\ Settled(d) = DrawnFirst(Settled(prepared), commands, k)
      <3>1. /\ ~u.misread
            /\ Alive(u) =>
                  /\ Sound(u, pages)
                  /\ Settled(u) = DrawnFirst(Settled(prepared), commands, k - 1)
        BY <1>3, <2>6 DEF SoftwarePart, u, pages
      <3>2. CASE ~Alive(u)
        <4>1. d = u
          BY <2>1, <3>2 DEF SubmitSoftware
        <4> QED BY <3>1, <3>2, <4>1
      <3>3. CASE Alive(u)
        <4>1. InCpu(u, c) /\ u.batch = <<>>
          BY <1>1, <2>2, <2>6 DEF InCpu, OnlySoftware, SameBackend, c
        <4>2. ~Misread(DrawnFirst(Settled(prepared), commands, k - 1), c)
          BY <1>1, <2>6 DEF MisreadAny, c
        <4>3. CpuReady(u, c, pages)
          BY <2>1, <3>1, <3>3, <4>1, <4>2 DEF CpuReady
        <4>4. Drawn(DrawnFirst(Settled(prepared), commands, k - 1), c) =
                  DrawnFirst(Settled(prepared), commands, k)
          <5>1. Settled(prepared) \in PageValues
            BY MemoryType
          <5>2. DrawnFirst(Settled(prepared), commands, (k - 1) + 1) =
                    Drawn(DrawnFirst(Settled(prepared), commands, k - 1),
                          commands[(k - 1) + 1])
            BY <2>1, <5>1, DrawnNext
          <5> QED BY <2>1, <5>2 DEF c
        <4> QED BY <2>1, <2>4, <3>1, <3>3, <4>3, <4>4
      <3> QED BY <3>2, <3>3
    <2>7. SoftwarePart(prepared, commands, k, d)
      BY <2>2, <2>4, <2>5, <2>6 DEF SoftwarePart, pages
    <2> QED BY <2>7 DEF d
  <1> HIDE DEF n
  <1>4. 0 \in T /\ T \in SUBSET (0 .. n)
    BY <1>1, <1>2
  <1>5. \A k \in 1 .. n : k - 1 \in T => k \in T
    BY <1>1, <1>3
  <1> HIDE DEF T
  <1>6. T = 0 .. n
    BY <1>1, <1>4, <1>5, FirstNumbers
  <1>7. n \in T
    BY <1>1, <1>6
  <1> QED BY <1>7 DEF T, n

\* Commands that a list finds in the memory before it.
ListReady(r, commands) ==
    /\ Sound(r, {}) /\ Backed(r)
    /\ ~MisreadAny(Settled(r), commands, TRUE)

\* What a backend does with a list of commands.
Draws(r, d, commands) ==
    /\ Fine(d)
    /\ Alive(d) => /\ Settled(d) = DrawnAll(Settled(r), commands)
                   /\ Captured(r) => Captured(d)
                   /\ Backed(d)

LEMMA RenderAllKeeps ==
    ASSUME NEW r, NEW d, NEW commands \in Seq(Commands), Shape(r),
           Alive(r) => r.active # "Accelerated",
           \A i \in DOMAIN commands : commands[i].kind \in Recursive => OnHost(r),
           Alive(r) => \A p \in ReadsOf(commands) \cup WritesOf(commands) :
                           r.ledger.gpu[p] <= r.ledger.cpu[p],
           d = RenderAll(r, commands)
    PROVE  /\ Shape(d) /\ Follows(r, d)
           /\ Alive(d) => d.active = "Software"
           /\ Sound(r, {}) /\ r.batch = <<>>
              /\ ~MisreadAny(Settled(r), commands, TRUE)
              => Draws(r, d, commands)
  <1> DEFINE pages == WritesOf(commands)
             n == Len(commands)
  <1>1. PICK after :
            /\ SoftwareRun(after, r, commands, n)
            /\ d = Activate(NoteCpuWrite(after[n], pages), "Software")
    BY RenderAllIs
  <1> DEFINE u == after[n]
             v == NoteCpuWrite(u, pages)
  <1>2. SoftwarePart(r, commands, n, u)
    BY <1>1, SoftwareRunKeeps
  <1>3. d = Activate(v, "Software") /\ v = NoteCpuWrite(u, pages)
    BY <1>1
  <1>4. pages \in PageSets /\ n \in Nat /\ DOMAIN commands = 1 .. n
    BY ListParts, SequenceParts
  <1>5. \A i \in DOMAIN commands : /\ DirectReads(commands[i]) \subseteq ReadsOf(commands)
                                   /\ Writes(commands[i]) \subseteq pages
    BY <1>4, ListParts
  <1> HIDE DEF u, v, pages, n
  <1>6. /\ Shape(u) /\ OnlySoftware(r, u)
        /\ Alive(u) => Alive(r) /\ u.active # "Accelerated"
        /\ /\ Sound(r, pages) /\ r.batch = <<>>
           /\ ~MisreadAny(Settled(r), commands, TRUE)
           /\ \A i \in DOMAIN commands : InCpu(r, commands[i])
           => /\ ~u.misread
              /\ Alive(u) => Sound(u, pages) /\ Settled(u) = DrawnFirst(Settled(r), commands, n)
    BY <1>2 DEF SoftwarePart, pages
  <1>7. ASSUME Sound(r, {}) PROVE Sound(r, pages)
    <2>1. \A p \in pages : r.ledger.gpu[p] <= r.ledger.cpu[p]
      BY <1>7 DEF pages, Sound
    <2>2. Agree(r, pages)
      BY <1>7, <2>1 DEF Agree, Sound
    <2>3. QueueOK(r, pages)
      BY <1>7 DEF Sound, QueueOK
    <2> QED BY <1>7, <2>2, <2>3 DEF Sound
  <1>8. CASE ~Alive(u)
    <2>1. d = u
      BY <1>3, <1>8 DEF NoteCpuWrite, Activate
    <2>2. Follows(r, d)
      BY <1>6, <1>8, <2>1 DEF Follows, OnlySoftware
    <2>3. ASSUME Sound(r, {}), r.batch = <<>>,
                 ~MisreadAny(Settled(r), commands, TRUE)
          PROVE  Draws(r, d, commands)
      <3>1. \A i \in DOMAIN commands : InCpu(r, commands[i])
        BY <1>5, <2>3 DEF InCpu, Sound, pages
      <3> QED BY <1>6, <1>7, <1>8, <2>1, <2>3, <3>1 DEF Draws, Fine
    <2> QED BY <1>6, <1>8, <2>1, <2>2, <2>3
  <1>9. CASE Alive(u)
    <2>1. \A p \in pages : u.ledger.gpu[p] <= u.ledger.cpu[p]
      BY <1>6, <1>9 DEF OnlySoftware, pages
    <2>2. /\ Shape(v) /\ OnlyMoved(u, v) /\ Alive(v)
          /\ Sound(u, pages) => Sound(v, {}) /\ Memory(v) = Memory(u)
      BY <1>3, <1>4, <1>6, <1>9, <2>1, NoteKeeps
    <2>3. /\ OnlyBackend(u, v) /\ (Memory(v) = Memory(u) => Settled(v) = Settled(u))
          /\ v.batch = u.batch
      BY <2>2, MovedSettled DEF OnlyMoved, SameBackend
    <2>4. /\ Shape(d) /\ Follows(v, d) /\ (Fine(v) => Goes(v, d))
          /\ (Alive(d) <=> Alive(v)) /\ (Alive(d) => d.active = "Software")
          /\ d.batch = v.batch
      BY <1>3, <2>2, ActivateGoes DEF Backends
    <2>5. Follows(r, v)
      BY <1>6, <1>9, <2>2 DEF OnlySoftware, OnlyMoved, Follows, SameFrontend, SameRouter
    <2>6. Follows(r, d)
      BY <2>4, <2>5, FollowsTwice
    <2>7. ASSUME Sound(r, {}), r.batch = <<>>,
                 ~MisreadAny(Settled(r), commands, TRUE)
          PROVE  Draws(r, d, commands)
      <3>1. \A i \in DOMAIN commands : InCpu(r, commands[i])
        BY <1>5, <2>7 DEF InCpu, Sound, pages
      <3>2. Sound(v, {}) /\ Settled(v) = DrawnFirst(Settled(r), commands, n)
        BY <1>6, <1>7, <1>9, <2>2, <2>3, <2>7, <3>1
      <3>3. Fine(d) /\ Settled(d) = DrawnAll(Settled(r), commands)
        BY <2>2, <2>4, <3>2 DEF Fine, Sound, Goes, DrawnAll, n
      <3>4. d.batch = <<>>
        BY <1>6, <2>3, <2>4, <2>7 DEF OnlySoftware, SameBackend
      <3>5. Captured(r) => Captured(d)
        <4>1. d.snapshot = r.snapshot
          BY <2>6 DEF Follows, SameFrontend
        <4>2. Captured(r) => Captured(u)
          BY <1>6 DEF Captured, OnlySoftware, SameFrontend, SameBackend, Pipeline
        <4>3. Captured(u) => Captured(v)
          BY <2>2, MovedSettled
        <4> QED BY <2>4, <3>2, <4>2, <4>3, <2>2 DEF Goes, Fine, Sound
      <3> QED BY <2>2, <2>4, <3>3, <3>4, <3>5 DEF Draws, Backed
    <2> QED BY <2>4, <2>6, <2>7
  <1> QED BY <1>8, <1>9

\* Commands go to the software backend, whatever held what they need.
LEMMA AllSoftwareKeeps ==
    ASSUME NEW r, NEW d, NEW commands \in Seq(Commands), Shape(r),
           \A i \in DOMAIN commands : commands[i].kind \in Recursive => OnHost(r),
           d = SubmitAllSoftware(r, commands)
    PROVE  /\ Shape(d) /\ Follows(r, d)
           /\ Alive(d) => d.active = "Software"
           /\ ListReady(r, commands) => Draws(r, d, commands)
  <1> DEFINE u == TransitionTo(r, "Software")
             reads == ReadsOf(commands)
             writes == WritesOf(commands)
             v == PrepareCpuVramAccess(u, reads, writes)
  <1>1. /\ u = TransitionTo(r, "Software") /\ v = PrepareCpuVramAccess(u, reads, writes)
        /\ d = RenderAll(v, commands)
    BY DEF SubmitAllSoftware
  <1>2. reads \in PageSets /\ writes \in PageSets
    BY ListParts
  <1> HIDE DEF u, reads, writes, v
  <1>3. /\ Shape(u) /\ Follows(r, u) /\ (Fine(r) => Goes(r, u))
        /\ Alive(u) => u.active = "Software"
        /\ Alive(u) /\ Backed(r) => u.batch = <<>>
    BY <1>1, TransitionGoes DEF Backends
  <1>4. /\ Shape(v) /\ Follows(u, v) /\ (Fine(u) => Goes(u, v))
        /\ v.active = u.active
        /\ Alive(v) => \A p \in reads \cup writes : v.ledger.gpu[p] <= v.ledger.cpu[p]
        /\ u.batch = <<>> => v.batch = <<>>
    BY <1>1, <1>2, <1>3, PrepareGoes
  <1>5. Follows(r, v) /\ (Fine(r) => Goes(r, v))
    BY <1>3, <1>4, FollowsTwice, GoesTwice DEF Goes
  <1>6. Alive(v) => Alive(u) /\ v.active = "Software"
    BY <1>3, <1>4 DEF Follows
  <1>7. \A i \in DOMAIN commands : commands[i].kind \in Recursive => OnHost(v)
    BY <1>5 DEF Follows, SameFrontend, OnHost
  <1>8. /\ Shape(d) /\ Follows(v, d)
        /\ Alive(d) => d.active = "Software"
        /\ Sound(v, {}) /\ v.batch = <<>>
           /\ ~MisreadAny(Settled(v), commands, TRUE)
           => Draws(v, d, commands)
    BY <1>1, <1>4, <1>6, <1>7, RenderAllKeeps DEF reads, writes
  <1>9. Follows(r, d)
    BY <1>5, <1>8, FollowsTwice
  <1>10. ASSUME ListReady(r, commands) PROVE Draws(r, d, commands)
    <2>1. Fine(r)
      BY <1>10 DEF ListReady, Sound, Fine
    <2>2. Goes(r, v)
      BY <1>5, <2>1
    <2>3. CASE Alive(v)
      <3>1. /\ Sound(v, {}) /\ v.batch = <<>> /\ Settled(v) = Settled(r)
            /\ Captured(r) => Captured(v)
        BY <1>3, <1>4, <1>6, <1>10, <2>2, <2>3 DEF Goes, Fine, ListReady
      <3> QED BY <1>8, <1>10, <3>1 DEF ListReady, Draws
    <2>4. CASE ~Alive(v)
      <3>1. ~Alive(d)
        BY <1>8, <2>4 DEF Follows
      <3>2. d.misread = v.misread
        <4>1. PICK after :
                 /\ SoftwareRun(after, v, commands, Len(commands))
                 /\ d = Activate(NoteCpuWrite(after[Len(commands)], WritesOf(commands)), "Software")
          BY <1>1, RenderAllIs
        <4>2. Len(commands) \in Nat
          BY SequenceParts
        <4> DEFINE T == {k \in 0 .. Len(commands) : after[k] = v}
        <4>3. 0 \in T /\ T \in SUBSET (0 .. Len(commands))
          BY <4>1, <4>2 DEF SoftwareRun
        <4>4. \A k \in 1 .. Len(commands) : k - 1 \in T => k \in T
          BY <2>4, <4>1, <4>2 DEF SoftwareRun, SubmitSoftware
        <4> HIDE DEF T
        <4>5. T = 0 .. Len(commands)
          BY <4>2, <4>3, <4>4, FirstNumbers
        <4>6. Len(commands) \in T
          BY <4>2, <4>5
        <4>7. after[Len(commands)] = v
          BY <4>6 DEF T
        <4> QED BY <2>4, <4>1, <4>7 DEF NoteCpuWrite, Activate
      <3> QED BY <1>8, <2>2, <3>1, <3>2 DEF Draws, Fine, Goes
    <2> QED BY <2>3, <2>4
  <1> QED BY <1>8, <1>9, <1>10

-----------------------------------------------------------------------------
(* The accelerated backend takes a command.                                 *)

\* Pages copied to the device, as the ledger has it.
LEMMA UpType ==
    ASSUME NEW ledger \in Ledgers, NEW pages \in PageSets, NEW up,
           up = Ledger!CompleteCpuToGpu(ledger, pages)
    PROVE  /\ up \in Ledgers /\ up.next = ledger.next /\ up.cpu = ledger.cpu
           /\ \A p \in Pages :
                 up.gpu[p] = IF p \in pages THEN ledger.cpu[p] ELSE ledger.gpu[p]
  BY DEF Ledger!CompleteCpuToGpu, Ledger!Copied, Ledgers, PageValues, PageSets

\* Pages of the CPU, none of them older, are copied to the device.
LEMMA CopiedUp ==
    ASSUME NEW r, NEW d, Shape(r), NEW pages \in PageSets, DOMAIN d = Fields,
           SameFrontend(r, d), SameRouter(r, d), SameBackend(r, d), SameFlags(r, d),
           d.cpu = r.cpu, d.gpu \in PageValues,
           d.ledger = Ledger!CompleteCpuToGpu(r.ledger, pages)
    PROVE  /\ Shape(d) /\ OnlyBackend(r, d) /\ (Alive(d) <=> Alive(r))
           /\ Captured(r) => Captured(d)
           /\ /\ Sound(r, {}) /\ r.queue = <<>>
              /\ \A p \in pages : r.ledger.gpu[p] <= r.ledger.cpu[p]
              /\ \A p \in Pages :
                    d.gpu[p] = IF p \in pages THEN r.cpu[p] ELSE r.gpu[p]
              => Sound(d, {}) /\ Settled(d) = Settled(r)
  <1>1. /\ r.ledger \in Ledgers /\ r.cpu \in PageValues /\ r.gpu \in PageValues
        /\ \A p \in Pages : r.ledger.cpu[p] \in Nat /\ r.ledger.gpu[p] \in Nat
    BY DEF Shape, TypedMemory, Ledgers, PageValues
  <1>2. /\ d.ledger \in Ledgers
        /\ d.ledger.next = r.ledger.next /\ d.ledger.cpu = r.ledger.cpu
        /\ \A p \in Pages :
              d.ledger.gpu[p] = IF p \in pages THEN r.ledger.cpu[p] ELSE r.ledger.gpu[p]
    BY <1>1, UpType
  <1>3. Shape(d) /\ (Alive(d) <=> Alive(r))
    <2>1. TypedMemory(d)
      BY <1>1, <1>2 DEF TypedMemory
    <2>2. TypedBackend(d) /\ TypedFlags(d) /\ Len(d.batch) <= MaxBatch /\ ~d.broken
          /\ (Alive(d) <=> Alive(r))
      BY TypedSame DEF Shape, SameFlags
    <2> QED BY <2>1, <2>2, ShapeOfBackend
  <1>4. OnlyMoved(r, d)
    BY <1>3 DEF OnlyMoved, SameFlags
  <1>5. /\ OnlyBackend(r, d) /\ (Memory(d) = Memory(r) => Settled(d) = Settled(r))
        /\ Captured(r) => Captured(d)
    BY <1>4, MovedSettled
  <1>6. ASSUME Sound(r, {}), r.queue = <<>>,
               \A p \in pages : r.ledger.gpu[p] <= r.ledger.cpu[p],
               \A p \in Pages :
                  d.gpu[p] = IF p \in pages THEN r.cpu[p] ELSE r.gpu[p]
        PROVE  Sound(d, {}) /\ Memory(d) = Memory(r)
    <2>1. Agree(d, {})
      BY <1>1, <1>2, <1>6 DEF Agree, Sound
    <2>2. Memory(d) = Memory(r)
      BY <1>1, <1>2, <1>6 DEF Memory, Newer
    <2>3. Alive(d) /\ ~d.failed /\ ~d.misread
      BY <1>3, <1>6 DEF SameFlags, Sound
    <2> QED BY <1>3, <1>6, <2>1, <2>2, <2>3, SoundMoved DEF SameRouter
  <1> QED BY <1>3, <1>5, <1>6

\* What the accelerated backend does with a command.
Accelerates(r, d, c) ==
    /\ Fine(d) /\ OnlyBackend(r, d)
    /\ Alive(d) => /\ Settled(d) = Drawn(Settled(r), c)
                   /\ Captured(r) => Captured(d)

LEMMA FailFine ==
    ASSUME NEW r, NEW d, NEW c, Fine(r), d = FailRequest(r)
    PROVE  Accelerates(r, d, c)
  BY FailKeeps DEF Fine, Accelerates, OnlyBackend

LEMMA RunVerifiedKeeps ==
    ASSUME NEW r, NEW d, Sound(r, {}), r.queue = <<>>, r.batch = <<>>,
           \A p \in Pages : r.ledger.gpu[p] <= r.ledger.cpu[p],
           d = RunVerified(r)
    PROVE  /\ Sound(d, {}) /\ Settled(d) = Settled(r) /\ OnlyBackend(r, d)
           /\ d.batch = <<>>
           /\ Captured(r) => Captured(d)
           /\ \A p \in Pages : d.ledger.gpu[p] <= d.ledger.cpu[p]
  <1> DEFINE pages == Ledger!CpuNewer(r.ledger, Pages)
             ledger == Ledger!CompleteCpuToGpu(r.ledger, pages)
  <1>1. /\ Shape(r) /\ r.ledger \in Ledgers /\ r.cpu \in PageValues
        /\ pages \in PageSets
        /\ \A p \in Pages : r.ledger.cpu[p] \in Nat /\ r.ledger.gpu[p] \in Nat
    BY DEF Sound, Shape, TypedMemory, Ledgers, PageValues, PageSets, Ledger!CpuNewer
  <1>2. \A p \in Pages : p \in pages <=> r.ledger.cpu[p] > r.ledger.gpu[p]
    BY DEF Ledger!CpuNewer
  <1>3. d = [r EXCEPT !.serves = r.serves - 1, !.gpu = r.cpu, !.ledger = ledger]
    BY DEF RunVerified
  <1>4. ledger = Ledger!CompleteCpuToGpu(r.ledger, pages)
    OBVIOUS
  <1> HIDE DEF pages, ledger
  <1>5. DOMAIN d = Fields /\ d.gpu = r.cpu /\ d.ledger = ledger /\ d.cpu = r.cpu
    BY <1>1, <1>3 DEF Shape, Fields
  <1>6. SameFrontend(r, d) /\ SameRouter(r, d)
    BY <1>1, <1>3 DEF Shape, Fields, SameFrontend, SameRouter
  <1>7. SameBackend(r, d) /\ SameFlags(r, d)
    BY <1>1, <1>3 DEF Shape, Fields, SameBackend, SameFlags
  <1>8. \A p \in Pages : d.gpu[p] = IF p \in pages THEN r.cpu[p] ELSE r.gpu[p]
    BY <1>1, <1>2, <1>5 DEF Sound, Agree
  <1>9. /\ OnlyBackend(r, d) /\ (Captured(r) => Captured(d))
        /\ /\ Sound(r, {}) /\ r.queue = <<>>
           /\ \A p \in pages : r.ledger.gpu[p] <= r.ledger.cpu[p]
           /\ \A p \in Pages :
                 d.gpu[p] = IF p \in pages THEN r.cpu[p] ELSE r.gpu[p]
           => Sound(d, {}) /\ Settled(d) = Settled(r)
    BY <1>1, <1>4, <1>5, <1>6, <1>7, CopiedUp
  <1>10. \A p \in pages : r.ledger.gpu[p] <= r.ledger.cpu[p]
    BY <1>1 DEF PageSets
  <1>11. \A p \in Pages : d.ledger.gpu[p] <= d.ledger.cpu[p]
    <2>1. /\ ledger.cpu = r.ledger.cpu
          /\ \A p \in Pages : ledger.gpu[p] = IF p \in pages THEN r.ledger.cpu[p]
                                              ELSE r.ledger.gpu[p]
      BY <1>1, <1>4, UpType
    <2> QED BY <1>1, <1>5, <2>1
  <1>12. d.batch = <<>>
    BY <1>7 DEF SameBackend
  <1> QED BY <1>8, <1>9, <1>10, <1>11, <1>12

LEMMA KeepVerifiedKeeps ==
    ASSUME NEW r, NEW d, NEW pages \in PageSets, Sound(r, {}), r.queue = <<>>,
           \A p \in pages : r.ledger.gpu[p] <= r.ledger.cpu[p],
           d = KeepVerified(r, pages)
    PROVE  /\ Sound(d, {}) /\ Settled(d) = Settled(r) /\ OnlyBackend(r, d)
           /\ Captured(r) => Captured(d)
  <1> DEFINE gpu == Ledger!Copied(r.gpu, r.cpu, pages)
             ledger == Ledger!CompleteCpuToGpu(r.ledger, pages)
  <1>1. /\ Shape(r) /\ r.ledger \in Ledgers /\ r.cpu \in PageValues
        /\ r.gpu \in PageValues
    BY DEF Sound, Shape, TypedMemory
  <1>2. d = [r EXCEPT !.gpu = gpu, !.ledger = ledger]
    BY DEF KeepVerified
  <1>3. /\ ledger = Ledger!CompleteCpuToGpu(r.ledger, pages)
        /\ gpu = Ledger!Copied(r.gpu, r.cpu, pages)
    OBVIOUS
  <1> HIDE DEF gpu, ledger
  <1>4. /\ gpu \in PageValues
        /\ \A p \in Pages : gpu[p] = IF p \in pages THEN r.cpu[p] ELSE r.gpu[p]
    BY <1>1, <1>3 DEF Ledger!Copied, PageValues, PageSets
  <1>5. DOMAIN d = Fields /\ d.gpu = gpu /\ d.ledger = ledger /\ d.cpu = r.cpu
    BY <1>1, <1>2 DEF Shape, Fields
  <1>6. SameFrontend(r, d) /\ SameRouter(r, d)
    BY <1>1, <1>2 DEF Shape, Fields, SameFrontend, SameRouter
  <1>7. SameBackend(r, d) /\ SameFlags(r, d)
    BY <1>1, <1>2 DEF Shape, Fields, SameBackend, SameFlags
  <1>8. /\ OnlyBackend(r, d) /\ (Captured(r) => Captured(d))
        /\ /\ Sound(r, {}) /\ r.queue = <<>>
           /\ \A p \in pages : r.ledger.gpu[p] <= r.ledger.cpu[p]
           /\ \A p \in Pages :
                 d.gpu[p] = IF p \in pages THEN r.cpu[p] ELSE r.gpu[p]
           => Sound(d, {}) /\ Settled(d) = Settled(r)
    BY <1>1, <1>3, <1>4, <1>5, <1>6, <1>7, CopiedUp
  <1> QED BY <1>4, <1>5, <1>8

\* The draw that both copies keep.
LEMMA VerifyKeeps ==
    ASSUME NEW r, NEW d, NEW c \in Commands, Sound(r, {}), r.queue = <<>>,
           r.batch = <<>>, \A p \in Pages : r.ledger.gpu[p] <= r.ledger.cpu[p],
           c.kind \in Recursive => HostSnapshot(r).held, ~Misread(Settled(r), c),
           d = KeepVerified(NoteCpuWrite(RenderSoftware(RunVerified(r), c),
                                         Writes(c)),
                            Writes(c))
    PROVE  Accelerates(r, d, c)
  <1> DEFINE x == RunVerified(r)
             y == RenderSoftware(x, c)
             pages == Writes(c)
             z == NoteCpuWrite(y, pages)
  <1>1. /\ x = RunVerified(r) /\ y = RenderSoftware(x, c)
        /\ z = NoteCpuWrite(y, pages) /\ d = KeepVerified(z, pages)
    OBVIOUS
  <1>2. pages \in PageSets /\ pages \subseteq Pages /\ DirectReads(c) \subseteq Pages
    BY CommandPages DEF PageSets
  <1>3. Writes(c) \subseteq pages /\ DirectReads(c) \cup Writes(c) \subseteq Pages
    BY <1>2
  <1> HIDE DEF x, y, pages, z
  <1>4. /\ Sound(x, {}) /\ Settled(x) = Settled(r) /\ OnlyBackend(r, x)
        /\ x.batch = <<>>
        /\ Captured(r) => Captured(x)
        /\ \A p \in Pages : x.ledger.gpu[p] <= x.ledger.cpu[p]
    BY <1>1, RunVerifiedKeeps
  <1>5. /\ Shape(x) /\ Alive(x) /\ x.queue = <<>> /\ InCpu(x, c)
        /\ c.kind \in Recursive => HostSnapshot(x).held
    BY <1>3, <1>4 DEF Sound, OnlyBackend, SameRouter, SameFrontend, InCpu, HostSnapshot
  <1>6. Sound(x, pages)
    <2>1. \A p \in pages : x.ledger.gpu[p] <= x.ledger.cpu[p]
      BY <1>2, <1>4
    <2>2. Agree(x, pages)
      BY <1>4, <2>1 DEF Agree, Sound
    <2>3. QueueOK(x, pages)
      BY <1>4 DEF Sound, QueueOK
    <2> QED BY <1>4, <2>2, <2>3 DEF Sound
  <1>7. /\ Shape(y) /\ Alive(y) /\ OnlySoftware(x, y) /\ SameRouter(x, y)
        /\ \A unnoted \in PageSets :
              /\ Sound(x, unnoted) /\ x.queue = <<>> /\ x.batch = <<>>
              /\ Writes(c) \subseteq unnoted
              /\ InCpu(x, c) /\ ~Misread(Settled(x), c)
              => Sound(y, unnoted) /\ Settled(y) = Drawn(Settled(x), c)
    BY <1>1, <1>5, RenderKeeps
  <1>8. Sound(y, pages) /\ Settled(y) = Drawn(Settled(r), c)
    BY <1>2, <1>3, <1>4, <1>5, <1>6, <1>7
  <1>9. \A p \in pages : y.ledger.gpu[p] <= y.ledger.cpu[p]
    BY <1>2, <1>4, <1>7 DEF OnlySoftware
  <1>10. /\ Shape(z) /\ OnlyMoved(y, z) /\ Alive(z)
         /\ Sound(y, pages) =>
               /\ Sound(z, {}) /\ Memory(z) = Memory(y)
               /\ \A p \in pages : z.ledger.gpu[p] <= z.ledger.cpu[p]
    BY <1>1, <1>2, <1>7, <1>9, NoteKeeps
  <1>11. /\ OnlyBackend(y, z) /\ (Memory(z) = Memory(y) => Settled(z) = Settled(y))
         /\ Captured(y) => Captured(z)
    BY <1>10, MovedSettled
  <1>12. z.queue = <<>>
    BY <1>5, <1>7, <1>11 DEF OnlyBackend, SameRouter
  <1>13. /\ Sound(d, {}) /\ Settled(d) = Settled(z) /\ OnlyBackend(z, d)
         /\ Captured(z) => Captured(d)
    BY <1>1, <1>2, <1>8, <1>10, <1>12, KeepVerifiedKeeps
  <1>14. OnlyBackend(x, y)
    BY <1>5, <1>7 DEF OnlyBackend, OnlySoftware
  <1>15. OnlyBackend(r, y)
    BY <1>4, <1>14, OnlyBackendTwice
  <1>16. OnlyBackend(r, z)
    BY <1>11, <1>15, OnlyBackendTwice
  <1>17. OnlyBackend(r, d)
    BY <1>13, <1>16, OnlyBackendTwice
  <1>18. Captured(x) => Captured(y)
    BY <1>7 DEF Captured, OnlySoftware, SameFrontend, SameBackend, Pipeline
  <1> QED
    BY <1>4, <1>8, <1>10, <1>11, <1>13, <1>17, <1>18 DEF Accelerates, Fine, Sound

LEMMA VerifiedKeeps ==
    ASSUME NEW r, NEW d, NEW c, Fine(r), Ready(r, c), Alive(r), r.queue = <<>>,
           d = SubmitVerified(r, c)
    PROVE  Accelerates(r, d, c)
  <1>1. CASE c.kind \in Recursive /\ ~HostSnapshot(r).held
    BY <1>1, FailFine DEF SubmitVerified
  <1>2. CASE ~(c.kind \in Recursive /\ ~HostSnapshot(r).held)
    <2> DEFINE u == PrepareCpuVramAccess(r, Pages, Pages)
    <2>1. /\ u = PrepareCpuVramAccess(r, Pages, Pages)
          /\ d = IF ~Alive(u) THEN u
                 ELSE IF u.serves = 0 THEN FailRequest(u)
                 ELSE KeepVerified(
                          NoteCpuWrite(RenderSoftware(RunVerified(u), c), Writes(c)),
                          Writes(c))
      BY <1>2 DEF SubmitVerified, Then
    <2> HIDE DEF u
    <2>2. Pages \in PageSets /\ Shape(r) /\ Sound(r, {})
      BY DEF PageSets, Fine
    <2>3. /\ OnlyBackend(r, u)
          /\ Alive(u) => \A p \in Pages : u.ledger.gpu[p] <= u.ledger.cpu[p]
      <3>1. /\ OnlyBackend(r, u)
            /\ Alive(u) => \A p \in Pages \cup Pages : u.ledger.gpu[p] <= u.ledger.cpu[p]
        BY <2>1, <2>2, PrepareKeeps
      <3> QED BY <3>1
    <2>4. /\ Goes(r, u)
          /\ Alive(u) => u.batch = <<>>
      <3>1. /\ Goes(r, u)
            /\ Alive(u) => (Pages \cup Pages = Pages => u.batch = <<>>)
        BY <2>1, <2>2, PrepareGoes
      <3> QED BY <3>1
    <2>5. CASE ~Alive(u)
      <3>1. d = u
        BY <2>1, <2>5
      <3> QED BY <2>3, <2>4, <2>5, <3>1 DEF Goes, Accelerates
    <2>6. CASE Alive(u)
      <3>1. /\ Sound(u, {}) /\ u.queue = <<>> /\ u.batch = <<>>
            /\ Settled(u) = Settled(r) /\ (Captured(r) => Captured(u))
            /\ HostSnapshot(u) = HostSnapshot(r)
        BY <2>3, <2>4, <2>6 DEF Goes, Fine, OnlyBackend, SameRouter, SameFrontend,
                                HostSnapshot
      <3>2. Accelerates(u, d, c)
        <4>1. CASE u.serves = 0
          <5>1. d = FailRequest(u)
            BY <2>1, <2>6, <4>1
          <5> QED BY <2>4, <5>1, FailFine DEF Goes
        <4>2. CASE u.serves # 0
          <5>1. d = KeepVerified(
                        NoteCpuWrite(RenderSoftware(RunVerified(u), c), Writes(c)),
                        Writes(c))
            BY <2>1, <2>6, <4>2
          <5>2. c \in Commands /\ ~Misread(Settled(u), c)
            BY <3>1 DEF Ready
          <5>3. /\ c.kind \in Recursive => HostSnapshot(u).held
                /\ \A p \in Pages : u.ledger.gpu[p] <= u.ledger.cpu[p]
            BY <1>2, <2>3, <2>6, <3>1
          <5> QED BY <3>1, <5>1, <5>2, <5>3, VerifyKeeps
        <4> QED BY <4>1, <4>2
      <3>3. OnlyBackend(r, d)
        BY <2>3, <3>2, OnlyBackendTwice DEF Accelerates
      <3> QED BY <2>6, <3>1, <3>2, <3>3 DEF Accelerates
    <2> QED BY <2>5, <2>6
  <1> QED BY <1>1, <1>2

LEMMA AcceleratedKeeps ==
    ASSUME NEW r, NEW d, NEW c, Fine(r), Ready(r, c), Alive(r) => r.queue = <<>>,
           c.kind \in DeviceKinds, c.kind = "FeedbackLinear" => OnHost(r),
           d = SubmitAccelerated(r, c)
    PROVE  /\ Accelerates(r, d, c)
           /\ Alive(d) /\ r.mode # "Verify" /\ c.kind = "FeedbackNearest" =>
                 Captured(d)
  <1>1. CASE ~Alive(r)
    <2>1. d = r
      BY <1>1 DEF SubmitAccelerated
    <2> QED BY <1>1, <2>1, SameAll DEF Accelerates, OnlyBackend
  <1>2. CASE Alive(r) /\ r.mode = "Verify"
    BY <1>2, VerifiedKeeps DEF SubmitAccelerated
  <1>3. CASE Alive(r) /\ r.mode # "Verify"
    BY <1>3, ResidentKeeps DEF SubmitAccelerated, Accelerates
  <1> QED BY <1>1, <1>2, <1>3

-----------------------------------------------------------------------------
(* The accelerated backend takes a list of commands.                        *)

\* The renderers after each of the first n commands.
AcceleratedRun(after, first, commands, n) ==
    /\ after = [k \in 0 .. n |-> after[k]]
    /\ after[0] = first
    /\ \A k \in 1 .. n : after[k] = SubmitAccelerated(after[k - 1], commands[k])

LEMMA AcceleratedRunExists ==
    ASSUME NEW first, NEW commands, NEW n \in Nat
    PROVE  \E after : AcceleratedRun(after, first, commands, n)
  <1> DEFINE T == {k \in 0 .. n : \E after : AcceleratedRun(after, first, commands, k)}
  <1>1. 0 \in T
    <2>1. AcceleratedRun([k \in 0 .. 0 |-> first], first, commands, 0)
      BY DEF AcceleratedRun
    <2> QED BY <2>1
  <1>2. ASSUME NEW m \in 1 .. n, m - 1 \in T PROVE m \in T
    <2>1. PICK after : AcceleratedRun(after, first, commands, m - 1)
      BY <1>2
    <2> DEFINE next == [k \in 0 .. m |->
                           IF k = m THEN SubmitAccelerated(after[m - 1], commands[m])
                           ELSE after[k]]
    <2>2. next[0] = first
      BY <2>1 DEF AcceleratedRun
    <2>3. ASSUME NEW k \in 1 .. m
          PROVE  next[k] = SubmitAccelerated(next[k - 1], commands[k])
      <3>1. CASE k = m
        BY <3>1
      <3>2. CASE k # m
        <4>1. k \in 1 .. m - 1 /\ k - 1 # m /\ k - 1 \in 0 .. m
          BY <3>2
        <4>2. next[k] = after[k] /\ next[k - 1] = after[k - 1]
          BY <3>2, <4>1
        <4>3. after[k] = SubmitAccelerated(after[k - 1], commands[k])
          BY <2>1, <4>1 DEF AcceleratedRun
        <4> QED BY <4>2, <4>3
      <3> QED BY <3>1, <3>2
    <2>4. next = [k \in 0 .. m |-> next[k]]
      OBVIOUS
    <2> HIDE DEF next
    <2>5. AcceleratedRun(next, first, commands, m)
      BY <2>2, <2>3, <2>4 DEF AcceleratedRun
    <2> QED BY <2>5
  <1> HIDE DEF T
  <1>3. T \in SUBSET (0 .. n)
    BY DEF T
  <1>4. T = 0 .. n
    BY <1>1, <1>2, <1>3, FirstNumbers
  <1>5. n \in T
    BY <1>4
  <1> QED BY <1>5 DEF T

LEMMA SubmitAllAcceleratedIs ==
    ASSUME NEW r, NEW first, NEW commands \in Seq(Commands),
           first = TransitionTo(r, "Accelerated")
    PROVE  \E after :
              /\ AcceleratedRun(after, first, commands, Len(commands))
              /\ SubmitAllAccelerated(r, commands) = after[Len(commands)]
  <1> DEFINE Defines(f) ==
               f = [n \in 0 .. Len(commands) |->
                       IF n = 0 THEN TransitionTo(r, "Accelerated")
                       ELSE SubmitAccelerated(f[n - 1], commands[n])]
             f == CHOOSE g : Defines(g)
  <1>1. Len(commands) \in Nat
    BY SequenceParts
  <1>2. PICK after : AcceleratedRun(after, first, commands, Len(commands))
    BY <1>1, AcceleratedRunExists
  <1>3. Defines(after)
    <2>1. \A n \in 0 .. Len(commands) :
            after[n] = IF n = 0 THEN TransitionTo(r, "Accelerated")
                       ELSE SubmitAccelerated(after[n - 1], commands[n])
      <3> TAKE n \in 0 .. Len(commands)
      <3>1. CASE n = 0
        BY <1>2, <3>1 DEF AcceleratedRun
      <3>2. CASE n # 0
        <4>1. n \in 1 .. Len(commands)
          BY <1>1, <3>2
        <4> QED BY <1>2, <3>2, <4>1 DEF AcceleratedRun
      <3> QED BY <3>1, <3>2
    <2> QED BY <1>2, <2>1 DEF AcceleratedRun
  <1>4. Defines(f)
    BY <1>3
  <1>5. SubmitAllAccelerated(r, commands) = f[Len(commands)]
    BY DEF SubmitAllAccelerated
  <1>6. AcceleratedRun(f, first, commands, Len(commands))
    <2> HIDE DEF f
    <2>1. f[0] = first
      BY <1>1, <1>4
    <2>2. ASSUME NEW k \in 1 .. Len(commands)
          PROVE  f[k] = SubmitAccelerated(f[k - 1], commands[k])
      <3>1. k \in 0 .. Len(commands) /\ k # 0
        BY <1>1
      <3> QED BY <1>4, <3>1
    <2>3. f = [k \in 0 .. Len(commands) |-> f[k]]
      BY <1>4
    <2> QED BY <2>1, <2>2, <2>3 DEF AcceleratedRun
  <1> QED BY <1>5, <1>6

\* What the device may be handed: it reads its own copy or the frontend's.
DeviceList(r, commands) ==
    \A i \in DOMAIN commands :
        /\ commands[i].kind \in DeviceKinds
        /\ commands[i].kind = "FeedbackLinear" => OnHost(r)

\* The first of the commands are drawn on what was there.
AcceleratedPart(first, commands, k, d) ==
    /\ Fine(d) /\ OnlyBackend(first, d)
    /\ Alive(d) => /\ Settled(d) = DrawnFirst(Settled(first), commands, k)
                   /\ Captured(first) => Captured(d)

LEMMA AcceleratedRunKeeps ==
    ASSUME NEW first, NEW commands \in Seq(Commands), NEW after,
           Fine(first), Alive(first) => first.queue = <<>>,
           DeviceList(first, commands),
           Alive(first) => ~MisreadAny(Settled(first), commands, TRUE),
           AcceleratedRun(after, first, commands, Len(commands))
    PROVE  AcceleratedPart(first, commands, Len(commands), after[Len(commands)])
  <1> DEFINE n == Len(commands)
             T == {k \in 0 .. n : AcceleratedPart(first, commands, k, after[k])}
  <1>1. n \in Nat /\ DOMAIN commands = 1 .. n
    BY SequenceParts
  <1>2. AcceleratedPart(first, commands, 0, after[0])
    <2>1. after[0] = first
      BY DEF AcceleratedRun
    <2>2. OnlyBackend(first, first)
      BY SameAll DEF OnlyBackend
    <2>3. Settled(first) = DrawnFirst(Settled(first), commands, 0)
      BY MemoryType, DrawnNone DEF Fine
    <2> QED BY <2>1, <2>2, <2>3 DEF AcceleratedPart
  <1>3. ASSUME NEW k \in 1 .. n, AcceleratedPart(first, commands, k - 1, after[k - 1])
        PROVE  AcceleratedPart(first, commands, k, after[k])
    <2> DEFINE u == after[k - 1]
               d == after[k]
               c == commands[k]
    <2>1. /\ d = SubmitAccelerated(u, c) /\ k - 1 \in Nat /\ (k - 1) + 1 = k
          /\ c \in Commands /\ k \in DOMAIN commands
      <3>1. d = SubmitAccelerated(u, c)
        BY DEF AcceleratedRun
      <3>2. k - 1 \in Nat /\ (k - 1) + 1 = k /\ k \in DOMAIN commands
        BY <1>1
      <3>3. c \in Commands
        BY ListParts
      <3> QED BY <3>1, <3>2, <3>3
    <2>2. AcceleratedPart(first, commands, k - 1, u)
      BY <1>3
    <2>3. c.kind \in DeviceKinds /\ (c.kind = "FeedbackLinear" => OnHost(u))
      <3>1. c.kind \in DeviceKinds /\ (c.kind = "FeedbackLinear" => OnHost(first))
        BY <2>1 DEF DeviceList
      <3> QED BY <2>2, <3>1 DEF AcceleratedPart, OnlyBackend, SameFrontend, OnHost
    <2>4. Alive(first) =>
              ~Misread(DrawnFirst(Settled(first), commands, k - 1), c)
      BY <2>1 DEF MisreadAny
    <2>5. Settled(first) \in PageValues
      BY MemoryType DEF Fine
    <2>6. DrawnFirst(Settled(first), commands, k) =
              Drawn(DrawnFirst(Settled(first), commands, k - 1), c)
      <3>1. DrawnFirst(Settled(first), commands, (k - 1) + 1) =
                Drawn(DrawnFirst(Settled(first), commands, k - 1),
                      commands[(k - 1) + 1])
        BY <2>1, <2>5, DrawnNext
      <3> QED BY <2>1, <3>1
    <2> HIDE DEF u, d, c
    <2>7. Ready(u, c) /\ (Alive(u) => u.queue = <<>>) /\ Fine(u)
      BY <2>1, <2>2, <2>4 DEF AcceleratedPart, OnlyBackend, SameRouter, Ready
    <2>8. Accelerates(u, d, c)
      BY <2>1, <2>3, <2>7, AcceleratedKeeps
    <2>9. OnlyBackend(first, d)
      BY <2>2, <2>8, OnlyBackendTwice DEF AcceleratedPart, Accelerates
    <2>10. AcceleratedPart(first, commands, k, d)
      BY <2>2, <2>6, <2>8, <2>9 DEF AcceleratedPart, Accelerates, OnlyBackend
    <2> QED BY <2>10 DEF d
  <1> HIDE DEF n
  <1>4. 0 \in T /\ T \in SUBSET (0 .. n)
    BY <1>1, <1>2
  <1>5. \A k \in 1 .. n : k - 1 \in T => k \in T
    BY <1>1, <1>3
  <1> HIDE DEF T
  <1>6. T = 0 .. n
    BY <1>1, <1>4, <1>5, FirstNumbers
  <1>7. n \in T
    BY <1>1, <1>6
  <1> QED BY <1>7 DEF T, n

\* Commands go to the accelerated backend, whatever held what they need.
LEMMA AllAcceleratedKeeps ==
    ASSUME NEW r, NEW d, NEW commands \in Seq(Commands), ListReady(r, commands),
           DeviceList(r, commands), d = SubmitAllAccelerated(r, commands)
    PROVE  /\ Draws(r, d, commands) /\ Follows(r, d)
           /\ Alive(d) => d.active = "Accelerated"
  <1> DEFINE u == TransitionTo(r, "Accelerated")
  <1>1. u = TransitionTo(r, "Accelerated")
    OBVIOUS
  <1>2. Fine(r) /\ Shape(r) /\ Backed(r) /\ Alive(r)
    BY DEF ListReady, Sound, Fine
  <1> HIDE DEF u
  <1>3. /\ Goes(r, u) /\ Follows(r, u)
        /\ Alive(u) => u.active = "Accelerated" /\ u.queue = <<>>
    BY <1>1, <1>2, TransitionGoes DEF Backends
  <1>4. PICK after :
           /\ AcceleratedRun(after, u, commands, Len(commands))
           /\ d = after[Len(commands)]
    BY <1>1, SubmitAllAcceleratedIs
  <1>5. Fine(u) /\ (Alive(u) => Settled(u) = Settled(r) /\ (Captured(r) => Captured(u)))
    BY <1>3 DEF Goes
  <1>6. DeviceList(u, commands)
    BY <1>3 DEF DeviceList, Follows, SameFrontend, OnHost
  <1>7. Alive(u) => ~MisreadAny(Settled(u), commands, TRUE)
    BY <1>5 DEF ListReady
  <1>8. AcceleratedPart(u, commands, Len(commands), d)
    BY <1>3, <1>4, <1>5, <1>6, <1>7, AcceleratedRunKeeps
  <1>9. Follows(u, d) /\ (Alive(d) => d.active = u.active /\ d.queue = u.queue)
    BY <1>8 DEF AcceleratedPart, OnlyBackend, Follows, SameRouter
  <1>10. Follows(r, d)
    BY <1>3, <1>9, FollowsTwice
  <1>11. Alive(d) => Alive(u)
    BY <1>9 DEF Follows
  <1>12. Draws(r, d, commands)
    BY <1>3, <1>5, <1>8, <1>9, <1>11 DEF Draws, AcceleratedPart, Backed, DrawnAll
  <1> QED BY <1>3, <1>9, <1>10, <1>11, <1>12

-----------------------------------------------------------------------------
(* The router resolves what it deferred.                                    *)

\* The renderer is whole but for what the memory shall be in the end.
Kept(r, truth) ==
    /\ Sound(r, {})
    /\ Backed(r)
    /\ ~MisreadAny(Settled(r), r.deferred, TRUE)
    /\ Truth(r) = truth
    /\ r.tail # NoTail => r.active = "Accelerated" /\ r.deferred = <<>>
    /\ r.mode # "Hybrid" => r.tail = NoTail /\ r.deferred = <<>>
    /\ Len(r.deferred) < MaxDeferred

\* What a call of the router leaves.
Routes(r, d, truth) ==
    /\ Fine(d) /\ SameFrontend(r, d)
    /\ Alive(d) => Kept(d, truth) /\ (Captured(r) => Captured(d))

\* Nothing is deferred.
LEMMA NoneDeferred ==
    ASSUME NEW r, Sound(r, {}), Backed(r), r.deferred = <<>>,
           r.tail # NoTail => r.active = "Accelerated" /\ r.mode = "Hybrid"
    PROVE  Kept(r, Settled(r))
  <1>1. Settled(r) \in PageValues
    BY MemoryType DEF Sound
  <1>2. ~MisreadAny(Settled(r), r.deferred, TRUE) /\ Truth(r) = Settled(r)
    BY <1>1, DrawnAllNone DEF Truth
  <1>3. Len(r.deferred) < MaxDeferred
    BY ConstantsAssumption, EmptySeq
  <1> QED BY <1>2, <1>3 DEF Kept

Cleared(r, tail) == [r EXCEPT !.deferred = <<>>, !.tail = tail]

LEMMA ClearedKeeps ==
    ASSUME NEW r, NEW d, NEW tail, Shape(r),
           d = Cleared(r, tail)
    PROVE  /\ Shape(d) /\ SameFrontend(r, d) /\ (Alive(d) <=> Alive(r))
           /\ d.deferred = <<>> /\ d.tail = tail
           /\ d.active = r.active /\ d.queue = r.queue /\ d.batch = r.batch
           /\ d.misread = r.misread /\ d.failed = r.failed
           /\ Settled(d) = Settled(r)
           /\ Captured(r) => Captured(d)
           /\ Sound(r, {}) => Sound(d, {})
  <1>1. /\ DOMAIN d = Fields /\ d.deferred = <<>> /\ d.tail = tail
        /\ d.active = r.active /\ d.queue = r.queue
    BY DEF Cleared, Shape, Fields
  <1>2. SameFrontend(r, d) /\ SameBackend(r, d)
    BY DEF Cleared, Shape, Fields, SameFrontend, SameBackend
  <1>3. SameMemory(r, d) /\ SameFlags(r, d)
    BY DEF Cleared, Shape, Fields, SameMemory, SameFlags
  <1>4. Shape(d) /\ (Alive(d) <=> Alive(r))
    <2>1. TypedRouter(d)
      BY <1>1, EmptySeq DEF Shape, TypedRouter
    <2>2. /\ TypedFront(d) /\ TypedBackend(d) /\ TypedMemory(d) /\ TypedFlags(d)
          /\ (Alive(d) <=> Alive(r)) /\ Len(d.batch) <= MaxBatch
          /\ (OnHost(d) <=> OnHost(r))
      BY <1>2, <1>3, TypedSame
    <2>3. ~d.broken /\ (OnHost(d) => d.host.held)
      BY <1>2, <1>3, <2>2 DEF Shape, SameFlags, SameFrontend
    <2>4. DOMAIN d.deferred = {}
      BY <1>1, EmptySeq
    <2> QED BY <1>1, <2>1, <2>2, <2>3, <2>4 DEF Shape
  <1>5. Memory(d) = Memory(r)
    BY <1>3 DEF SameMemory, Memory
  <1>6. Settled(d) = Settled(r)
    BY <1>1, <1>2, <1>5 DEF Settled, SameBackend
  <1>7. Captured(r) => Captured(d)
    BY <1>2 DEF Captured, SameFrontend, SameBackend, Pipeline
  <1>8. ASSUME Sound(r, {}) PROVE Sound(d, {})
    <2>1. Agree(d, {})
      BY <1>3, <1>8 DEF Agree, Sound, SameMemory
    <2>2. Alive(d) /\ ~d.failed /\ ~d.misread
      BY <1>3, <1>4, <1>8 DEF Sound, SameFlags
    <2>3. StaysAhead(r, d, {}, {})
      BY <1>1, <1>3 DEF StaysAhead, SameMemory
    <2> QED BY <1>1, <1>2, <1>4, <1>5, <1>8, <2>1, <2>2, <2>3, SoundMoved
  <1> QED BY <1>1, <1>2, <1>3, <1>4, <1>6, <1>7, <1>8 DEF SameBackend, SameFlags

\* The deferred commands are in order for the software backend in any case.
LEMMA DeferredParts ==
    ASSUME NEW r, Shape(r)
    PROVE  /\ r.deferred \in Seq(Commands) /\ r.queue \in Seq(Commands)
           /\ r.batch \in Seq(Commands)
           /\ \A i \in DOMAIN r.deferred :
                 r.deferred[i].kind \in Recursive => OnHost(r)
           /\ DeviceList(r, r.deferred)
  BY DEF Shape, TypedRouter, TypedBackend, DeviceList, Deferrable, DeviceKinds, Recursive

\* Even where a draw was lost, the deferred run is handed over and cleared.
LEMMA ResolveShape ==
    ASSUME NEW r, NEW d, Shape(r), d = ResolvePendingHybrid(r, FALSE)
    PROVE  /\ Shape(d) /\ SameFrontend(r, d)
           /\ Alive(d) => Alive(r) /\ d.failed = r.failed /\ d.deferred = <<>>
  <1>1. CASE ~Alive(r) \/ r.deferred = <<>>
    <2>1. d = r
      BY <1>1 DEF ResolvePendingHybrid
    <2> QED BY <1>1, <2>1, SameAll
  <1>2. CASE Alive(r) /\ r.deferred # <<>>
    <2> DEFINE u == SubmitAllSoftware(r, r.deferred)
               v == ForgetTail(u)
               tail == NoTail
    <2>1. /\ u = SubmitAllSoftware(r, r.deferred) /\ v = ForgetTail(u)
          /\ d = IF Alive(v) THEN Cleared(v, tail) ELSE v
      BY <1>2 DEF ResolvePendingHybrid, Then, Cleared
    <2> HIDE DEF u, v, tail
    <2>2. Shape(u) /\ Follows(r, u)
      BY <2>1, DeferredParts, AllSoftwareKeeps
    <2>3. Shape(v) /\ Follows(u, v) /\ v.failed = u.failed
      BY <2>1, <2>2, ForgetGoes
    <2>4. Follows(r, v)
      BY <2>2, <2>3, FollowsTwice
    <2>5. CASE Alive(v)
      <3>1. d = Cleared(v, tail)
        BY <2>1, <2>5
      <3>2. Shape(v)
        BY <2>3
      <3>3. /\ Shape(d) /\ SameFrontend(v, d) /\ (Alive(d) <=> Alive(v))
            /\ d.deferred = <<>> /\ d.tail = tail
            /\ d.active = v.active /\ d.queue = v.queue /\ d.batch = v.batch
            /\ d.misread = v.misread /\ d.failed = v.failed
            /\ Settled(d) = Settled(v)
            /\ Captured(v) => Captured(d)
            /\ Sound(v, {}) => Sound(d, {})
        BY <3>1, <3>2, ClearedKeeps
      <3> QED BY <2>4, <3>3 DEF Follows, SameFrontend
    <2>6. CASE ~Alive(v)
      <3>1. d = v
        BY <2>1, <2>6
      <3> QED BY <2>3, <2>4, <2>6, <3>1 DEF Follows
    <2> QED BY <2>5, <2>6
  <1> QED BY <1>1, <1>2

LEMMA ResolveKeeps ==
    ASSUME NEW r, NEW d, NEW accelerate \in BOOLEAN, ListReady(r, r.deferred),
           r.deferred # <<>>, accelerate => r.mode = "Hybrid",
           d = ResolvePendingHybrid(r, accelerate)
    PROVE  /\ Routes(r, d, Truth(r))
           /\ Alive(d) => d.deferred = <<>> /\ (~accelerate => d.tail = NoTail)
  <1> DEFINE u == IF accelerate THEN SubmitAllAccelerated(r, r.deferred)
                  ELSE ForgetTail(SubmitAllSoftware(r, r.deferred))
             tail == IF accelerate THEN RunOf(Last(r.deferred)) ELSE NoTail
  <1>1. Shape(r) /\ Alive(r)
    BY DEF ListReady, Sound
  <1>2. /\ d = IF Alive(u) THEN Cleared(u, tail) ELSE u
        /\ ~accelerate => tail = NoTail
    BY <1>1 DEF ResolvePendingHybrid, Then, Cleared
  <1>3. /\ Draws(r, u, r.deferred) /\ SameFrontend(r, u)
        /\ Alive(u) => (accelerate => u.active = "Accelerated")
    <2>1. CASE accelerate
      <3>1. u = SubmitAllAccelerated(r, r.deferred)
        BY <2>1
      <3> HIDE DEF u
      <3> QED BY <1>1, <2>1, <3>1, DeferredParts, AllAcceleratedKeeps DEF Follows
    <2>2. CASE ~accelerate
      <3> DEFINE s == SubmitAllSoftware(r, r.deferred)
      <3>1. s = SubmitAllSoftware(r, r.deferred) /\ u = ForgetTail(s)
        BY <2>2
      <3> HIDE DEF u, s
      <3>2. Draws(r, s, r.deferred) /\ Follows(r, s)
        BY <1>1, <3>1, DeferredParts, AllSoftwareKeeps
      <3>3. Shape(s) /\ Fine(s)
        BY <3>2 DEF Draws, Fine
      <3>4. /\ Follows(s, u) /\ Goes(s, u) /\ (Alive(u) <=> Alive(s))
            /\ u.active = s.active /\ u.queue = s.queue /\ u.batch = s.batch
        BY <3>1, <3>3, ForgetGoes
      <3>5. Draws(r, u, r.deferred)
        BY <3>2, <3>4 DEF Draws, Goes, Backed
      <3> QED BY <2>2, <3>2, <3>4, <3>5 DEF Follows, SameFrontend
    <2> QED BY <2>1, <2>2
  <1> HIDE DEF u, tail
  <1>4. Fine(u) /\ Shape(u)
    BY <1>3 DEF Draws, Fine
  <1>5. CASE ~Alive(u)
    <2>1. d = u
      BY <1>2, <1>5
    <2> QED BY <1>3, <1>4, <1>5, <2>1 DEF Routes
  <1>6. CASE Alive(u)
    <2>1. d = Cleared(u, tail)
      BY <1>2, <1>6
    <2>2. /\ Shape(d) /\ SameFrontend(u, d) /\ (Alive(d) <=> Alive(u))
          /\ d.deferred = <<>> /\ d.tail = tail
          /\ d.active = u.active /\ d.queue = u.queue /\ d.batch = u.batch
          /\ d.misread = u.misread
          /\ Settled(d) = Settled(u)
          /\ Captured(u) => Captured(d)
          /\ Sound(u, {}) => Sound(d, {})
      BY <1>4, <2>1, ClearedKeeps
    <2>3. /\ Sound(d, {}) /\ Backed(d) /\ (Captured(r) => Captured(d))
          /\ Settled(d) = Truth(r)
      BY <1>3, <1>4, <1>6, <2>2 DEF Draws, Fine, Backed, Truth
    <2>4. SameFrontend(r, d)
      BY <1>3, <2>2 DEF SameFrontend
    <2>5. d.tail # NoTail => d.active = "Accelerated" /\ d.mode = "Hybrid"
      BY <1>2, <1>3, <1>6, <2>2, <2>4 DEF SameFrontend
    <2>6. Kept(d, Truth(r))
      BY <2>2, <2>3, <2>5, NoneDeferred
    <2>7. Fine(d)
      BY <2>3 DEF Fine, Sound
    <2> QED BY <1>2, <2>2, <2>3, <2>4, <2>6, <2>7 DEF Routes
  <1> QED BY <1>5, <1>6

-----------------------------------------------------------------------------
(* What starts every flush and every access.                                *)

LEMMA GoesKept ==
    ASSUME NEW r, NEW d, NEW truth, Kept(r, truth), Goes(r, d), Alive(d), Backed(d),
           d.tail # NoTail => d.active = "Accelerated"
    PROVE  Kept(d, truth)
  BY DEF Goes, Follows, SameFrontend, Fine, Kept, Truth

LEMMA SettleShape ==
    ASSUME NEW r, NEW d, Shape(r), d = Settle(r)
    PROVE  /\ Shape(d) /\ SameFrontend(r, d)
           /\ Alive(d) => Alive(r) /\ d.failed = r.failed /\ d.deferred = <<>>
  <1> DEFINE u == ResolvePendingHybrid(r, FALSE)
  <1>1. u = ResolvePendingHybrid(r, FALSE) /\ d = ForgetTail(u)
    BY DEF Settle
  <1> HIDE DEF u
  <1>2. /\ Shape(u) /\ SameFrontend(r, u)
        /\ Alive(u) => Alive(r) /\ u.failed = r.failed /\ u.deferred = <<>>
    BY <1>1, ResolveShape
  <1>3. Shape(d) /\ Follows(u, d)
    BY <1>1, <1>2, ForgetGoes
  <1> QED BY <1>2, <1>3 DEF Follows, SameFrontend

LEMMA SettleKeeps ==
    ASSUME NEW r, NEW d, NEW truth, Kept(r, truth), d = Settle(r)
    PROVE  /\ Routes(r, d, truth)
           /\ Alive(d) => d.deferred = <<>> /\ d.tail = NoTail
  <1> DEFINE u == ResolvePendingHybrid(r, FALSE)
  <1>1. u = ResolvePendingHybrid(r, FALSE) /\ d = ForgetTail(u)
    BY DEF Settle
  <1>2. Fine(r)
    BY DEF Kept, Fine, Sound
  <1> HIDE DEF u
  <1>3. Routes(r, u, truth) /\ (Alive(u) => u.deferred = <<>>)
    <2>1. CASE r.deferred = <<>>
      <3>1. u = r
        BY <1>1, <2>1 DEF ResolvePendingHybrid
      <3> QED BY <1>2, <2>1, <3>1, SameAll DEF Routes
    <2>2. CASE r.deferred # <<>>
      <3>1. ListReady(r, r.deferred) /\ Truth(r) = truth
        BY DEF Kept, ListReady
      <3> DEFINE accelerate == FALSE
      <3>2. u = ResolvePendingHybrid(r, accelerate) /\ accelerate \in BOOLEAN /\ ~accelerate
        BY <1>1
      <3> HIDE DEF accelerate
      <3>3. /\ Routes(r, u, Truth(r))
            /\ Alive(u) => u.deferred = <<>> /\ (~accelerate => u.tail = NoTail)
        BY <2>2, <3>1, <3>2, ResolveKeeps
      <3> QED BY <3>1, <3>3
    <2> QED BY <2>1, <2>2
  <1>4. Fine(u) /\ Shape(u)
    BY <1>3 DEF Routes, Fine
  <1>5. /\ Goes(u, d) /\ (Alive(d) <=> Alive(u)) /\ d.tail = NoTail
        /\ d.active = u.active /\ d.queue = u.queue /\ d.batch = u.batch
    BY <1>1, <1>4, ForgetGoes
  <1>6. ASSUME Alive(d) PROVE Kept(d, truth)
    <2>1. Kept(u, truth) /\ Backed(d)
      BY <1>3, <1>5, <1>6 DEF Routes, Kept, Backed
    <2> QED BY <1>5, <1>6, <2>1, GoesKept
  <1> QED BY <1>3, <1>5, <1>6 DEF Routes, Goes, Follows, SameFrontend

\* Nothing is drawn once the router settled, and no run goes on.
LEMMA SettledGoes ==
    ASSUME NEW r, NEW s, NEW d, NEW truth, Kept(r, truth), s = Settle(r),
           Goes(s, d), Alive(d) => Backed(d)
    PROVE  /\ Routes(r, d, truth)
           /\ Alive(d) => d.deferred = <<>> /\ d.tail = NoTail
  <1>1. /\ Routes(r, s, truth)
        /\ Alive(s) => s.deferred = <<>> /\ s.tail = NoTail
    BY SettleKeeps
  <1>2. Fine(d) /\ SameFrontend(r, d)
    BY <1>1 DEF Routes, Goes, Follows, SameFrontend
  <1>3. ASSUME Alive(d)
        PROVE  /\ Kept(d, truth) /\ d.deferred = <<>> /\ d.tail = NoTail
               /\ Captured(r) => Captured(d)
    <2>1. Alive(s) /\ s.deferred = d.deferred /\ (s.tail = NoTail => d.tail = NoTail)
      BY <1>3 DEF Goes, Follows
    <2>2. Kept(s, truth) /\ d.deferred = <<>> /\ d.tail = NoTail
      BY <1>1, <2>1 DEF Routes
    <2>3. Captured(r) => Captured(d)
      BY <1>1, <1>3, <2>1 DEF Routes, Goes
    <2> QED BY <1>3, <2>2, <2>3, GoesKept
  <1> QED BY <1>2, <1>3 DEF Routes

\* A settled renderer whose active backend is left.
LEMMA DeactivateGoes ==
    ASSUME NEW r, NEW d, Shape(r), d = Deactivate(r)
    PROVE  /\ Shape(d) /\ Follows(r, d) /\ (Fine(r) => Goes(r, d))
           /\ (Alive(d) <=> Alive(r)) /\ (Alive(d) => d.active = "None")
           /\ d.queue = r.queue /\ d.batch = r.batch /\ d.tail = r.tail
           /\ d.ledger = r.ledger /\ d.cpu = r.cpu
           /\ d.order = r.order /\ d.failed = r.failed
  <1> DEFINE backend == "None"
  <1>1. backend \in Backends /\ d = Activate(r, backend) /\ backend = "None"
    BY DEF Deactivate, Backends
  <1> HIDE DEF backend
  <1> QED BY <1>1, ActivateGoes

LEMMA FlushActiveKeeps ==
    ASSUME NEW r, NEW d, NEW truth, Kept(r, truth), d = FlushActive(r)
    PROVE  /\ Routes(r, d, truth)
           /\ Alive(d) => /\ d.deferred = <<>> /\ d.tail = NoTail
                          /\ d.queue = <<>> /\ d.batch = <<>>
  <1> DEFINE s == Settle(r)
             u == DrainActive(s)
  <1>1. s = Settle(r) /\ u = DrainActive(s) /\ d = Deactivate(u)
    BY DEF FlushActive
  <1> HIDE DEF s, u
  <1>2. Fine(s) /\ Shape(s) /\ (Alive(s) => Backed(s))
    BY <1>1, SettleKeeps DEF Routes, Kept, Fine
  <1>3. /\ Shape(u) /\ Goes(s, u)
        /\ Alive(u) /\ Backed(s) => u.queue = <<>> /\ u.batch = <<>>
    BY <1>1, <1>2, DrainActiveGoes
  <1>4. Fine(u) /\ (Alive(u) => Alive(s))
    BY <1>3 DEF Goes, Follows
  <1>5. /\ Goes(u, d) /\ (Alive(d) <=> Alive(u))
        /\ d.queue = u.queue /\ d.batch = u.batch
    BY <1>1, <1>3, <1>4, DeactivateGoes
  <1>6. Goes(s, d)
    BY <1>3, <1>5, GoesTwice
  <1>7. Alive(d) => d.queue = <<>> /\ d.batch = <<>> /\ Backed(d)
    BY <1>2, <1>3, <1>4, <1>5 DEF Backed
  <1> QED BY <1>1, <1>6, <1>7, SettledGoes

\* What waits for the raster workers is drawn.
LEMMA SettledRendered ==
    ASSUME NEW s, NEW d, Fine(s), Alive(s) => Backed(s), d = RenderQueued(s)
    PROVE  /\ Goes(s, d) /\ Shape(d)
           /\ Alive(d) => d.queue = <<>> /\ d.active = s.active /\ d.batch = s.batch
  <1>1. Shape(s)
    BY DEF Fine
  <1>2. /\ Goes(s, d) /\ Shape(d)
        /\ d.active = s.active /\ d.batch = s.batch
        /\ Alive(d) /\ s.active = "Software" => d.queue = <<>>
        /\ s.active # "Software" => d = s
    BY <1>1, RenderQueuedGoes
  <1>3. Alive(d) => Alive(s)
    BY <1>2 DEF Goes, Follows
  <1> QED BY <1>2, <1>3 DEF Backed

LEMMA FlushCanonicalKeeps ==
    ASSUME NEW r, NEW d, NEW truth, Kept(r, truth), d = FlushCanonical(r)
    PROVE  /\ Routes(r, d, truth)
           /\ Alive(d) => /\ d.deferred = <<>> /\ d.tail = NoTail
                          /\ d.queue = <<>> /\ d.batch = <<>>
                          /\ \A p \in Pages : d.ledger.gpu[p] <= d.ledger.cpu[p]
  <1> DEFINE s == Settle(r)
             u == RenderQueued(s)
             v == PrepareCpuVramAccess(u, Pages, Pages)
  <1>1. /\ s = Settle(r) /\ u = RenderQueued(s)
        /\ v = PrepareCpuVramAccess(u, Pages, Pages) /\ d = Deactivate(v)
    BY DEF FlushCanonical
  <1> HIDE DEF s, u, v
  <1>2. Fine(s) /\ (Alive(s) => Backed(s))
    BY <1>1, SettleKeeps DEF Routes, Kept, Fine
  <1>3. /\ Goes(s, u) /\ Shape(u) /\ (Alive(u) => u.queue = <<>>)
    BY <1>1, <1>2, SettledRendered
  <1>4. Fine(u)
    BY <1>3 DEF Goes
  <1>5. Pages \in PageSets
    BY DEF PageSets
  <1>6. /\ Goes(u, v) /\ Shape(v) /\ v.queue = u.queue
        /\ Alive(v) => v.batch = <<>> /\ \A p \in Pages : v.ledger.gpu[p] <= v.ledger.cpu[p]
    BY <1>1, <1>3, <1>4, <1>5, PrepareGoes
  <1>7. Fine(v) /\ (Alive(v) => Alive(u))
    BY <1>6 DEF Goes, Follows
  <1>8. /\ Goes(v, d) /\ (Alive(d) <=> Alive(v)) /\ d.ledger = v.ledger
        /\ d.queue = v.queue /\ d.batch = v.batch
    BY <1>1, <1>6, <1>7, DeactivateGoes
  <1>9. Goes(s, d)
    BY <1>3, <1>6, <1>8, GoesTwice
  <1>10. Alive(d) => /\ d.queue = <<>> /\ d.batch = <<>> /\ Backed(d)
                     /\ \A p \in Pages : d.ledger.gpu[p] <= d.ledger.cpu[p]
    BY <1>3, <1>6, <1>7, <1>8 DEF Backed
  <1> QED BY <1>1, <1>9, <1>10, SettledGoes

LEMMA FlushReadbackKeeps ==
    ASSUME NEW r, NEW d, NEW truth, NEW pages \in PageSets, Kept(r, truth),
           d = FlushForCpuReadback(r, pages)
    PROVE  /\ Routes(r, d, truth)
           /\ Alive(d) => /\ d.deferred = <<>> /\ d.tail = NoTail
                          /\ d.queue = <<>> /\ d.batch = <<>>
                          /\ \A p \in pages : d.ledger.gpu[p] <= d.ledger.cpu[p]
  <1> DEFINE s == Settle(r)
             u == DrainActive(s)
             v == PrepareCpuVramAccess(u, pages, pages)
  <1>1. /\ s = Settle(r) /\ u = DrainActive(s)
        /\ v = PrepareCpuVramAccess(u, pages, pages) /\ d = Deactivate(v)
    BY DEF FlushForCpuReadback
  <1> HIDE DEF s, u, v
  <1>2. Fine(s) /\ Shape(s) /\ (Alive(s) => Backed(s))
    BY <1>1, SettleKeeps DEF Routes, Kept, Fine
  <1>3. /\ Shape(u) /\ Goes(s, u)
        /\ Alive(u) /\ Backed(s) => u.queue = <<>> /\ u.batch = <<>>
    BY <1>1, <1>2, DrainActiveGoes
  <1>4. Fine(u) /\ (Alive(u) => Alive(s))
    BY <1>3 DEF Goes, Follows
  <1>5. /\ Goes(u, v) /\ Shape(v) /\ v.queue = u.queue
        /\ u.batch = <<>> => v.batch = <<>>
        /\ Alive(v) => \A p \in pages : v.ledger.gpu[p] <= v.ledger.cpu[p]
    BY <1>1, <1>3, <1>4, PrepareGoes
  <1>6. Fine(v) /\ (Alive(v) => Alive(u))
    BY <1>5 DEF Goes, Follows
  <1>7. /\ Goes(v, d) /\ (Alive(d) <=> Alive(v)) /\ d.ledger = v.ledger
        /\ d.queue = v.queue /\ d.batch = v.batch
    BY <1>1, <1>5, <1>6, DeactivateGoes
  <1>8. Goes(s, d)
    BY <1>3, <1>5, <1>7, GoesTwice
  <1>9. Alive(d) => /\ d.queue = <<>> /\ d.batch = <<>> /\ Backed(d)
                    /\ \A p \in pages : d.ledger.gpu[p] <= d.ledger.cpu[p]
    BY <1>2, <1>3, <1>4, <1>5, <1>6, <1>7 DEF Backed
  <1> QED BY <1>1, <1>8, <1>9, SettledGoes

\* A batch the access does not touch stays queued, and its backend active.
LEMMA BeginAccessKeeps ==
    ASSUME NEW r, NEW d, NEW truth, NEW reads \in PageSets, NEW writes \in PageSets,
           Kept(r, truth), d = BeginCpuVramAccess(r, reads, writes)
    PROVE  /\ Routes(r, d, truth)
           /\ Alive(d) => /\ d.deferred = <<>> /\ d.tail = NoTail /\ d.queue = <<>>
                          /\ Apart(d, reads, writes)
                          /\ \A p \in reads \cup writes :
                                d.ledger.gpu[p] <= d.ledger.cpu[p]
  <1> DEFINE s == Settle(r)
             u == RenderQueued(s)
             v == PrepareCpuVramAccess(u, reads, writes)
             backend == IF v.batch = <<>> THEN "None" ELSE "Accelerated"
  <1>1. /\ s = Settle(r) /\ u = RenderQueued(s)
        /\ v = PrepareCpuVramAccess(u, reads, writes) /\ d = Activate(v, backend)
        /\ backend \in Backends /\ (v.batch # <<>> => backend = "Accelerated")
    BY DEF BeginCpuVramAccess, Backends
  <1> HIDE DEF s, u, v, backend
  <1>2. Fine(s) /\ (Alive(s) => Backed(s))
    BY <1>1, SettleKeeps DEF Routes, Kept, Fine
  <1>3. /\ Goes(s, u) /\ Shape(u) /\ (Alive(u) => u.queue = <<>>)
    BY <1>1, <1>2, SettledRendered
  <1>4. Fine(u)
    BY <1>3 DEF Goes
  <1>5. /\ Goes(u, v) /\ Shape(v) /\ v.queue = u.queue
        /\ Alive(v) => /\ Apart(v, reads, writes)
                       /\ \A p \in reads \cup writes :
                             v.ledger.gpu[p] <= v.ledger.cpu[p]
    BY <1>1, <1>3, <1>4, PrepareGoes
  <1>6. Fine(v) /\ (Alive(v) => Alive(u))
    BY <1>5 DEF Goes, Follows
  <1>7. /\ Goes(v, d) /\ (Alive(d) <=> Alive(v)) /\ d.ledger = v.ledger
        /\ d.queue = v.queue /\ d.batch = v.batch
        /\ Alive(d) => d.active = backend
    BY <1>1, <1>5, <1>6, ActivateGoes
  <1>8. OnlyRouted(v, d)
    BY <1>1, <1>5, ActivateKeeps
  <1>9. Goes(s, d)
    BY <1>3, <1>5, <1>7, GoesTwice
  <1>10. Alive(d) => /\ d.queue = <<>> /\ Backed(d) /\ Apart(d, reads, writes)
                     /\ \A p \in reads \cup writes :
                           d.ledger.gpu[p] <= d.ledger.cpu[p]
    BY <1>1, <1>3, <1>5, <1>6, <1>7, <1>8
       DEF Backed, Apart, OnlyRouted, SameBackend
  <1> QED BY <1>1, <1>9, <1>10, SettledGoes

-----------------------------------------------------------------------------
(* The router takes a command.                                              *)

LEMMA OneCommand ==
    ASSUME NEW c \in Commands, NEW image \in PageValues
    PROVE  /\ <<c>> \in Seq(Commands) /\ Len(<<c>>) = 1 /\ <<c>>[1] = c
           /\ DOMAIN <<c>> = {1}
           /\ DrawnAll(image, <<c>>) = Drawn(image, c)
           /\ MisreadAny(image, <<c>>, TRUE) <=> Misread(image, c)
  <1> DEFINE none == <<>>
  <1>1. none \in Seq(Commands) /\ <<c>> = Append(none, c)
    BY EmptySeq
  <1>2. DrawnAll(image, none) = image /\ ~MisreadAny(image, none, TRUE)
    BY DrawnAllNone
  <1> HIDE DEF none
  <1>3. /\ DrawnAll(image, Append(none, c)) = Drawn(DrawnAll(image, none), c)
        /\ MisreadAny(image, Append(none, c), TRUE) <=>
              \/ MisreadAny(image, none, TRUE)
              \/ Misread(DrawnAll(image, none), c)
    BY <1>1, DrawnAppend
  <1>4. /\ <<c>> \in Seq(Commands) /\ Len(<<c>>) = 1 /\ <<c>>[1] = c
        /\ DOMAIN <<c>> = {1}
    OBVIOUS
  <1> QED BY <1>1, <1>2, <1>3, <1>4

\* What a command was drawn on is what the memory shall be before it.
LEMMA DrawnKeeps ==
    ASSUME NEW r, NEW d, NEW c \in Commands, NEW truth, Kept(r, truth),
           r.deferred = <<>>, Draws(r, d, <<c>>), Follows(r, d),
           Alive(d) /\ d.tail # NoTail => d.active = "Accelerated"
    PROVE  Routes(r, d, Drawn(truth, c))
  <1>1. Settled(r) \in PageValues
    BY MemoryType DEF Kept, Sound
  <1>2. Settled(r) = truth
    BY <1>1, DrawnAllNone DEF Kept, Truth
  <1>3. ASSUME Alive(d) PROVE Kept(d, Drawn(truth, c))
    <2>1. Settled(d) = Drawn(truth, c)
      BY <1>1, <1>2, <1>3, OneCommand DEF Draws
    <2>2. Sound(d, {}) /\ Backed(d) /\ d.deferred = <<>>
      BY <1>3 DEF Draws, Fine, Follows, Kept
    <2>3. d.tail # NoTail => d.active = "Accelerated" /\ d.mode = "Hybrid"
      BY <1>3 DEF Follows, SameFrontend, Kept
    <2> QED BY <2>1, <2>2, <2>3, NoneDeferred
  <1> QED BY <1>3 DEF Routes, Draws, Follows

LEMMA OneReady ==
    ASSUME NEW r, NEW c \in Commands, NEW truth, Kept(r, truth),
           r.deferred = <<>>, ~Misread(truth, c)
    PROVE  ListReady(r, <<c>>)
  <1>1. Settled(r) \in PageValues
    BY MemoryType DEF Kept, Sound
  <1>2. Settled(r) = truth
    BY <1>1, DrawnAllNone DEF Kept, Truth
  <1>3. ~MisreadAny(Settled(r), <<c>>, TRUE)
    BY <1>1, <1>2, OneCommand
  <1> QED BY <1>3 DEF ListReady, Kept

LEMMA OneSoftwareKeeps ==
    ASSUME NEW r, NEW d, NEW c \in Commands, NEW truth, Kept(r, truth),
           r.deferred = <<>>, r.tail = NoTail, ~Misread(truth, c),
           c.kind \in Recursive => OnHost(r), d = SubmitAllSoftware(r, <<c>>)
    PROVE  Routes(r, d, Drawn(truth, c))
  <1> DEFINE commands == <<c>>
  <1>1. Shape(r)
    BY DEF Kept, Sound
  <1>2. commands \in Seq(Commands) /\ DOMAIN commands = {1} /\ commands[1] = c
    OBVIOUS
  <1>3. \A i \in DOMAIN commands : commands[i].kind \in Recursive => OnHost(r)
    BY <1>2
  <1>4. ListReady(r, commands) /\ d = SubmitAllSoftware(r, commands)
    BY OneReady
  <1> HIDE DEF commands
  <1>5. /\ Shape(d) /\ Follows(r, d)
        /\ Alive(d) => d.active = "Software"
        /\ ListReady(r, commands) => Draws(r, d, commands)
    BY <1>1, <1>2, <1>3, <1>4, AllSoftwareKeeps
  <1>6. Draws(r, d, <<c>>)
    BY <1>4, <1>5 DEF commands
  <1>7. d.tail = NoTail
    BY <1>5 DEF Follows
  <1> QED BY <1>5, <1>6, <1>7, DrawnKeeps

LEMMA OneAcceleratedKeeps ==
    ASSUME NEW r, NEW d, NEW c \in Commands, NEW truth, Kept(r, truth),
           r.deferred = <<>>, ~Misread(truth, c), c.kind \in DeviceKinds,
           c.kind = "FeedbackLinear" => OnHost(r), d = SubmitAllAccelerated(r, <<c>>)
    PROVE  Routes(r, d, Drawn(truth, c))
  <1> DEFINE commands == <<c>>
  <1>1. commands \in Seq(Commands) /\ DOMAIN commands = {1} /\ commands[1] = c
    OBVIOUS
  <1>2. DeviceList(r, commands)
    BY <1>1 DEF DeviceList
  <1>3. ListReady(r, commands) /\ d = SubmitAllAccelerated(r, commands)
    BY OneReady
  <1> HIDE DEF commands
  <1>4. /\ Draws(r, d, commands) /\ Follows(r, d)
        /\ Alive(d) => d.active = "Accelerated"
    BY <1>1, <1>2, <1>3, AllAcceleratedKeeps
  <1>5. Draws(r, d, <<c>>)
    BY <1>4 DEF commands
  <1> QED BY <1>4, <1>5, DrawnKeeps

\* A command joins the deferred run.
Deferred(r, c) == [r EXCEPT !.deferred = Append(r.deferred, c)]

LEMMA DeferredKeeps ==
    ASSUME NEW r, NEW d, NEW c \in Commands, NEW truth, Kept(r, truth),
           c.kind \in Deferrable, c.kind \in Recursive => OnHost(r),
           ~Misread(truth, c), d = Deferred(r, c)
    PROVE  /\ SameFrontend(r, d) /\ Sound(d, {}) /\ Backed(d)
           /\ Captured(r) => Captured(d)
           /\ ~MisreadAny(Settled(d), d.deferred, TRUE)
           /\ Truth(d) = Drawn(truth, c) /\ d.tail = r.tail
           /\ d.deferred # <<>> /\ Len(d.deferred) \in Nat
  <1>1. Shape(r) /\ r.deferred \in Seq(Commands)
    BY DEF Kept, Sound, Shape, TypedRouter
  <1>2. /\ DOMAIN d = Fields /\ d.deferred = Append(r.deferred, c) /\ d.tail = r.tail
        /\ d.active = r.active /\ d.queue = r.queue
    BY <1>1 DEF Deferred, Shape, Fields
  <1>3. SameFrontend(r, d) /\ SameBackend(r, d)
    BY <1>1 DEF Deferred, Shape, Fields, SameFrontend, SameBackend
  <1>4. SameMemory(r, d) /\ SameFlags(r, d)
    BY <1>1 DEF Deferred, Shape, Fields, SameMemory, SameFlags
  <1>5. /\ d.deferred \in Seq(Commands) /\ d.deferred # <<>> /\ Len(d.deferred) \in Nat
        /\ \A i \in DOMAIN d.deferred : \/ i \in DOMAIN r.deferred /\ d.deferred[i] = r.deferred[i]
                                        \/ d.deferred[i] = c
    <2> DEFINE longer == Append(r.deferred, c)
               n == Len(r.deferred)
    <2>1. /\ longer \in Seq(Commands) /\ Len(longer) = n + 1 /\ longer # <<>>
          /\ \A i \in 1 .. n : longer[i] = r.deferred[i]
          /\ longer[n + 1] = c
      BY <1>1, AppendParts
    <2>2. n \in Nat /\ DOMAIN r.deferred = 1 .. n
      BY <1>1, SequenceParts
    <2>3. DOMAIN longer = 1 .. n + 1
      BY <2>1, SequenceParts
    <2>4. d.deferred = longer
      BY <1>2
    <2> HIDE DEF longer, n
    <2>5. \A i \in 1 .. n + 1 : i \in 1 .. n \/ i = n + 1
      BY <2>2
    <2> QED BY <2>1, <2>2, <2>3, <2>4, <2>5
  <1>6. Shape(d) /\ (Alive(d) <=> Alive(r))
    <2>1. TypedRouter(d)
      BY <1>1, <1>2, <1>5 DEF Shape, TypedRouter
    <2>2. /\ TypedFront(d) /\ TypedBackend(d) /\ TypedMemory(d) /\ TypedFlags(d)
          /\ (Alive(d) <=> Alive(r)) /\ Len(d.batch) <= MaxBatch
          /\ (OnHost(d) <=> OnHost(r))
      BY <1>1, <1>3, <1>4, TypedSame
    <2>3. ~d.broken /\ (OnHost(d) => d.host.held)
      BY <1>1, <1>3, <1>4, <2>2 DEF Shape, SameFlags, SameFrontend
    <2>4. \A i \in DOMAIN d.deferred :
              /\ d.deferred[i].kind \in Deferrable
              /\ d.deferred[i].kind \in Recursive => OnHost(d)
      BY <1>1, <1>5, <2>2 DEF Shape
    <2> QED BY <1>2, <2>1, <2>2, <2>3, <2>4 DEF Shape
  <1>7. Memory(d) = Memory(r)
    BY <1>4 DEF SameMemory, Memory
  <1>8. Settled(d) = Settled(r)
    BY <1>2, <1>3, <1>7 DEF Settled, SameBackend
  <1>9. Captured(r) => Captured(d)
    BY <1>3 DEF Captured, SameFrontend, SameBackend, Pipeline
  <1>10. Sound(d, {})
    <2>1. Sound(r, {}) /\ Agree(d, {})
      BY <1>4 DEF Kept, Agree, Sound, SameMemory
    <2>2. Alive(d) /\ ~d.failed /\ ~d.misread
      BY <1>4, <1>6, <2>1 DEF Sound, SameFlags
    <2>3. StaysAhead(r, d, {}, {})
      BY <1>2, <1>4 DEF StaysAhead, SameMemory
    <2> QED BY <1>2, <1>3, <1>6, <1>7, <2>1, <2>2, <2>3, SoundMoved
  <1>11. Backed(d)
    BY <1>2, <1>3 DEF Kept, Backed, SameBackend
  <1>12. /\ ~MisreadAny(Settled(d), d.deferred, TRUE)
         /\ Truth(d) = Drawn(truth, c)
    <2>1. Settled(r) \in PageValues
      BY <1>1, MemoryType
    <2>2. /\ DrawnAll(Settled(r), Append(r.deferred, c)) =
                Drawn(DrawnAll(Settled(r), r.deferred), c)
          /\ MisreadAny(Settled(r), Append(r.deferred, c), TRUE) <=>
                \/ MisreadAny(Settled(r), r.deferred, TRUE)
                \/ Misread(DrawnAll(Settled(r), r.deferred), c)
      BY <1>1, <2>1, DrawnAppend
    <2> QED BY <1>2, <1>8, <2>2 DEF Kept, Truth
  <1> QED BY <1>2, <1>3, <1>5, <1>9, <1>10, <1>11, <1>12

\* A command whose snapshot is where its backend looks for it, and that needs
\* what the memory shall be before it.
Fits(r, c, truth) ==
    /\ c \in Commands
    /\ ~Misread(truth, c)
    /\ c.kind \in Recursive =>
          /\ r.snapshot.valid
          /\ r.snapshot.onDevice => CanCaptureOnDevice(r, c)

LEMMA FitsKeeps ==
    ASSUME NEW r, NEW d, NEW c, NEW truth, Fits(r, c, truth), SameFrontend(r, d),
           ~d.failed
    PROVE  Fits(d, c, truth)
  BY DEF Fits, SameFrontend, CanCaptureOnDevice

LEMMA DeferKeeps ==
    ASSUME NEW r, NEW d, NEW c, NEW truth, NEW longEnough \in BOOLEAN,
           Kept(r, truth), r.mode = "Hybrid", r.tail = NoTail, Fits(r, c, truth),
           c.kind \in Deferrable, d = Defer(r, c, longEnough)
    PROVE  Routes(r, d, Drawn(truth, c))
  <1> DEFINE compatible == r.deferred # <<>> /\ RunOf(Last(r.deferred)) = RunOf(c)
             resolved == ResolvePendingHybrid(r, FALSE)
             u == IF compatible THEN r ELSE resolved
             v == Deferred(u, c)
             w == ResolvePendingHybrid(v, longEnough)
  <1>1. /\ v = Deferred(u, c) /\ w = ResolvePendingHybrid(v, longEnough)
        /\ d = IF ~Alive(u) THEN u
               ELSE IF longEnough \/ Len(v.deferred) >= MaxDeferred THEN w ELSE v
    BY DEF Defer, Then, Deferred
  <1>2. Fine(r) /\ c \in Commands /\ ~Misread(truth, c)
    BY DEF Kept, Fine, Sound, Fits
  <1>3. Routes(r, u, truth) /\ (Alive(u) => u.tail = NoTail)
    <2>1. CASE u = r
      BY <1>2, <2>1, SameAll DEF Routes
    <2>2. CASE u # r
      <3>1. u = resolved /\ resolved = ResolvePendingHybrid(r, FALSE)
        BY <2>2
      <3>2. r.deferred # <<>>
        BY <2>2, <3>1 DEF ResolvePendingHybrid
      <3>3. ListReady(r, r.deferred) /\ Truth(r) = truth
        BY DEF Kept, ListReady
      <3> DEFINE accelerate == FALSE
      <3>4. u = ResolvePendingHybrid(r, accelerate) /\ accelerate \in BOOLEAN /\ ~accelerate
        BY <3>1
      <3> HIDE DEF accelerate, u
      <3>5. /\ Routes(r, u, Truth(r))
            /\ Alive(u) => u.deferred = <<>> /\ (~accelerate => u.tail = NoTail)
        BY <3>2, <3>3, <3>4, ResolveKeeps
      <3> QED BY <3>3, <3>4, <3>5
    <2> QED BY <2>1, <2>2
  <1> HIDE DEF u, v, w
  <1>4. CASE ~Alive(u)
    BY <1>1, <1>3, <1>4 DEF Routes
  <1>5. CASE Alive(u)
    <2>1. Kept(u, truth) /\ SameFrontend(r, u) /\ (Captured(r) => Captured(u))
      BY <1>3, <1>5 DEF Routes
    <2>2. c.kind \in Recursive => OnHost(u)
      BY <2>1 DEF Fits, CanCaptureOnDevice, Deferrable, OnHost, SameFrontend
    <2>3. /\ SameFrontend(u, v) /\ Sound(v, {}) /\ Backed(v)
          /\ Captured(u) => Captured(v)
          /\ ~MisreadAny(Settled(v), v.deferred, TRUE)
          /\ Truth(v) = Drawn(truth, c) /\ v.tail = u.tail
          /\ v.deferred # <<>> /\ Len(v.deferred) \in Nat
      BY <1>1, <1>2, <2>1, <2>2, DeferredKeeps
    <2>4. SameFrontend(r, v) /\ v.mode = "Hybrid"
      BY <2>1, <2>3 DEF SameFrontend
    <2>5. CASE longEnough \/ Len(v.deferred) >= MaxDeferred
      <3>1. ListReady(v, v.deferred)
        BY <2>3 DEF ListReady
      <3>2. Routes(v, w, Truth(v))
        BY <1>1, <2>3, <2>4, <3>1, ResolveKeeps
      <3>3. d = w
        BY <1>1, <1>5, <2>5
      <3> QED BY <2>1, <2>3, <2>4, <3>2, <3>3 DEF Routes, SameFrontend
    <2>6. CASE ~(longEnough \/ Len(v.deferred) >= MaxDeferred)
      <3>1. d = v
        BY <1>1, <1>5, <2>6
      <3>2. Len(v.deferred) < MaxDeferred
        BY <2>3, <2>6, ConstantsAssumption
      <3>3. v.tail = NoTail
        BY <1>3, <1>5, <2>3
      <3>4. Kept(v, Drawn(truth, c))
        BY <2>3, <2>4, <3>2, <3>3 DEF Kept
      <3>5. Fine(v)
        BY <2>3 DEF Fine, Sound
      <3> QED BY <2>1, <2>3, <2>4, <3>1, <3>4, <3>5 DEF Routes
    <2> QED BY <2>5, <2>6
  <1> QED BY <1>4, <1>5

\* The device keeps the image of the memory that its command samples.
Caught(r, d, c) ==
    Alive(d) /\ c.kind = "FeedbackNearest" /\ r.snapshot.onDevice => Captured(d)

LEMMA OneCaught ==
    ASSUME NEW r, NEW d, NEW c \in Commands, ListReady(r, <<c>>),
           r.mode # "Verify", c.kind = "FeedbackNearest", Alive(d),
           d = SubmitAllAccelerated(r, <<c>>)
    PROVE  Captured(d)
  <1> DEFINE commands == <<c>>
             u == TransitionTo(r, "Accelerated")
  <1>1. /\ u = TransitionTo(r, "Accelerated") /\ d = SubmitAllAccelerated(r, commands)
        /\ commands \in Seq(Commands) /\ Len(commands) = 1 /\ commands[1] = c
    OBVIOUS
  <1>2. Fine(r) /\ Shape(r) /\ Backed(r) /\ Settled(r) \in PageValues
    BY MemoryType DEF ListReady, Sound, Fine
  <1>3. ~Misread(Settled(r), c)
    BY <1>2, OneCommand DEF ListReady
  <1> HIDE DEF commands, u
  <1>4. /\ Goes(r, u) /\ Follows(r, u)
        /\ Alive(u) => u.queue = <<>>
    BY <1>1, <1>2, TransitionGoes DEF Backends
  <1>5. PICK after : /\ AcceleratedRun(after, u, commands, Len(commands))
                     /\ d = after[Len(commands)]
    <2>1. /\ commands \in Seq(Commands) /\ u = TransitionTo(r, "Accelerated")
          /\ d = SubmitAllAccelerated(r, commands)
      BY <1>1, Zenon
    <2>2. \E after : /\ AcceleratedRun(after, u, commands, Len(commands))
                     /\ SubmitAllAccelerated(r, commands) = after[Len(commands)]
      BY <2>1, SubmitAllAcceleratedIs, Zenon
    <2> QED BY <2>1, <2>2
  <1>6. d = SubmitAccelerated(u, c)
    <2>1. AcceleratedRun(after, u, commands, 1) /\ d = after[1]
      BY <1>1, <1>5
    <2>2. after[0] = u /\ after[1] = SubmitAccelerated(after[0], c)
      BY <1>1, <2>1 DEF AcceleratedRun
    <2> QED BY <2>1, <2>2
  <1>7. Fine(u) /\ Ready(u, c) /\ u.mode # "Verify" /\ c.kind \in DeviceKinds
        /\ c.kind # "FeedbackLinear"
    BY <1>3, <1>4 DEF Goes, Follows, SameFrontend, Ready, DeviceKinds
  <1> QED BY <1>4, <1>6, <1>7, AcceleratedKeeps

\* A call throws.
Threw(r) == [r EXCEPT !.threw = TRUE]

LEMMA ThrowKeeps ==
    ASSUME NEW r, NEW d, Shape(r), ~r.misread, d = Threw(r)
    PROVE  Fine(d) /\ ~Alive(d) /\ SameFrontend(r, d)
  <1>1. /\ DOMAIN d = Fields /\ d.threw = TRUE /\ d.failed = r.failed
        /\ d.recursing = r.recursing /\ d.broken = r.broken
        /\ d.misread = r.misread /\ d.misfed = r.misfed
    BY DEF Threw, Shape, Fields
  <1>2. SameFrontend(r, d) /\ SameRouter(r, d)
    BY DEF Threw, Shape, Fields, SameFrontend, SameRouter
  <1>3. SameBackend(r, d) /\ SameMemory(r, d)
    BY DEF Threw, Shape, Fields, SameBackend, SameMemory
  <1>4. TypedFlags(d) /\ ~d.broken
    BY <1>1 DEF Shape, TypedFlags
  <1>5. TypedBackend(d) /\ TypedMemory(d) /\ Len(d.batch) <= MaxBatch
    BY <1>3, TypedSame
  <1>6. Shape(d)
    BY <1>1, <1>2, <1>4, <1>5, ShapeOfBackend
  <1> QED BY <1>1, <1>2, <1>6 DEF Fine, Alive

LEMMA RouteKeeps ==
    ASSUME NEW r, NEW d, NEW c, NEW truth, Kept(r, truth), Fits(r, c, truth),
           r.deferred = <<>>, r.tail = NoTail,
           d = IF Supported(r, c) THEN SubmitAllAccelerated(r, <<c>>)
               ELSE IF r.mode = "GpuStrict" THEN [r EXCEPT !.threw = TRUE]
               ELSE SubmitAllSoftware(r, <<c>>)
    PROVE  Routes(r, d, Drawn(truth, c)) /\ Caught(r, d, c)
  <1>1. c \in Commands /\ ~Misread(truth, c)
    BY DEF Fits
  <1>2. CASE Supported(r, c)
    <2>1. c.kind \in DeviceKinds /\ (c.kind = "FeedbackLinear" => OnHost(r))
      BY <1>2 DEF Supported, Fits, Recursive, CanCaptureOnDevice, OnHost
    <2>2. d = SubmitAllAccelerated(r, <<c>>)
      BY <1>2
    <2>3. Caught(r, d, c)
      <3> SUFFICES ASSUME Alive(d), c.kind = "FeedbackNearest", r.snapshot.onDevice
                   PROVE  Captured(d)
        BY DEF Caught
      <3>1. r.mode # "Verify"
        BY DEF Fits, Recursive, CanCaptureOnDevice
      <3>2. ListReady(r, <<c>>)
        BY <1>1, OneReady
      <3> QED BY <1>1, <2>2, <3>1, <3>2, OneCaught
    <2> QED BY <1>1, <2>1, <2>2, <2>3, OneAcceleratedKeeps
  <1>3. CASE ~Supported(r, c) /\ r.mode = "GpuStrict"
    <2>1. d = [r EXCEPT !.threw = TRUE]
      BY <1>3
    <2>2. Shape(r) /\ ~r.misread
      BY DEF Kept, Sound
    <2>3. Fine(d) /\ ~Alive(d) /\ SameFrontend(r, d)
      BY <2>1, <2>2, ThrowKeeps DEF Threw
    <2> QED BY <2>3 DEF Routes, Caught
  <1>4. CASE ~Supported(r, c) /\ r.mode # "GpuStrict"
    <2>1. ~r.failed
      BY DEF Kept, Sound
    <2>2. c.kind \in Recursive => OnHost(r)
      BY <1>4, <2>1
         DEF Supported, Fits, Recursive, CanCaptureOnDevice, OnHost, DeviceKinds
    <2>3. d = SubmitAllSoftware(r, <<c>>)
      BY <1>4
    <2>4. Caught(r, d, c)
      BY <2>2 DEF Caught, OnHost, Recursive
    <2> QED BY <1>1, <2>2, <2>3, <2>4, OneSoftwareKeeps
  <1> QED BY <1>2, <1>3, <1>4

LEMMA ForgottenKept ==
    ASSUME NEW r, NEW d, NEW truth, Kept(r, truth), d = ForgetTail(r)
    PROVE  /\ Kept(d, truth) /\ d.tail = NoTail /\ SameFrontend(r, d)
           /\ d.failed = r.failed /\ (Captured(r) => Captured(d))
  <1>1. Fine(r) /\ Shape(r)
    BY DEF Kept, Fine, Sound
  <1>2. /\ Goes(r, d) /\ (Alive(d) <=> Alive(r)) /\ d.tail = NoTail
        /\ d.active = r.active /\ d.queue = r.queue /\ d.batch = r.batch
        /\ d.failed = r.failed
    BY <1>1, ForgetGoes
  <1>3. Alive(d) /\ Backed(d)
    BY <1>2 DEF Kept, Sound, Backed
  <1> QED BY <1>2, <1>3, GoesKept DEF Goes, Follows

LEMMA SubmitKeeps ==
    ASSUME NEW r, NEW d, NEW c, NEW truth \in PageValues, NEW longEnough \in BOOLEAN,
           Kept(r, truth), Fits(r, c, truth), d = Submit(r, c, longEnough)
    PROVE  Routes(r, d, Drawn(truth, c)) /\ Caught(r, d, c)
  <1> DEFINE defers == r.mode = "Hybrid" /\ Supported(r, c) /\ c.kind \in Deferrable
             admitted == defers /\ r.tail = RunOf(c)
             f == ForgetTail(r)
             u == ResolvePendingHybrid(f, FALSE)
  <1>1. Fine(r) /\ Alive(r) /\ ~r.failed /\ c \in Commands /\ ~Misread(truth, c)
    BY DEF Kept, Fine, Sound, Fits
  <1>2. /\ f = ForgetTail(r) /\ u = ResolvePendingHybrid(f, FALSE)
        /\ Kept(f, truth) /\ f.tail = NoTail /\ SameFrontend(r, f)
        /\ f.failed = r.failed /\ (Captured(r) => Captured(f))
    BY ForgottenKept
  <1>3. Fits(f, c, truth)
    BY <1>1, <1>2, FitsKeeps
  <1>4. CASE c.kind \in EmptyKinds
    <2>1. d = r
      BY <1>1, <1>4 DEF Submit
    <2>2. Drawn(truth, c) = truth
      BY <1>4 DEF Drawn, Writes, PageValues
    <2> QED BY <1>1, <1>4, <2>1, <2>2, SameAll DEF Routes, Caught, EmptyKinds
  <1>5. CASE c.kind \notin EmptyKinds /\ r.mode = "Software"
    <2>1. d = SubmitAllSoftware(r, <<c>>)
      BY <1>1, <1>5 DEF Submit
    <2>2. r.deferred = <<>> /\ r.tail = NoTail
      BY <1>5 DEF Kept
    <2>3. c.kind \in Recursive => OnHost(r)
      BY <1>5 DEF Fits, CanCaptureOnDevice, OnHost
    <2>4. Caught(r, d, c)
      BY <2>3 DEF Caught, OnHost, Recursive
    <2> QED BY <1>1, <2>1, <2>2, <2>3, <2>4, OneSoftwareKeeps
  <1>6. CASE c.kind \notin EmptyKinds /\ r.mode # "Software" /\ admitted
    <2>1. d = SubmitAllAccelerated(r, <<c>>)
      BY <1>1, <1>6 DEF Submit
    <2>2. r.deferred = <<>>
      <3>1. RunOf(c) # NoTail
        BY DEF RunOf, NoTail
      <3> QED BY <1>6, <3>1 DEF Kept
    <2>3. c.kind \in DeviceKinds /\ (c.kind = "FeedbackLinear" => OnHost(r))
      BY <1>6 DEF Supported, Fits, Recursive, CanCaptureOnDevice, OnHost
    <2>4. Caught(r, d, c)
      BY <1>6 DEF Caught, Deferrable
    <2> QED BY <1>1, <2>1, <2>2, <2>3, <2>4, OneAcceleratedKeeps
  <1>7. CASE c.kind \notin EmptyKinds /\ r.mode # "Software" /\ ~admitted /\ defers
    <2>1. d = Defer(f, c, longEnough)
      BY <1>1, <1>7 DEF Submit
    <2>2. f.mode = "Hybrid" /\ c.kind \in Deferrable
      BY <1>2, <1>7 DEF SameFrontend
    <2> HIDE DEF f
    <2>3. Routes(f, d, Drawn(truth, c))
      BY <1>2, <1>3, <2>1, <2>2, DeferKeeps
    <2>4. Caught(r, d, c)
      BY <1>7 DEF Caught, Deferrable
    <2> QED BY <1>2, <2>3, <2>4 DEF Routes, SameFrontend
  <1>8. CASE c.kind \notin EmptyKinds /\ r.mode # "Software" /\ ~defers
    <2>1. d = IF ~Alive(u) THEN u
              ELSE IF Supported(r, c) THEN SubmitAllAccelerated(u, <<c>>)
              ELSE IF r.mode = "GpuStrict" THEN [u EXCEPT !.threw = TRUE]
              ELSE SubmitAllSoftware(u, <<c>>)
      BY <1>1, <1>8 DEF Submit, Then
    <2> HIDE DEF f, u
    <2>2. /\ Routes(f, u, truth)
          /\ Alive(u) => u.deferred = <<>> /\ u.tail = NoTail
      <3>1. CASE f.deferred = <<>>
        <4>1. u = f
          BY <1>2, <3>1 DEF ResolvePendingHybrid
        <4>2. Fine(f)
          BY <1>2 DEF Kept, Fine, Sound
        <4> QED BY <1>2, <3>1, <4>1, <4>2, SameAll DEF Routes
      <3>2. CASE f.deferred # <<>>
        <4>1. ListReady(f, f.deferred) /\ Truth(f) = truth
          BY <1>2 DEF Kept, ListReady
        <4> DEFINE accelerate == FALSE
        <4>2. /\ u = ResolvePendingHybrid(f, accelerate)
              /\ accelerate \in BOOLEAN /\ ~accelerate
          BY <1>2
        <4> HIDE DEF accelerate
        <4>3. /\ Routes(f, u, Truth(f))
              /\ Alive(u) => u.deferred = <<>> /\ (~accelerate => u.tail = NoTail)
          BY <3>2, <4>1, <4>2, ResolveKeeps
        <4> QED BY <4>1, <4>2, <4>3
      <3> QED BY <3>1, <3>2
    <2>3. CASE ~Alive(u)
      BY <1>2, <2>1, <2>2, <2>3 DEF Routes, SameFrontend, Caught
    <2>4. CASE Alive(u)
      <3>1. /\ Kept(u, truth) /\ SameFrontend(f, u) /\ ~u.failed
            /\ Captured(f) => Captured(u)
            /\ u.deferred = <<>> /\ u.tail = NoTail
        BY <2>2, <2>4 DEF Routes, Kept, Sound
      <3>2. Fits(u, c, truth)
        BY <1>3, <3>1, FitsKeeps
      <3>3. (Supported(u, c) <=> Supported(r, c)) /\ u.mode = r.mode
        BY <1>1, <1>2, <3>1 DEF Supported, SameFrontend
      <3>4. d = IF Supported(u, c) THEN SubmitAllAccelerated(u, <<c>>)
                ELSE IF u.mode = "GpuStrict" THEN [u EXCEPT !.threw = TRUE]
                ELSE SubmitAllSoftware(u, <<c>>)
        BY <2>1, <2>4, <3>3
      <3>5. Routes(u, d, Drawn(truth, c)) /\ Caught(u, d, c)
        BY <3>1, <3>2, <3>4, RouteKeeps
      <3> QED BY <1>2, <3>1, <3>5 DEF Routes, SameFrontend, Caught
    <2> QED BY <2>3, <2>4
  <1> QED BY <1>4, <1>5, <1>6, <1>7, <1>8

-----------------------------------------------------------------------------
(* The snapshot that a run of draws samples.                                *)

\* Nothing but the frontend's snapshot differs.
OnlyReframed(r, d) ==
    /\ DOMAIN d = Fields
    /\ d.mode = r.mode /\ d.inBatch = r.inBatch
    /\ d.shutDown = r.shutDown /\ d.order = r.order
    /\ SameRouter(r, d) /\ SameBackend(r, d)
    /\ SameMemory(r, d) /\ SameFlags(r, d)

LEMMA ReframedKeeps ==
    ASSUME NEW r, NEW d, NEW truth, Kept(r, truth), OnlyReframed(r, d),
           d.snapshot \in Snapshots, d.host \in Images, OnHost(d) => d.host.held,
           OnHost(r) /\ ~OnHost(d) => r.deferred = <<>> /\ r.batch = <<>>
    PROVE  Kept(d, truth) /\ Fine(d)
  <1>1. Shape(r) /\ Sound(r, {})
    BY DEF Kept, Sound
  <1>2. /\ SameRouter(r, d) /\ SameBackend(r, d)
        /\ SameMemory(r, d) /\ SameFlags(r, d)
    BY DEF OnlyReframed
  <1>3. Shape(d) /\ (Alive(d) <=> Alive(r))
    <2>1. TypedFront(d)
      BY <1>1 DEF Shape, TypedFront, OnlyReframed
    <2>2. /\ TypedRouter(d) /\ TypedBackend(d) /\ Len(d.batch) <= MaxBatch
          /\ TypedMemory(d) /\ TypedFlags(d) /\ (Alive(d) <=> Alive(r))
      BY <1>1, <1>2, TypedSame
    <2>3. ~d.broken /\ DOMAIN d = Fields
      BY <1>1, <1>2 DEF Shape, SameFlags, OnlyReframed
    <2>4. ASSUME NEW i \in DOMAIN d.deferred
          PROVE  /\ d.deferred[i].kind \in Deferrable
                 /\ d.deferred[i].kind \in Recursive => OnHost(d)
      <3>1. d.deferred = r.deferred
        BY <1>2 DEF SameRouter
      <3>2. r.deferred # <<>>
        BY <2>4, <3>1, EmptySeq
      <3> QED BY <1>1, <2>4, <3>1, <3>2 DEF Shape
    <2> QED BY <2>1, <2>2, <2>3, <2>4 DEF Shape
  <1>4. Memory(d) = Memory(r) /\ Settled(d) = Settled(r) /\ Pipeline(d) = Pipeline(r)
    BY <1>2 DEF SameMemory, SameRouter, SameBackend, Memory, Settled, Pipeline
  <1>5. QueueOK(d, {}) /\ Agree(d, {})
    BY <1>1, <1>2, <1>4 DEF Sound, QueueOK, Agree, SameMemory, SameRouter
  <1>6. BatchOK(d)
    <2>1. SampledImage(d) = SampledImage(r)
      BY <1>2 DEF SampledImage, SameBackend, SameMemory
    <2>2. Pipeline(d) = "FeedbackLinear" => OnHost(d)
      <3>1. Pipeline(r) = "FeedbackLinear" => OnHost(r) /\ r.batch # <<>>
        BY <1>1 DEF Sound, BatchOK, Pipeline
      <3> QED BY <1>4, <3>1
    <2>3. /\ d.batch = r.batch /\ d.batchReads = r.batchReads
          /\ d.batchWrites = r.batchWrites
      BY <1>2 DEF SameBackend
    <2>4. BatchOK(r)
      BY <1>1 DEF Sound
    <2> QED BY <1>4, <2>1, <2>2, <2>3, <2>4 DEF BatchOK
  <1>7. Sound(d, {})
    BY <1>1, <1>2, <1>3, <1>5, <1>6 DEF Sound, SameFlags, SameRouter, SameBackend
  <1>8. Kept(d, truth)
    BY <1>2, <1>4, <1>7
       DEF Kept, Backed, Truth, SameRouter, SameBackend, OnlyReframed
  <1> QED BY <1>7, <1>8 DEF Fine, Sound

\* What the frontend leaves for the command it prepared.
Framed(r, d, c, truth) ==
    /\ Fine(d)
    /\ d.mode = r.mode /\ d.inBatch = r.inBatch
    /\ d.shutDown = r.shutDown /\ d.order = r.order
    /\ Alive(d) =>
          /\ Kept(d, truth)
          /\ c.kind \in Recursive =>
                /\ d.snapshot.valid
                /\ d.snapshot.onDevice => CanCaptureOnDevice(d, c)
          /\ Captured(d) \/ (c.kind = "FeedbackNearest" /\ d.snapshot.onDevice)

LEMMA EndSnapshotKeeps ==
    ASSUME NEW r, NEW d, NEW c, NEW truth, Kept(r, truth), c.kind \notin Recursive,
           d = EndSnapshot(r)
    PROVE  Framed(r, d, c, truth)
  <1> DEFINE u == IF r.snapshot.valid THEN FlushActive(r) ELSE r
  <1>1. d = IF Alive(u) THEN [u EXCEPT !.snapshot.valid = FALSE,
                                       !.snapshot.onDevice = FALSE] ELSE u
    BY DEF EndSnapshot, Then
  <1>2. /\ Fine(u) /\ SameFrontend(r, u)
        /\ Alive(u) => /\ Kept(u, truth)
                       /\ OnHost(u) => u.deferred = <<>> /\ u.batch = <<>>
    <2>1. CASE r.snapshot.valid
      <3>1. u = FlushActive(r)
        BY <2>1
      <3> HIDE DEF u
      <3> QED BY <3>1, FlushActiveKeeps DEF Routes
    <2>2. CASE ~r.snapshot.valid
      <3>1. u = r
        BY <2>2
      <3> QED BY <2>2, <3>1, SameAll DEF Kept, Fine, Sound, OnHost
    <2> QED BY <2>1, <2>2
  <1> HIDE DEF u
  <1>3. CASE ~Alive(u)
    BY <1>1, <1>2, <1>3 DEF Framed, SameFrontend
  <1>4. CASE Alive(u)
    <2>1. Shape(u) /\ u.snapshot \in Snapshots /\ u.host \in Images
      BY <1>2 DEF Fine, Shape, TypedFront
    <2> DEFINE ended(old) == [old EXCEPT !.valid = FALSE, !.onDevice = FALSE]
    <2>2. \A old \in Snapshots : ended(old) \in Snapshots /\ ~ended(old).valid
      BY DEF Snapshots
    <2> DEFINE snapshot == ended(u.snapshot)
    <2>3. snapshot \in Snapshots /\ ~snapshot.valid
      BY <2>1, <2>2
    <2>4. d = [u EXCEPT !.snapshot = snapshot]
      BY <1>1, <1>4, <2>1 DEF Shape, Fields
    <2> HIDE DEF snapshot
    <2>5. OnlyReframed(u, d) /\ d.snapshot = snapshot /\ d.host = u.host
      <3>1. /\ DOMAIN d = Fields /\ d.snapshot = snapshot /\ d.host = u.host
            /\ d.mode = u.mode /\ d.inBatch = u.inBatch
            /\ d.shutDown = u.shutDown /\ d.order = u.order
        BY <2>1, <2>4 DEF Shape, Fields
      <3>2. SameRouter(u, d) /\ SameBackend(u, d)
        BY <2>1, <2>4 DEF Shape, Fields, SameRouter, SameBackend
      <3>3. SameMemory(u, d) /\ SameFlags(u, d)
        BY <2>1, <2>4 DEF Shape, Fields, SameMemory, SameFlags
      <3> QED BY <3>1, <3>2, <3>3 DEF OnlyReframed
    <2>6. ~OnHost(d) /\ Captured(d)
      BY <2>3, <2>5 DEF OnHost, Captured
    <2>7. Kept(u, truth) /\ (OnHost(u) => u.deferred = <<>> /\ u.batch = <<>>)
      BY <1>2, <1>4
    <2>8. Kept(d, truth) /\ Fine(d)
      BY <2>1, <2>3, <2>5, <2>6, <2>7, ReframedKeeps
    <2> QED BY <1>2, <2>5, <2>6, <2>8 DEF Framed, SameFrontend, OnlyReframed
  <1> QED BY <1>3, <1>4

LEMMA DefineSnapshotKeeps ==
    ASSUME NEW r, NEW d, NEW c \in Commands, NEW truth, Kept(r, truth),
           d = DefineSnapshot(r, c)
    PROVE  Framed(r, d, c, truth)
  <1> DEFINE onDevice == CanCaptureOnDevice(r, c)
             u == IF ~onDevice THEN BeginCpuVramAccess(r, Reads(c), {})
                  ELSE IF r.snapshot.valid THEN FlushActive(r)
                  ELSE r
             host == IF onDevice THEN NoImage ELSE [at |-> u.cpu, held |-> TRUE]
             snapshot == [valid |-> TRUE, base |-> c.frame, onDevice |-> onDevice,
                          truth |-> r.order, generation |-> r.snapshot.generation + 1]
  <1>1. /\ d = IF Alive(u) THEN [u EXCEPT !.host = host, !.snapshot = snapshot] ELSE u
        /\ host = IF onDevice THEN NoImage ELSE [at |-> u.cpu, held |-> TRUE]
        /\ snapshot.valid /\ snapshot.onDevice = onDevice
        /\ onDevice = CanCaptureOnDevice(r, c) /\ onDevice \in BOOLEAN
    BY DEF DefineSnapshot, Then, CanCaptureOnDevice
  <1>2. /\ Fine(u) /\ SameFrontend(r, u)
        /\ Alive(u) =>
              /\ Kept(u, truth)
              /\ OnHost(u) /\ onDevice => u.deferred = <<>> /\ u.batch = <<>>
    <2>1. CASE ~onDevice
      <3> DEFINE reads == Reads(c)
                 writes == {}
      <3>1. /\ u = BeginCpuVramAccess(r, reads, writes)
            /\ reads \in PageSets /\ writes \in PageSets
        BY <2>1, CommandPages DEF PageSets
      <3> HIDE DEF u, reads, writes, onDevice
      <3>2. Routes(r, u, truth)
        BY <3>1, BeginAccessKeeps
      <3> QED BY <2>1, <3>2 DEF Routes
    <2>2. CASE onDevice /\ r.snapshot.valid
      <3>1. u = FlushActive(r)
        BY <2>2
      <3> HIDE DEF u
      <3> QED BY <3>1, FlushActiveKeeps DEF Routes
    <2>3. CASE onDevice /\ ~r.snapshot.valid
      <3>1. u = r
        BY <2>3
      <3> QED BY <2>3, <3>1, SameAll DEF Kept, Fine, Sound, OnHost
    <2> QED BY <2>1, <2>2, <2>3
  <1>3. Shape(u) /\ u.cpu \in PageValues
    BY <1>2 DEF Fine, Shape, TypedMemory
  <1>4. snapshot \in Snapshots
    <2>1. r.snapshot.generation \in Nat /\ r.order \in PageValues /\ c.frame \in Pages
      BY DEF Kept, Sound, Shape, TypedFront, Snapshots, Commands
    <2> HIDE DEF onDevice
    <2> QED BY <1>1, <2>1 DEF Snapshots
  <1> HIDE DEF onDevice, u, snapshot, host
  <1>5. host \in Images /\ (~onDevice => host.held)
    BY <1>1, <1>3 DEF Images, NoImage, PageValues
  <1>6. CASE ~Alive(u)
    BY <1>1, <1>2, <1>6 DEF Framed, SameFrontend
  <1>7. CASE Alive(u)
    <2>1. d = [u EXCEPT !.host = host, !.snapshot = snapshot]
      BY <1>1, <1>7
    <2>2. OnlyReframed(u, d) /\ d.snapshot = snapshot /\ d.host = host
      <3>1. /\ DOMAIN d = Fields /\ d.snapshot = snapshot /\ d.host = host
            /\ d.mode = u.mode /\ d.inBatch = u.inBatch
            /\ d.shutDown = u.shutDown /\ d.order = u.order
        BY <1>3, <2>1 DEF Shape, Fields
      <3>2. SameRouter(u, d) /\ SameBackend(u, d)
        BY <1>3, <2>1 DEF Shape, Fields, SameRouter, SameBackend
      <3>3. SameMemory(u, d) /\ SameFlags(u, d)
        BY <1>3, <2>1 DEF Shape, Fields, SameMemory, SameFlags
      <3> QED BY <3>1, <3>2, <3>3 DEF OnlyReframed
    <2>3. /\ OnHost(d) <=> ~onDevice
          /\ onDevice \/ Captured(d)
      BY <1>1, <2>2 DEF OnHost, Captured
    <2>4. Kept(u, truth) /\ (OnHost(u) /\ onDevice => u.deferred = <<>> /\ u.batch = <<>>)
      BY <1>2, <1>7
    <2>5. Kept(d, truth) /\ Fine(d)
      BY <1>4, <1>5, <2>2, <2>3, <2>4, ReframedKeeps
    <2>6. ~d.failed /\ d.mode = r.mode /\ d.shutDown = r.shutDown
      BY <1>2, <2>2, <2>5 DEF Kept, Sound, OnlyReframed, SameFrontend
    <2>7. /\ d.snapshot.valid /\ (d.snapshot.onDevice => CanCaptureOnDevice(d, c))
          /\ Captured(d) \/ (c.kind = "FeedbackNearest" /\ d.snapshot.onDevice)
      BY <1>1, <2>2, <2>3, <2>6 DEF CanCaptureOnDevice
    <2> QED BY <1>2, <2>2, <2>5, <2>7 DEF Framed, SameFrontend, OnlyReframed
  <1> QED BY <1>6, <1>7

LEMMA MaterializeKeeps ==
    ASSUME NEW r, NEW d, NEW c, NEW truth, Kept(r, truth), Captured(r),
           r.snapshot.valid, r.snapshot.onDevice,
           d = MaterializeFeedbackSnapshot(r)
    PROVE  Framed(r, d, c, truth)
  <1> DEFINE u == DrainBatch(r)
  <1>1. u = DrainBatch(r)
    OBVIOUS
  <1>2. Fine(r) /\ Alive(r) /\ ~r.failed /\ Shape(r)
    BY DEF Kept, Fine, Sound
  <1>3. d = IF ~Alive(u) THEN u
            ELSE IF ~u.resident.valid THEN LogicError(u)
            ELSE IF u.serves = 0 THEN [u EXCEPT !.threw = TRUE]
            ELSE [u EXCEPT !.serves = u.serves - 1, !.host = u.resident.image,
                           !.snapshot.onDevice = FALSE]
    BY <1>2 DEF MaterializeFeedbackSnapshot, Then
  <1> HIDE DEF u
  <1>4. Stays(r, u) /\ (Alive(u) => u.batch = <<>> /\ Captured(u))
    BY <1>1, <1>2, DrainFine
  <1>5. Fine(u) /\ SameFrontend(r, u) /\ SameRouter(r, u) /\ Shape(u)
    BY <1>4 DEF Stays, OnlyBackend, Fine
  <1>6. Goes(r, u)
    BY <1>1, <1>2, DrainGoes
  <1>7. ASSUME Alive(u) PROVE Kept(u, truth)
    <2>1. Backed(u)
      BY <1>4, <1>5, <1>7 DEF Kept, Backed, SameRouter
    <2>2. u.tail # NoTail => u.active = "Accelerated"
      BY <1>5 DEF Kept, SameRouter
    <2> QED BY <1>6, <1>7, <2>1, <2>2, GoesKept
  <1>8. CASE ~Alive(u)
    BY <1>3, <1>5, <1>8 DEF Framed, SameFrontend
  <1>9. ASSUME Alive(u) PROVE u.resident.valid
    BY <1>4, <1>5, <1>9 DEF Captured, SameFrontend, Pipeline
  <1>10. CASE Alive(u) /\ u.serves = 0
    <2>1. d = Threw(u)
      BY <1>3, <1>9, <1>10 DEF Threw
    <2>2. Fine(d) /\ ~Alive(d) /\ SameFrontend(u, d)
      BY <1>5, <2>1, ThrowKeeps DEF Fine
    <2> QED BY <1>5, <2>2 DEF Framed, SameFrontend
  <1>11. CASE Alive(u) /\ u.serves # 0
    <2>1. /\ u.snapshot \in Snapshots /\ u.resident.image \in Images
          /\ u.resident.image.held
      <3>1. u.snapshot \in Snapshots /\ u.resident.image \in Images
        BY <1>5 DEF Shape, TypedFront, TypedBackend, Residents
      <3> QED BY <1>7, <1>9, <1>11, <3>1 DEF Kept, Sound
    <2> DEFINE fetched(old) == [old EXCEPT !.onDevice = FALSE]
    <2>2. \A old \in Snapshots : /\ fetched(old) \in Snapshots /\ ~fetched(old).onDevice
                                 /\ fetched(old).valid = old.valid
      BY DEF Snapshots
    <2> DEFINE snapshot == fetched(u.snapshot)
               host == u.resident.image
               serves == u.serves - 1
    <2>3. /\ snapshot \in Snapshots /\ ~snapshot.onDevice
          /\ snapshot.valid = u.snapshot.valid /\ host \in Images /\ host.held
      BY <2>1, <2>2
    <2>4. d = [u EXCEPT !.serves = serves, !.host = host, !.snapshot = snapshot]
      BY <1>3, <1>5, <1>9, <1>11 DEF Shape, Fields
    <2> HIDE DEF snapshot, host, serves
    <2>5. OnlyReframed(u, d) /\ d.snapshot = snapshot /\ d.host = host
      <3>1. /\ DOMAIN d = Fields /\ d.snapshot = snapshot /\ d.host = host
            /\ d.mode = u.mode /\ d.inBatch = u.inBatch
            /\ d.shutDown = u.shutDown /\ d.order = u.order
        BY <1>5, <2>4 DEF Shape, Fields
      <3>2. SameRouter(u, d) /\ SameBackend(u, d)
        BY <1>5, <2>4 DEF Shape, Fields, SameRouter, SameBackend
      <3>3. SameMemory(u, d) /\ SameFlags(u, d)
        BY <1>5, <2>4 DEF Shape, Fields, SameMemory, SameFlags
      <3> QED BY <3>1, <3>2, <3>3 DEF OnlyReframed
    <2>6. /\ u.snapshot.valid /\ ~OnHost(u)
      BY <1>5 DEF SameFrontend, OnHost
    <2>7. Kept(u, truth)
      BY <1>7, <1>11
    <2>8. Kept(d, truth) /\ Fine(d)
      BY <2>3, <2>5, <2>6, <2>7, ReframedKeeps
    <2>9. d.snapshot.valid /\ ~d.snapshot.onDevice /\ Captured(d)
      BY <2>3, <2>5, <2>6 DEF Captured
    <2> QED BY <1>5, <2>5, <2>8, <2>9 DEF Framed, SameFrontend, OnlyReframed
  <1> QED BY <1>8, <1>10, <1>11

LEMMA FeedbackKeeps ==
    ASSUME NEW r, NEW d, NEW c \in Commands, NEW truth, Kept(r, truth), Captured(r),
           d = PrepareFeedbackSnapshot(r, c)
    PROVE  Framed(r, d, c, truth)
  <1>1. CASE c.kind \notin Recursive
    <2>1. d = EndSnapshot(r)
      BY <1>1 DEF PrepareFeedbackSnapshot
    <2> QED BY <1>1, <2>1, EndSnapshotKeeps
  <1>2. CASE c.kind \in Recursive /\ ~(r.snapshot.valid /\ r.snapshot.base = c.frame)
    <2>1. d = DefineSnapshot(r, c)
      BY <1>2 DEF PrepareFeedbackSnapshot
    <2> QED BY <2>1, DefineSnapshotKeeps
  <1>3. CASE /\ c.kind \in Recursive /\ r.snapshot.valid /\ r.snapshot.base = c.frame
             /\ r.snapshot.onDevice /\ ~CanCaptureOnDevice(r, c)
    <2>1. d = MaterializeFeedbackSnapshot(r)
      BY <1>3 DEF PrepareFeedbackSnapshot
    <2> QED BY <1>3, <2>1, MaterializeKeeps
  <1>4. CASE /\ c.kind \in Recursive /\ r.snapshot.valid /\ r.snapshot.base = c.frame
             /\ ~(r.snapshot.onDevice /\ ~CanCaptureOnDevice(r, c))
    <2>1. d = r
      BY <1>4 DEF PrepareFeedbackSnapshot
    <2> QED BY <1>4, <2>1 DEF Framed, Kept, Fine, Sound
  <1> QED BY <1>1, <1>2, <1>3, <1>4

-----------------------------------------------------------------------------
(* The calls.                                                               *)

\* Only what the calls themselves set in the frontend differs.
OnlyFronted(r, d) ==
    /\ DOMAIN d = Fields
    /\ d.snapshot = r.snapshot /\ d.host = r.host
    /\ SameRouter(r, d) /\ SameBackend(r, d)
    /\ SameMemory(r, d) /\ SameFlags(r, d)

LEMMA FrontedKeeps ==
    ASSUME NEW r, NEW d, Shape(r), OnlyFronted(r, d), TypedFront(d)
    PROVE  /\ Shape(d) /\ (Alive(d) <=> Alive(r))
           /\ Settled(d) = Settled(r)
           /\ Captured(r) => Captured(d)
           /\ Sound(r, {}) => Sound(d, {})
           /\ Fine(r) => Fine(d)
           /\ \A truth : /\ Kept(r, truth)
                         /\ d.mode = r.mode \/ (r.tail = NoTail /\ r.deferred = <<>>)
                         => Kept(d, truth)
  <1>1. /\ SameRouter(r, d) /\ SameBackend(r, d)
        /\ SameMemory(r, d) /\ SameFlags(r, d)
        /\ OnHost(d) <=> OnHost(r)
    BY DEF OnlyFronted, OnHost
  <1>2. Shape(d) /\ (Alive(d) <=> Alive(r))
    <2>1. /\ TypedRouter(d) /\ TypedBackend(d) /\ Len(d.batch) <= MaxBatch
          /\ TypedMemory(d) /\ TypedFlags(d) /\ (Alive(d) <=> Alive(r))
      BY <1>1, TypedSame
    <2>2. /\ ~d.broken /\ DOMAIN d = Fields /\ d.host = r.host
          /\ d.deferred = r.deferred
      BY <1>1 DEF Shape, SameFlags, SameRouter, OnlyFronted
    <2> QED BY <1>1, <2>1, <2>2 DEF Shape
  <1>3. Memory(d) = Memory(r) /\ Settled(d) = Settled(r) /\ Pipeline(d) = Pipeline(r)
    BY <1>1 DEF SameMemory, SameRouter, SameBackend, Memory, Settled, Pipeline
  <1>4. Captured(r) => Captured(d)
    BY <1>1, <1>3 DEF Captured, OnlyFronted, SameBackend
  <1>5. Sound(r, {}) => QueueOK(d, {}) /\ Agree(d, {})
    BY <1>1, <1>3 DEF Sound, QueueOK, Agree, SameMemory, SameRouter
  <1>6. Sound(r, {}) => BatchOK(d)
    <2>1. SampledImage(d) = SampledImage(r)
      BY <1>1 DEF SampledImage, SameBackend, SameMemory
    <2>2. /\ d.batch = r.batch /\ d.batchReads = r.batchReads
          /\ d.batchWrites = r.batchWrites
      BY <1>1 DEF SameBackend
    <2>3. Sound(r, {}) => BatchOK(r)
      BY DEF Sound
    <2> QED BY <1>1, <1>3, <2>1, <2>2, <2>3 DEF BatchOK
  <1>7. Sound(r, {}) => Sound(d, {})
    BY <1>1, <1>2, <1>5, <1>6 DEF Sound, SameFlags, SameRouter, SameBackend
  <1>8. Fine(r) => Fine(d)
    BY <1>1, <1>2, <1>7 DEF Fine, SameFlags
  <1>9. ASSUME NEW truth, Kept(r, truth),
               d.mode = r.mode \/ (r.tail = NoTail /\ r.deferred = <<>>)
        PROVE  Kept(d, truth)
    BY <1>1, <1>3, <1>7, <1>9
       DEF Kept, Backed, Truth, SameRouter, SameBackend
  <1> QED BY <1>2, <1>3, <1>4, <1>7, <1>8, <1>9

\* What every call but the destructor is made on and leaves.
Begins(r) == ~r.shutDown /\ Kept(r, r.order) /\ Captured(r)

Ends(d) ==
    /\ Fine(d) /\ ~d.shutDown
    /\ Alive(d) => Kept(d, d.order) /\ Captured(d)

LEMMA ServedKeeps ==
    ASSUME NEW r, NEW d, NEW serves, Shape(r), d = [r EXCEPT !.serves = serves]
    PROVE  OnlyFronted(r, d) /\ SameFrontend(r, d) /\ TypedFront(d)
  <1>1. DOMAIN d = Fields /\ SameFrontend(r, d)
    BY DEF Shape, Fields, SameFrontend
  <1>2. SameRouter(r, d) /\ SameBackend(r, d)
    BY DEF Shape, Fields, SameRouter, SameBackend
  <1>3. SameMemory(r, d) /\ SameFlags(r, d)
    BY DEF Shape, Fields, SameMemory, SameFlags
  <1>4. TypedFront(d)
    BY <1>1, TypedSame
  <1> QED BY <1>1, <1>2, <1>3, <1>4 DEF OnlyFronted, SameFrontend

LEMMA CallBegins ==
    ASSUME RInv, Calling, NEW r, NEW serves, r = [renderer EXCEPT !.serves = serves]
    PROVE  Begins(r) /\ r.order = renderer.order /\ r.mode = renderer.mode
  <1>1. Shape(renderer) /\ Kept(renderer, renderer.order) /\ Captured(renderer)
    BY DEF RInv, Calling, Whole, Kept
  <1>2. OnlyFronted(renderer, r) /\ SameFrontend(renderer, r) /\ TypedFront(r)
    BY <1>1, ServedKeeps
  <1>3. /\ r.mode = renderer.mode /\ r.order = renderer.order /\ ~r.shutDown
    BY <1>2 DEF SameFrontend, Calling
  <1>4. Kept(r, renderer.order) /\ Captured(r)
    BY <1>1, <1>2, <1>3, FrontedKeeps
  <1> QED BY <1>3, <1>4 DEF Begins

LEMMA CallEnds ==
    ASSUME RInv, Calling, NEW d, Ends(d), renderer' = [d EXCEPT !.serves = 0]
    PROVE  RInv'
  <1> DEFINE e == renderer'
  <1>1. e = [d EXCEPT !.serves = 0] /\ Shape(d)
    BY DEF Ends, Fine
  <1> HIDE DEF e
  <1>2. OnlyFronted(d, e) /\ SameFrontend(d, e) /\ TypedFront(e)
    BY <1>1, ServedKeeps
  <1>3. Shape(e) /\ Fine(e) /\ ~e.shutDown
    BY <1>1, <1>2, FrontedKeeps DEF Ends, SameFrontend
  <1>4. ASSUME Alive(e)
        PROVE  Kept(e, e.order) /\ Captured(e)
    <2>1. Kept(d, d.order) /\ Captured(d)
      BY <1>1, <1>2, <1>4, FrontedKeeps DEF Ends
    <2>2. e.order = d.order /\ e.mode = d.mode
      BY <1>2 DEF SameFrontend
    <2> QED BY <1>1, <1>2, <2>1, <2>2, FrontedKeeps
  <1>5. operations' \in 0 .. MaxOperations
    BY ConstantsAssumption DEF RInv, Calling
  <1>6. Alive(e) => Whole(e) /\ Len(e.deferred) < MaxDeferred
    BY <1>4 DEF Kept, Whole
  <1>7. Alive(e) => ~e.failed
    BY <1>4 DEF Kept, Sound
  <1>8. ~e.misread
    BY <1>3 DEF Fine
  <1> QED BY <1>3, <1>5, <1>6, <1>7, <1>8 DEF RInv, e, Whole, Sound

\* The CPU's copy of a page that it may use and no batch writes.
LEMMA ReadsTrue ==
    ASSUME NEW r, NEW truth, NEW p \in Pages, Kept(r, truth),
           r.deferred = <<>>, r.queue = <<>>, r.ledger.gpu[p] <= r.ledger.cpu[p],
           \A i \in DOMAIN r.batch : p \notin Writes(r.batch[i])
    PROVE  r.cpu[p] = truth[p] /\ truth = Settled(r)
  <1>1. Shape(r) /\ Truth(r) = truth
    BY DEF Kept, Sound
  <1>2. Memory(r) \in PageValues /\ Settled(r) \in PageValues
    BY <1>1, MemoryType
  <1>3. truth = Settled(r) /\ Settled(r) = DrawnAll(Memory(r), r.batch)
    BY <1>1, <1>2, DrawnAllNone DEF Truth, Settled
  <1>4. Memory(r)[p] = r.cpu[p]
    <2>1. r.ledger.gpu[p] \in Nat /\ r.ledger.cpu[p] \in Nat
      BY <1>1 DEF Shape, TypedMemory, Ledgers, PageValues
    <2> QED BY <2>1 DEF Memory, Newer
  <1>5. DrawnAll(Memory(r), r.batch)[p] = Memory(r)[p]
    <2>1. Len(r.batch) \in Nat /\ DOMAIN r.batch = 1 .. Len(r.batch)
      BY <1>1, SequenceParts DEF Shape, TypedBackend
    <2> QED BY <1>2, <2>1, DrawnKept DEF DrawnAll
  <1> QED BY <1>3, <1>4, <1>5

LEMMA ReadsOrder ==
    ASSUME NEW r, NEW truth, NEW p \in Pages, Kept(r, truth), r.deferred = <<>>,
           r.queue = <<>>, r.batch = <<>>, r.ledger.gpu[p] <= r.ledger.cpu[p]
    PROVE  r.cpu[p] = truth[p]
  <1>1. \A i \in DOMAIN r.batch : p \notin Writes(r.batch[i])
    BY EmptySeq
  <1> QED BY <1>1, ReadsTrue

\* A record update of what a call sets.
Fronted(r, mode, inBatch, order, misread) ==
    [r EXCEPT !.mode = mode, !.inBatch = inBatch, !.order = order,
              !.misread = misread]

LEMMA FrontedType ==
    ASSUME NEW r, NEW d, NEW mode \in Modes, NEW inBatch \in BOOLEAN,
           NEW order \in PageValues, NEW misread, Shape(r), misread = r.misread,
           d = Fronted(r, mode, inBatch, order, misread)
    PROVE  /\ OnlyFronted(r, d) /\ TypedFront(d)
           /\ d.mode = mode /\ d.order = order /\ d.shutDown = r.shutDown
  <1>1. /\ DOMAIN d = Fields /\ d.mode = mode /\ d.inBatch = inBatch
        /\ d.order = order /\ d.shutDown = r.shutDown
        /\ d.snapshot = r.snapshot /\ d.host = r.host
    BY DEF Fronted, Shape, Fields
  <1>2. SameRouter(r, d) /\ SameBackend(r, d)
    BY DEF Fronted, Shape, Fields, SameRouter, SameBackend
  <1>3. SameMemory(r, d) /\ SameFlags(r, d)
    BY DEF Fronted, Shape, Fields, SameMemory, SameFlags
  <1>4. TypedFront(d)
    BY <1>1 DEF Shape, TypedFront
  <1> QED BY <1>1, <1>2, <1>3, <1>4 DEF OnlyFronted

LEMMA ThrewEnds ==
    ASSUME NEW r, NEW d, Begins(r), Fine(d), ~Alive(d), d.shutDown = r.shutDown
    PROVE  Ends(d)
  BY DEF Begins, Ends

LEMMA FrontedEnds ==
    ASSUME NEW r, NEW u, NEW d, Begins(r), Routes(r, u, r.order), Alive(u),
           OnlyFronted(u, d), TypedFront(d), d.shutDown = u.shutDown,
           d.order = u.order,
           d.mode = u.mode \/ (u.tail = NoTail /\ u.deferred = <<>>)
    PROVE  Ends(d)
  <1>1. Shape(u) /\ Fine(u) /\ Kept(u, r.order) /\ Captured(u) /\ SameFrontend(r, u)
    BY DEF Begins, Routes, Fine
  <1>2. Kept(d, r.order) /\ Captured(d) /\ Fine(d)
    BY <1>1, FrontedKeeps
  <1>3. d.order = r.order /\ ~d.shutDown
    BY <1>1 DEF Begins, SameFrontend
  <1> QED BY <1>2, <1>3 DEF Ends

LEMMA FlushEnds ==
    ASSUME NEW r, NEW u, NEW d, NEW ends \in BOOLEAN, Begins(r),
           u = FlushCanonical(r),
           d = IF Alive(u) THEN [u EXCEPT !.inBatch = @ /\ ~ends] ELSE u
    PROVE  Ends(d)
  <1>1. Routes(r, u, r.order) /\ Fine(u) /\ Shape(u) /\ SameFrontend(r, u)
    BY FlushCanonicalKeeps DEF Begins, Routes, Fine
  <1>2. CASE ~Alive(u)
    <2>1. d = u /\ d.shutDown = r.shutDown
      BY <1>1, <1>2 DEF SameFrontend
    <2> QED BY <1>1, <1>2, <2>1, ThrewEnds
  <1>3. CASE Alive(u)
    <2> DEFINE inBatch == u.inBatch /\ ~ends
               misread == u.misread
    <2>1. /\ u.inBatch \in BOOLEAN /\ u.mode \in Modes /\ u.order \in PageValues
          /\ inBatch \in BOOLEAN /\ misread = u.misread
      BY <1>1 DEF Shape, TypedFront
    <2>2. d = Fronted(u, u.mode, inBatch, u.order, misread)
      BY <1>1, <1>3 DEF Fronted, Shape, Fields
    <2> HIDE DEF inBatch, misread
    <2>3. /\ OnlyFronted(u, d) /\ TypedFront(d)
          /\ d.mode = u.mode /\ d.order = u.order /\ d.shutDown = u.shutDown
      BY <1>1, <2>1, <2>2, FrontedType
    <2> QED BY <1>1, <1>3, <2>3, FrontedEnds
  <1> QED BY <1>2, <1>3

LEMMA PresentEnds ==
    ASSUME NEW r, NEW u, NEW d, NEW page \in Pages, Begins(r),
           u = FlushForCpuReadback(r, {page}),
           d = IF Alive(u)
               THEN [u EXCEPT !.misread = u.misread \/ u.cpu[page] # u.order[page]]
               ELSE u
    PROVE  Ends(d)
  <1> DEFINE pages == {page}
  <1>1. pages \in PageSets /\ page \in pages /\ u = FlushForCpuReadback(r, pages)
    BY DEF PageSets
  <1> HIDE DEF pages
  <1>2. Routes(r, u, r.order) /\ Fine(u) /\ Shape(u) /\ SameFrontend(r, u)
    BY <1>1, FlushReadbackKeeps DEF Begins, Routes, Fine
  <1>3. CASE ~Alive(u)
    <2>1. d = u /\ d.shutDown = r.shutDown
      BY <1>2, <1>3 DEF SameFrontend
    <2> QED BY <1>2, <1>3, <2>1, ThrewEnds
  <1>4. CASE Alive(u)
    <2>1. /\ u.deferred = <<>> /\ u.queue = <<>> /\ u.batch = <<>>
          /\ u.ledger.gpu[page] <= u.ledger.cpu[page] /\ Kept(u, r.order)
      BY <1>1, <1>2, <1>4, FlushReadbackKeeps DEF Begins, Routes
    <2>2. u.cpu[page] = u.order[page]
      BY <1>2, <2>1, ReadsOrder DEF SameFrontend
    <2> DEFINE misread == u.misread \/ u.cpu[page] # u.order[page]
    <2>3. /\ u.inBatch \in BOOLEAN /\ u.mode \in Modes /\ u.order \in PageValues
          /\ misread = u.misread
      BY <1>2, <2>2 DEF Shape, TypedFront, TypedFlags
    <2>4. d = Fronted(u, u.mode, u.inBatch, u.order, misread)
      BY <1>2, <1>4 DEF Fronted, Shape, Fields
    <2> HIDE DEF misread
    <2>5. /\ OnlyFronted(u, d) /\ TypedFront(d)
          /\ d.mode = u.mode /\ d.order = u.order /\ d.shutDown = u.shutDown
      BY <1>2, <2>3, <2>4, FrontedType
    <2> QED BY <1>2, <1>4, <2>5, FrontedEnds
  <1> QED BY <1>3, <1>4

LEMMA EndSubmissionEnds ==
    ASSUME NEW r, NEW u, NEW d, Begins(r), u = FlushSoftware(r),
           d = [u EXCEPT !.inBatch = FALSE]
    PROVE  Ends(d)
  <1>1. Kept(r, r.order) /\ Captured(r) /\ Fine(r) /\ Shape(r)
    BY DEF Begins, Kept, Fine, Sound
  <1>2. /\ Goes(r, u) /\ Fine(u) /\ Shape(u) /\ SameFrontend(r, u)
        /\ u.active = r.active /\ u.tail = r.tail /\ u.batch = r.batch
        /\ Alive(u) => u.queue = <<>>
    BY <1>1, FlushGoes DEF Goes, Fine, Follows
  <1>3. /\ DOMAIN d = Fields /\ d.mode = u.mode /\ d.inBatch = FALSE
        /\ d.order = u.order /\ d.shutDown = u.shutDown
        /\ d.snapshot = u.snapshot /\ d.host = u.host
    BY <1>2 DEF Shape, Fields
  <1>4. /\ SameRouter(u, d) /\ SameBackend(u, d)
        /\ SameMemory(u, d) /\ SameFlags(u, d)
    <2>1. SameRouter(u, d) /\ SameBackend(u, d)
      BY <1>2 DEF Shape, Fields, SameRouter, SameBackend
    <2>2. SameMemory(u, d) /\ SameFlags(u, d)
      BY <1>2 DEF Shape, Fields, SameMemory, SameFlags
    <2> QED BY <2>1, <2>2
  <1>5. OnlyFronted(u, d) /\ TypedFront(d)
    BY <1>2, <1>3, <1>4 DEF OnlyFronted, Shape, TypedFront
  <1>6. Fine(d) /\ (Alive(d) <=> Alive(u))
    BY <1>2, <1>5, FrontedKeeps
  <1>7. CASE ~Alive(u)
    BY <1>2, <1>3, <1>6, <1>7, ThrewEnds DEF SameFrontend
  <1>8. CASE Alive(u)
    <2>1. Backed(u) /\ (u.tail # NoTail => u.active = "Accelerated")
      BY <1>1, <1>2, <1>8 DEF Kept, Backed
    <2>2. Kept(u, r.order)
      BY <1>1, <1>2, <1>8, <2>1, GoesKept
    <2>3. Routes(r, u, r.order)
      BY <1>2, <2>2 DEF Routes, Goes
    <2> QED BY <1>3, <1>5, <1>8, <2>3, FrontedEnds
  <1> QED BY <1>7, <1>8

LEMMA SetModeEnds ==
    ASSUME NEW r, NEW u, NEW d, NEW mode \in Modes, Begins(r),
           u = PrepareCpuVramAccess(FlushActive(r), Pages, Pages),
           d = IF Alive(u) THEN [u EXCEPT !.mode = mode] ELSE u
    PROVE  Ends(d)
  <1> DEFINE s == FlushActive(r)
             reads == Pages
             writes == Pages
  <1>1. /\ s = FlushActive(r) /\ u = PrepareCpuVramAccess(s, reads, writes)
        /\ reads \in PageSets /\ writes \in PageSets /\ reads \cup writes = Pages
    BY DEF PageSets
  <1> HIDE DEF s, reads, writes
  <1>2. /\ Routes(r, s, r.order) /\ Fine(s) /\ Shape(s)
        /\ Alive(s) => /\ s.deferred = <<>> /\ s.tail = NoTail
                       /\ s.queue = <<>> /\ s.batch = <<>>
    BY <1>1, FlushActiveKeeps DEF Begins, Routes, Fine
  <1>3. /\ Goes(s, u) /\ u.queue = s.queue /\ u.tail = s.tail
        /\ Fine(s) /\ Alive(u) => u.batch = <<>>
    BY <1>1, <1>2, PrepareGoes
  <1>4. /\ Fine(u) /\ Shape(u) /\ SameFrontend(r, u) /\ (Alive(u) => Alive(s))
        /\ u.deferred = s.deferred
    BY <1>2, <1>3 DEF Goes, Follows, Routes, SameFrontend, Fine
  <1>5. CASE ~Alive(u)
    <2>1. d = u /\ d.shutDown = r.shutDown
      BY <1>4, <1>5 DEF SameFrontend
    <2> QED BY <1>4, <1>5, <2>1, ThrewEnds
  <1>6. CASE Alive(u)
    <2>1. /\ Backed(u) /\ u.tail = NoTail /\ u.deferred = <<>> /\ Kept(s, r.order)
      BY <1>2, <1>3, <1>4, <1>6 DEF Backed, Routes
    <2>2. Kept(u, r.order)
      BY <1>3, <1>6, <2>1, GoesKept
    <2>3. Captured(u)
      BY <1>2, <1>3, <1>4, <1>6 DEF Goes, Routes, Begins
    <2>4. Routes(r, u, r.order)
      BY <1>4, <2>2, <2>3 DEF Routes
    <2>5. u.inBatch \in BOOLEAN /\ u.order \in PageValues
      BY <1>4 DEF Shape, TypedFront
    <2>6. d = Fronted(u, mode, u.inBatch, u.order, u.misread)
      BY <1>4, <1>6 DEF Fronted, Shape, Fields
    <2>7. /\ OnlyFronted(u, d) /\ TypedFront(d)
          /\ d.order = u.order /\ d.shutDown = u.shutDown
      BY <1>4, <2>5, <2>6, FrontedType
    <2> QED BY <1>6, <2>1, <2>4, <2>7, FrontedEnds
  <1> QED BY <1>5, <1>6

\* The CPU's write to pages it may use, before the ledger hears of it.
Written(r, writes, misread) ==
    [r EXCEPT !.misread = misread,
              !.cpu = Advanced(r.cpu, writes),
              !.order = Advanced(r.order, writes)]

LEMMA AdvancedType ==
    ASSUME NEW image \in PageValues, NEW pages
    PROVE  /\ Advanced(image, pages) \in PageValues
           /\ \A p \in Pages : Advanced(image, pages)[p] =
                                   IF p \in pages THEN image[p] + 1 ELSE image[p]
  BY DEF Advanced, PageValues

LEMMA WrittenType ==
    ASSUME NEW r, NEW d, NEW writes \in PageSets, NEW misread, Shape(r),
           misread = r.misread, d = Written(r, writes, misread)
    PROVE  /\ Shape(d) /\ (Alive(d) <=> Alive(r))
           /\ d.order = Advanced(r.order, writes)
           /\ d.cpu = Advanced(r.cpu, writes)
           /\ d.ledger = r.ledger /\ d.gpu = r.gpu
           /\ d.mode = r.mode /\ d.shutDown = r.shutDown
           /\ d.snapshot = r.snapshot /\ d.host = r.host
           /\ SameRouter(r, d) /\ SameBackend(r, d) /\ SameFlags(r, d)
  <1> DEFINE cpu == Advanced(r.cpu, writes)
             order == Advanced(r.order, writes)
  <1>1. d = [r EXCEPT !.misread = misread, !.cpu = cpu, !.order = order]
    BY DEF Written
  <1>2. cpu \in PageValues /\ order \in PageValues
    BY AdvancedType DEF Shape, TypedFront, TypedMemory
  <1> HIDE DEF cpu, order
  <1>3. /\ DOMAIN d = Fields /\ d.order = order /\ d.cpu = cpu
        /\ d.ledger = r.ledger /\ d.gpu = r.gpu
        /\ d.mode = r.mode /\ d.shutDown = r.shutDown /\ d.inBatch = r.inBatch
        /\ d.snapshot = r.snapshot /\ d.host = r.host
    BY <1>1 DEF Shape, Fields
  <1>4. SameRouter(r, d) /\ SameBackend(r, d)
    BY <1>1 DEF Shape, Fields, SameRouter, SameBackend
  <1>5. SameFlags(r, d)
    BY <1>1 DEF Shape, Fields, SameFlags
  <1>6. /\ TypedRouter(d) /\ TypedBackend(d) /\ Len(d.batch) <= MaxBatch
        /\ TypedFlags(d) /\ (Alive(d) <=> Alive(r))
    BY <1>4, <1>5, TypedSame
  <1>7. TypedFront(d) /\ TypedMemory(d)
    BY <1>2, <1>3 DEF Shape, TypedFront, TypedMemory
  <1>8. /\ ~d.broken /\ d.deferred = r.deferred /\ (OnHost(d) <=> OnHost(r))
    BY <1>3, <1>4, <1>5 DEF Shape, SameFlags, SameRouter, OnHost
  <1>9. Shape(d)
    BY <1>3, <1>6, <1>7, <1>8 DEF Shape
  <1> QED BY <1>3, <1>4, <1>5, <1>6, <1>9 DEF cpu, order

LEMMA WrittenKeeps ==
    ASSUME NEW r, NEW d, NEW reads \in PageSets, NEW writes \in PageSets, NEW misread,
           Kept(r, r.order), r.deferred = <<>>, r.queue = <<>>,
           Apart(r, reads, writes),
           \A p \in writes : r.ledger.gpu[p] <= r.ledger.cpu[p],
           misread = r.misread, d = Written(r, writes, misread)
    PROVE  Sound(d, writes) /\ Settled(d) = d.order
  <1>1. Shape(r) /\ Sound(r, {})
    BY DEF Kept, Sound
  <1>2. /\ Shape(d) /\ (Alive(d) <=> Alive(r))
        /\ d.order = Advanced(r.order, writes)
        /\ d.cpu = Advanced(r.cpu, writes)
        /\ d.ledger = r.ledger /\ d.gpu = r.gpu
        /\ d.mode = r.mode /\ d.shutDown = r.shutDown
        /\ d.snapshot = r.snapshot /\ d.host = r.host
        /\ SameRouter(r, d) /\ SameBackend(r, d) /\ SameFlags(r, d)
    BY <1>1, WrittenType
  <1>3. /\ d.queue = <<>> /\ d.batch = r.batch
        /\ Pipeline(d) = Pipeline(r) /\ (OnHost(d) <=> OnHost(r))
        /\ SampledImage(d) = SampledImage(r)
        /\ d.batchReads = r.batchReads /\ d.batchWrites = r.batchWrites
        /\ d.resident = r.resident
    BY <1>2 DEF SameRouter, SameBackend, Pipeline, OnHost, SampledImage
  <1>4. /\ r.cpu \in PageValues /\ r.order \in PageValues /\ r.gpu \in PageValues
        /\ r.batch \in Seq(Commands) /\ writes \subseteq Pages
        /\ \A p \in Pages : r.ledger.cpu[p] \in Nat /\ r.ledger.gpu[p] \in Nat
    BY <1>1 DEF Shape, TypedFront, TypedMemory, TypedBackend, Ledgers, PageValues,
                PageSets
  <1>5. \A p \in Pages :
            /\ d.order[p] = IF p \in writes THEN r.order[p] + 1 ELSE r.order[p]
            /\ d.cpu[p] = IF p \in writes THEN r.cpu[p] + 1 ELSE r.cpu[p]
            /\ Memory(d)[p] = IF p \in writes THEN r.cpu[p] + 1 ELSE Memory(r)[p]
            /\ p \in writes => Memory(r)[p] = r.cpu[p]
    <2>1. ASSUME NEW p \in Pages
          PROVE  /\ d.order[p] = IF p \in writes THEN r.order[p] + 1 ELSE r.order[p]
                 /\ d.cpu[p] = IF p \in writes THEN r.cpu[p] + 1 ELSE r.cpu[p]
      BY <1>2, <1>4, AdvancedType
    <2> QED BY <1>2, <1>4, <2>1 DEF Memory, Newer
  <1>6. /\ Len(r.batch) \in Nat /\ DOMAIN r.batch = 1 .. Len(r.batch)
        /\ \A i \in 1 .. Len(r.batch) :
              /\ r.batch[i] \in Commands
              /\ DirectReads(r.batch[i]) \cup Writes(r.batch[i]) \subseteq Pages
              /\ (DirectReads(r.batch[i]) \cup Writes(r.batch[i])) \cap writes = {}
    BY <1>4, SequenceParts, CommandPages DEF Apart
  <1>7. Memory(d) \in PageValues /\ Memory(r) \in PageValues
    BY <1>1, <1>2, MemoryType
  <1>8. Agree(d, writes)
    BY <1>1, <1>2, <1>4, <1>5 DEF Sound, Agree
  <1>9. QueueOK(d, writes)
    <2>1. DOMAIN d.queue = {}
      BY <1>3, EmptySeq
    <2> QED BY <1>3, <1>7, <2>1, DrawnAllNone DEF QueueOK
  <1>10. BatchOK(d)
    <2>1. BatchOK(r)
      BY <1>1 DEF Sound
    <2>2. MisreadAny(Memory(r), r.batch, TRUE) <=> MisreadAny(Memory(d), r.batch, TRUE)
      <3> DEFINE image == Memory(r)
                 other == Memory(d)
      <3>1. \A i \in 1 .. Len(r.batch) :
                \A p \in DirectReads(r.batch[i]) \cup Writes(r.batch[i]) :
                    image[p] = other[p]
        BY <1>5, <1>6
      <3> HIDE DEF image, other
      <3>2. MisreadAny(image, r.batch, TRUE) <=> MisreadAny(other, r.batch, TRUE)
        BY <1>4, <3>1, MisreadSame
      <3> QED BY <3>2 DEF image, other
    <2> QED BY <1>3, <2>1, <2>2, ZenonT(60) DEF BatchOK
  <1>11. Sound(d, writes)
    BY <1>1, <1>2, <1>3, <1>8, <1>9, <1>10 DEF Sound, SameFlags
  <1>12. /\ r.order = Settled(r) /\ Settled(r) = DrawnAll(Memory(r), r.batch)
         /\ Settled(d) = DrawnAll(Memory(d), r.batch)
    <2>1. Settled(r) \in PageValues /\ Truth(r) = r.order
      BY <1>1, MemoryType DEF Kept
    <2> QED BY <1>3, <1>7, <2>1, DrawnAllNone DEF Truth, Settled
  <1>13. \A p \in Pages : DrawnAll(Memory(d), r.batch)[p] = d.order[p]
    <2> SUFFICES ASSUME NEW p \in Pages
                 PROVE  DrawnAll(Memory(d), r.batch)[p] = d.order[p]
      OBVIOUS
    <2>1. CASE p \in writes
      <3>1. \A i \in 1 .. Len(r.batch) : p \notin Writes(r.batch[i])
        BY <1>6, <2>1
      <3>2. DrawnAll(Memory(d), r.batch)[p] = Memory(d)[p]
        BY <1>6, <1>7, <3>1, DrawnKept DEF DrawnAll
      <3>3. DrawnAll(Memory(r), r.batch)[p] = Memory(r)[p]
        BY <1>6, <1>7, <3>1, DrawnKept DEF DrawnAll
      <3> QED BY <1>5, <1>12, <2>1, <3>2, <3>3
    <2>2. CASE p \notin writes
      <3> DEFINE image == Memory(d)
                 other == Memory(r)
                 commands == r.batch
                 n == Len(r.batch)
      <3>1. image[p] = other[p] /\ n \in Nat
        BY <1>5, <1>6, <2>2
      <3> HIDE DEF image, other, n, commands
      <3>2. DrawnFirst(image, commands, n)[p] = DrawnFirst(other, commands, n)[p]
        BY <3>1, DrawnSame
      <3>3. DrawnAll(Memory(d), r.batch)[p] = DrawnAll(Memory(r), r.batch)[p]
        BY <3>2 DEF DrawnAll, image, other, n, commands
      <3> QED BY <1>5, <1>12, <2>2, <3>3
    <2> QED BY <2>1, <2>2
  <1>14. Settled(d) = d.order
    <2>1. Settled(d) \in PageValues /\ d.order \in PageValues
      BY <1>2, MemoryType DEF Shape, TypedFront
    <2> QED BY <1>12, <1>13, <2>1 DEF PageValues
  <1> QED BY <1>11, <1>14

LEMMA AccessEnds ==
    ASSUME NEW r, NEW u, NEW d, NEW reads \in PageSets, NEW writes \in PageSets,
           Begins(r), u = BeginCpuVramAccess(r, reads, writes),
           d = IF Alive(u)
               THEN NoteCpuWrite(
                        Written(u, writes,
                                \/ u.misread
                                \/ \E p \in reads \cup writes :
                                      u.cpu[p] # u.order[p]),
                        writes)
               ELSE u
    PROVE  Ends(d)
  <1>1. Routes(r, u, r.order) /\ Fine(u) /\ Shape(u) /\ SameFrontend(r, u)
    BY BeginAccessKeeps DEF Begins, Routes, Fine
  <1>2. CASE ~Alive(u)
    <2>1. d = u /\ d.shutDown = r.shutDown
      BY <1>1, <1>2, SMTT(60) DEF SameFrontend
    <2> QED BY <1>1, <1>2, <2>1, ThrewEnds
  <1>3. CASE Alive(u)
    <2>1. /\ u.deferred = <<>> /\ u.queue = <<>> /\ u.tail = NoTail
          /\ Apart(u, reads, writes)
          /\ \A p \in reads \cup writes : u.ledger.gpu[p] <= u.ledger.cpu[p]
      BY <1>3, BeginAccessKeeps DEF Begins
    <2>2. Kept(u, u.order) /\ Captured(u)
      BY <1>1, <1>3 DEF Routes, Begins, SameFrontend
    <2>3. ASSUME NEW p \in reads \cup writes PROVE u.cpu[p] = u.order[p]
      <3>1. p \in Pages /\ \A i \in DOMAIN u.batch : p \notin Writes(u.batch[i])
        BY <2>1 DEF Apart, PageSets
      <3> QED BY <2>1, <2>2, <3>1, ReadsTrue
    <2> DEFINE misread == \/ u.misread
                          \/ \E p \in reads \cup writes : u.cpu[p] # u.order[p]
               x == Written(u, writes, misread)
    <2>4. misread = u.misread
      BY <1>1, <2>3 DEF Shape, TypedFlags
    <2>5. x = Written(u, writes, misread) /\ d = NoteCpuWrite(x, writes)
      BY <1>3
    <2> HIDE DEF misread, x
    <2>6. /\ Shape(x) /\ (Alive(x) <=> Alive(u))
          /\ x.ledger = u.ledger
          /\ x.mode = u.mode /\ x.shutDown = u.shutDown
          /\ x.snapshot = u.snapshot
          /\ SameRouter(u, x) /\ SameBackend(u, x)
      BY <1>1, <2>4, <2>5, WrittenType
    <2>7. Sound(x, writes) /\ Settled(x) = x.order
      BY <2>1, <2>2, <2>4, <2>5, WrittenKeeps
    <2>8. Captured(x)
      BY <2>2, <2>6 DEF Captured, SameBackend, Pipeline
    <2>9. \A p \in writes : x.ledger.gpu[p] <= x.ledger.cpu[p]
      BY <2>1, <2>6
    <2>10. /\ Shape(d) /\ OnlyMoved(x, d) /\ Alive(d)
           /\ Sound(d, {}) /\ Memory(d) = Memory(x)
      BY <1>3, <2>5, <2>6, <2>7, <2>9, NoteKeeps
    <2>11. Settled(d) = Settled(x) /\ Captured(d)
      BY <2>8, <2>10, MovedSettled
    <2>12. /\ d.deferred = <<>> /\ d.tail = NoTail /\ d.active = u.active
           /\ d.queue = u.queue /\ d.batch = u.batch
           /\ d.order = x.order /\ d.shutDown = r.shutDown
      BY <1>1, <2>1, <2>6, <2>10, ZenonT(60)
         DEF OnlyMoved, SameRouter, SameBackend, SameFrontend
    <2>13. Backed(d)
      BY <2>2, <2>12 DEF Kept, Backed
    <2>14. Kept(d, Settled(d))
      BY <2>10, <2>12, <2>13, NoneDeferred
    <2> QED BY <2>7, <2>10, <2>11, <2>12, <2>14 DEF Ends, Begins, Fine, Sound
  <1> QED BY <1>2, <1>3

\* A command as it is submitted, with what its snapshot holds in command order.
Fed(c, feed) == [c EXCEPT !.feed = feed]

LEMMA FedKeeps ==
    ASSUME NEW c \in Commands, NEW feed \in PageValues, NEW s, s = Fed(c, feed)
    PROVE  /\ s \in Commands /\ s.kind = c.kind /\ Writes(s) = Writes(c)
           /\ ~Misread(c.needs, s)
           /\ Drawn(c.needs, s) = Advanced(c.needs, Writes(c))
  <1>1. s \in Commands /\ s.kind = c.kind /\ s.frame = c.frame /\ s.needs = c.needs
    BY DEF Commands, Fed
  <1>2. Writes(s) = Writes(c)
    BY <1>1 DEF Writes
  <1> QED BY <1>1, <1>2 DEF Misread, Drawn, Advanced

LEMMA SubmittedEnds ==
    ASSUME NEW r, NEW u, NEW v, NEW d, NEW c, NEW s \in Commands,
           NEW longEnough \in BOOLEAN, Begins(r),
           Framed(r, u, c, r.order), Alive(u), r.order \in PageValues,
           s.kind = c.kind, ~Misread(r.order, s),
           v = [u EXCEPT !.order = Drawn(r.order, s)],
           d = Submit(v, s, longEnough)
    PROVE  Ends(d)
  <1> DEFINE truth == r.order
             order == Drawn(truth, s)
  <1>1. /\ Kept(u, truth) /\ Fine(u) /\ Shape(u)
        /\ u.mode = r.mode /\ u.shutDown = r.shutDown
        /\ Captured(u) \/ (c.kind = "FeedbackNearest" /\ u.snapshot.onDevice)
        /\ c.kind \in Recursive =>
              /\ u.snapshot.valid
              /\ u.snapshot.onDevice => CanCaptureOnDevice(u, c)
    BY DEF Framed, Kept, Sound
  <1>2. v = [u EXCEPT !.order = order] /\ truth \in PageValues
    OBVIOUS
  <1>3. order \in PageValues
    BY <1>2, DrawnOneType
  <1>4. ~Misread(truth, s)
    OBVIOUS
  <1>5. order = Drawn(truth, s) /\ truth = r.order
    OBVIOUS
  <1> HIDE DEF order, truth
  <1>6. /\ DOMAIN v = Fields /\ v.order = order /\ v.mode = u.mode
        /\ v.inBatch = u.inBatch /\ v.shutDown = u.shutDown
        /\ v.snapshot = u.snapshot /\ v.host = u.host
    BY <1>1, <1>2 DEF Shape, Fields
  <1>7. SameRouter(u, v) /\ SameBackend(u, v)
    BY <1>1, <1>2 DEF Shape, Fields, SameRouter, SameBackend
  <1>8. SameMemory(u, v) /\ SameFlags(u, v)
    BY <1>1, <1>2 DEF Shape, Fields, SameMemory, SameFlags
  <1>9. OnlyFronted(u, v) /\ TypedFront(v)
    BY <1>1, <1>3, <1>6, <1>7, <1>8 DEF OnlyFronted, Shape, TypedFront
  <1>10. Kept(v, truth) /\ (Captured(u) => Captured(v))
    BY <1>1, <1>6, <1>9, FrontedKeeps
  <1>11. Fits(v, s, truth)
    <2>1. v.failed = u.failed
      BY <1>8 DEF SameFlags
    <2> QED BY <1>1, <1>4, <1>6, <2>1 DEF Fits, CanCaptureOnDevice
  <1>12. Routes(v, d, Drawn(truth, s)) /\ Caught(v, d, s)
    BY <1>2, <1>10, <1>11, SubmitKeeps
  <1>13. Fine(d) /\ ~d.shutDown /\ d.order = Drawn(truth, s)
    BY <1>1, <1>5, <1>6, <1>12 DEF Routes, SameFrontend, Begins
  <1>14. ASSUME Alive(d) PROVE Kept(d, d.order) /\ Captured(d)
    BY <1>1, <1>6, <1>10, <1>12, <1>13, <1>14 DEF Routes, Caught
  <1> QED BY <1>13, <1>14 DEF Ends

LEMMA DrawEnds ==
    ASSUME NEW r, NEW t, NEW u, NEW d, NEW c \in Commands,
           NEW longEnough \in BOOLEAN, Begins(r), c.needs = r.order,
           t = [r EXCEPT !.inBatch = TRUE], u = PrepareFeedbackSnapshot(t, c),
           d = IF Alive(u)
               THEN Submit([u EXCEPT !.order = Advanced(r.order, Writes(c))],
                           Fed(c, u.snapshot.truth), longEnough)
               ELSE u
    PROVE  Ends(d)
  <1>1. Shape(r) /\ Kept(r, r.order) /\ Captured(r) /\ r.order \in PageValues
    BY DEF Begins, Kept, Sound, Shape, TypedFront
  <1>2. /\ DOMAIN t = Fields /\ t.order = r.order /\ t.mode = r.mode
        /\ t.inBatch = TRUE /\ t.shutDown = r.shutDown
        /\ t.snapshot = r.snapshot /\ t.host = r.host
    BY <1>1 DEF Shape, Fields
  <1>3. SameRouter(r, t) /\ SameBackend(r, t)
    BY <1>1 DEF Shape, Fields, SameRouter, SameBackend
  <1>4. SameMemory(r, t) /\ SameFlags(r, t)
    BY <1>1 DEF Shape, Fields, SameMemory, SameFlags
  <1>5. OnlyFronted(r, t) /\ TypedFront(t)
    BY <1>1, <1>2, <1>3, <1>4 DEF OnlyFronted, Shape, TypedFront
  <1>6. Kept(t, t.order) /\ Captured(t) /\ Begins(t)
    BY <1>1, <1>2, <1>5, FrontedKeeps DEF Begins
  <1> DEFINE truth == t.order
  <1>7. truth = t.order /\ truth = r.order /\ Kept(t, truth)
    BY <1>2, <1>6
  <1> HIDE DEF truth
  <1>8. Framed(t, u, c, truth)
    BY <1>6, <1>7, FeedbackKeeps
  <1>9. Fine(u) /\ Shape(u) /\ u.shutDown = t.shutDown
    BY <1>8 DEF Framed, Fine
  <1>10. CASE ~Alive(u)
    BY <1>6, <1>9, <1>10, ThrewEnds
  <1>11. CASE Alive(u)
    <2> DEFINE feed == u.snapshot.truth
               s == Fed(c, feed)
               v == [u EXCEPT !.order = Drawn(t.order, s)]
    <2>1. feed \in PageValues
      BY <1>9 DEF Shape, TypedFront, Snapshots
    <2>2. s = Fed(c, feed)
      OBVIOUS
    <2>3. v = [u EXCEPT !.order = Drawn(t.order, s)]
      OBVIOUS
    <2> HIDE DEF feed, s
    <2>4. /\ s \in Commands /\ s.kind = c.kind /\ ~Misread(c.needs, s)
          /\ Drawn(c.needs, s) = Advanced(c.needs, Writes(c))
      BY <2>1, <2>2, FedKeeps
    <2>5. d = Submit(v, s, longEnough)
      BY <1>7, <1>11, <2>2, <2>4 DEF feed
    <2> HIDE DEF v
    <2>6. /\ Framed(t, u, c, t.order) /\ t.order \in PageValues
          /\ ~Misread(t.order, s)
      BY <1>1, <1>7, <1>8, <2>4
    <2> QED BY <1>6, <1>11, <2>3, <2>4, <2>5, <2>6, SubmittedEnds, ZenonT(60)
  <1> QED BY <1>10, <1>11

-----------------------------------------------------------------------------
(* The destructor.                                                          *)

Rearmed(r) == [r EXCEPT !.threw = FALSE]

Stopped(r, threw) == [r EXCEPT !.threw = threw, !.active = "None"]

Destroyed(r, misread) == [r EXCEPT !.shutDown = TRUE, !.misread = misread]

LEMMA RearmedType ==
    ASSUME NEW r, NEW d, Shape(r), d = Rearmed(r)
    PROVE  /\ Shape(d) /\ (Alive(d) <=> ~r.recursing) /\ SameFrontend(r, d)
           /\ ~r.threw => OnlyFronted(r, d) /\ TypedFront(d)
  <1>1. DOMAIN d = Fields /\ SameFrontend(r, d)
    BY DEF Rearmed, Shape, Fields, SameFrontend
  <1>2. SameRouter(r, d) /\ SameBackend(r, d)
    BY DEF Rearmed, Shape, Fields, SameRouter, SameBackend
  <1>3. SameMemory(r, d)
    BY DEF Rearmed, Shape, Fields, SameMemory
  <1>4. /\ d.failed = r.failed /\ d.recursing = r.recursing /\ d.threw = FALSE
        /\ d.broken = r.broken /\ d.misread = r.misread /\ d.misfed = r.misfed
    BY DEF Rearmed, Shape, Fields
  <1>5. TypedFlags(d)
    BY <1>4 DEF Shape, TypedFlags
  <1>6. Shape(d)
    <2>1. /\ TypedBackend(d) /\ TypedMemory(d) /\ Len(d.batch) <= MaxBatch /\ ~d.broken
      BY <1>2, <1>3, <1>4, TypedSame DEF Shape
    <2> QED BY <1>1, <1>2, <1>5, <2>1, ShapeOfBackend
  <1>7. ~r.threw => SameFlags(r, d)
    BY <1>4 DEF SameFlags, Shape, TypedFlags
  <1>8. TypedFront(d)
    BY <1>6 DEF Shape
  <1> QED
    BY <1>1, <1>2, <1>3, <1>4, <1>6, <1>7, <1>8
       DEF OnlyFronted, SameFrontend, Alive

LEMMA StoppedType ==
    ASSUME NEW r, NEW d, NEW threw \in BOOLEAN, Shape(r), d = Stopped(r, threw)
    PROVE  /\ Shape(d) /\ SameFrontend(r, d) /\ SameBackend(r, d) /\ SameMemory(r, d)
           /\ d.active = "None" /\ d.deferred = r.deferred
           /\ d.tail = r.tail /\ d.queue = r.queue
           /\ d.threw = threw /\ d.recursing = r.recursing /\ d.failed = r.failed
           /\ d.misread = r.misread /\ d.misfed = r.misfed /\ d.broken = r.broken
  <1>1. DOMAIN d = Fields /\ SameFrontend(r, d)
    BY DEF Stopped, Shape, Fields, SameFrontend
  <1>2. SameBackend(r, d) /\ SameMemory(r, d)
    BY DEF Stopped, Shape, Fields, SameBackend, SameMemory
  <1>3. /\ d.active = "None" /\ d.deferred = r.deferred
        /\ d.tail = r.tail /\ d.queue = r.queue
        /\ d.threw = threw /\ d.recursing = r.recursing /\ d.failed = r.failed
        /\ d.misread = r.misread /\ d.misfed = r.misfed /\ d.broken = r.broken
    BY DEF Stopped, Shape, Fields
  <1>4. TypedRouter(d) /\ TypedFlags(d)
    BY <1>3 DEF Shape, TypedRouter, TypedFlags, Backends
  <1>5. Shape(d)
    <2>1. /\ TypedBackend(d) /\ TypedMemory(d) /\ Len(d.batch) <= MaxBatch /\ ~d.broken
      BY <1>2, <1>3, TypedSame DEF Shape
    <2> QED BY <1>1, <1>3, <1>4, <2>1, ShapeOfRouter
  <1> QED BY <1>1, <1>2, <1>3, <1>5

LEMMA DestroyedType ==
    ASSUME NEW r, NEW d, NEW misread \in BOOLEAN, Shape(r), d = Destroyed(r, misread)
    PROVE  /\ Shape(d) /\ SameRouter(r, d) /\ SameBackend(r, d) /\ SameMemory(r, d)
           /\ d.mode = r.mode /\ d.inBatch = r.inBatch /\ d.shutDown
           /\ d.snapshot = r.snapshot /\ d.host = r.host /\ d.order = r.order
           /\ d.threw = r.threw /\ d.recursing = r.recursing /\ d.failed = r.failed
           /\ d.misread = misread /\ d.misfed = r.misfed /\ d.broken = r.broken
           /\ DOMAIN d = Fields /\ TypedFront(d)
  <1>1. /\ d.mode = r.mode /\ d.inBatch = r.inBatch /\ d.shutDown = TRUE
        /\ d.snapshot = r.snapshot /\ d.host = r.host /\ d.order = r.order
        /\ DOMAIN d = Fields
    BY DEF Destroyed, Shape, Fields
  <1>2. SameRouter(r, d) /\ SameBackend(r, d)
    BY DEF Destroyed, Shape, Fields, SameRouter, SameBackend
  <1>3. SameMemory(r, d)
    BY DEF Destroyed, Shape, Fields, SameMemory
  <1>4. /\ d.threw = r.threw /\ d.recursing = r.recursing /\ d.failed = r.failed
        /\ d.misread = misread /\ d.misfed = r.misfed /\ d.broken = r.broken
    BY DEF Destroyed, Shape, Fields
  <1>5. TypedFlags(d) /\ TypedFront(d)
    BY <1>1, <1>4, ZenonT(60) DEF Shape, TypedFlags, TypedFront
  <1>6. /\ TypedRouter(d) /\ TypedBackend(d) /\ TypedMemory(d)
        /\ Len(d.batch) <= MaxBatch
    BY <1>2, <1>3, TypedSame
  <1>7. /\ d.deferred = r.deferred /\ (OnHost(d) <=> OnHost(r))
    BY <1>1, <1>2 DEF SameRouter, OnHost
  <1>8. Shape(d)
    BY <1>1, <1>4, <1>5, <1>6, <1>7 DEF Shape
  <1> QED BY <1>1, <1>2, <1>3, <1>4, <1>5, <1>8

\* What the destructor leaves.
Gone(d) ==
    /\ Shape(d) /\ ~d.misread /\ d.shutDown
    /\ Alive(d) => d.deferred = <<>>
    /\ Alive(d) /\ ~d.failed =>
          Kept(d, d.order) /\ Captured(d) /\ d.cpu = d.order

\* The steps of the destructor of q: rearmed, settled and rendered, fetched.
Destructs(q, r, u, w, s, d) ==
    /\ r = Rearmed(q)
    /\ u = RenderQueued(Settle(r))
    /\ w = PrepareCpuVramAccess(u, Pages, Pages)
    /\ s = IF Alive(u) THEN Stopped(w, q.threw) ELSE u
    /\ d = Destroyed(s, IF q.threw THEN q.misread ELSE s.misread)

LEMMA DestructsShape ==
    ASSUME NEW q, NEW r, NEW u, NEW w, NEW s, NEW d, Shape(q),
           Destructs(q, r, u, w, s, d)
    PROVE  /\ Shape(r) /\ Shape(u) /\ Shape(w) /\ Shape(s) /\ Shape(d)
           /\ Alive(u) => u.deferred = <<>> /\ w.deferred = <<>>
           /\ ~Alive(w) => ~Alive(u) \/ w.failed
           /\ Alive(d) => Alive(u) /\ ~q.threw /\ d.deferred = <<>>
           /\ d.shutDown /\ d.failed = s.failed
           /\ d.misread = IF q.threw THEN q.misread ELSE s.misread
  <1> DEFINE settled == Settle(r)
             reads == Pages
             writes == Pages
             misread == IF q.threw THEN q.misread ELSE s.misread
             threw == q.threw
  <1>1. /\ r = Rearmed(q) /\ settled = Settle(r) /\ u = RenderQueued(settled)
        /\ w = PrepareCpuVramAccess(u, reads, writes)
        /\ reads \in PageSets /\ writes \in PageSets
        /\ s = IF Alive(u) THEN Stopped(w, threw) ELSE u
        /\ d = Destroyed(s, misread) /\ threw \in BOOLEAN
    BY DEF Destructs, PageSets, Shape, TypedFlags
  <1>2. misread = IF q.threw THEN q.misread ELSE s.misread
    OBVIOUS
  <1> HIDE DEF settled, reads, writes, misread
  <1>3. Shape(r)
    BY <1>1, RearmedType
  <1>4. Shape(settled) /\ (Alive(settled) => settled.deferred = <<>>)
    BY <1>1, <1>3, SettleShape
  <1>5. Shape(u) /\ Follows(settled, u)
    BY <1>1, <1>4, RenderQueuedGoes
  <1>6. Alive(u) => u.deferred = <<>>
    BY <1>4, <1>5 DEF Follows
  <1>7. Shape(w) /\ Follows(u, w) /\ (~Alive(w) => ~Alive(u) \/ w.failed)
    BY <1>1, <1>5, PrepareGoes
  <1>8. Alive(u) => w.deferred = <<>>
    BY <1>6, <1>7 DEF Follows
  <1> HIDE DEF threw
  <1>9. /\ Shape(s)
        /\ Alive(u) => s.threw = threw /\ s.deferred = w.deferred
    <2>1. CASE Alive(u)
      <3>1. s = Stopped(w, threw)
        BY <1>1, <2>1
      <3> QED BY <1>1, <1>7, <3>1, StoppedType
    <2>2. CASE ~Alive(u)
      BY <1>1, <1>5, <2>2
    <2> QED BY <2>1, <2>2
  <1>10. misread \in BOOLEAN
    BY <1>2, <1>9 DEF Shape, TypedFlags
  <1>11. /\ Shape(d) /\ SameRouter(s, d) /\ d.shutDown
         /\ d.threw = s.threw /\ d.recursing = s.recursing /\ d.failed = s.failed
         /\ d.misread = misread
    BY <1>1, <1>9, <1>10, DestroyedType
  <1>12. ASSUME Alive(d) PROVE Alive(u) /\ ~threw /\ d.deferred = <<>>
    <2>1. Alive(s) /\ d.deferred = s.deferred
      BY <1>11, <1>12 DEF Alive, SameRouter
    <2>2. Alive(u)
      BY <1>1, <2>1
    <2> QED BY <1>8, <1>9, <2>1, <2>2 DEF Alive
  <1> QED
    BY <1>2, <1>3, <1>5, <1>6, <1>7, <1>8, <1>9, <1>11, <1>12 DEF threw

LEMMA DestructsThrown ==
    ASSUME NEW q, NEW r, NEW u, NEW w, NEW s, NEW d, Shape(q),
           q.threw, ~q.misread, Destructs(q, r, u, w, s, d)
    PROVE  Gone(d)
  BY DestructsShape DEF Gone

LEMMA DestructsKept ==
    ASSUME NEW q, NEW r, NEW u, NEW w, NEW s, NEW d, Begins(q),
           Destructs(q, r, u, w, s, d)
    PROVE  Gone(d)
  <1>1. Shape(q) /\ Alive(q) /\ ~q.threw /\ ~q.recursing
    BY DEF Begins, Kept, Sound, Alive
  <1>2. /\ Shape(r) /\ Shape(u) /\ Shape(w) /\ Shape(s) /\ Shape(d)
        /\ ~Alive(w) => ~Alive(u) \/ w.failed
        /\ Alive(d) => Alive(u) /\ d.deferred = <<>>
        /\ d.shutDown /\ d.failed = s.failed /\ d.misread = s.misread
    BY <1>1, DestructsShape
  <1> DEFINE settled == Settle(r)
             reads == Pages
             writes == Pages
             x == FlushCanonical(r)
             truth == r.order
  <1>3. /\ r = Rearmed(q) /\ settled = Settle(r) /\ u = RenderQueued(settled)
        /\ w = PrepareCpuVramAccess(u, reads, writes)
        /\ reads \in PageSets /\ writes \in PageSets
        /\ x = Deactivate(w) /\ x = FlushCanonical(r)
        /\ s = IF Alive(u) THEN Stopped(w, q.threw) ELSE u
        /\ d = Destroyed(s, IF q.threw THEN q.misread ELSE s.misread)
    BY DEF Destructs, PageSets, FlushCanonical
  <1>4. truth = r.order
    OBVIOUS
  <1> HIDE DEF settled, reads, writes, x, truth
  <1>5. Kept(r, truth) /\ Captured(r)
    <2>1. OnlyFronted(q, r) /\ TypedFront(r) /\ SameFrontend(q, r)
      BY <1>1, <1>3, RearmedType
    <2>2. r.mode = q.mode /\ r.order = q.order
      BY <2>1 DEF SameFrontend
    <2> QED BY <1>1, <1>4, <2>1, <2>2, FrontedKeeps DEF Begins
  <1>6. Routes(r, settled, truth) /\ Fine(settled)
    BY <1>3, <1>5, SettleKeeps DEF Routes
  <1>7. Fine(u)
    <2>1. Alive(settled) => Backed(settled)
      BY <1>6 DEF Routes, Kept
    <2> QED BY <1>3, <1>6, <2>1, SettledRendered DEF Goes
  <1>8. Goes(u, w) /\ Fine(w)
    BY <1>2, <1>3, <1>7, PrepareGoes DEF Goes
  <1>9. ~d.misread
    <2>1. CASE ~Alive(u)
      BY <1>2, <1>3, <1>7, <2>1 DEF Fine
    <2>2. CASE Alive(u)
      <3> DEFINE threw == q.threw
      <3>1. s = Stopped(w, threw) /\ threw \in BOOLEAN
        BY <1>1, <1>3, <2>2 DEF Shape, TypedFlags
      <3> HIDE DEF threw
      <3> QED BY <1>2, <1>8, <3>1, StoppedType DEF Fine
    <2> QED BY <2>1, <2>2
  <1>10. ASSUME Alive(d), ~d.failed
         PROVE  Kept(d, d.order) /\ Captured(d) /\ d.cpu = d.order
    <2> DEFINE threw == q.threw
               misread == IF q.threw THEN q.misread ELSE s.misread
    <2>1. /\ s = Stopped(w, threw) /\ d = Destroyed(s, misread)
          /\ threw = FALSE /\ misread = s.misread
          /\ threw \in BOOLEAN /\ misread \in BOOLEAN
      BY <1>1, <1>2, <1>3, <1>10, ZenonT(60) DEF Shape, TypedFlags
    <2> HIDE DEF threw, misread
    <2>2. /\ SameFrontend(w, s) /\ SameBackend(w, s) /\ SameMemory(w, s)
          /\ s.active = "None" /\ s.deferred = w.deferred
          /\ s.tail = w.tail /\ s.queue = w.queue
          /\ s.threw = threw /\ s.recursing = w.recursing /\ s.failed = w.failed
          /\ s.misread = w.misread /\ s.misfed = w.misfed /\ s.broken = w.broken
      BY <1>2, <2>1, StoppedType
    <2>3. /\ SameRouter(s, d) /\ SameBackend(s, d) /\ SameMemory(s, d)
          /\ d.mode = s.mode
          /\ d.snapshot = s.snapshot /\ d.host = s.host /\ d.order = s.order
          /\ d.threw = s.threw /\ d.recursing = s.recursing /\ d.failed = s.failed
          /\ d.misread = misread /\ d.misfed = s.misfed /\ d.broken = s.broken
          /\ DOMAIN d = Fields /\ TypedFront(d)
      BY <1>2, <2>1, DestroyedType
    <2>4. Alive(w) /\ ~w.threw
      BY <1>2, <1>10, <2>2, <2>3 DEF Alive
    <2>5. x = [w EXCEPT !.active = "None"]
      BY <1>3, <2>4 DEF Deactivate, Activate
    <2>6. /\ DOMAIN x = Fields /\ SameFrontend(w, x) /\ SameBackend(w, x)
          /\ SameMemory(w, x) /\ SameFlags(w, x)
      <3>1. DOMAIN x = Fields /\ SameFrontend(w, x)
        BY <1>2, <2>5 DEF Shape, Fields, SameFrontend
      <3>2. SameBackend(w, x) /\ SameMemory(w, x)
        BY <1>2, <2>5 DEF Shape, Fields, SameBackend, SameMemory
      <3>3. SameFlags(w, x)
        BY <1>2, <2>5 DEF Shape, Fields, SameFlags
      <3> QED BY <3>1, <3>2, <3>3
    <2>7. /\ x.active = "None" /\ x.deferred = w.deferred
          /\ x.tail = w.tail /\ x.queue = w.queue
      BY <1>2, <2>5 DEF Shape, Fields
    <2>8. Alive(x)
      BY <2>4, <2>6 DEF Alive, SameFlags
    <2>9. OnlyFronted(x, d) /\ d.mode = x.mode /\ d.order = x.order
      <3>1. SameRouter(x, d)
        BY <2>2, <2>3, <2>7 DEF SameRouter
      <3>2. SameBackend(x, d) /\ SameMemory(x, d)
        BY <2>2, <2>3, <2>6 DEF SameBackend, SameMemory
      <3>3. w.threw = FALSE
        BY <1>2, <2>4 DEF Shape, TypedFlags
      <3>4. SameFlags(x, d)
        BY <2>1, <2>2, <2>3, <2>6, <3>3 DEF SameFlags
      <3>5. /\ d.snapshot = x.snapshot /\ d.host = x.host
            /\ d.mode = x.mode /\ d.order = x.order
        BY <2>2, <2>3, <2>6 DEF SameFrontend
      <3> QED BY <2>3, <3>1, <3>2, <3>4, <3>5 DEF OnlyFronted
    <2>10. /\ Routes(r, x, truth)
           /\ x.deferred = <<>> /\ x.queue = <<>> /\ x.batch = <<>>
           /\ \A p \in Pages : x.ledger.gpu[p] <= x.ledger.cpu[p]
      BY <1>3, <1>5, <2>8, FlushCanonicalKeeps
    <2>11. /\ Kept(x, truth) /\ Captured(x) /\ Shape(x) /\ x.order = truth
      BY <1>4, <1>5, <2>8, <2>10 DEF Routes, SameFrontend, Fine
    <2>12. Kept(d, truth) /\ Captured(d)
      BY <2>3, <2>9, <2>11, FrontedKeeps
    <2>13. d.cpu = x.cpu /\ d.order = truth
      BY <2>9, <2>11 DEF OnlyFronted, SameMemory
    <2>14. x.cpu = truth
      <3>1. \A p \in Pages : x.cpu[p] = truth[p]
        BY <2>10, <2>11, ReadsOrder
      <3>2. x.cpu \in PageValues /\ truth \in PageValues
        BY <2>11 DEF Shape, TypedMemory, TypedFront
      <3> QED BY <3>1, <3>2 DEF PageValues
    <2> QED BY <2>12, <2>13, <2>14, SMTT(60)
  <1> QED BY <1>2, <1>9, <1>10 DEF Gone

-----------------------------------------------------------------------------
(* Every step keeps the invariant.                                          *)

LEMMA DrawStep ==
    ASSUME RInv, Draw
    PROVE  RInv'
  <1>1. Calling
    BY DEF Draw
  <1> DEFINE
        Drew(kind, frame, sampled, depth, longEnough, serves) ==
            LET c == [kind |-> kind, frame |-> frame, sampled |-> sampled,
                      depth |-> depth, needs |-> renderer.order,
                      feed |-> [p \in Pages |-> 0]]
                r == [renderer EXCEPT !.serves = serves]
                u == PrepareFeedbackSnapshot([r EXCEPT !.inBatch = TRUE], c)
            IN  renderer' =
                    [(IF Alive(u)
                      THEN Submit([u EXCEPT !.order =
                                       Advanced(renderer.order, Writes(c))],
                                  [c EXCEPT !.feed = u.snapshot.truth],
                                  longEnough)
                      ELSE u) EXCEPT !.serves = 0]
  <1>2. \E kind \in Kinds, frame \in Pages, sampled \in SUBSET Pages,
           depth \in {1, 2}, longEnough \in BOOLEAN :
            /\ sampled \in Textures(kind, frame)
            /\ depth \in Depths(kind)
            /\ \E serves \in Serves :
                  Drew(kind, frame, sampled, depth, longEnough, serves)
    BY Zenon DEF Draw, Call, Then
  <1> HIDE DEF Drew
  <1>3. PICK kind \in Kinds, frame \in Pages, sampled \in SUBSET Pages,
             depth \in {1, 2}, longEnough \in BOOLEAN, serves \in Serves :
            Drew(kind, frame, sampled, depth, longEnough, serves)
    BY <1>2
  <1> DEFINE c == [kind |-> kind, frame |-> frame, sampled |-> sampled,
                   depth |-> depth, needs |-> renderer.order,
                   feed |-> [p \in Pages |-> 0]]
             r == [renderer EXCEPT !.serves = serves]
             t == [r EXCEPT !.inBatch = TRUE]
             u == PrepareFeedbackSnapshot(t, c)
             d == IF Alive(u)
                  THEN Submit([u EXCEPT !.order = Advanced(r.order, Writes(c))],
                              Fed(c, u.snapshot.truth), longEnough)
                  ELSE u
  <1>4. c \in Commands /\ c.needs = renderer.order
    <2>1. renderer.order \in PageValues /\ [p \in Pages |-> 0] \in PageValues
      BY DEF RInv, Shape, TypedFront, PageValues
    <2> QED BY <2>1 DEF Commands, PageSets
  <1>5. r = [renderer EXCEPT !.serves = serves]
    OBVIOUS
  <1>6. renderer' = [(IF Alive(u)
                      THEN Submit([u EXCEPT !.order =
                                       Advanced(renderer.order, Writes(c))],
                                  Fed(c, u.snapshot.truth), longEnough)
                      ELSE u) EXCEPT !.serves = 0]
    BY <1>3 DEF Fed, Drew
  <1>7. t = [r EXCEPT !.inBatch = TRUE] /\ u = PrepareFeedbackSnapshot(t, c)
    OBVIOUS
  <1>8. d = IF Alive(u)
            THEN Submit([u EXCEPT !.order = Advanced(r.order, Writes(c))],
                        Fed(c, u.snapshot.truth), longEnough)
            ELSE u
    OBVIOUS
  <1> HIDE DEF c, r, t, u, d
  <1>9. Begins(r) /\ r.order = renderer.order
    BY <1>1, <1>5, CallBegins
  <1>10. Ends(d)
    BY <1>4, <1>7, <1>8, <1>9, DrawEnds
  <1>11. renderer' = [d EXCEPT !.serves = 0]
    BY <1>6, <1>8, <1>9
  <1> QED BY <1>1, <1>10, <1>11, CallEnds

LEMMA AccessStep ==
    ASSUME RInv, AccessCpuVram
    PROVE  RInv'
  <1>1. Calling
    BY DEF AccessCpuVram
  <1>2. PICK reads \in SUBSET Pages, writes \in SUBSET Pages, serves \in Serves :
            LET r == [renderer EXCEPT !.serves = serves]
                u == BeginCpuVramAccess(r, reads, writes)
            IN  renderer' =
                    [(IF Alive(u)
                      THEN NoteCpuWrite(
                               Written(u, writes,
                                       \/ u.misread
                                       \/ \E page \in reads \cup writes :
                                             u.cpu[page] # u.order[page]),
                               writes)
                      ELSE u) EXCEPT !.serves = 0]
    BY DEF AccessCpuVram, Call, Then, Written
  <1> DEFINE r == [renderer EXCEPT !.serves = serves]
             u == BeginCpuVramAccess(r, reads, writes)
             d == IF Alive(u)
                  THEN NoteCpuWrite(
                           Written(u, writes,
                                   \/ u.misread
                                   \/ \E p \in reads \cup writes :
                                         u.cpu[p] # u.order[p]),
                           writes)
                  ELSE u
  <1>3. /\ r = [renderer EXCEPT !.serves = serves]
        /\ u = BeginCpuVramAccess(r, reads, writes)
        /\ renderer' = [d EXCEPT !.serves = 0]
        /\ reads \in PageSets /\ writes \in PageSets
    BY <1>2 DEF PageSets
  <1>4. d = IF Alive(u)
            THEN NoteCpuWrite(
                     Written(u, writes,
                             \/ u.misread
                             \/ \E p \in reads \cup writes : u.cpu[p] # u.order[p]),
                     writes)
            ELSE u
    OBVIOUS
  <1> HIDE DEF r, u, d
  <1>5. Begins(r)
    BY <1>1, <1>3, CallBegins
  <1>6. Ends(d)
    BY <1>3, <1>4, <1>5, AccessEnds
  <1> QED BY <1>1, <1>3, <1>6, CallEnds

LEMMA FlushStep ==
    ASSUME RInv, Flush
    PROVE  RInv'
  <1>1. Calling
    BY DEF Flush
  <1>2. PICK ends \in BOOLEAN, serves \in Serves :
            LET u == FlushCanonical([renderer EXCEPT !.serves = serves])
            IN  renderer' =
                    [(IF Alive(u) THEN [u EXCEPT !.inBatch = @ /\ ~ends] ELSE u)
                         EXCEPT !.serves = 0]
    BY DEF Flush, Call, Then
  <1> DEFINE r == [renderer EXCEPT !.serves = serves]
             u == FlushCanonical(r)
             d == IF Alive(u) THEN [u EXCEPT !.inBatch = @ /\ ~ends] ELSE u
  <1>3. /\ r = [renderer EXCEPT !.serves = serves] /\ u = FlushCanonical(r)
        /\ renderer' = [d EXCEPT !.serves = 0]
    BY <1>2
  <1>4. d = IF Alive(u) THEN [u EXCEPT !.inBatch = @ /\ ~ends] ELSE u
    OBVIOUS
  <1> HIDE DEF r, u, d
  <1>5. Begins(r)
    BY <1>1, <1>3, CallBegins
  <1>6. Ends(d)
    BY <1>3, <1>4, <1>5, FlushEnds
  <1> QED BY <1>1, <1>3, <1>6, CallEnds

LEMMA PresentStep ==
    ASSUME RInv, Present
    PROVE  RInv'
  <1>1. Calling
    BY DEF Present
  <1>2. PICK page \in Pages, serves \in Serves :
            LET u == FlushForCpuReadback([renderer EXCEPT !.serves = serves], {page})
            IN  renderer' =
                    [(IF Alive(u)
                      THEN [u EXCEPT !.misread =
                                u.misread \/ u.cpu[page] # u.order[page]]
                      ELSE u) EXCEPT !.serves = 0]
    BY DEF Present, Call, Then
  <1> DEFINE r == [renderer EXCEPT !.serves = serves]
             u == FlushForCpuReadback(r, {page})
             d == IF Alive(u)
                  THEN [u EXCEPT !.misread = u.misread \/ u.cpu[page] # u.order[page]]
                  ELSE u
  <1>3. /\ r = [renderer EXCEPT !.serves = serves]
        /\ u = FlushForCpuReadback(r, {page})
        /\ renderer' = [d EXCEPT !.serves = 0]
    BY <1>2
  <1>4. d = IF Alive(u)
            THEN [u EXCEPT !.misread = u.misread \/ u.cpu[page] # u.order[page]]
            ELSE u
    OBVIOUS
  <1> HIDE DEF r, u, d
  <1>5. Begins(r)
    BY <1>1, <1>3, CallBegins
  <1>6. Ends(d)
    BY <1>3, <1>4, <1>5, PresentEnds
  <1> QED BY <1>1, <1>3, <1>6, CallEnds

LEMMA EndSubmissionStep ==
    ASSUME RInv, EndDrawSubmissionBatch
    PROVE  RInv'
  <1>1. Calling
    BY DEF EndDrawSubmissionBatch
  <1>2. PICK serves \in Serves :
            renderer' =
                [[FlushSoftware([renderer EXCEPT !.serves = serves])
                      EXCEPT !.inBatch = FALSE] EXCEPT !.serves = 0]
    BY DEF EndDrawSubmissionBatch, Call
  <1> DEFINE r == [renderer EXCEPT !.serves = serves]
             u == FlushSoftware(r)
             d == [u EXCEPT !.inBatch = FALSE]
  <1>3. /\ r = [renderer EXCEPT !.serves = serves]
        /\ u = FlushSoftware(r) /\ d = [u EXCEPT !.inBatch = FALSE]
        /\ renderer' = [d EXCEPT !.serves = 0]
    BY <1>2
  <1> HIDE DEF r, u, d
  <1>4. Begins(r)
    BY <1>1, <1>3, CallBegins
  <1>5. Ends(d)
    BY <1>3, <1>4, EndSubmissionEnds
  <1> QED BY <1>1, <1>3, <1>5, CallEnds

LEMMA SetModeStep ==
    ASSUME RInv, SetRendererMode
    PROVE  RInv'
  <1>1. Calling
    BY DEF SetRendererMode
  <1>2. PICK mode \in Modes \ {renderer.mode}, serves \in Serves :
            LET u == PrepareCpuVramAccess(
                         FlushActive([renderer EXCEPT !.serves = serves]),
                         Pages, Pages)
            IN  renderer' = [(IF Alive(u) THEN [u EXCEPT !.mode = mode] ELSE u)
                                 EXCEPT !.serves = 0]
    BY DEF SetRendererMode, Call, Then
  <1> DEFINE r == [renderer EXCEPT !.serves = serves]
             u == PrepareCpuVramAccess(FlushActive(r), Pages, Pages)
             d == IF Alive(u) THEN [u EXCEPT !.mode = mode] ELSE u
  <1>3. /\ r = [renderer EXCEPT !.serves = serves]
        /\ u = PrepareCpuVramAccess(FlushActive(r), Pages, Pages)
        /\ renderer' = [d EXCEPT !.serves = 0]
    BY <1>2
  <1>4. d = IF Alive(u) THEN [u EXCEPT !.mode = mode] ELSE u
    OBVIOUS
  <1> HIDE DEF r, u, d
  <1>5. Begins(r)
    BY <1>1, <1>3, CallBegins
  <1>6. Ends(d)
    BY <1>3, <1>4, <1>5, SetModeEnds
  <1> QED BY <1>1, <1>3, <1>6, CallEnds

LEMMA ShutdownStep ==
    ASSUME RInv, Shutdown
    PROVE  RInv'
  <1>1. ~renderer.shutDown /\ ~renderer.recursing /\ operations' = operations
    BY DEF Shutdown
  <1>2. PICK serves \in Serves :
            LET q == [renderer EXCEPT !.serves = serves]
                r == [q EXCEPT !.threw = FALSE]
                u == RenderQueued(Settle(r))
                w == PrepareCpuVramAccess(u, Pages, Pages)
                s == IF Alive(u)
                     THEN [w EXCEPT !.threw = renderer.threw, !.active = "None"]
                     ELSE u
            IN  renderer' =
                    [[s EXCEPT !.shutDown = TRUE,
                               !.misread = IF renderer.threw THEN renderer.misread
                                           ELSE @]
                         EXCEPT !.serves = 0]
    BY DEF Shutdown, Call, Then
  <1> DEFINE q == [renderer EXCEPT !.serves = serves]
             r == Rearmed(q)
             u == RenderQueued(Settle(r))
             w == PrepareCpuVramAccess(u, Pages, Pages)
             s == IF Alive(u) THEN Stopped(w, q.threw) ELSE u
             d == Destroyed(s, IF q.threw THEN q.misread ELSE s.misread)
  <1>3. Shape(renderer) /\ q = [renderer EXCEPT !.serves = serves]
    BY DEF RInv
  <1> HIDE DEF q
  <1>4. OnlyFronted(renderer, q) /\ SameFrontend(renderer, q) /\ TypedFront(q)
    BY <1>3, ServedKeeps
  <1>5. /\ Shape(q) /\ (Alive(q) <=> Alive(renderer))
        /\ q.threw = renderer.threw /\ q.misread = renderer.misread
    BY <1>3, <1>4, FrontedKeeps DEF OnlyFronted, SameFlags
  <1>6. renderer' = [d EXCEPT !.serves = 0]
    <2>1. r = [q EXCEPT !.threw = FALSE]
      BY DEF Rearmed
    <2> HIDE DEF r
    <2>2. s = IF Alive(u) THEN [w EXCEPT !.threw = renderer.threw, !.active = "None"]
              ELSE u
      BY <1>5 DEF Stopped
    <2> HIDE DEF s
    <2>3. DOMAIN s = Fields
      <3>1. Destructs(q, r, u, w, s, d)
        BY DEF Destructs, r, s
      <3> QED BY <1>5, <3>1, DestructsShape DEF Shape
    <2>4. renderer' =
              [[s EXCEPT !.shutDown = TRUE,
                         !.misread = IF renderer.threw THEN renderer.misread ELSE @]
                   EXCEPT !.serves = 0]
      BY <1>2, <1>3, <2>1, <2>2
    <2> DEFINE misread == IF q.threw THEN q.misread ELSE s.misread
    <2>5. [s EXCEPT !.shutDown = TRUE,
                    !.misread = IF renderer.threw THEN renderer.misread ELSE @] =
              Destroyed(s, misread)
      BY <1>5, <2>3 DEF Destroyed, Fields
    <2> QED BY <2>4, <2>5
  <1>7. Destructs(q, r, u, w, s, d)
    BY DEF Destructs
  <1> HIDE DEF r, u, w, s, d
  <1>8. Gone(d)
    <2>1. CASE q.threw
      <3>1. ~q.misread
        BY <1>5 DEF RInv
      <3> QED BY <1>5, <1>7, <2>1, <3>1, DestructsThrown
    <2>2. CASE ~q.threw
      <3>1. Alive(renderer) /\ Kept(renderer, renderer.order) /\ Captured(renderer)
        BY <1>1, <1>5, <2>2 DEF RInv, Alive, Whole, Kept
      <3>2. q.mode = renderer.mode /\ q.order = renderer.order /\ ~q.shutDown
        BY <1>1, <1>4 DEF SameFrontend
      <3>3. Begins(q)
        BY <1>3, <1>4, <3>1, <3>2, FrontedKeeps DEF Begins
      <3> QED BY <1>7, <3>3, DestructsKept
    <2> QED BY <2>1, <2>2
  <1> DEFINE e == renderer'
  <1>9. e = [d EXCEPT !.serves = 0] /\ Shape(d)
    BY <1>6, <1>8 DEF Gone
  <1> HIDE DEF e
  <1>10. OnlyFronted(d, e) /\ SameFrontend(d, e) /\ TypedFront(e)
    BY <1>9, ServedKeeps
  <1>11. /\ Shape(e) /\ (Alive(e) <=> Alive(d)) /\ (Captured(d) => Captured(e))
         /\ e.misread = d.misread /\ e.shutDown = d.shutDown /\ e.failed = d.failed
         /\ e.cpu = d.cpu /\ e.order = d.order /\ e.deferred = d.deferred
         /\ e.mode = d.mode
    BY <1>9, <1>10, FrontedKeeps
       DEF OnlyFronted, SameFlags, SameFrontend, SameMemory, SameRouter
  <1>12. Alive(e) => Len(e.deferred) < MaxDeferred
    <2>1. Len(<<>>) = 0 /\ MaxDeferred \in Nat \ {0}
      BY ConstantsAssumption, EmptySeq
    <2> QED BY <1>8, <1>11, <2>1 DEF Gone
  <1>13. ASSUME Alive(e), ~e.failed
         PROVE  Whole(e) /\ e.cpu = e.order
    <2>1. Kept(d, d.order) /\ Captured(d) /\ d.cpu = d.order
      BY <1>8, <1>11, <1>13 DEF Gone
    <2>2. Kept(e, e.order)
      BY <1>9, <1>10, <1>11, <2>1, FrontedKeeps
    <2> QED BY <1>11, <2>1, <2>2 DEF Kept, Whole
  <1>14. Shape(e) /\ ~e.misread /\ e.shutDown
    BY <1>8, <1>11 DEF Gone
  <1> QED BY <1>1, <1>12, <1>13, <1>14 DEF RInv, e

\* A new renderer: both copies are of the zeroed memory and the CPU's is noted.
LEMMA RendererInit == Init => RInv
  <1> SUFFICES ASSUME Init PROVE RInv
    OBVIOUS
  <1> DEFINE r == renderer
             zeros == [p \in Pages |-> 0]
             ones == [p \in Pages |-> 1]
             empty == Ledger!EmptyLedger
             noted == Ledger!NoteCpuWrite(empty, Pages)
             none == <<>>
  <1>1. PICK mode \in Modes :
            r = [mode |-> mode, active |-> "None", deferred |-> none, tail |-> NoTail,
                 inBatch |-> FALSE, queue |-> none,
                 batch |-> none, batchReads |-> {}, batchWrites |-> {},
                 batchTextures |-> {}, batchSnapshot |-> EmptyBatchSnapshot,
                 resident |-> [valid |-> FALSE, image |-> NoImage, generation |-> 0],
                 snapshot |-> [valid |-> FALSE, base |-> "None", onDevice |-> FALSE,
                               truth |-> zeros, generation |-> 0],
                 host |-> NoImage, ledger |-> noted, cpu |-> ones, gpu |-> zeros,
                 order |-> ones,
                 failed |-> FALSE, shutDown |-> FALSE, threw |-> FALSE,
                 recursing |-> FALSE, broken |-> FALSE, misread |-> FALSE,
                 misfed |-> FALSE, serves |-> 0]
    BY DEF Init
  <1>2. operations \in 0 .. MaxOperations
    BY ConstantsAssumption DEF Init
  <1>3. zeros \in PageValues /\ ones \in PageValues /\ NoImage \in Images
    BY DEF PageValues, NoImage, Images
  <1>4. /\ empty \in Ledgers /\ empty.next \in Nat \ {0}
        /\ \A p \in Pages : empty.gpu[p] = 0
    BY DEF Ledger!EmptyLedger, Ledgers, PageValues
  <1>5. /\ noted \in Ledgers
        /\ \A p \in Pages : noted.gpu[p] = 0 /\ noted.cpu[p] = empty.next
        /\ Pages # {} => noted.next = empty.next + 1
    BY <1>4, NoteType DEF PageSets
  <1>6. /\ none = <<>> /\ none \in Seq(Commands) /\ Len(none) = 0 /\ DOMAIN none = {}
        /\ \A p \in Pages : ones[p] = 1
    BY EmptySeq
  <1> HIDE DEF r, zeros, ones, empty, noted, none
  <1>7. /\ DOMAIN r = Fields /\ r.mode = mode /\ r.active = "None"
        /\ r.deferred = none /\ r.tail = NoTail /\ r.inBatch = FALSE /\ r.queue = none
        /\ r.batch = none /\ r.batchReads = {} /\ r.batchWrites = {}
        /\ r.batchTextures = {} /\ r.batchSnapshot = EmptyBatchSnapshot
        /\ r.resident = [valid |-> FALSE, image |-> NoImage, generation |-> 0]
        /\ r.snapshot = [valid |-> FALSE, base |-> "None", onDevice |-> FALSE,
                         truth |-> zeros, generation |-> 0]
        /\ r.host = NoImage /\ r.ledger = noted /\ r.cpu = ones
        /\ r.order = ones
    BY <1>1 DEF Fields
  <1>8. /\ r.gpu = zeros /\ r.failed = FALSE /\ r.shutDown = FALSE /\ r.threw = FALSE
        /\ r.recursing = FALSE /\ r.broken = FALSE /\ r.misread = FALSE
        /\ r.misfed = FALSE
    BY <1>1
  <1>9. r.snapshot \in Snapshots /\ ~r.snapshot.valid
    BY <1>3, <1>7 DEF Snapshots
  <1>10. r.resident \in Residents /\ ~r.resident.valid
    BY <1>3, <1>7 DEF Residents
  <1>11. r.batchSnapshot \in BatchSnapshots
    BY <1>3, <1>7 DEF BatchSnapshots, EmptyBatchSnapshot
  <1>12. Shape(r)
    <2>1. TypedFront(r)
      BY <1>3, <1>7, <1>8, <1>9 DEF TypedFront
    <2>2. TypedRouter(r)
      BY <1>6, <1>7 DEF TypedRouter, Backends
    <2>3. TypedBackend(r)
      BY <1>6, <1>7, <1>10, <1>11 DEF TypedBackend, PageSets
    <2>4. TypedMemory(r)
      BY <1>3, <1>5, <1>7, <1>8 DEF TypedMemory
    <2>5. TypedFlags(r)
      BY <1>8 DEF TypedFlags
    <2>6. Len(r.batch) <= MaxBatch
      BY <1>6, <1>7, ConstantsAssumption
    <2> QED
      BY <1>6, <1>7, <1>8, <1>9, <2>1, <2>2, <2>3, <2>4, <2>5, <2>6
         DEF Shape, OnHost
  <1>13. Alive(r) /\ ~r.failed /\ ~r.misread /\ ~r.shutDown
    BY <1>8 DEF Alive
  <1>14. Agree(r, {})
    <2>1. ASSUME NEW p \in Pages
          PROVE  /\ r.ledger.cpu[p] < r.ledger.next /\ r.ledger.gpu[p] < r.ledger.next
                 /\ r.ledger.gpu[p] # r.ledger.cpu[p]
      <3>1. r.ledger.gpu[p] = 0 /\ r.ledger.cpu[p] = empty.next
            /\ r.ledger.next = empty.next + 1
        BY <1>5, <1>7
      <3> QED BY <1>4, <3>1
    <2> QED BY <2>1 DEF Agree
  <1>15. Memory(r) = ones
    <2>1. \A p \in Pages : Memory(r)[p] = ones[p]
      BY <1>4, <1>5, <1>7 DEF Memory, Newer
    <2> QED BY <1>3, <2>1 DEF Memory, Newer, PageValues
  <1>16. Sound(r, {}) /\ Settled(r) = Memory(r)
    BY <1>6, <1>7, <1>10, <1>12, <1>13, <1>14, SoundEmpty
  <1>17. Kept(r, Settled(r))
    <2>1. Backed(r)
      BY <1>6, <1>7 DEF Backed
    <2> QED BY <1>6, <1>7, <1>16, <2>1, NoneDeferred
  <1>18. Captured(r) /\ r.order = Settled(r)
    BY <1>7, <1>9, <1>15, <1>16 DEF Captured
  <1>19. Whole(r) /\ Len(r.deferred) < MaxDeferred
    BY <1>17, <1>18 DEF Kept, Whole
  <1> QED BY <1>2, <1>12, <1>13, <1>19 DEF RInv, r

LEMMA RendererStep == RInv /\ [Next]_vars => RInv'
  <1> SUFFICES ASSUME RInv, [Next]_vars PROVE RInv'
    OBVIOUS
  <1>1. CASE Draw
    BY <1>1, DrawStep
  <1>2. CASE AccessCpuVram
    BY <1>2, AccessStep
  <1>3. CASE Flush
    BY <1>3, FlushStep
  <1>4. CASE Present
    BY <1>4, PresentStep
  <1>5. CASE EndDrawSubmissionBatch
    BY <1>5, EndSubmissionStep
  <1>6. CASE SetRendererMode
    BY <1>6, SetModeStep
  <1>7. CASE Shutdown
    BY <1>7, ShutdownStep
  <1>8. CASE UNCHANGED vars
    BY <1>8 DEF vars, RInv
  <1> QED BY <1>1, <1>2, <1>3, <1>4, <1>5, <1>6, <1>7, <1>8 DEF Next

-----------------------------------------------------------------------------
(* The theorems.                                                            *)

\* The renderer is what its parts promise each other, at every call and of
\* everything that waits: the copies agree, what is queued, batched or deferred
\* will read what it needs, and all of it together draws the memory of command
\* order (ps2_gs_backend.cpp, ps2_gs_vulkan_backend.cpp, ps2_gs_rasterizer.cpp).
THEOREM RendererInvariant == Spec => []RInv
  <1>1. Init => RInv
    BY RendererInit
  <1>2. RInv /\ [Next]_vars => RInv'
    BY RendererStep
  <1> QED BY <1>1, <1>2, PTL DEF Spec

LEMMA DrawnAllSame ==
    ASSUME NEW image, NEW other, NEW commands \in Seq(Commands), NEW p \in Pages,
           image[p] = other[p]
    PROVE  DrawnAll(image, commands)[p] = DrawnAll(other, commands)[p]
  <1> DEFINE n == Len(commands)
  <1>1. n \in Nat
    BY LenProperties
  <1> HIDE DEF n
  <1>2. DrawnFirst(image, commands, n)[p] = DrawnFirst(other, commands, n)[p]
    BY <1>1, DrawnSame
  <1> QED BY <1>2 DEF DrawnAll, n

LEMMA CompletedSame ==
    ASSUME RInv, NEW image, NEW other, NEW p \in Pages, image[p] = other[p]
    PROVE  Completed(image)[p] = Completed(other)[p]
  <1>1. /\ renderer.queue \in Seq(Commands) /\ renderer.batch \in Seq(Commands)
        /\ renderer.deferred \in Seq(Commands)
    BY DEF RInv, Shape, TypedRouter, TypedBackend
  <1> DEFINE queued(i) == DrawnAll(i, renderer.queue)
             batched(i) == DrawnAll(queued(i), renderer.batch)
  <1>2. queued(image)[p] = queued(other)[p]
    BY <1>1, DrawnAllSame
  <1> HIDE DEF queued
  <1>3. batched(image)[p] = batched(other)[p]
    BY <1>1, <1>2, DrawnAllSame
  <1> HIDE DEF batched
  <1>4. DrawnAll(batched(image), renderer.deferred)[p] =
            DrawnAll(batched(other), renderer.deferred)[p]
    BY <1>1, <1>3, DrawnAllSame
  <1> QED BY <1>4 DEF Completed, batched, queued

LEMMA ExactMemory ==
    ASSUME RInv, Whole(renderer)
    PROVE  NewestComplete
  <1>1. Completed(Memory(renderer)) = renderer.order
    BY DEF Whole, Truth, Settled, Completed
  <1>2. /\ renderer.ledger \in Ledgers /\ Agree(renderer, {})
        /\ \A p \in Pages :
              renderer.ledger.cpu[p] \in Nat /\ renderer.ledger.gpu[p] \in Nat
    BY DEF Whole, Sound, Shape, TypedMemory, Ledgers, PageValues
  <1> SUFFICES ASSUME NEW page \in Pages
               PROVE  /\ page \notin Ledger!GpuNewer(renderer.ledger, Pages) =>
                            Completed(renderer.cpu)[page] = renderer.order[page]
                      /\ page \notin Ledger!CpuNewer(renderer.ledger, Pages) =>
                            Completed(renderer.gpu)[page] = renderer.order[page]
    BY DEF NewestComplete
  <1>3. page \notin Ledger!GpuNewer(renderer.ledger, Pages) =>
            renderer.cpu[page] = Memory(renderer)[page]
    BY <1>2 DEF Ledger!GpuNewer, Memory, Newer
  <1>4. page \notin Ledger!CpuNewer(renderer.ledger, Pages) =>
            renderer.gpu[page] = Memory(renderer)[page]
    BY <1>2 DEF Ledger!CpuNewer, Memory, Newer, Agree
  <1> DEFINE cpu == renderer.cpu
             gpu == renderer.gpu
             memory == Memory(renderer)
  <1>5. /\ page \notin Ledger!GpuNewer(renderer.ledger, Pages) =>
               cpu[page] = memory[page]
        /\ page \notin Ledger!CpuNewer(renderer.ledger, Pages) =>
               gpu[page] = memory[page]
        /\ Completed(memory) = renderer.order
    BY <1>1, <1>3, <1>4
  <1> HIDE DEF cpu, gpu, memory
  <1>6. /\ page \notin Ledger!GpuNewer(renderer.ledger, Pages) =>
               Completed(cpu)[page] = renderer.order[page]
        /\ page \notin Ledger!CpuNewer(renderer.ledger, Pages) =>
               Completed(gpu)[page] = renderer.order[page]
    BY <1>5, CompletedSame
  <1> QED BY <1>6 DEF cpu, gpu

LEMMA RendererTyped == RInv => TypeOK
  <1> SUFFICES ASSUME RInv PROVE TypeOK
    OBVIOUS
  <1>1. /\ renderer.mode \in Modes /\ renderer.active \in Backends
        /\ {renderer.batchReads, renderer.batchWrites,
            renderer.batchTextures} \subseteq PageSets
        /\ Len(renderer.batch) <= MaxBatch
    BY DEF RInv, Shape, TypedFront, TypedRouter, TypedBackend
  <1>2. Len(renderer.deferred) < MaxDeferred \/ ~Alive(renderer)
    BY DEF RInv
  <1> QED BY <1>1, <1>2 DEF TypeOK, RInv, Backends

\* No command and no access of the CPU ever sees other memory than the commands
\* before it made, no write is lost or doubled by what is deferred, batched,
\* queued, verified, moved or stopped half way, and an owner finds the whole
\* memory after the destructor of a working device.
THEOREM VramAlwaysExact == Spec => []VramExact
  <1>1. RInv => VramExact
    <2> SUFFICES ASSUME RInv PROVE VramExact
      OBVIOUS
    <2>1. TypeOK /\ ~renderer.misread
      BY RendererTyped DEF RInv
    <2>2. ASSUME Alive(renderer), ~renderer.failed
          PROVE  /\ NewestComplete
                 /\ renderer.shutDown => renderer.cpu = renderer.order
      <3>1. Whole(renderer)
        BY <2>2 DEF RInv
      <3> QED BY <2>2, <3>1, ExactMemory DEF RInv
    <2> QED BY <2>1, <2>2 DEF VramExact
  <1>2. QED
    BY <1>1, RendererInvariant, PTL

\* Whatever call follows whatever other, only the active backend holds commands
\* and an admitted run goes on only where nothing is deferred, which is what
\* transitionTo() and beginCpuVramAccess() rely on.
THEOREM OneBackendAlwaysHolds == Spec => []OneBackendHolds
  <1>1. RInv => OneBackendHolds
    BY DEF RInv, Whole, Backed, OneBackendHolds
  <1>2. QED
    BY <1>1, RendererInvariant, PTL

\* No std::logic_error is ever thrown: the ledger refuses no transition a
\* handler asks for and no draw that samples its own frame misses its snapshot.
THEOREM RendererNeverContradicts == Spec => []NeverContradicts
  <1>1. RInv => NeverContradicts
    BY DEF RInv, Shape, NeverContradicts
  <1>2. QED
    BY <1>1, RendererInvariant, PTL

-----------------------------------------------------------------------------
(* The page ledger by itself (GsVramCoherency), whatever asks it for        *)
(* transitions.  NothingLost holds of every set of pages and every number   *)
(* of generations, and it is inductive as it stands: what the ledger says   *)
(* of a page before a transition tells whether the copy the transition      *)
(* writes, or copies from, was complete, and Issued makes a fresh           *)
(* generation larger than any the page already has.                         *)

CONSTANT MaxGeneration

VARIABLES ledger, cpuImage, gpuImage, written

Vram == INSTANCE GsVramCoherency

\* A transition leaves each page's two generations as they were, gives one of
\* them a new one or makes them equal; in each case the copy the ledger does
\* not call older is complete (noteCpuWrite to completeGpuToCpu).
LEMMA CoherencyInit == Vram!Init => Vram!NothingLost
  BY DEF Vram!Init, Vram!NothingLost, Vram!TypeOK, Vram!Issued,
     Vram!NewestNamed, Vram!EmptyLedger, Vram!PageValues, Vram!CpuNewer,
     Vram!GpuNewer

LEMMA CoherencyCpuWrite ==
    ASSUME Vram!NothingLost, NEW pages \in SUBSET Pages, Vram!CpuWrite(pages)
    PROVE  Vram!NothingLost'
<1>1. CASE pages = {}
  <2>1. UNCHANGED <<ledger, gpuImage>>
    BY <1>1 DEF Vram!CpuWrite, Vram!NoteCpuWrite
  <2>2. UNCHANGED <<cpuImage, written>>
    BY <1>1 DEF Vram!CpuWrite, Vram!Extended, Vram!Written, Vram!NothingLost,
       Vram!TypeOK, Vram!PageValues
  <2>. QED
    BY <2>1, <2>2 DEF Vram!NothingLost, Vram!TypeOK, Vram!Issued,
       Vram!NewestNamed, Vram!CpuNewer, Vram!GpuNewer
<1>2. CASE pages # {}
  <2>1. ledger' = [ledger EXCEPT !.cpu = Vram!Raised(ledger.cpu, pages, ledger.next),
                                 !.next = ledger.next + 1]
    BY <1>2 DEF Vram!CpuWrite, Vram!NoteCpuWrite
  <2>2. ledger \in [cpu : Vram!PageValues, gpu : Vram!PageValues, next : Nat \ {0}]
    BY DEF Vram!NothingLost, Vram!TypeOK
  <2>. DEFINE raised == Vram!Raised(ledger.cpu, pages, ledger.next)
  <2>a. raised \in Vram!PageValues
    BY <2>2 DEF Vram!Raised, Vram!PageValues
  <2>b. ledger' = [ledger EXCEPT !.cpu = raised, !.next = ledger.next + 1]
    BY <2>1
  <2>c. ledger.next + 1 \in Nat \ {0}
    BY <2>2
  <2>. HIDE DEF raised
  <2>3. /\ ledger'.cpu = raised
        /\ ledger'.gpu = ledger.gpu
        /\ ledger'.next = ledger.next + 1
        /\ ledger' \in [cpu : Vram!PageValues, gpu : Vram!PageValues, next : Nat \ {0}]
    BY <2>2, <2>a, <2>b, <2>c
  <2>. USE DEF raised
  <2>4. Vram!TypeOK'
    BY <2>3 DEF Vram!TypeOK, Vram!NothingLost, Vram!CpuWrite, Vram!Extended,
       Vram!Written, Vram!PageValues
  <2>5. Vram!Issued'
    BY <2>2, <2>3 DEF Vram!Issued, Vram!NothingLost, Vram!Raised,
       Vram!PageValues
  <2>6. ASSUME NEW p \in Pages
        PROVE  /\ p \notin Vram!GpuNewer(ledger, Pages)' => cpuImage'[p] = written'[p]
               /\ p \notin Vram!CpuNewer(ledger, Pages)' => gpuImage'[p] = written'[p]
    <3>1. CASE p \in pages
      <4>1. /\ ledger'.cpu[p] = ledger.next
            /\ ledger.gpu[p] < ledger.next
            /\ ledger.gpu[p] \in Nat
        BY <2>2, <2>3, <3>1 DEF Vram!Issued, Vram!NothingLost, Vram!Raised,
           Vram!PageValues
      <4>2. p \notin Vram!GpuNewer(ledger, Pages)
        BY <3>1 DEF Vram!CpuWrite, Vram!AcceptsCpuWrite, Vram!GpuNewer,
           Vram!CpuNewer
      <4>3. cpuImage'[p] = written'[p]
        BY <3>1, <4>2 DEF Vram!CpuWrite, Vram!Extended, Vram!Written,
           Vram!NothingLost, Vram!NewestNamed
      <4>. QED
        BY <2>2, <2>3, <4>1, <4>3 DEF Vram!GpuNewer, Vram!CpuNewer
    <3>2. CASE p \notin pages
      <4>1. /\ ledger'.cpu[p] = ledger.cpu[p]
            /\ ledger'.gpu[p] = ledger.gpu[p]
        BY <2>3, <3>2 DEF Vram!Raised
      <4>2. /\ cpuImage'[p] = cpuImage[p]
            /\ gpuImage'[p] = gpuImage[p]
            /\ written'[p] = written[p]
        BY <3>2 DEF Vram!CpuWrite, Vram!Extended, Vram!Written
      <4>. QED
        BY <4>1, <4>2 DEF Vram!NothingLost, Vram!NewestNamed, Vram!GpuNewer,
           Vram!CpuNewer
    <3>. QED
      BY <3>1, <3>2
  <2>. QED
    BY <2>4, <2>5, <2>6 DEF Vram!NothingLost, Vram!NewestNamed
<1>. QED
  BY <1>1, <1>2

LEMMA CoherencyGpuWrite ==
    ASSUME Vram!NothingLost, NEW pages \in SUBSET Pages, Vram!GpuWrite(pages)
    PROVE  Vram!NothingLost'
<1>1. CASE pages = {}
  <2>1. UNCHANGED <<ledger, cpuImage>>
    BY <1>1 DEF Vram!GpuWrite, Vram!NoteGpuWriteBatch
  <2>2. UNCHANGED <<gpuImage, written>>
    BY <1>1 DEF Vram!GpuWrite, Vram!Extended, Vram!Written, Vram!NothingLost,
       Vram!TypeOK, Vram!PageValues
  <2>. QED
    BY <2>1, <2>2 DEF Vram!NothingLost, Vram!TypeOK, Vram!Issued,
       Vram!NewestNamed, Vram!CpuNewer, Vram!GpuNewer
<1>2. CASE pages # {}
  <2>1. ledger' = [ledger EXCEPT !.gpu = Vram!Raised(ledger.gpu, pages, ledger.next),
                                 !.next = ledger.next + 1]
    BY <1>2 DEF Vram!GpuWrite, Vram!NoteGpuWriteBatch
  <2>2. ledger \in [cpu : Vram!PageValues, gpu : Vram!PageValues, next : Nat \ {0}]
    BY DEF Vram!NothingLost, Vram!TypeOK
  <2>. DEFINE raised == Vram!Raised(ledger.gpu, pages, ledger.next)
  <2>a. raised \in Vram!PageValues
    BY <2>2 DEF Vram!Raised, Vram!PageValues
  <2>b. ledger' = [ledger EXCEPT !.gpu = raised, !.next = ledger.next + 1]
    BY <2>1
  <2>c. ledger.next + 1 \in Nat \ {0}
    BY <2>2
  <2>. HIDE DEF raised
  <2>3. /\ ledger'.gpu = raised
        /\ ledger'.cpu = ledger.cpu
        /\ ledger'.next = ledger.next + 1
        /\ ledger' \in [cpu : Vram!PageValues, gpu : Vram!PageValues, next : Nat \ {0}]
    BY <2>2, <2>a, <2>b, <2>c
  <2>. USE DEF raised
  <2>4. Vram!TypeOK'
    BY <2>3 DEF Vram!TypeOK, Vram!NothingLost, Vram!GpuWrite, Vram!Extended,
       Vram!Written, Vram!PageValues
  <2>5. Vram!Issued'
    BY <2>2, <2>3 DEF Vram!Issued, Vram!NothingLost, Vram!Raised,
       Vram!PageValues
  <2>6. ASSUME NEW p \in Pages
        PROVE  /\ p \notin Vram!GpuNewer(ledger, Pages)' => cpuImage'[p] = written'[p]
               /\ p \notin Vram!CpuNewer(ledger, Pages)' => gpuImage'[p] = written'[p]
    <3>1. CASE p \in pages
      <4>1. /\ ledger'.gpu[p] = ledger.next
            /\ ledger.cpu[p] < ledger.next
            /\ ledger.cpu[p] \in Nat
        BY <2>2, <2>3, <3>1 DEF Vram!Issued, Vram!NothingLost, Vram!Raised,
           Vram!PageValues
      <4>2. p \notin Vram!CpuNewer(ledger, Pages)
        BY <3>1 DEF Vram!GpuWrite, Vram!AcceptsGpuWrite, Vram!GpuNewer,
           Vram!CpuNewer
      <4>3. gpuImage'[p] = written'[p]
        BY <3>1, <4>2 DEF Vram!GpuWrite, Vram!Extended, Vram!Written,
           Vram!NothingLost, Vram!NewestNamed
      <4>. QED
        BY <2>2, <2>3, <4>1, <4>3 DEF Vram!GpuNewer, Vram!CpuNewer
    <3>2. CASE p \notin pages
      <4>1. /\ ledger'.cpu[p] = ledger.cpu[p]
            /\ ledger'.gpu[p] = ledger.gpu[p]
        BY <2>3, <3>2 DEF Vram!Raised
      <4>2. /\ cpuImage'[p] = cpuImage[p]
            /\ gpuImage'[p] = gpuImage[p]
            /\ written'[p] = written[p]
        BY <3>2 DEF Vram!GpuWrite, Vram!Extended, Vram!Written
      <4>. QED
        BY <4>1, <4>2 DEF Vram!NothingLost, Vram!NewestNamed, Vram!GpuNewer,
           Vram!CpuNewer
    <3>. QED
      BY <3>1, <3>2
  <2>. QED
    BY <2>4, <2>5, <2>6 DEF Vram!NothingLost, Vram!NewestNamed
<1>. QED
  BY <1>1, <1>2

LEMMA CoherencyCpuToGpu ==
    ASSUME Vram!NothingLost, NEW pages \in SUBSET Pages, Vram!CpuToGpu(pages)
    PROVE  Vram!NothingLost'
  BY DEF Vram!CpuToGpu, Vram!NothingLost, Vram!TypeOK, Vram!Issued,
     Vram!NewestNamed, Vram!PageValues, Vram!CpuNewer, Vram!GpuNewer,
     Vram!Copied, Vram!AcceptsCpuToGpu, Vram!CompleteCpuToGpu

LEMMA CoherencyGpuToCpu ==
    ASSUME Vram!NothingLost, NEW pages \in SUBSET Pages, Vram!GpuToCpu(pages)
    PROVE  Vram!NothingLost'
  BY DEF Vram!GpuToCpu, Vram!NothingLost, Vram!TypeOK, Vram!Issued,
     Vram!NewestNamed, Vram!PageValues, Vram!CpuNewer, Vram!GpuNewer,
     Vram!Copied, Vram!AcceptsGpuToCpu, Vram!CompleteGpuToCpu

LEMMA CoherencyUnchanged == Vram!NothingLost /\ UNCHANGED Vram!vars => Vram!NothingLost'
  BY DEF Vram!vars, Vram!NothingLost, Vram!TypeOK, Vram!Issued,
     Vram!NewestNamed, Vram!CpuNewer, Vram!GpuNewer

\* No transition loses a write, whatever the pages: an accepted one never
\* overwrites the only newest copy of a page (the checks in front of each
\* transition of ps2_gs_coherency.cpp).
THEOREM NothingEverLost == Vram!Spec => []Vram!NothingLost
<1>1. Vram!NothingLost /\ [Vram!Next]_Vram!vars => Vram!NothingLost'
  <2>1. ASSUME Vram!NothingLost, Vram!Next
        PROVE  Vram!NothingLost'
    BY <2>1, CoherencyCpuWrite, CoherencyGpuWrite, CoherencyCpuToGpu,
       CoherencyGpuToCpu DEF Vram!Next
  <2>. QED
    BY <2>1, CoherencyUnchanged
<1>. QED
  BY CoherencyInit, <1>1, PTL DEF Vram!Spec
=============================================================================
