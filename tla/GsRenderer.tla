------------------------------ MODULE GsRenderer ------------------------------
(***************************************************************************)
(* How a GS draw reaches local memory: the frontend of ps2_gs_rasterizer    *)
(* takes the feedback snapshot and queues software draws, the router of     *)
(* ps2_gs_backend chooses a backend or defers the choice, and the resident  *)
(* batch of ps2_gs_vulkan_backend runs on the device copy of the memory,    *)
(* whose pages the ledger of GsVramCoherency keeps apart from the CPU's.    *)
(*                                                                          *)
(* A page is known by the number of writes it holds and a command remembers *)
(* how many its pages held, in the order of the command stream, when it was *)
(* issued: a command rendered from anything else read the wrong memory.     *)
(* The renderer is one record, because a handler is one sequence of calls   *)
(* that each may drain, download, fail or throw; an operator here is such a *)
(* call, and does nothing once one of them has thrown.                      *)
(***************************************************************************)
EXTENDS Naturals, SequencesExt

CONSTANTS
    Pages,          \* pages of GS local memory, each the frame of a surface
    Kinds,          \* kinds of draw that are issued
    MaxBatch,       \* commands of a resident batch
    MaxDeferred,    \* commands of a deferred Hybrid run
    MaxOperations,  \* bound on the calls of the GS
    Serves          \* device requests of a call served before one fails

ASSUME ConstantsAssumption ==
    /\ {MaxBatch, MaxDeferred} \subseteq Nat \ {0}
    /\ MaxOperations \in Nat

VARIABLES
    renderer,       \* the state of the three layers
    operations      \* calls made so far

vars == <<renderer, operations>>

Ledger == INSTANCE GsVramCoherency
          WITH MaxGeneration <- 0, ledger <- renderer.ledger,
               cpuImage <- renderer.cpu, gpuImage <- renderer.gpu,
               written <- renderer.order

-----------------------------------------------------------------------------
(* Draws.                                                                  *)

Modes == {"Software", "Hybrid", "Verify", "GpuStrict"}

\* What the device can draw; what Hybrid leaves open until the run is long
\* enough; what samples its own frame; what the raster workers can queue.
DeviceKinds ==
    {"Textured", "Gouraud", "T8", "FeedbackLinear", "FeedbackNearest"}
Deferrable == {"Gouraud", "FeedbackLinear"}
EmptyKinds == {"Empty", "EmptyFeedback"}
Recursive == {"FeedbackLinear", "FeedbackNearest", "Feedback", "EmptyFeedback"}
Queueable ==
    {"Textured", "Gouraud", "T8", "FeedbackLinear", "Feedback", "Triangle"}

\* Draws that neither blend nor test what they draw over.
Opaque == {"Textured", "Line"}

\* Pipelines whose batch applies dependent commands in order.
Ordered == {"Gouraud", "T8", "FeedbackLinear", "FeedbackNearest"}

Others(page) == Pages \ {page}

\* The textures a kind of draw to a frame can sample.
Textures(kind, frame) ==
    CASE kind \in Recursive \ EmptyKinds -> {{frame}, Pages}
      [] kind \in {"Textured", "T8"} -> {Others(frame)}
      [] OTHER -> {{}}

\* The depth buffers told apart; only one pipeline's batch depends on them.
Depths(kind) == IF kind = "FeedbackNearest" THEN {1, 2} ELSE {1}

Reads(c) ==
    CASE c.kind \in EmptyKinds -> {}
      [] c.kind \in Opaque -> c.sampled
      [] OTHER -> c.sampled \cup {c.frame}

Writes(c) == IF c.kind \in EmptyKinds THEN {} ELSE {c.frame}

\* What a command reads of the memory itself where it has a snapshot for the
\* texture.
DirectReads(c) ==
    IF c.kind \in Recursive THEN Reads(c) \cap Writes(c) ELSE Reads(c)

-----------------------------------------------------------------------------
(* Memory.                                                                 *)

\* Copies of the whole memory.
NoImage == [at |-> [p \in Pages |-> 0], held |-> FALSE]

EmptyBatchSnapshot ==
    [mode |-> "UploadHost", image |-> NoImage, generation |-> 0]

Alive(r) == ~r.threw /\ ~r.recursing

\* A device request failed: the backend stays failed and throws.
FailRequest(r) == [r EXCEPT !.failed = TRUE, !.threw = TRUE]

\* A std::logic_error: the program contradicts itself.
LogicError(r) == [r EXCEPT !.broken = TRUE, !.threw = TRUE]

\* The next call of a handler, unless one before it threw.
Then(r, call(_)) == IF Alive(r) THEN call(r) ELSE r

\* The image after a command, and what it shows of the command's inputs.
Misread(image, c) ==
    \E p \in DirectReads(c) \cup Writes(c) : image[p] # c.needs[p]

Misfed(snapshot, c) ==
    c.kind \in Recursive /\ \E p \in c.sampled : snapshot.at[p] # c.feed[p]

Drawn(image, c) ==
    [p \in Pages |-> IF p \in Writes(c) THEN image[p] + 1 ELSE image[p]]

\* After the first n of the commands, each on the image the ones before leave.
DrawnFirst(image, commands, n) ==
    [p \in Pages |->
       image[p] + Cardinality({i \in 1 .. n : p \in Writes(commands[i])})]

DrawnAll(image, commands) == DrawnFirst(image, commands, Len(commands))

\* Whether one of the commands read the wrong memory: in an unordered batch
\* each reads what the memory held before the batch.
MisreadAny(image, commands, ordered) ==
    \E i \in DOMAIN commands :
        Misread(IF ordered THEN DrawnFirst(image, commands, i - 1) ELSE image,
                commands[i])

MisfedAny(snapshot, commands) ==
    \E i \in DOMAIN commands : Misfed(snapshot, commands[i])

NoteCpuWrite(r, pages) ==
    IF ~Alive(r) THEN r
    ELSE IF Ledger!AcceptsCpuWrite(r.ledger, pages)
    THEN [r EXCEPT !.ledger = Ledger!NoteCpuWrite(r.ledger, pages)]
    ELSE LogicError(r)

UploadCpuNewer(r, within) ==
    LET pages == Ledger!CpuNewer(r.ledger, within) IN
    IF ~Alive(r) \/ pages = {} THEN r
    ELSE IF r.serves = 0 THEN FailRequest(r)
    ELSE [r EXCEPT !.serves = r.serves - 1,
                   !.gpu = Ledger!Copied(r.gpu, r.cpu, pages),
                   !.ledger = Ledger!CompleteCpuToGpu(r.ledger, pages)]

DownloadGpuNewer(r, within) ==
    LET pages == Ledger!GpuNewer(r.ledger, within) IN
    IF ~Alive(r) \/ pages = {} THEN r
    ELSE IF r.failed \/ r.shutDown \/ r.serves = 0 THEN FailRequest(r)
    ELSE [r EXCEPT !.serves = r.serves - 1,
                   !.cpu = Ledger!Copied(r.cpu, r.gpu, pages),
                   !.ledger = Ledger!CompleteGpuToCpu(r.ledger, pages)]

-----------------------------------------------------------------------------
(* The resident batch.                                                     *)

Pipeline(r) == IF r.batch = <<>> THEN "None" ELSE Head(r.batch).kind

ClearBatch(r) ==
    [r EXCEPT !.batch = <<>>, !.batchReads = {}, !.batchWrites = {},
              !.batchTextures = {}, !.batchSnapshot = EmptyBatchSnapshot]

\* The image a feedback batch samples, when its memory is r.gpu.
SampledImage(r) ==
    CASE r.batchSnapshot.mode = "UploadHost" -> r.batchSnapshot.image
      [] r.batchSnapshot.mode = "CaptureResident" ->
             [at |-> r.gpu, held |-> TRUE]
      [] r.batchSnapshot.mode = "ReuseResident" -> r.resident.image

\* The device runs the batch and keeps the snapshot it used.
RunBatch(r) ==
    LET kind == Pipeline(r)
        sampled == SampledImage(r)
    IN  [r EXCEPT
            !.gpu = DrawnAll(r.gpu, r.batch),
            !.misread =
                r.misread \/ MisreadAny(r.gpu, r.batch, kind \in Ordered),
            !.misfed = r.misfed \/ MisfedAny(sampled, r.batch),
            !.resident =
                CASE kind = "FeedbackNearest" ->
                         [valid |-> TRUE, image |-> sampled,
                          generation |-> r.batchSnapshot.generation]
                  [] kind = "FeedbackLinear" ->
                         [r.resident EXCEPT !.valid = FALSE]
                  [] OTHER -> r.resident]

NoteGpuWrites(r) ==
    IF Ledger!AcceptsGpuWrite(r.ledger, r.batchWrites)
    THEN ClearBatch([r EXCEPT
             !.ledger = Ledger!NoteGpuWriteBatch(r.ledger, r.batchWrites)])
    ELSE LogicError(r)

\* A textured T8 batch uploads its pages in the request that draws them.
DrainBatch(r) ==
    IF ~Alive(r) \/ r.batch = <<>> THEN r
    ELSE LET access == r.batchReads \cup r.batchWrites
             fused == /\ Pipeline(r) = "T8"
                      /\ Ledger!CpuNewer(r.ledger, access) # {}
             request(uploaded) ==
                 IF uploaded.threw \/ (~fused /\ uploaded.serves = 0)
                 THEN ClearBatch(FailRequest(uploaded))
                 ELSE NoteGpuWrites(RunBatch([uploaded EXCEPT
                          !.serves = IF fused THEN @ ELSE @ - 1]))
         IN  request(UploadCpuNewer(r, access))

\* Mutant of PrepareCpuVramAccess: a batch only stands in the way of an access
\* to what it writes.
PrepareBehindReads(r, reads, writes) ==
    LET conflicts == r.batchWrites \cap (reads \cup writes) # {}
    IN  DownloadGpuNewer(IF conflicts THEN DrainBatch(r) ELSE r,
                         reads \cup writes)

\* prepareCpuVramAccess(): the pages the CPU is about to use.
PrepareCpuVramAccess(r, reads, writes) ==
    LET conflicts ==
            \/ r.batchWrites \cap (reads \cup writes) # {}
            \/ r.batchReads \cap writes # {}
    IN  DownloadGpuNewer(IF conflicts THEN DrainBatch(r) ELSE r,
                         reads \cup writes)

\* The batches a command must not join, in the order they are asked.
DrainForPipeline(r, c) ==
    IF Pipeline(r) \notin {"None", c.kind} THEN DrainBatch(r) ELSE r

DrainForTarget(r, c) ==
    LET first == Head(r.batch)
        otherSurface ==
            \/ <<first.frame, first.depth>> # <<c.frame, c.depth>>
            \/ r.batchSnapshot.generation # r.snapshot.generation
        dependentT8 ==
            \/ first.frame # c.frame
            \/ r.batchWrites \cap c.sampled # {}
            \/ r.batchTextures \cap Writes(c) # {}
    IN  IF r.batch = <<>> THEN r
        ELSE IF c.kind = "FeedbackNearest" /\ otherSurface
        THEN [DrainBatch(r) EXCEPT !.resident.valid = FALSE]
        ELSE IF \/ c.kind = "T8" /\ dependentT8
                \/ c.kind = "Gouraud" /\ first.frame # c.frame
        THEN DrainBatch(r)
        ELSE r

DrainForDependency(r, c) ==
    IF /\ c.kind \notin Ordered
       /\ \/ r.batchWrites \cap (DirectReads(c) \cup Writes(c)) # {}
          \/ r.batchReads \cap Writes(c) # {}
    THEN DrainBatch(r)
    ELSE r

DrainFull(r) == IF Len(r.batch) >= MaxBatch THEN DrainBatch(r) ELSE r

\* The frontend's copy, when it has one.
HostSnapshot(r) == IF r.snapshot.valid THEN r.host ELSE NoImage

\* The snapshot of the batch that the command opens.
SnapshotFor(r, c) ==
    LET canReuse == /\ r.resident.valid
                    /\ r.resident.generation = r.snapshot.generation
    IN  [generation |-> r.snapshot.generation,
         mode |-> IF c.kind = "FeedbackNearest" /\ r.snapshot.onDevice
                  THEN IF canReuse THEN "ReuseResident" ELSE "CaptureResident"
                  ELSE "UploadHost",
         image |-> IF c.kind = "FeedbackNearest" /\ r.snapshot.onDevice
                   THEN NoImage ELSE HostSnapshot(r)]

JoinBatch(r, c) ==
    IF ~Alive(r) THEN r
    ELSE LET opens == r.batch = <<>> /\ c.kind \in Recursive
             snapshot == IF opens THEN SnapshotFor(r, c) ELSE r.batchSnapshot
         IN  IF opens /\ snapshot.mode = "UploadHost" /\ ~snapshot.image.held
             THEN FailRequest(r)
             ELSE [r EXCEPT
                     !.batch = Append(r.batch, c),
                     !.batchSnapshot = snapshot,
                     !.batchReads =
                         IF snapshot.mode = "CaptureResident" THEN Pages
                         ELSE r.batchReads \cup DirectReads(c),
                     !.batchWrites = r.batchWrites \cup Writes(c),
                     !.batchTextures =
                         IF c.kind = "T8" THEN r.batchTextures \cup c.sampled
                         ELSE r.batchTextures]

SubmitResident(r, c) ==
    JoinBatch(DrainFull(DrainForDependency(
        DrainForTarget(DrainForPipeline(r, c), c), c)), c)

-----------------------------------------------------------------------------
(* Software rendering.                                                     *)

\* renderSoftwarePrimitive(): a recursive draw needs the host snapshot.
RenderSoftware(r, c) ==
    IF ~Alive(r) THEN r
    ELSE IF c.kind \in Recursive /\ ~HostSnapshot(r).held
    THEN LogicError(r)
    ELSE [r EXCEPT !.cpu = Drawn(r.cpu, c),
                   !.misread = r.misread \/ Misread(r.cpu, c),
                   !.misfed = r.misfed \/ Misfed(r.host, c)]

FlushSoftware(r) ==
    IF ~Alive(r) \/ r.queue = <<>> THEN r
    ELSE [r EXCEPT !.queue = <<>>,
                   !.cpu = DrawnAll(r.cpu, r.queue),
                   !.misread = r.misread \/ MisreadAny(r.cpu, r.queue, TRUE),
                   !.misfed = r.misfed \/ MisfedAny(r.host, r.queue)]

\* A verified draw runs on the device from the whole CPU image and is compared
\* with the software renderer, whose result both copies keep.
RunVerified(r) ==
    [r EXCEPT !.serves = r.serves - 1,
              !.gpu = r.cpu,
              !.ledger = Ledger!CompleteCpuToGpu(r.ledger,
                             Ledger!CpuNewer(r.ledger, Pages))]

KeepVerified(r, pages) ==
    [r EXCEPT !.gpu = Ledger!Copied(r.gpu, r.cpu, pages),
              !.ledger = Ledger!CompleteCpuToGpu(r.ledger, pages)]

SubmitVerified(r, c) ==
    LET verify(prepared) ==
            IF prepared.serves = 0 THEN FailRequest(prepared)
            ELSE KeepVerified(
                     NoteCpuWrite(RenderSoftware(RunVerified(prepared), c),
                                  Writes(c)),
                     Writes(c))
    IN  IF c.kind \in Recursive /\ ~HostSnapshot(r).held THEN FailRequest(r)
        ELSE Then(PrepareCpuVramAccess(r, Pages, Pages), verify)

SubmitAccelerated(r, c) ==
    IF ~Alive(r) THEN r
    ELSE IF r.mode = "Verify" THEN SubmitVerified(r, c)
    ELSE SubmitResident(r, c)

-----------------------------------------------------------------------------
(* The router.                                                             *)

\* What makes a run of two deferrable commands (hybridBatchCompatible()).
RunOf(c) == <<c.kind, c.frame>>

NoTail == <<>>

ForgetTail(r) == [r EXCEPT !.tail = NoTail]

DrainActive(r) ==
    CASE r.active = "Software" -> FlushSoftware(r)
      [] r.active = "Accelerated" -> DrainBatch(r)
      [] OTHER -> r

Activate(r, backend) == IF Alive(r) THEN [r EXCEPT !.active = backend] ELSE r

Deactivate(r) == Activate(r, "None")

RenderQueued(r) == IF r.active = "Software" THEN FlushSoftware(r) ELSE r

TransitionTo(r, backend) ==
    IF ~Alive(r) THEN r
    ELSE Activate(IF r.active = backend THEN r ELSE DrainActive(r), backend)

\* submitSoftwareCommand(): queues a command for the raster workers, after a
\* flush of the whole router when the queue holds another output group, or
\* renders it at once.  That flush resolves the deferred run, which is still
\* there when it is being resolved: the resolution enters itself.
SubmitSoftware(r, c) ==
    LET otherGroup == r.queue # <<>> /\ Head(r.queue).frame # c.frame
        queued(flushed) == [flushed EXCEPT !.queue = Append(flushed.queue, c)]
    IN  IF ~Alive(r) THEN r
        ELSE IF ~(r.inBatch /\ c.kind \in Queueable)
        THEN RenderSoftware(FlushSoftware(r), c)
        ELSE IF ~otherGroup THEN queued(r)
        ELSE IF r.deferred # <<>> THEN [r EXCEPT !.recursing = TRUE]
        ELSE queued(Deactivate(DrainActive(ForgetTail(r))))

ReadsOf(commands) == UNION {Reads(commands[i]) : i \in DOMAIN commands}
WritesOf(commands) == UNION {Writes(commands[i]) : i \in DOMAIN commands}

\* Commands for the software backend, once it may use the pages they need.
RenderAll(prepared, commands) ==
    LET after[n \in 0 .. Len(commands)] ==
            IF n = 0 THEN prepared
            ELSE SubmitSoftware(after[n - 1], commands[n])
    IN  Activate(NoteCpuWrite(after[Len(commands)], WritesOf(commands)),
                 "Software")

\* Mutant of SubmitAllSoftware: only what is read is fetched from the device.
SubmitAllSoftwareOverNewer(r, commands) ==
    RenderAll(PrepareCpuVramAccess(TransitionTo(r, "Software"),
                                   ReadsOf(commands), {}),
              commands)

SubmitAllSoftware(r, commands) ==
    RenderAll(PrepareCpuVramAccess(TransitionTo(r, "Software"),
                                   ReadsOf(commands), WritesOf(commands)),
              commands)

SubmitAllAccelerated(r, commands) ==
    LET after[n \in 0 .. Len(commands)] ==
            IF n = 0 THEN TransitionTo(r, "Accelerated")
            ELSE SubmitAccelerated(after[n - 1], commands[n])
    IN  after[Len(commands)]

\* resolvePendingHybrid(): the run is cleared once its backend has it.
ResolvePendingHybrid(r, accelerate) ==
    LET cleared(submitted) ==
            [submitted EXCEPT
                !.deferred = <<>>,
                !.tail = IF accelerate THEN RunOf(Last(r.deferred)) ELSE NoTail]
    IN  IF ~Alive(r) \/ r.deferred = <<>> THEN r
        ELSE Then(IF accelerate THEN SubmitAllAccelerated(r, r.deferred)
                  ELSE ForgetTail(SubmitAllSoftware(r, r.deferred)),
                  cleared)

\* What starts every flush and access: no choice stays open.
Settle(r) == ForgetTail(ResolvePendingHybrid(r, FALSE))

\* flush() for a reason that leaves the CPU image as it is.
FlushActive(r) == Deactivate(DrainActive(Settle(r)))

\* flush() for one that needs all of it.
FlushCanonical(r) ==
    Deactivate(PrepareCpuVramAccess(RenderQueued(Settle(r)), Pages, Pages))

FlushForCpuReadback(r, pages) ==
    Deactivate(PrepareCpuVramAccess(DrainActive(Settle(r)), pages, pages))

\* Mutant of BeginCpuVramAccess: forgets the batch that was left alone.
BeginAccessForgetting(r, reads, writes) ==
    Deactivate(PrepareCpuVramAccess(RenderQueued(Settle(r)), reads, writes))

\* beginCpuVramAccess(): a batch the access does not touch stays queued.
BeginCpuVramAccess(r, reads, writes) ==
    LET kept(ready) ==
            Activate(ready,
                     IF ready.batch = <<>> THEN "None" ELSE "Accelerated")
    IN  kept(PrepareCpuVramAccess(RenderQueued(Settle(r)), reads, writes))

Supported(r, c) == ~r.failed /\ ~r.shutDown /\ c.kind \in DeviceKinds

\* submit() where Hybrid leaves the choice open: the run is long enough for the
\* device, too many commands for waiting, or still open.
Defer(r, c, longEnough) ==
    LET compatible == r.deferred # <<>> /\ RunOf(Last(r.deferred)) = RunOf(c)
        decided(d) ==
            IF longEnough \/ Len(d.deferred) >= MaxDeferred
            THEN ResolvePendingHybrid(d, longEnough)
            ELSE d
        joined(d) == decided([d EXCEPT !.deferred = Append(d.deferred, c)])
    IN  Then(IF compatible THEN r ELSE ResolvePendingHybrid(r, FALSE), joined)

Submit(r, c, longEnough) ==
    LET defers == r.mode = "Hybrid" /\ Supported(r, c) /\ c.kind \in Deferrable
        admitted == defers /\ r.tail = RunOf(c)
        route(resolved) ==
            IF Supported(r, c) THEN SubmitAllAccelerated(resolved, <<c>>)
            ELSE IF r.mode = "GpuStrict" THEN [resolved EXCEPT !.threw = TRUE]
            ELSE SubmitAllSoftware(resolved, <<c>>)
    IN  IF ~Alive(r) \/ c.kind \in EmptyKinds THEN r
        ELSE IF r.mode = "Software" THEN SubmitAllSoftware(r, <<c>>)
        ELSE IF admitted THEN SubmitAllAccelerated(r, <<c>>)
        ELSE IF defers THEN Defer(ForgetTail(r), c, longEnough)
        ELSE Then(ResolvePendingHybrid(ForgetTail(r), FALSE), route)

-----------------------------------------------------------------------------
(* The frontend.                                                           *)

CanCaptureOnDevice(r, c) ==
    /\ r.mode \in {"Hybrid", "GpuStrict"}
    /\ ~r.failed /\ ~r.shutDown
    /\ c.kind = "FeedbackNearest"

\* A member of the run that cannot sample the device's snapshot fetches it.
MaterializeFeedbackSnapshot(r) ==
    LET fetch(drained) ==
            IF ~drained.resident.valid THEN LogicError(drained)
            ELSE IF drained.serves = 0 THEN [drained EXCEPT !.threw = TRUE]
            ELSE [drained EXCEPT !.serves = drained.serves - 1,
                                 !.host = drained.resident.image,
                                 !.snapshot.onDevice = FALSE]
    IN  IF r.failed THEN [r EXCEPT !.threw = TRUE]
        ELSE Then(DrainBatch(r), fetch)

\* The snapshot a run of draws on one surface samples is defined by its first
\* draw; truth is what the memory holds then in command order.
DefineSnapshot(r, c) ==
    LET onDevice == CanCaptureOnDevice(r, c)
        define(ready) ==
            [ready EXCEPT
                !.host = IF onDevice THEN NoImage
                         ELSE [at |-> ready.cpu, held |-> TRUE],
                !.snapshot = [valid |-> TRUE, base |-> c.frame,
                              onDevice |-> onDevice, truth |-> r.order,
                              generation |-> r.snapshot.generation + 1]]
    IN  Then(IF ~onDevice THEN BeginCpuVramAccess(r, Reads(c), {})
             ELSE IF r.snapshot.valid THEN FlushActive(r)
             ELSE r,
             define)

EndSnapshot(r) ==
    LET ended(flushed) == [flushed EXCEPT !.snapshot.valid = FALSE,
                                          !.snapshot.onDevice = FALSE]
    IN  Then(IF r.snapshot.valid THEN FlushActive(r) ELSE r, ended)

PrepareFeedbackSnapshot(r, c) ==
    IF c.kind \notin Recursive THEN EndSnapshot(r)
    ELSE IF ~(r.snapshot.valid /\ r.snapshot.base = c.frame)
    THEN DefineSnapshot(r, c)
    ELSE IF r.snapshot.onDevice /\ ~CanCaptureOnDevice(r, c)
    THEN MaterializeFeedbackSnapshot(r)
    ELSE r

\* One more write on each of the pages.
Advanced(order, pages) ==
    [p \in Pages |-> IF p \in pages THEN order[p] + 1 ELSE order[p]]

-----------------------------------------------------------------------------
(* The calls.                                                              *)

\* The GS after an earlier call threw is only destroyed.
Calling ==
    /\ Alive(renderer) /\ ~renderer.shutDown
    /\ operations < MaxOperations
    /\ operations' = operations + 1

\* A call that finds so many requests served ends in the state; serves only
\* counts within it.
Call(body(_)) ==
    \E serves \in Serves :
        renderer' =
            [body([renderer EXCEPT !.serves = serves]) EXCEPT !.serves = 0]

Init ==
    /\ operations = 0
    /\ \E mode \in Modes :
        renderer =
          [mode |-> mode, active |-> "None", deferred |-> <<>>, tail |-> NoTail,
           inBatch |-> FALSE, queue |-> <<>>,
           batch |-> <<>>, batchReads |-> {}, batchWrites |-> {},
           batchTextures |-> {}, batchSnapshot |-> EmptyBatchSnapshot,
           resident |-> [valid |-> FALSE, image |-> NoImage, generation |-> 0],
           snapshot |-> [valid |-> FALSE, base |-> "None", onDevice |-> FALSE,
                         truth |-> [p \in Pages |-> 0], generation |-> 0],
           host |-> NoImage,
           ledger |-> Ledger!NoteCpuWrite(Ledger!EmptyLedger, Pages),
           cpu |-> [p \in Pages |-> 1], gpu |-> [p \in Pages |-> 0],
           order |-> [p \in Pages |-> 1],
           failed |-> FALSE, shutDown |-> FALSE, threw |-> FALSE,
           recursing |-> FALSE, broken |-> FALSE, misread |-> FALSE,
           misfed |-> FALSE, serves |-> 0]

\* drawPrimitive(): the command keeps what its pages and its snapshot hold in
\* command order.
Draw ==
    /\ Calling
    /\ \E kind \in Kinds, frame \in Pages, sampled \in SUBSET Pages,
          depth \in {1, 2}, longEnough \in BOOLEAN :
        /\ sampled \in Textures(kind, frame)
        /\ depth \in Depths(kind)
        /\ LET c == [kind |-> kind, frame |-> frame, sampled |-> sampled,
                     depth |-> depth, needs |-> renderer.order,
                     feed |-> [p \in Pages |-> 0]]
               submit(prepared) ==
                   Submit([prepared EXCEPT
                              !.order = Advanced(renderer.order, Writes(c))],
                          [c EXCEPT !.feed = prepared.snapshot.truth],
                          longEnough)
               draw(r) ==
                   Then(PrepareFeedbackSnapshot([r EXCEPT !.inBatch = TRUE], c),
                        submit)
           IN  Call(draw)

\* A transfer, clear, CLUT load or local-to-host read by the CPU.
AccessCpuVram ==
    /\ Calling
    /\ \E reads \in SUBSET Pages, writes \in SUBSET Pages :
        /\ reads \cup writes # {} /\ reads \cap writes = {}
        /\ Cardinality(reads) <= 1 /\ Cardinality(writes) <= 1
        /\ LET access(ready) ==
                   NoteCpuWrite(
                       [ready EXCEPT
                           !.misread =
                               \/ ready.misread
                               \/ \E page \in reads \cup writes :
                                     ready.cpu[page] # ready.order[page],
                           !.cpu = Advanced(ready.cpu, writes),
                           !.order = Advanced(ready.order, writes)],
                       writes)
               accessed(r) == Then(BeginCpuVramAccess(r, reads, writes), access)
           IN  Call(accessed)

\* flushRenderBatch() and endRenderBatch(), reset, save and debugger reads.
Flush ==
    /\ Calling
    /\ \E ends \in BOOLEAN :
        LET ended(flushed) == [flushed EXCEPT !.inBatch = @ /\ ~ends]
            flush(r) == Then(FlushCanonical(r), ended)
        IN  Call(flush)

\* The presentation reads the pages of the displayed frame.
Present ==
    /\ Calling
    /\ \E page \in Pages :
        LET read(ready) ==
                [ready EXCEPT !.misread =
                    ready.misread \/ ready.cpu[page] # ready.order[page]]
            present(r) == Then(FlushForCpuReadback(r, {page}), read)
        IN  Call(present)

EndDrawSubmissionBatch ==
    /\ Calling
    /\ LET end(r) == [FlushSoftware(r) EXCEPT !.inBatch = FALSE]
       IN  Call(end)

\* setRendererMode(): an accelerated mode needs a working backend.
SetRendererMode ==
    /\ Calling
    /\ \E mode \in Modes \ {renderer.mode} :
        /\ mode = "Software" \/ ~renderer.failed
        /\ LET set(ready) == [ready EXCEPT !.mode = mode]
               change(r) ==
                   Then(PrepareCpuVramAccess(FlushActive(r), Pages, Pages), set)
           IN  Call(change)

\* The owner's destructor: the backend swallows a failure of its own, but not
\* the router's while it settles.  After a call that threw, what is resolved
\* here is drawn on a memory that lacks the lost commands.
Shutdown ==
    /\ ~renderer.shutDown /\ ~renderer.recursing
    /\ LET stop(rendered) ==
               [PrepareCpuVramAccess(rendered, Pages, Pages) EXCEPT
                   !.threw = renderer.threw, !.active = "None"]
           destroyed(stopped) ==
               [stopped EXCEPT
                   !.shutDown = TRUE,
                   !.misread = IF renderer.threw THEN renderer.misread ELSE @]
           destroy(r) ==
               destroyed(Then(RenderQueued(Settle([r EXCEPT !.threw = FALSE])),
                              stop))
       IN  Call(destroy)
    /\ UNCHANGED operations

Next ==
    \/ Draw
    \/ AccessCpuVram
    \/ Flush
    \/ Present
    \/ EndDrawSubmissionBatch
    \/ SetRendererMode
    \/ Shutdown

Spec == Init /\ [][Next]_vars

-----------------------------------------------------------------------------
(* Properties.                                                             *)

PageSets == SUBSET Pages

TypeOK ==
    /\ operations \in 0..MaxOperations
    /\ renderer.mode \in Modes
    /\ renderer.active \in {"None", "Software", "Accelerated"}
    /\ {renderer.batchReads, renderer.batchWrites,
        renderer.batchTextures} \subseteq PageSets
    /\ Len(renderer.batch) <= MaxBatch
    /\ Len(renderer.deferred) < MaxDeferred \/ ~Alive(renderer)

\* What a copy holds once the commands that still wait are drawn on it.
Completed(image) ==
    DrawnAll(DrawnAll(DrawnAll(image, renderer.queue), renderer.batch),
             renderer.deferred)

\* The copy the ledger does not call older has every write but the waiting.
NewestComplete ==
    \A page \in Pages :
        /\ page \notin Ledger!GpuNewer(renderer.ledger, Pages) =>
              Completed(renderer.cpu)[page] = renderer.order[page]
        /\ page \notin Ledger!CpuNewer(renderer.ledger, Pages) =>
              Completed(renderer.gpu)[page] = renderer.order[page]

\* Whatever is deferred, batched, queued, verified, moved between the copies or
\* read by the CPU, every command and every read sees the memory that the
\* commands before it made, and no write is lost or doubled; so does the
\* memory an owner finds after a shutdown of a working device.
VramExact ==
    /\ TypeOK
    /\ ~renderer.misread
    /\ Alive(renderer) /\ ~renderer.failed =>
          /\ NewestComplete
          /\ renderer.shutDown => renderer.cpu = renderer.order

\* At most one backend holds commands and it is the active one, so that a
\* transition or an access that only drains the active backend leaves nothing
\* behind; an admitted run continues only in front of nothing deferred.
OneBackendHolds ==
    Alive(renderer) /\ ~renderer.failed =>
        /\ renderer.queue # <<>> => renderer.active = "Software"
        /\ renderer.batch # <<>> => renderer.active = "Accelerated"
        /\ renderer.tail # NoTail =>
              renderer.active = "Accelerated" /\ renderer.deferred = <<>>

\* The program never contradicts itself: no page transition is refused and no
\* draw that samples its own frame finds its snapshot missing, whichever
\* backend draws it and however late (reject(), renderSoftwarePrimitive()).
NeverContradicts == ~renderer.broken

\* A run of draws that sample their own frame samples the memory as it was
\* before the first of them, whoever draws them.
SnapshotKept == ~renderer.misfed

\* A deferred run is resolved by one call that ends.
ResolvesOnce == ~renderer.recursing
=============================================================================
