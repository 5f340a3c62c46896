--------------------------- MODULE GsVramCoherency ---------------------------
(***************************************************************************)
(* The page ledger of ps2_gs_coherency.cpp: each page of GS local memory    *)
(* exists twice, for the CPU and in the GPU, and two generations tell which *)
(* copy is the newer.  A transition names a set of pages and is refused as  *)
(* a whole when one of them would lose its only newest copy.                *)
(*                                                                          *)
(* The two images are observers, known by how many writes they hold; what   *)
(* changes them is written beside the transition that records it, as the    *)
(* raster backend does in that order.                                       *)
(***************************************************************************)
EXTENDS Naturals

CONSTANTS
    Pages,          \* pages of GS local memory
    MaxGeneration   \* bound on the generations handed out

\* No generation has been handed out and no page written.
EmptyLedger ==
    [cpu |-> [p \in Pages |-> 0], gpu |-> [p \in Pages |-> 0], next |-> 1]

CpuNewer(ledger, within) == {p \in within : ledger.cpu[p] > ledger.gpu[p]}
GpuNewer(ledger, within) == {p \in within : ledger.gpu[p] > ledger.cpu[p]}

\* function with the values of other on the pages.
Copied(function, other, pages) ==
    [p \in Pages |-> IF p \in pages THEN other[p] ELSE function[p]]

Raised(function, pages, value) ==
    [p \in Pages |-> IF p \in pages THEN value ELSE function[p]]

\* Whether a transition is accepted.
AcceptsCpuWrite(ledger, pages) == GpuNewer(ledger, pages) = {}
AcceptsGpuWrite(ledger, pages) == CpuNewer(ledger, pages) = {}
AcceptsCpuToGpu(ledger, pages) == GpuNewer(ledger, pages) = {}
AcceptsGpuToCpu(ledger, pages) == CpuNewer(ledger, pages) = {}

NoteCpuWrite(ledger, pages) ==
    IF pages = {} THEN ledger
    ELSE [ledger EXCEPT !.cpu = Raised(ledger.cpu, pages, ledger.next),
                        !.next = ledger.next + 1]

NoteGpuWriteBatch(ledger, pages) ==
    IF pages = {} THEN ledger
    ELSE [ledger EXCEPT !.gpu = Raised(ledger.gpu, pages, ledger.next),
                        !.next = ledger.next + 1]

CompleteCpuToGpu(ledger, pages) ==
    [ledger EXCEPT !.gpu = Copied(ledger.gpu, ledger.cpu, pages)]

CompleteGpuToCpu(ledger, pages) ==
    [ledger EXCEPT !.cpu = Copied(ledger.cpu, ledger.gpu, pages)]

-----------------------------------------------------------------------------
VARIABLES
    ledger,         \* m_pages and m_nextGeneration
    cpuImage,       \* observer: the writes the CPU copy of each page holds
    gpuImage,       \* observer: the writes the GPU copy of each page holds
    written         \* observer: the writes made to each page

vars == <<ledger, cpuImage, gpuImage, written>>

\* One more write on each of the pages.
Written(pages) ==
    [p \in Pages |-> IF p \in pages THEN written[p] + 1 ELSE written[p]]

\* A write adds to the copy it is made to, which lacks what that copy lacked.
Extended(image, pages) ==
    [p \in Pages |-> IF p \in pages THEN image[p] + 1 ELSE image[p]]

Init ==
    /\ ledger = EmptyLedger
    /\ cpuImage = [p \in Pages |-> 0]
    /\ gpuImage = [p \in Pages |-> 0]
    /\ written = [p \in Pages |-> 0]

CpuWrite(pages) ==
    /\ AcceptsCpuWrite(ledger, pages)
    /\ ledger.next < MaxGeneration
    /\ ledger' = NoteCpuWrite(ledger, pages)
    /\ cpuImage' = Extended(cpuImage, pages)
    /\ written' = Written(pages)
    /\ UNCHANGED gpuImage

GpuWrite(pages) ==
    /\ AcceptsGpuWrite(ledger, pages)
    /\ ledger.next < MaxGeneration
    /\ ledger' = NoteGpuWriteBatch(ledger, pages)
    /\ gpuImage' = Extended(gpuImage, pages)
    /\ written' = Written(pages)
    /\ UNCHANGED cpuImage

CpuToGpu(pages) ==
    /\ AcceptsCpuToGpu(ledger, pages)
    /\ ledger' = CompleteCpuToGpu(ledger, pages)
    /\ gpuImage' = Copied(gpuImage, cpuImage, pages)
    /\ UNCHANGED <<cpuImage, written>>

GpuToCpu(pages) ==
    /\ AcceptsGpuToCpu(ledger, pages)
    /\ ledger' = CompleteGpuToCpu(ledger, pages)
    /\ cpuImage' = Copied(cpuImage, gpuImage, pages)
    /\ UNCHANGED <<gpuImage, written>>

Next ==
    \E pages \in SUBSET Pages :
        \/ CpuWrite(pages)
        \/ GpuWrite(pages)
        \/ CpuToGpu(pages)
        \/ GpuToCpu(pages)

Spec == Init /\ [][Next]_vars

-----------------------------------------------------------------------------
PageValues == [Pages -> Nat]

TypeOK ==
    /\ ledger \in [cpu : PageValues, gpu : PageValues, next : Nat \ {0}]
    /\ {cpuImage, gpuImage, written} \subseteq PageValues

\* invariantHolds(): every generation has been handed out.
Issued ==
    \A p \in Pages : ledger.cpu[p] < ledger.next /\ ledger.gpu[p] < ledger.next

\* The copy the ledger does not call older holds every write to its page.
NewestNamed ==
    \A p \in Pages :
        /\ p \notin GpuNewer(ledger, Pages) => cpuImage[p] = written[p]
        /\ p \notin CpuNewer(ledger, Pages) => gpuImage[p] = written[p]

\* Whatever transitions are made, with whatever sets of pages, no write is
\* lost: an accepted transition never overwrites the only newest copy of a
\* page, and the ledger names a copy that has every write (noteCpuWrite to
\* completeGpuToCpu), while its own invariant holds.
NothingLost ==
    /\ TypeOK
    /\ Issued
    /\ NewestNamed

=============================================================================
