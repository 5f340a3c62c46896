----------------------------- MODULE MCEeKernel -----------------------------
(***************************************************************************)
(* Instance of EeKernel for TLC.                                            *)
(***************************************************************************)
EXTENDS EeKernel

MCModes == {[any |-> FALSE, clear |-> "Bits"]}

Symmetry == Permutations(ThreadIds \ {MainThread})

\* As in MCEeThreadScheduler: only the order of the sequence numbers counts.
Rank(n) ==
    Cardinality({t \in DOMAIN threads : threads[t].queueSequence \in 1 .. n})

OrderView ==
    <<[t \in DOMAIN threads |->
         [threads[t] EXCEPT !.queueSequence = Rank(@)]],
      readyQueues, waitQueues, currentThreadId, infos, ids, tails, objects,
      queue, loop, draining, failed>>
=============================================================================
