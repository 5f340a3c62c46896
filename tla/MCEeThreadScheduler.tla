------------------------ MODULE MCEeThreadScheduler ------------------------
(***************************************************************************)
(* Instances of EeThreadScheduler for TLC.                                  *)
(***************************************************************************)
EXTENDS EeThreadScheduler, TLC

MCCompletions == {"Satisfied", "Released"}

Symmetry == Permutations(ThreadIds) \cup Permutations(Generations)

\* No operation looks at more of the sequence numbers than their order, so
\* states that differ in their values alone are explored once.  The search then
\* ends by itself, at a depth well below MaxQueueSequence.
Rank(n) ==
    Cardinality({t \in DOMAIN threads : threads[t].queueSequence \in 1 .. n})

OrderView ==
    <<[t \in DOMAIN threads |->
         [threads[t] EXCEPT !.queueSequence = Rank(@)]],
      readyQueues, waitQueues, currentThreadId>>
=============================================================================
