----------------------------- MODULE BoundedFifo -----------------------------
(***************************************************************************)
(* What BoundedSpscQueue promises the subsystems that use it: a first-in    *)
(* first-out buffer of exactly Capacity entries that loses, duplicates and  *)
(* reorders nothing.                                                        *)
(***************************************************************************)
EXTENDS Integers, Sequences

CONSTANTS
    Capacity,       \* capacity()
    Items           \* the values pushed

VARIABLES
    queue,          \* the entries published and not yet popped
    popped          \* the result of the last tryPop, as a sequence of 0 or 1

vars == <<queue, popped>>

Init ==
    /\ queue = <<>>
    /\ popped = <<>>

\* A tryPush that succeeds.
Push(item) ==
    /\ Len(queue) < Capacity
    /\ queue' = Append(queue, item)
    /\ UNCHANGED popped

\* A tryPop that succeeds.
Pop ==
    /\ queue # <<>>
    /\ popped' = <<Head(queue)>>
    /\ queue' = Tail(queue)

\* A tryPop that finds nothing.
PopNothing ==
    /\ popped' = <<>>
    /\ UNCHANGED queue

Next ==
    \/ \E item \in Items : Push(item)
    \/ Pop
    \/ PopNothing

Spec == Init /\ [][Next]_vars

FairSpec == Spec /\ WF_vars(Pop)
=============================================================================
