---------------------------- MODULE CommandStream ----------------------------
(***************************************************************************)
(* What ThreadedGsExecutor promises those who submit commands to it: they   *)
(* are carried out one at a time, in the order of submission, until one     *)
(* fails or the stream is cancelled, and every command after that is given  *)
(* up, in the same order, with the reason.                                  *)
(***************************************************************************)
EXTENDS Integers, Sequences

VARIABLES
    phase,          \* Open, Draining or Cancelling
    busy,           \* a command is being carried out
    outcome         \* of each command

vars == <<phase, busy, outcome>>

Init ==
    /\ phase = "Open"
    /\ busy = FALSE
    /\ outcome = <<>>

Accept ==
    /\ phase = "Open"
    /\ outcome' = Append(outcome, "Pending")
    /\ UNCHANGED <<phase, busy>>

Drain ==
    /\ phase = "Open"
    /\ phase' = "Draining"
    /\ UNCHANGED <<busy, outcome>>

Cancel ==
    /\ phase # "Cancelling"
    /\ phase' = "Cancelling"
    /\ UNCHANGED <<busy, outcome>>

Oldest(t) ==
    /\ outcome[t] = "Pending"
    /\ \A u \in 1 .. t - 1 : outcome[u] # "Pending"

Begin(t) ==
    /\ ~ busy
    /\ phase # "Cancelling"
    /\ outcome[t] = "Pending"
    /\ \A u \in 1 .. t - 1 : outcome[u] \in {"Completed", "Stale"}
    /\ busy' = TRUE
    /\ UNCHANGED <<phase, outcome>>

\* The command that was begun ends, in a result or in a failure.
Finish(t, result) ==
    /\ busy
    /\ Oldest(t)
    /\ busy' = FALSE
    /\ outcome' = [outcome EXCEPT ![t] = result]
    /\ UNCHANGED phase

Broken == \E t \in 1 .. Len(outcome) : outcome[t] \in {"Threw", "Rejected"}

\* A command is told the failure of the one that broke the stream, or that the
\* stream was cancelled.
GiveUp(t) ==
    /\ ~ busy
    /\ phase = "Cancelling"
    /\ Oldest(t)
    /\ outcome' =
         [outcome EXCEPT ![t] = IF Broken THEN "Failed" ELSE "Cancelled"]
    /\ UNCHANGED <<phase, busy>>

Next ==
    \/ Accept \/ Drain \/ Cancel
    \/ \E t \in 1 .. Len(outcome) :
          \/ Begin(t)
          \/ \E result \in {"Completed", "Stale", "Threw", "Rejected"} :
                Finish(t, result)
          \/ GiveUp(t)

Spec == Init /\ [][Next]_vars
=============================================================================
