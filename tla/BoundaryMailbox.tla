--------------------------- MODULE BoundaryMailbox ---------------------------
(***************************************************************************)
(* What EeRuntimeExecutor promises the host threads that publish commands   *)
(* to it: a mailbox that opens once and closes once, hands out its commands *)
(* no earlier than they are due and in the order of publication and         *)
(* deadline, hands out none after one has failed, and gives up what is left *)
(* in one step, once it is closed.                                          *)
(***************************************************************************)
EXTENDS Integers, Sequences

CONSTANT MaxTime        \* the last deadline

VARIABLES
    phase,              \* of the mailbox: New, Open or Closed
    now,                \* the steady clock
    due,                \* when each command was or becomes eligible
    outcome             \* what became of each command

vars == <<phase, now, due, outcome>>

Init ==
    /\ phase = "New"
    /\ now = 0
    /\ due = <<>>
    /\ outcome = <<>>

Open ==
    /\ phase = "New"
    /\ phase' = "Open"
    /\ UNCHANGED <<now, due, outcome>>

Close ==
    /\ phase \in {"New", "Open"}
    /\ phase' = "Closed"
    /\ UNCHANGED <<now, due, outcome>>

Tick ==
    /\ now' = now + 1
    /\ UNCHANGED <<phase, due, outcome>>

Post(deadline) ==
    /\ phase = "Open"
    /\ due' = Append(due, deadline)
    /\ outcome' = Append(outcome, "Queued")
    /\ UNCHANGED <<phase, now>>

Waits(t) == t \in 1 .. Len(outcome) /\ outcome[t] = "Queued"

\* The command runs, to its end or into an exception that ends the executor.
\* A command already taken is finished when the mailbox closes meanwhile.
Deliver(t, result) ==
    /\ Waits(t)
    /\ due[t] <= now
    /\ \A u \in 1 .. t - 1 : Waits(u) => due[u] > due[t]
    /\ \A u \in 1 .. Len(outcome) : outcome[u] \in {"Queued", "Applied"}
    /\ outcome' = [outcome EXCEPT ![t] = result]
    /\ UNCHANGED <<phase, now, due>>

Abandon ==
    /\ phase = "Closed"
    /\ outcome' = [t \in 1 .. Len(outcome) |->
                     IF Waits(t) THEN "Abandoned" ELSE outcome[t]]
    /\ UNCHANGED <<phase, now, due>>

Next ==
    \/ Open \/ Close \/ Tick
    \/ \E deadline \in 0 .. MaxTime : Post(deadline)
    \/ \E t \in 1 .. Len(outcome), result \in {"Applied", "Threw"} :
          Deliver(t, result)
    \/ Abandon

Spec == Init /\ [][Next]_vars
=============================================================================
