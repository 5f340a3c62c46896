----------------------- MODULE EeRuntimeExecutor_proofs -----------------------
(***************************************************************************)
(* The runtime executor keeps every publication in exactly one place and    *)
(* applies them in order, halts before it acknowledges a pause and leaves   *)
(* nothing behind, for every limit of a boundary and any number of          *)
(* publications and control calls.                                          *)
(***************************************************************************)
EXTENDS EeRuntimeExecutor, SequenceTheorems, WellFoundedInduction, TLAPS

-----------------------------------------------------------------------------
(* The inductive invariant.  First the types, by kind.                       *)

QueueTypes ==
    /\ publications \in Seq(Tickets) /\ delayed \in Seq(Tickets)
    /\ due \in Seq(0 .. MaxTime) /\ Len(due) = Len(outcome)
    /\ outcome \in Seq(Outcomes) /\ Len(outcome) <= MaxPublications

NumberTypes ==
    /\ processed \in 0 .. MaxConsequences
    /\ held \in {0} \cup Tickets
    /\ now \in 0 .. MaxTime
    /\ stepsRemaining \in 0 .. MaxStep
    /\ controls \in 0 .. MaxControls

PlaceTypes ==
    /\ at \in {"Setup", "Snapshot", "Consequences", "Applying", "DebugStop",
               "DebugPause", "Steps", "LastStep", "Publish", "Waiting",
               "Guest", "Failing", "JoinAll", "FailPending", "Finish",
               "Exited"}
    /\ disposition \in {"ResumeGuest", "Paused", "StopRequested"}
    /\ control \in {"None", "PauseLock", "ResumeLock", "StepClear", "StepLock"}
    /\ lastControl \in {"None", "Pause", "Resume", "Step"}

FlagTypes ==
    /\ runnable \in BOOLEAN /\ prior \in BOOLEAN /\ mustFail \in BOOLEAN
    /\ wakeMoved \in BOOLEAN /\ controlMoved \in BOOLEAN
    /\ accepting \in BOOLEAN /\ running \in BOOLEAN
    /\ stopRequested \in BOOLEAN /\ failed \in BOOLEAN /\ stopping \in BOOLEAN
    /\ pausedAtBoundary \in BOOLEAN /\ pauseRequested \in BOOLEAN
    /\ debugStop \in BOOLEAN /\ newPause \in BOOLEAN

\* The publications that wait, in the order in which they will be applied if
\* none is added.
Line == publications \o delayed

\* One that stands behind another was published later or is due later.
Before(t, u) == ~ (u < t /\ due[u] <= due[t])

\* The line holds every queued publication but the one in hand, once, in order.
LineHolds ==
    /\ \A i \in 1 .. Len(Line) :
          /\ Line[i] \in 1 .. Len(outcome)
          /\ outcome[Line[i]] = "Queued"
          /\ Line[i] # held
    /\ \A t \in 1 .. Len(outcome) :
          outcome[t] = "Queued" /\ t # held
              => \E i \in 1 .. Len(Line) : Line[i] = t
    /\ \A i, j \in 1 .. Len(Line) :
          i < j => Line[i] # Line[j] /\ Before(Line[i], Line[j])
    /\ held # 0 => held \in 1 .. Len(outcome) /\ outcome[held] = "Queued"

\* The delayed ones stand in the order of their deadlines.
DelayedSorted ==
    \A i, j \in 1 .. Len(delayed) : i < j => due[delayed[i]] <= due[delayed[j]]

Done(t) == outcome[t] \in {"Applied", "Threw"}

\* What has been applied or is in hand has nothing left before it.
DoneInOrder ==
    \A t, u \in 1 .. Len(outcome) :
        ~ Before(u, t) /\ (Done(u) \/ u = held) => Done(t)

\* Publications are abandoned at the end only.
AbandonedLast ==
    (\E t \in 1 .. Len(outcome) : outcome[t] = "Abandoned")
        => at \in {"Finish", "Exited"}

\* A publication is in hand exactly while it is applied, within the limit.
InHand ==
    /\ held # 0 <=> at = "Applying"
    /\ at = "Applying" => processed < MaxConsequences

\* Nothing is accepted after a stop, and the loop ends by a stop only.
Stopping ==
    /\ stopRequested => ~ accepting
    /\ failed \/ stopping \/ debugStop => stopRequested
    /\ disposition = "StopRequested" => debugStop
    /\ at \in {"JoinAll", "FailPending", "Finish", "Exited"} => stopRequested
    /\ at \in {"Finish", "Exited"} => publications = <<>> /\ delayed = <<>>

\* Without steps only a request pauses the executor, and a boundary that saw
\* one before it was withdrawn knows by the control generation.
ResumeHeeded ==
    MaxStep = 0 =>
        /\ at # "LastStep"
        /\ control \notin {"StepClear", "StepLock"}
        /\ lastControl = "Resume" =>
              /\ ~ pauseRequested
              /\ control # "PauseLock"
              /\ control = "None" =>
                    /\ ~ pausedAtBoundary
                    /\ at = "Publish" /\ disposition = "Paused" => controlMoved

\* A step is only counted by a boundary that is to resume the guest.
StepsResume == at \in {"Steps", "LastStep"} => disposition = "ResumeGuest"

IInv ==
    /\ QueueTypes /\ NumberTypes /\ PlaceTypes /\ FlagTypes
    /\ LineHolds
    /\ DelayedSorted
    /\ DoneInOrder
    /\ AbandonedLast
    /\ InHand
    /\ Stopping
    /\ PausedMeansHalted
    /\ ResumeHeeded
    /\ StepsResume

-----------------------------------------------------------------------------
(* The line of publications: what an insertion, a removal at its front and   *)
(* a resolution do to it.                                                    *)

\* Every set of natural numbers has a least one.
LEMMA LeastNatural ==
    ASSUME NEW T \in SUBSET Nat, T # {}
    PROVE  \E x \in T : \A y \in T : x <= y
  <1> DEFINE R == {pair \in Nat \X Nat : pair[1] < pair[2]}
  <1>1. IsWellFoundedOn(R, Nat)
    BY NatLessThanWellFounded DEF OpToRel
  <1>2. \A a, b \in Nat : a < b => <<a, b>> \in R
    OBVIOUS
  <1> HIDE DEF R
  <1>3. PICK x \in T : \A y \in T : ~ (<<y, x>> \in R)
    BY <1>1, WFMin
  <1>4. \A y \in T : ~ (y < x)
    BY <1>2, <1>3
  <1> QED BY <1>4

LEMMA TypeParts ==
    TypeOK <=> QueueTypes /\ NumberTypes /\ PlaceTypes /\ FlagTypes
  BY Zenon DEF TypeOK, QueueTypes, NumberTypes, PlaceTypes, FlagTypes

\* What the queues are made of.
LEMMA QueueFacts ==
    ASSUME QueueTypes
    PROVE  /\ Len(publications) \in Nat /\ Len(delayed) \in Nat
           /\ Len(outcome) \in Nat /\ Len(due) = Len(outcome)
           /\ DOMAIN outcome = 1 .. Len(outcome)
           /\ DOMAIN due = 1 .. Len(outcome)
           /\ Line \in Seq(Tickets)
           /\ Len(Line) = Len(publications) + Len(delayed)
           /\ \A i \in 1 .. Len(publications) :
                 Line[i] = publications[i] /\ publications[i] \in Tickets
           /\ \A i \in 1 .. Len(delayed) :
                 /\ Line[Len(publications) + i] = delayed[i]
                 /\ delayed[i] \in Tickets
           /\ \A t \in 1 .. Len(outcome) : due[t] \in 0 .. MaxTime
  <1> USE DEF QueueTypes
  <1>1. /\ Len(publications) \in Nat /\ Len(delayed) \in Nat
        /\ Len(outcome) \in Nat /\ DOMAIN outcome = 1 .. Len(outcome)
        /\ Len(due) \in Nat /\ DOMAIN due = 1 .. Len(due)
    BY LenProperties
  <1>2. /\ Line \in Seq(Tickets)
        /\ Len(Line) = Len(publications) + Len(delayed)
        /\ \A i \in 1 .. Len(publications) + Len(delayed) :
              Line[i] = IF i <= Len(publications)
                        THEN publications[i] ELSE delayed[i - Len(publications)]
    BY ConcatProperties DEF Line
  <1>3. \A i \in 1 .. Len(publications) : publications[i] \in Tickets
    BY ElementOfSeq
  <1>4. \A i \in 1 .. Len(delayed) : delayed[i] \in Tickets
    BY ElementOfSeq
  <1>5. \A t \in 1 .. Len(due) : due[t] \in 0 .. MaxTime
    BY ElementOfSeq
  <1>6. ASSUME NEW i \in 1 .. Len(publications)
        PROVE  Line[i] = publications[i]
    BY <1>1, <1>2
  <1>7. ASSUME NEW i \in 1 .. Len(delayed)
        PROVE  Line[Len(publications) + i] = delayed[i]
    BY <1>1, <1>2, SMTT(60)
  <1> QED BY <1>1, <1>2, <1>3, <1>4, <1>5, <1>6, <1>7

LEMMA DelayedKnown ==
    ASSUME QueueTypes, LineHolds, NEW i \in 1 .. Len(delayed)
    PROVE  delayed[i] \in 1 .. Len(outcome) /\ due[delayed[i]] \in Int
  <1>1. /\ Len(delayed) \in Nat /\ Len(publications) \in Nat
        /\ Len(Line) = Len(publications) + Len(delayed)
    BY QueueFacts
  <1>2. Len(publications) + i \in 1 .. Len(Line)
    BY <1>1
  <1>3. delayed[i] \in 1 .. Len(outcome)
    BY <1>2, QueueFacts DEF LineHolds
  <1> QED BY <1>3, QueueFacts

\* The delayed publications due at a time are the first ones.
LEMMA DueFirst ==
    ASSUME QueueTypes, LineHolds, DelayedSorted, NEW time \in Int
    PROVE  /\ DueBy(time) \in 0 .. Len(delayed)
           /\ \A i \in 1 .. DueBy(time) : due[delayed[i]] <= time
           /\ \A i \in DueBy(time) + 1 .. Len(delayed) :
                 due[delayed[i]] > time
  <1> DEFINE Splits(n) ==
               /\ \A i \in 1 .. n : due[delayed[i]] <= time
               /\ n < Len(delayed) => due[delayed[n + 1]] > time
             Later == {i \in 1 .. Len(delayed) : due[delayed[i]] > time}
  <1>1. /\ Len(delayed) \in Nat
        /\ \A i \in 1 .. Len(delayed) : due[delayed[i]] \in Int
    BY QueueFacts, DelayedKnown
  <1>2. \E n \in 0 .. Len(delayed) : Splits(n)
    <2>1. CASE Later = {}
      BY <1>1, <2>1
    <2>2. CASE Later # {}
      <3>1. Later \in SUBSET Nat
        BY <1>1
      <3> HIDE DEF Later
      <3>2. PICK first \in Later : \A i \in Later : first <= i
        BY <2>2, <3>1, LeastNatural
      <3> USE DEF Later
      <3>3. first - 1 \in 0 .. Len(delayed) /\ first \in 1 .. Len(delayed)
        BY <1>1, <3>2
      <3>4. Splits(first - 1)
        BY <1>1, <3>2, <3>3
      <3> QED BY <3>3, <3>4
    <2> QED BY <2>1, <2>2
  <1>3. DueBy(time) \in 0 .. Len(delayed) /\ Splits(DueBy(time))
    BY <1>2 DEF DueBy
  <1> HIDE DEF Later
  <1>4. ASSUME NEW i \in DueBy(time) + 1 .. Len(delayed)
        PROVE  due[delayed[i]] > time
    <2> DEFINE n == DueBy(time)
    <2>1. n \in 0 .. Len(delayed) /\ n < Len(delayed) /\ n + 1 \in 1 .. Len(delayed)
      BY <1>1, <1>3
    <2>2. due[delayed[n + 1]] > time
      BY <1>3, <2>1
    <2>3. i \in 1 .. Len(delayed) /\ (n + 1 = i \/ n + 1 < i)
      BY <1>1, <2>1
    <2>4. due[delayed[n + 1]] <= due[delayed[i]]
      BY <1>1, <2>1, <2>3 DEF DelayedSorted
    <2> HIDE DEF n
    <2> QED BY <1>1, <2>1, <2>2, <2>3, <2>4
  <1> QED BY <1>3, <1>4

\* The line with one more publication in it.
Inserted(new, old, k, t) ==
    /\ Len(new) = Len(old) + 1
    /\ k \in 0 .. Len(old)
    /\ \A i \in 1 .. Len(old) + 1 :
          new[i] = IF i <= k THEN old[i]
                   ELSE IF i = k + 1 THEN t ELSE old[i - 1]

\* A publication with a new ticket, due at a time.
Joins(time) ==
    /\ outcome' \in Seq(Outcomes) /\ due' \in Seq(0 .. MaxTime)
    /\ Len(outcome') = Ticket /\ Len(due') = Ticket
    /\ outcome'[Ticket] = "Queued" /\ due'[Ticket] = time
    /\ \A t \in 1 .. Len(outcome) :
          outcome'[t] = outcome[t] /\ due'[t] = due[t]

LEMMA AppendJoins ==
    ASSUME QueueTypes, NEW time \in 0 .. MaxTime,
           due' = Append(due, time), outcome' = Append(outcome, "Queued")
    PROVE  Joins(time)
  <1>1. outcome \in Seq(Outcomes) /\ "Queued" \in Outcomes
    BY DEF QueueTypes, Outcomes
  <1>2. due \in Seq(0 .. MaxTime) /\ Len(due) = Len(outcome)
    BY DEF QueueTypes
  <1> QED BY <1>1, <1>2, AppendProperties DEF Joins, Ticket

\* A new publication takes its place behind all that are due no later.
LEMMA EnqueueKeeps ==
    ASSUME QueueTypes, NumberTypes, LineHolds, DoneInOrder,
           NEW k, NEW time \in 0 .. MaxTime,
           Inserted(Line', Line, k, Ticket),
           \A i \in k + 1 .. Len(Line) : due[Line[i]] > time,
           Joins(time),
           UNCHANGED held
    PROVE  LineHolds' /\ DoneInOrder'
  <1>1. /\ Len(outcome) \in Nat /\ Len(Line) \in Nat
        /\ Ticket = Len(outcome) + 1 /\ Ticket \in Nat
    BY QueueFacts, LenProperties DEF Ticket
  <1>2. /\ Len(outcome') = Ticket
        /\ outcome'[Ticket] = "Queued"
        /\ \A t \in 1 .. Len(outcome) : outcome'[t] = outcome[t]
    BY DEF Joins
  <1>3. /\ due'[Ticket] = time
        /\ \A t \in 1 .. Len(outcome) : due'[t] = due[t] /\ due[t] \in Nat
    BY QueueFacts DEF Joins
  <1>4. \A i \in 1 .. Len(Line) : Line[i] \in 1 .. Len(outcome)
    BY DEF LineHolds
  <1>5. \A t, u \in 1 .. Len(outcome) : Before(t, u)' <=> Before(t, u)
    BY <1>3 DEF Before
  <1>6. \A t \in 1 .. Len(outcome) : ~ (Ticket < t)
    BY <1>1
  <1>7. ASSUME NEW i \in k + 1 .. Len(Line)
        PROVE  ~ (Line[i] < Ticket /\ due'[Line[i]] <= due'[Ticket])
    <2>1. i \in 1 .. Len(Line) /\ Line[i] \in 1 .. Len(outcome)
      BY <1>1, <1>4 DEF Inserted
    <2>2. due'[Line[i]] > time /\ due'[Line[i]] \in Nat
      BY <1>3, <2>1
    <2>3. due'[Ticket] = time /\ time \in Int
      BY <1>3
    <2>4. due'[Line[i]] \in Int
      BY <2>2
    <2>5. ~ (due'[Line[i]] <= time)
      BY <2>2, <2>3, <2>4
    <2> QED BY <2>3, <2>5
  <1>8. held # Ticket
    BY <1>1 DEF LineHolds
  <1>9. LineHolds'
    <2>1. ASSUME NEW i \in 1 .. Len(Line')
          PROVE  /\ Line'[i] \in 1 .. Len(outcome')
                 /\ outcome'[Line'[i]] = "Queued"
                 /\ Line'[i] # held
      <3>1. CASE i <= k
        <4>1. i \in 1 .. Len(Line) /\ Line'[i] = Line[i]
          BY <1>1, <3>1 DEF Inserted
        <4> QED BY <1>1, <1>2, <4>1 DEF LineHolds
      <3>2. CASE i = k + 1
        BY <1>1, <1>2, <1>8, <3>2 DEF Inserted
      <3>3. CASE i > k + 1
        <4>1. i - 1 \in 1 .. Len(Line) /\ Line'[i] = Line[i - 1]
          BY <1>1, <3>3 DEF Inserted
        <4> QED BY <1>1, <1>2, <4>1 DEF LineHolds
      <3> QED BY <1>1, <3>1, <3>2, <3>3 DEF Inserted
    <2>2. ASSUME NEW t \in 1 .. Len(outcome'), outcome'[t] = "Queued", t # held
          PROVE  \E i \in 1 .. Len(Line') : Line'[i] = t
      <3>1. CASE t = Ticket
        <4>1. k + 1 \in 1 .. Len(Line') /\ Line'[k + 1] = Ticket
          BY <1>1 DEF Inserted
        <4> QED BY <3>1, <4>1
      <3>2. CASE t # Ticket
        <4>1. t \in 1 .. Len(outcome) /\ outcome[t] = "Queued"
          BY <1>1, <1>2, <2>2, <3>2
        <4>2. PICK i \in 1 .. Len(Line) : Line[i] = t
          BY <2>2, <4>1 DEF LineHolds
        <4>3. CASE i <= k
          <5>1. i \in 1 .. Len(Line') /\ Line'[i] = Line[i]
            BY <1>1, <4>3 DEF Inserted
          <5> QED BY <4>2, <5>1
        <4>4. CASE ~ (i <= k)
          <5>1. i + 1 \in 1 .. Len(Line') /\ Line'[i + 1] = Line[i + 1 - 1]
            BY <1>1, <4>4 DEF Inserted
          <5>2. i + 1 - 1 = i
            BY <1>1
          <5> QED BY <4>2, <5>1, <5>2
        <4> QED BY <4>3, <4>4
      <3> QED BY <3>1, <3>2
    <2>3. ASSUME NEW i \in 1 .. Len(Line'), NEW j \in 1 .. Len(Line'), i < j
          PROVE  Line'[i] # Line'[j] /\ Before(Line[i], Line[j])'
      <3>1. /\ i \in 1 .. Len(Line) + 1 /\ j \in 1 .. Len(Line) + 1
            /\ k \in 0 .. Len(Line) /\ i \in Int /\ j \in Int
        BY <1>1 DEF Inserted
      <3>2. \A a, b \in 1 .. Len(Line) :
              a < b => /\ Line[a] # Line[b]
                       /\ Before(Line[a], Line[b]) /\ Line[a] \in 1 .. Len(outcome)
                       /\ Line[b] \in 1 .. Len(outcome)
        BY <1>4 DEF LineHolds
      <3>3. CASE j <= k
        <4>1. /\ Line'[i] = Line[i] /\ Line'[j] = Line[j]
              /\ i \in 1 .. Len(Line) /\ j \in 1 .. Len(Line)
          BY <1>1, <2>3, <3>1, <3>3 DEF Inserted
        <4> QED BY <1>5, <2>3, <3>2, <4>1 DEF Before
      <3>4. CASE j = k + 1
        <4>1. /\ Line'[i] = Line[i] /\ Line'[j] = Ticket
              /\ i \in 1 .. Len(Line)
          BY <1>1, <2>3, <3>1, <3>4 DEF Inserted
        <4>2. Line[i] \in 1 .. Len(outcome)
          BY <1>4, <4>1
        <4> QED BY <1>1, <1>6, <4>1, <4>2 DEF Before
      <3>5. CASE j > k + 1 /\ i <= k
        <4>1. /\ Line'[i] = Line[i] /\ Line'[j] = Line[j - 1]
              /\ i \in 1 .. Len(Line) /\ j - 1 \in 1 .. Len(Line) /\ i < j - 1
          BY <1>1, <2>3, <3>1, <3>5 DEF Inserted
        <4> QED BY <1>5, <3>2, <4>1 DEF Before
      <3>6. CASE j > k + 1 /\ i = k + 1
        <4>1. /\ Line'[i] = Ticket /\ Line'[j] = Line[j - 1]
              /\ j - 1 \in k + 1 .. Len(Line) /\ j - 1 \in 1 .. Len(Line)
          BY <1>1, <2>3, <3>1, <3>6 DEF Inserted
        <4>2. Line[j - 1] \in 1 .. Len(outcome)
          BY <1>4, <4>1
        <4>3. ~ (Line[j - 1] < Ticket /\ due'[Line[j - 1]] <= due'[Ticket])
          BY <1>7, <4>1
        <4>4. Line[j - 1] # Ticket
          BY <1>1, <4>2
        <4>5. Before(Line[i], Line[j])'
          BY <4>1, <4>3 DEF Before
        <4> QED BY <4>1, <4>4, <4>5
      <3>7. CASE j > k + 1 /\ i > k + 1
        <4>1. /\ Line'[i] = Line[i - 1] /\ Line'[j] = Line[j - 1]
              /\ i - 1 \in 1 .. Len(Line) /\ j - 1 \in 1 .. Len(Line)
              /\ i - 1 < j - 1
          BY <1>1, <2>3, <3>1, <3>7 DEF Inserted
        <4> QED BY <1>5, <3>2, <4>1 DEF Before
      <3> QED BY <3>1, <3>3, <3>4, <3>5, <3>6, <3>7
    <2>4. held # 0 => held \in 1 .. Len(outcome') /\ outcome'[held] = "Queued"
      BY <1>1, <1>2 DEF LineHolds
    <2> QED BY <2>1, <2>2, <2>3, <2>4 DEF LineHolds
  <1>10. DoneInOrder'
    <2> SUFFICES ASSUME NEW t \in 1 .. Len(outcome'), NEW u \in 1 .. Len(outcome'),
                        ~ Before(u, t)', Done(u)' \/ u = held
                 PROVE  Done(t)'
      BY DEF DoneInOrder, Done, Before
    <2>1. u \in 1 .. Len(outcome)
      BY <1>1, <1>2, <1>8 DEF Done
    <2>2. t \in 1 .. Len(outcome)
      BY <1>1, <1>2, <2>1 DEF Before
    <2>3. ~ Before(u, t) /\ (Done(u) \/ u = held)
      BY <1>2, <1>5, <2>1, <2>2 DEF Done
    <2>4. Done(t)
      BY <2>1, <2>2, <2>3 DEF DoneInOrder
    <2> QED BY <1>2, <2>2, <2>4 DEF Done
  <1> QED BY <1>9, <1>10

\* A sequence cut in two.
LEMMA Cut ==
    ASSUME NEW S, NEW s \in Seq(S), NEW n \in 0 .. Len(s)
    PROVE  /\ SubSeq(s, 1, n) \in Seq(S) /\ Len(SubSeq(s, 1, n)) = n
           /\ \A i \in 1 .. n : SubSeq(s, 1, n)[i] = s[i]
           /\ SubSeq(s, n + 1, Len(s)) \in Seq(S)
           /\ Len(SubSeq(s, n + 1, Len(s))) = Len(s) - n
           /\ \A i \in 1 .. Len(s) - n : SubSeq(s, n + 1, Len(s))[i] = s[n + i]
  <1>1. Len(s) \in Nat /\ \A i \in 1 .. Len(s) : s[i] \in S
    BY LenProperties, ElementOfSeq
  <1>2. n \in Int /\ n + 1 \in Int /\ Len(s) \in Int
    BY <1>1
  <1>3. /\ \A i \in 1 .. n : s[i] \in S
        /\ \A i \in n + 1 .. Len(s) : s[i] \in S
    BY <1>1
  <1>4. /\ SubSeq(s, 1, n) \in Seq(S)
        /\ Len(SubSeq(s, 1, n)) = IF 1 <= n THEN n - 1 + 1 ELSE 0
        /\ \A i \in 1 .. n - 1 + 1 : SubSeq(s, 1, n)[i] = s[1 + i - 1]
    BY <1>2, <1>3, SubSeqProperties
  <1>5. /\ SubSeq(s, n + 1, Len(s)) \in Seq(S)
        /\ Len(SubSeq(s, n + 1, Len(s))) =
              IF n + 1 <= Len(s) THEN Len(s) - (n + 1) + 1 ELSE 0
        /\ \A i \in 1 .. Len(s) - (n + 1) + 1 :
              SubSeq(s, n + 1, Len(s))[i] = s[n + 1 + i - 1]
    BY <1>2, <1>3, SubSeqProperties
  <1>6. /\ Len(SubSeq(s, 1, n)) = n
        /\ \A i \in 1 .. n : SubSeq(s, 1, n)[i] = s[i]
    BY <1>2, <1>4
  <1>7. /\ Len(SubSeq(s, n + 1, Len(s))) = Len(s) - n
        /\ \A i \in 1 .. Len(s) - n : SubSeq(s, n + 1, Len(s))[i] = s[n + i]
    BY <1>2, <1>5
  <1> QED BY <1>4, <1>5, <1>6, <1>7

\* An element inserted into a sequence.
LEMMA InsertAtInserts ==
    ASSUME NEW S, NEW s \in Seq(S), NEW k \in 0 .. Len(s), NEW t \in S,
           NEW i, i = k + 1
    PROVE  InsertAt(s, i, t) \in Seq(S) /\ Inserted(InsertAt(s, i, t), s, k, t)
  <1> DEFINE front == SubSeq(s, 1, k)
             back == SubSeq(s, k + 1, Len(s))
  <1>1. /\ front \in Seq(S) /\ Len(front) = k /\ \A j \in 1 .. k : front[j] = s[j]
        /\ back \in Seq(S) /\ Len(back) = Len(s) - k
        /\ \A j \in 1 .. Len(s) - k : back[j] = s[k + j]
    BY Cut
  <1>0. i - 1 = k /\ SubSeq(s, i, Len(s)) = back
    OBVIOUS
  <1>2. InsertAt(s, i, t) = front \o <<t>> \o back
    BY <1>0 DEF InsertAt
  <1> HIDE DEF front, back
  <1>3. /\ <<t>> \in Seq(S) /\ Len(<<t>>) = 1 /\ <<t>>[1] = t
        /\ Len(s) \in Nat
    BY LenProperties
  <1>4. /\ front \o <<t>> \in Seq(S) /\ Len(front \o <<t>>) = k + 1
        /\ \A j \in 1 .. k + 1 :
              (front \o <<t>>)[j] = IF j <= k THEN s[j] ELSE t
    BY <1>1, <1>3, ConcatProperties
  <1> DEFINE first == front \o <<t>>
  <1> HIDE DEF first
  <1>5. /\ first \o back \in Seq(S) /\ Len(first \o back) = Len(s) + 1
        /\ \A j \in 1 .. Len(s) + 1 :
              (first \o back)[j] = IF j <= k + 1 THEN first[j] ELSE back[j - (k + 1)]
    <2>1. first \in Seq(S) /\ Len(first) = k + 1
      BY <1>4 DEF first
    <2> QED BY <1>1, <1>3, <2>1, ConcatProperties
  <1>6. \A j \in 1 .. Len(s) + 1 :
           (first \o back)[j] = IF j <= k THEN s[j]
                                ELSE IF j = k + 1 THEN t ELSE s[j - 1]
    <2> TAKE j \in 1 .. Len(s) + 1
    <2>1. CASE j <= k + 1
      BY <1>3, <1>4, <1>5, <2>1 DEF first
    <2>2. CASE ~ (j <= k + 1)
      <3>1. j - (k + 1) \in 1 .. Len(s) - k /\ k + (j - (k + 1)) = j - 1
        BY <1>3, <2>2
      <3>2. back[j - (k + 1)] = s[j - 1]
        BY <1>1, <3>1
      <3> QED BY <1>3, <1>5, <2>2, <3>2
    <2> QED BY <2>1, <2>2
  <1>7. InsertAt(s, i, t) = first \o back
    BY <1>2 DEF first
  <1>8. Inserted(first \o back, s, k, t)
    BY <1>5, <1>6 DEF Inserted
  <1> QED BY <1>5, <1>7, <1>8

\* The publications that can be taken are the first of the line.
LEMMA EligibleFirst ==
    ASSUME QueueTypes, NumberTypes, LineHolds, DelayedSorted
    PROVE  LET n == DueBy(now) IN
           /\ n \in 0 .. Len(delayed)
           /\ Eligible \in Seq(Tickets) /\ Len(Eligible) = Len(publications) + n
           /\ \A i \in 1 .. Len(publications) + n : Eligible[i] = Line[i]
           /\ Unripe \in Seq(Tickets) /\ Len(Unripe) = Len(delayed) - n
           /\ \A i \in 1 .. Len(delayed) - n :
                 /\ Unripe[i] = delayed[n + i]
                 /\ Unripe[i] = Line[Len(publications) + n + i]
           /\ \A i \in Len(publications) + n + 1 .. Len(Line) : due[Line[i]] > now
  <1> DEFINE n == DueBy(now)
  <1>1. /\ n \in 0 .. Len(delayed)
        /\ \A i \in n + 1 .. Len(delayed) : due[delayed[i]] > now
    <2>1. now \in Int
      BY DEF NumberTypes
    <2> QED BY <2>1, DueFirst
  <1>2. /\ Ripe = SubSeq(delayed, 1, n) /\ Unripe = SubSeq(delayed, n + 1, Len(delayed))
        /\ Eligible = publications \o Ripe
    BY DEF Ripe, Unripe, Eligible
  <1> HIDE DEF n
  <1>3. /\ publications \in Seq(Tickets) /\ delayed \in Seq(Tickets)
        /\ Len(publications) \in Nat /\ Len(delayed) \in Nat
        /\ Len(Line) = Len(publications) + Len(delayed)
        /\ \A i \in 1 .. Len(publications) : Line[i] = publications[i]
        /\ \A i \in 1 .. Len(delayed) : Line[Len(publications) + i] = delayed[i]
    BY QueueFacts DEF QueueTypes
  <1>4. /\ Ripe \in Seq(Tickets) /\ Len(Ripe) = n
        /\ \A i \in 1 .. n : Ripe[i] = delayed[i]
        /\ Unripe \in Seq(Tickets) /\ Len(Unripe) = Len(delayed) - n
        /\ \A i \in 1 .. Len(delayed) - n : Unripe[i] = delayed[n + i]
    BY <1>1, <1>2, <1>3, Cut
  <1>5. /\ Eligible \in Seq(Tickets) /\ Len(Eligible) = Len(publications) + n
        /\ \A i \in 1 .. Len(publications) + n :
              Eligible[i] = IF i <= Len(publications) THEN publications[i]
                            ELSE Ripe[i - Len(publications)]
    BY <1>2, <1>3, <1>4, ConcatProperties, SMTT(60)
  <1>6. ASSUME NEW i \in 1 .. Len(publications) + n
        PROVE  Eligible[i] = Line[i]
    <2>1. CASE i <= Len(publications)
      BY <1>3, <1>5, <2>1
    <2>2. CASE ~ (i <= Len(publications))
      <3>1. /\ i - Len(publications) \in 1 .. n
            /\ i - Len(publications) \in 1 .. Len(delayed)
            /\ Len(publications) + (i - Len(publications)) = i
        BY <1>1, <1>3, <2>2
      <3>2. /\ Ripe[i - Len(publications)] = delayed[i - Len(publications)]
            /\ Line[i] = delayed[i - Len(publications)]
        BY <1>3, <1>4, <3>1
      <3> QED BY <1>5, <2>2, <3>2
    <2> QED BY <2>1, <2>2
  <1>7. ASSUME NEW i \in 1 .. Len(delayed) - n
        PROVE  /\ Unripe[i] = delayed[n + i]
               /\ Unripe[i] = Line[Len(publications) + n + i]
    <2>1. /\ n + i \in 1 .. Len(delayed)
          /\ Len(publications) + (n + i) = Len(publications) + n + i
      BY <1>1, <1>3
    <2> QED BY <1>3, <1>4, <2>1
  <1>8. ASSUME NEW i \in Len(publications) + n + 1 .. Len(Line)
        PROVE  due[Line[i]] > now
    <2>1. /\ i - Len(publications) \in n + 1 .. Len(delayed)
          /\ i - Len(publications) \in 1 .. Len(delayed)
          /\ Len(publications) + (i - Len(publications)) = i
      BY <1>1, <1>3
    <2>2. Line[i] = delayed[i - Len(publications)]
      BY <1>3, <2>1
    <2> QED BY <1>1, <2>1, <2>2
  <1> QED BY <1>1, <1>4, <1>5, <1>6, <1>7, <1>8 DEF n

\* publish() and publishAt() give the next ticket.
LEMMA AdmittedTicket ==
    ASSUME QueueTypes, Admitted
    PROVE  Ticket \in Tickets /\ Ticket <= MaxPublications
  BY ConstantsAssumption, QueueFacts DEF Admitted, Ticket, Tickets

LEMMA PublishQueues ==
    ASSUME QueueTypes, NumberTypes, LineHolds, DelayedSorted, DoneInOrder, Publish
    PROVE  QueueTypes' /\ LineHolds' /\ DelayedSorted' /\ DoneInOrder'
  <1> DEFINE n == DueBy(now)
             k == Len(publications) + n
  <1>1. /\ n \in 0 .. Len(delayed)
        /\ Eligible \in Seq(Tickets) /\ Len(Eligible) = k
        /\ \A i \in 1 .. k : Eligible[i] = Line[i]
        /\ Unripe \in Seq(Tickets) /\ Len(Unripe) = Len(delayed) - n
        /\ \A i \in 1 .. Len(delayed) - n :
              Unripe[i] = delayed[n + i] /\ Unripe[i] = Line[k + i]
        /\ \A i \in k + 1 .. Len(Line) : due[Line[i]] > now
    BY EligibleFirst
  <1> HIDE DEF n
  <1>2. Ticket \in Tickets /\ Ticket <= MaxPublications
    BY AdmittedTicket DEF Publish
  <1>3. Joins(now)
    BY AppendJoins DEF Publish, NumberTypes
  <1>4. /\ Len(publications) \in Nat /\ Len(delayed) \in Nat
        /\ Len(Line) = Len(publications) + Len(delayed)
        /\ Len(outcome) \in Nat
    BY QueueFacts
  <1>5. /\ publications' \in Seq(Tickets) /\ Len(publications') = k + 1
        /\ \A i \in 1 .. k : publications'[i] = Line[i]
        /\ publications'[k + 1] = Ticket
    <2>1. publications' = Append(Eligible, Ticket)
      BY DEF Publish
    <2> QED BY <1>1, <1>2, <2>1, AppendProperties
  <1>6. delayed' = Unripe /\ delayed' \in Seq(Tickets) /\ held' = held
    BY <1>1 DEF Publish, loopVars
  <1>7. QueueTypes'
    BY <1>2, <1>3, <1>5, <1>6 DEF QueueTypes, Joins
  <1>8. Inserted(Line', Line, k, Ticket)
    <2>1. /\ Len(Line') = Len(publications') + Len(delayed')
          /\ \A i \in 1 .. Len(publications') + Len(delayed') :
                Line'[i] = IF i <= Len(publications') THEN publications'[i]
                           ELSE delayed'[i - Len(publications')]
      BY <1>5, <1>6, ConcatProperties DEF Line
    <2>2. Len(Line') = Len(Line) + 1 /\ k \in 0 .. Len(Line)
      BY <1>1, <1>4, <1>5, <1>6, <2>1
    <2>3. ASSUME NEW i \in 1 .. Len(Line) + 1
          PROVE  Line'[i] = IF i <= k THEN Line[i]
                            ELSE IF i = k + 1 THEN Ticket ELSE Line[i - 1]
      <3>1. CASE i <= k + 1
        <4>1. Line'[i] = publications'[i] /\ i \in 1 .. k + 1
          BY <1>4, <1>5, <2>1, <2>2, <3>1
        <4> QED BY <1>5, <2>2, <4>1
      <3>2. CASE ~ (i <= k + 1)
        <4>1. /\ Line'[i] = delayed'[i - (k + 1)]
              /\ i - (k + 1) \in 1 .. Len(delayed) - n
              /\ k + (i - (k + 1)) = i - 1
          BY <1>1, <1>4, <1>5, <1>6, <2>1, <2>2, <3>2
        <4>2. Unripe[i - (k + 1)] = Line[i - 1]
          BY <1>1, <4>1
        <4> QED BY <1>6, <2>2, <3>2, <4>1, <4>2
      <3> QED BY <3>1, <3>2
    <2> QED BY <2>2, <2>3 DEF Inserted
  <1>9. LineHolds' /\ DoneInOrder'
    <2>1. now \in 0 .. MaxTime
      BY DEF NumberTypes
    <2> HIDE DEF k
    <2> QED BY <1>1, <1>3, <1>6, <1>8, <2>1, EnqueueKeeps
  <1>10. DelayedSorted'
    <2> SUFFICES ASSUME NEW i \in 1 .. Len(delayed'), NEW j \in 1 .. Len(delayed'),
                        i < j
                 PROVE  due'[delayed'[i]] <= due'[delayed'[j]]
      BY DEF DelayedSorted
    <2>1. /\ n + i \in 1 .. Len(delayed) /\ n + j \in 1 .. Len(delayed)
          /\ n + i < n + j
          /\ delayed'[i] = delayed[n + i] /\ delayed'[j] = delayed[n + j]
      BY <1>1, <1>4, <1>6, SMTT(60)
    <2>2. delayed[n + i] \in 1 .. Len(outcome) /\ delayed[n + j] \in 1 .. Len(outcome)
      BY <2>1, DelayedKnown
    <2> QED BY <1>3, <2>1, <2>2 DEF Joins, DelayedSorted
  <1> QED BY <1>7, <1>9, <1>10

LEMMA PublishAtQueues ==
    ASSUME QueueTypes, NumberTypes, LineHolds, DelayedSorted, DoneInOrder,
           NEW deadline \in 1 .. MaxTime, PublishAt(deadline)
    PROVE  QueueTypes' /\ LineHolds' /\ DelayedSorted' /\ DoneInOrder'
  <1> DEFINE n == DueBy(deadline)
             k == Len(publications) + n
  <1>1. /\ n \in 0 .. Len(delayed)
        /\ \A i \in 1 .. n : due[delayed[i]] <= deadline
        /\ \A i \in n + 1 .. Len(delayed) : due[delayed[i]] > deadline
    <2>1. deadline \in Int
      OBVIOUS
    <2> QED BY <2>1, DueFirst
  <1>2. Ticket \in Tickets /\ Ticket <= MaxPublications
    BY AdmittedTicket DEF PublishAt
  <1>3. Joins(deadline) /\ deadline \in 0 .. MaxTime
    <2>1. deadline \in 0 .. MaxTime
      OBVIOUS
    <2> QED BY <2>1, AppendJoins DEF PublishAt
  <1>4. /\ Len(publications) \in Nat /\ Len(delayed) \in Nat
        /\ Len(Line) = Len(publications) + Len(delayed)
        /\ Len(outcome) \in Nat
        /\ \A i \in 1 .. Len(publications) : Line[i] = publications[i]
        /\ \A i \in 1 .. Len(delayed) : Line[Len(publications) + i] = delayed[i]
    BY QueueFacts
  <1>5. publications' = publications /\ held' = held
    BY DEF PublishAt, loopVars
  <1>6. delayed' \in Seq(Tickets) /\ Inserted(delayed', delayed, n, Ticket)
    <2>1. delayed' = InsertAt(delayed, n + 1, Ticket) /\ delayed \in Seq(Tickets)
      BY DEF PublishAt, QueueTypes
    <2> HIDE DEF n
    <2> QED BY <1>1, <1>2, <2>1, InsertAtInserts
  <1> HIDE DEF n
  <1>7. QueueTypes'
    BY <1>2, <1>3, <1>5, <1>6 DEF QueueTypes, Joins
  <1>8. Inserted(Line', Line, k, Ticket)
    <2>1. /\ Len(Line') = Len(publications) + Len(delayed')
          /\ \A i \in 1 .. Len(publications) + Len(delayed') :
                Line'[i] = IF i <= Len(publications) THEN publications[i]
                           ELSE delayed'[i - Len(publications)]
      <3>1. publications' \in Seq(Tickets)
        BY <1>5 DEF QueueTypes
      <3> QED BY <1>5, <1>6, <3>1, ConcatProperties DEF Line
    <2>2. Len(Line') = Len(Line) + 1 /\ k \in 0 .. Len(Line)
      BY <1>1, <1>4, <1>6, <2>1 DEF Inserted
    <2>3. ASSUME NEW i \in 1 .. Len(Line) + 1
          PROVE  Line'[i] = IF i <= k THEN Line[i]
                            ELSE IF i = k + 1 THEN Ticket ELSE Line[i - 1]
      <3>1. CASE i <= Len(publications)
        BY <1>1, <1>4, <2>1, <2>2, <3>1
      <3>2. CASE ~ (i <= Len(publications))
        <4> DEFINE j == i - Len(publications)
        <4>1. /\ Line'[i] = delayed'[j] /\ j \in 1 .. Len(delayed) + 1
              /\ i = Len(publications) + j /\ Len(publications) + (j - 1) = i - 1
          BY <1>4, <1>6, <2>1, <2>2, <3>2 DEF Inserted
        <4> HIDE DEF j
        <4>2. delayed'[j] = IF j <= n THEN delayed[j]
                            ELSE IF j = n + 1 THEN Ticket ELSE delayed[j - 1]
          BY <1>6, <4>1 DEF Inserted
        <4>3. CASE j <= n
          BY <1>1, <1>4, <4>1, <4>2, <4>3
        <4>4. CASE j = n + 1
          BY <1>1, <1>4, <4>1, <4>2, <4>4
        <4>5. CASE j > n + 1
          <5>1. /\ j - 1 \in 1 .. Len(delayed) /\ ~ (i <= k) /\ i # k + 1
                /\ ~ (j <= n) /\ j # n + 1
            BY <1>1, <1>4, <4>1, <4>5
          <5>2. Line[i - 1] = delayed[j - 1]
            BY <1>4, <4>1, <5>1
          <5> QED BY <4>1, <4>2, <5>1, <5>2
        <4> QED BY <1>1, <4>1, <4>3, <4>4, <4>5
      <3> QED BY <3>1, <3>2
    <2> QED BY <2>2, <2>3 DEF Inserted
  <1>9. LineHolds' /\ DoneInOrder'
    <2>1. ASSUME NEW i \in k + 1 .. Len(Line) PROVE due[Line[i]] > deadline
      <3>1. /\ i - Len(publications) \in n + 1 .. Len(delayed)
            /\ i - Len(publications) \in 1 .. Len(delayed)
            /\ Len(publications) + (i - Len(publications)) = i
        BY <1>1, <1>4
      <3>2. Line[i] = delayed[i - Len(publications)]
        BY <1>4, <3>1
      <3> QED BY <1>1, <3>1, <3>2
    <2> HIDE DEF k
    <2> QED BY <1>3, <1>5, <1>8, <2>1, EnqueueKeeps
  <1>10. DelayedSorted'
    <2> SUFFICES ASSUME NEW i \in 1 .. Len(delayed'), NEW j \in 1 .. Len(delayed'),
                        i < j
                 PROVE  due'[delayed'[i]] <= due'[delayed'[j]]
      BY DEF DelayedSorted
    <2>1. /\ i \in 1 .. Len(delayed) + 1 /\ j \in 1 .. Len(delayed) + 1
          /\ delayed'[i] = (IF i <= n THEN delayed[i]
                            ELSE IF i = n + 1 THEN Ticket ELSE delayed[i - 1])
          /\ delayed'[j] = (IF j <= n THEN delayed[j]
                            ELSE IF j = n + 1 THEN Ticket ELSE delayed[j - 1])
      BY <1>6 DEF Inserted
    <2>2. ASSUME NEW a \in 1 .. Len(delayed)
          PROVE  /\ due'[delayed[a]] = due[delayed[a]]
                 /\ due[delayed[a]] \in Int
      BY <1>3, DelayedKnown DEF Joins
    <2>3. due'[Ticket] = deadline
      BY <1>3 DEF Joins
    <2>4. CASE j <= n
      <3>1. /\ i \in 1 .. Len(delayed) /\ j \in 1 .. Len(delayed)
            /\ delayed'[i] = delayed[i] /\ delayed'[j] = delayed[j]
        BY <1>1, <1>4, <2>1, <2>4
      <3> QED BY <2>2, <3>1 DEF DelayedSorted
    <2>5. CASE j = n + 1
      <3>1. i \in 1 .. n /\ delayed'[i] = delayed[i] /\ delayed'[j] = Ticket
        BY <1>1, <1>4, <2>1, <2>5
      <3>2. due[delayed[i]] <= deadline /\ due'[delayed[i]] = due[delayed[i]]
        BY <1>1, <1>4, <2>2, <3>1
      <3> QED BY <2>3, <3>1, <3>2
    <2>6. CASE j > n + 1 /\ i <= n
      <3>1. /\ i \in 1 .. Len(delayed) /\ j - 1 \in 1 .. Len(delayed) /\ i < j - 1
            /\ delayed'[i] = delayed[i] /\ delayed'[j] = delayed[j - 1]
        BY <1>1, <1>4, <2>1, <2>6
      <3> QED BY <2>2, <3>1 DEF DelayedSorted
    <2>7. CASE j > n + 1 /\ i = n + 1
      <3>1. /\ j - 1 \in n + 1 .. Len(delayed) /\ j - 1 \in 1 .. Len(delayed)
            /\ delayed'[i] = Ticket /\ delayed'[j] = delayed[j - 1]
        BY <1>1, <1>4, <2>1, <2>7
      <3>2. due[delayed[j - 1]] > deadline /\ due'[delayed[j - 1]] = due[delayed[j - 1]]
            /\ due[delayed[j - 1]] \in Int
        BY <1>1, <2>2, <3>1
      <3> QED BY <2>3, <3>1, <3>2
    <2>8. CASE j > n + 1 /\ i > n + 1
      <3>1. /\ i - 1 \in 1 .. Len(delayed) /\ j - 1 \in 1 .. Len(delayed)
            /\ i - 1 < j - 1
            /\ delayed'[i] = delayed[i - 1] /\ delayed'[j] = delayed[j - 1]
        BY <1>1, <1>4, <2>1, <2>8
      <3> QED BY <2>2, <3>1 DEF DelayedSorted
    <2> QED BY <1>1, <1>4, <2>1, <2>4, <2>5, <2>6, <2>7, <2>8
  <1> QED BY <1>7, <1>9, <1>10

\* The executor takes the first publication of the line.
LEMMA TakeQueues ==
    ASSUME QueueTypes, NumberTypes, LineHolds, DelayedSorted, DoneInOrder,
           AbandonedLast, InHand, TakePublication
    PROVE  /\ QueueTypes' /\ LineHolds' /\ DelayedSorted' /\ DoneInOrder'
           /\ held' \in Tickets
  <1> DEFINE n == DueBy(now)
             k == Len(publications) + n
  <1>1. /\ n \in 0 .. Len(delayed)
        /\ Eligible \in Seq(Tickets) /\ Len(Eligible) = k
        /\ \A i \in 1 .. k : Eligible[i] = Line[i]
        /\ Unripe \in Seq(Tickets) /\ Len(Unripe) = Len(delayed) - n
        /\ \A i \in 1 .. Len(delayed) - n :
              Unripe[i] = delayed[n + i] /\ Unripe[i] = Line[k + i]
    BY EligibleFirst
  <1> HIDE DEF n
  <1>2. /\ Len(publications) \in Nat /\ Len(delayed) \in Nat
        /\ Len(Line) = Len(publications) + Len(delayed)
        /\ Len(outcome) \in Nat
        /\ \A t \in 1 .. Len(outcome) : due[t] \in Int
    BY QueueFacts
  <1>3. /\ held' = Line[1] /\ held' \in Tickets /\ k >= 1
        /\ publications' \in Seq(Tickets) /\ Len(publications') = k - 1
        /\ \A i \in 1 .. k - 1 : publications'[i] = Line[i + 1]
    <2>1. Eligible # <<>> /\ held' = Head(Eligible) /\ publications' = Tail(Eligible)
      BY DEF TakePublication, HasQueued
    <2>2. k >= 1
      BY <1>1, <1>2, <2>1, EmptySeq
    <2>3. /\ Head(Eligible) \in Tickets /\ Tail(Eligible) \in Seq(Tickets)
          /\ Len(Tail(Eligible)) = k - 1
          /\ \A i \in 1 .. k - 1 : Tail(Eligible)[i] = Eligible[i + 1]
      BY <1>1, <2>1, HeadTailProperties
    <2>4. Head(Eligible) = Eligible[1]
      BY <1>1, <2>1
    <2>5. Eligible[1] = Line[1] /\ \A i \in 1 .. k - 1 : Eligible[i + 1] = Line[i + 1]
      BY <1>1, <1>2, <2>2
    <2> QED BY <2>1, <2>2, <2>3, <2>4, <2>5
  <1>4. /\ delayed' = Unripe /\ delayed' \in Seq(Tickets)
        /\ due' = due /\ outcome' = outcome
    BY <1>1 DEF TakePublication
  <1>5. QueueTypes'
    BY <1>3, <1>4 DEF QueueTypes
  <1>6. /\ Len(Line') = Len(Line) - 1
        /\ \A i \in 1 .. Len(Line) - 1 : Line'[i] = Line[i + 1]
    <2>1. /\ Len(Line') = Len(publications') + Len(delayed')
          /\ \A i \in 1 .. Len(publications') + Len(delayed') :
                Line'[i] = IF i <= Len(publications') THEN publications'[i]
                           ELSE delayed'[i - Len(publications')]
      BY <1>3, <1>4, ConcatProperties DEF Line
    <2>2. Len(Line') = Len(Line) - 1
      BY <1>1, <1>2, <1>3, <1>4, <2>1
    <2>3. ASSUME NEW i \in 1 .. Len(Line) - 1 PROVE Line'[i] = Line[i + 1]
      <3>1. CASE i <= k - 1
        BY <1>1, <1>2, <1>3, <2>1, <2>2, <3>1
      <3>2. CASE ~ (i <= k - 1)
        <4>1. /\ Line'[i] = delayed'[i - (k - 1)]
              /\ i - (k - 1) \in 1 .. Len(delayed) - n
              /\ k + (i - (k - 1)) = i + 1
          BY <1>1, <1>2, <1>3, <1>4, <2>1, <2>2, <3>2
        <4> QED BY <1>1, <1>4, <4>1
      <3> QED BY <3>1, <3>2
    <2> QED BY <2>2, <2>3
  <1>7. held = 0 /\ \A t \in 1 .. Len(outcome) : outcome[t] # "Abandoned"
    BY DEF InHand, AbandonedLast, TakePublication
  <1>8. 1 \in 1 .. Len(Line) /\ \A i \in 1 .. Len(Line) - 1 :
                                  i + 1 \in 1 .. Len(Line) /\ 1 < i + 1
    BY <1>1, <1>2, <1>3, SMTT(60)
  <1>9. LineHolds'
    <2>1. ASSUME NEW i \in 1 .. Len(Line')
          PROVE  /\ Line'[i] \in 1 .. Len(outcome')
                 /\ outcome'[Line'[i]] = "Queued"
                 /\ Line'[i] # held'
      <3>1. i + 1 \in 1 .. Len(Line) /\ 1 < i + 1 /\ Line'[i] = Line[i + 1]
        BY <1>6, <1>8
      <3> QED BY <1>3, <1>4, <1>8, <3>1 DEF LineHolds
    <2>2. ASSUME NEW t \in 1 .. Len(outcome'), outcome'[t] = "Queued", t # held'
          PROVE  \E i \in 1 .. Len(Line') : Line'[i] = t
      <3>1. t # held
        BY <1>7
      <3>2. PICK i \in 1 .. Len(Line) : Line[i] = t
        BY <1>4, <2>2, <3>1 DEF LineHolds
      <3>3. i - 1 \in 1 .. Len(Line') /\ Line'[i - 1] = Line[i - 1 + 1] /\ i - 1 + 1 = i
        BY <1>2, <1>3, <1>6, <2>2, <3>2
      <3> QED BY <3>2, <3>3
    <2>3. ASSUME NEW i \in 1 .. Len(Line'), NEW j \in 1 .. Len(Line'), i < j
          PROVE  Line'[i] # Line'[j] /\ Before(Line[i], Line[j])'
      <3>1. /\ i + 1 \in 1 .. Len(Line) /\ j + 1 \in 1 .. Len(Line) /\ i + 1 < j + 1
            /\ Line'[i] = Line[i + 1] /\ Line'[j] = Line[j + 1]
        BY <1>2, <1>6, <1>8, <2>3
      <3>2. Line[i + 1] # Line[j + 1] /\ Before(Line[i + 1], Line[j + 1])
        BY <3>1 DEF LineHolds
      <3> QED BY <1>4, <3>1, <3>2 DEF Before
    <2>4. held' \in 1 .. Len(outcome') /\ outcome'[held'] = "Queued"
      BY <1>3, <1>4, <1>8 DEF LineHolds
    <2> QED BY <2>1, <2>2, <2>3, <2>4 DEF LineHolds
  <1>10. DelayedSorted'
    <2> SUFFICES ASSUME NEW i \in 1 .. Len(delayed'), NEW j \in 1 .. Len(delayed'),
                        i < j
                 PROVE  due[delayed'[i]] <= due[delayed'[j]]
      BY <1>4 DEF DelayedSorted
    <2>1. /\ n + i \in 1 .. Len(delayed) /\ n + j \in 1 .. Len(delayed)
          /\ n + i < n + j
          /\ delayed'[i] = delayed[n + i] /\ delayed'[j] = delayed[n + j]
      BY <1>1, <1>2, <1>4
    <2> QED BY <2>1 DEF DelayedSorted
  <1>11. DoneInOrder'
    <2> SUFFICES ASSUME NEW t \in 1 .. Len(outcome), NEW u \in 1 .. Len(outcome),
                        ~ Before(u, t), Done(u) \/ u = held'
                 PROVE  Done(t)
      BY <1>4 DEF DoneInOrder, Done, Before
    <2>1. CASE Done(u)
      BY <2>1 DEF DoneInOrder
    <2>2. CASE u = held'
      <3>1. SUFFICES ASSUME outcome[t] = "Queued" PROVE FALSE
        <4>1. outcome[t] \in Outcomes
          BY ElementOfSeq DEF QueueTypes
        <4> QED BY <1>7, <4>1 DEF Outcomes, Done
      <3>2. t # held
        BY <1>7
      <3>3. PICK i \in 1 .. Len(Line) : Line[i] = t
        BY <3>1, <3>2 DEF LineHolds
      <3>4. i # 1 /\ u = Line[1] /\ t # u
        BY <1>3, <2>2, <3>3 DEF Before
      <3>5. 1 < i /\ 1 \in 1 .. Len(Line)
        BY <1>2, <1>8, <3>3, <3>4
      <3>6. Before(Line[1], Line[i])
        BY <3>5 DEF LineHolds
      <3> QED BY <3>3, <3>4, <3>6
    <2> QED BY <2>1, <2>2
  <1> QED BY <1>3, <1>5, <1>9, <1>10, <1>11

\* The publication in hand is resolved.
LEMMA ResolveQueues ==
    ASSUME QueueTypes, LineHolds, DelayedSorted, DoneInOrder,
           held # 0, NEW how \in {"Applied", "Threw"},
           outcome' = [outcome EXCEPT ![held] = how], held' = 0,
           UNCHANGED <<publications, delayed, due>>
    PROVE  QueueTypes' /\ LineHolds' /\ DelayedSorted' /\ DoneInOrder'
  <1>1. held \in 1 .. Len(outcome)
    BY DEF LineHolds
  <1>2. /\ outcome' \in Seq(Outcomes) /\ Len(outcome') = Len(outcome)
        /\ \A t \in 1 .. Len(outcome) :
              outcome'[t] = IF t = held THEN how ELSE outcome[t]
    BY <1>1, ExceptSeq DEF QueueTypes, Outcomes
  <1>3. QueueTypes' /\ DelayedSorted' /\ Line' = Line
    BY <1>2 DEF QueueTypes, DelayedSorted, Line
  <1>4. /\ ~ 0 \in 1 .. Len(outcome)
        /\ \A t, u \in 1 .. Len(outcome) : Before(t, u)' <=> Before(t, u)
    BY QueueFacts DEF Before
  <1>5. LineHolds'
    <2>1. ASSUME NEW i \in 1 .. Len(Line)
          PROVE  /\ Line[i] \in 1 .. Len(outcome')
                 /\ outcome'[Line[i]] = "Queued" /\ Line[i] # 0
      BY <1>2, <1>4 DEF LineHolds
    <2>2. ASSUME NEW t \in 1 .. Len(outcome'), outcome'[t] = "Queued"
          PROVE  \E i \in 1 .. Len(Line) : Line[i] = t
      BY <1>2, <2>2 DEF LineHolds
    <2>3. ASSUME NEW i \in 1 .. Len(Line), NEW j \in 1 .. Len(Line), i < j
          PROVE  Line[i] # Line[j] /\ Before(Line[i], Line[j])'
      <3>1. Line[i] # Line[j] /\ Before(Line[i], Line[j])
        BY <2>3 DEF LineHolds
      <3> QED BY <1>3, <3>1 DEF Before
    <2> QED BY <1>3, <2>1, <2>2, <2>3 DEF LineHolds
  <1>6. DoneInOrder'
    <2> SUFFICES ASSUME NEW t \in 1 .. Len(outcome), NEW u \in 1 .. Len(outcome),
                        ~ Before(u, t), Done(u)'
                 PROVE  Done(t)'
      BY <1>2, <1>4 DEF DoneInOrder, Done, Before
    <2>1. Done(u) \/ u = held
      BY <1>2 DEF Done
    <2>2. Done(t)
      BY <2>1 DEF DoneInOrder
    <2> QED BY <1>2, <2>2 DEF Done
  <1> QED BY <1>3, <1>5, <1>6

\* At the end the publications of the line are abandoned.
LEMMA AbandonQueues ==
    ASSUME QueueTypes, LineHolds, DoneInOrder, InHand, FailPendingPublications
    PROVE  QueueTypes' /\ LineHolds' /\ DelayedSorted' /\ DoneInOrder'
  <1>1. /\ Len(outcome) \in Nat /\ DOMAIN outcome = 1 .. Len(outcome)
        /\ Line \in Seq(Tickets) /\ DOMAIN Line = 1 .. Len(Line)
    BY QueueFacts, LenProperties
  <1>2. /\ publications' = <<>> /\ delayed' = <<>> /\ due' = due
        /\ held' = held /\ held = 0
        /\ outcome' = [t \in DOMAIN outcome |->
                         IF t \in Range(Line) THEN "Abandoned" ELSE outcome[t]]
    BY DEF FailPendingPublications, Line, InHand
  <1>3. \A t : t \in Range(Line) <=> \E i \in 1 .. Len(Line) : Line[i] = t
    BY <1>1 DEF Range
  <1>4. \A t \in 1 .. Len(outcome) : outcome[t] \in Outcomes
    BY ElementOfSeq DEF QueueTypes
  <1>5. /\ outcome' \in Seq(Outcomes) /\ Len(outcome') = Len(outcome)
        /\ \A t \in 1 .. Len(outcome) :
              outcome'[t] = IF t \in Range(Line) THEN "Abandoned" ELSE outcome[t]
    <2>1. outcome' = [t \in 1 .. Len(outcome) |->
                        IF t \in Range(Line) THEN "Abandoned" ELSE outcome[t]]
      BY <1>1, <1>2
    <2>2. \A t \in 1 .. Len(outcome) :
             (IF t \in Range(Line) THEN "Abandoned" ELSE outcome[t]) \in Outcomes
      BY <1>4 DEF Outcomes
    <2> QED BY <1>1, <2>1, <2>2
  <1>6. /\ Len(publications') = 0 /\ Len(delayed') = 0 /\ Len(Line') = 0
        /\ publications' \in Seq(Tickets) /\ delayed' \in Seq(Tickets)
    <2>1. <<>> \in Seq(Tickets) /\ Len(<<>>) = 0
      BY EmptySeq
    <2>2. <<>> \o <<>> = <<>>
      BY <2>1, ConcatEmptySeq
    <2> QED BY <1>2, <2>1, <2>2 DEF Line
  <1>7. QueueTypes' /\ DelayedSorted'
    BY <1>2, <1>5, <1>6 DEF QueueTypes, DelayedSorted
  <1>8. \A t \in 1 .. Len(outcome) : outcome'[t] # "Queued"
    <2> SUFFICES ASSUME NEW t \in 1 .. Len(outcome), outcome[t] = "Queued"
                 PROVE  t \in Range(Line)
      BY <1>5
    <2>1. t # held
      BY <1>2
    <2> QED BY <1>3, <2>1 DEF LineHolds
  <1>9. LineHolds'
    <2>1. \A i \in 1 .. Len(Line') : FALSE
      BY <1>6
    <2>2. held' = 0 /\ \A t \in 1 .. Len(outcome') : outcome'[t] # "Queued"
      BY <1>2, <1>5, <1>8
    <2> QED BY <2>1, <2>2, Zenon DEF LineHolds
  <1>10. DoneInOrder'
    <2> SUFFICES ASSUME NEW t \in 1 .. Len(outcome), NEW u \in 1 .. Len(outcome),
                        ~ Before(u, t), Done(u)'
                 PROVE  Done(t)'
      BY <1>1, <1>2, <1>5 DEF DoneInOrder, Done, Before
    <2>1. Done(u)
      BY <1>5 DEF Done
    <2>2. Done(t)
      BY <2>1 DEF DoneInOrder
    <2>3. t \notin Range(Line)
      BY <1>3, <2>2 DEF LineHolds, Done
    <2> QED BY <1>5, <2>2, <2>3 DEF Done
  <1> QED BY <1>7, <1>9, <1>10

-----------------------------------------------------------------------------
(* What an action leaves alone.                                             *)

\* A part of the invariant holds of what does not change.
LEMMA QueueTypesFrame ==
    ASSUME QueueTypes,
           UNCHANGED <<publications, delayed, due, outcome>>
    PROVE  QueueTypes'
  BY DEF QueueTypes

LEMMA NumberTypesFrame ==
    ASSUME NumberTypes,
           UNCHANGED <<processed, held, now, stepsRemaining, controls>>
    PROVE  NumberTypes'
  BY DEF NumberTypes

LEMMA PlaceTypesFrame ==
    ASSUME PlaceTypes,
           UNCHANGED <<at, disposition, control, lastControl>>
    PROVE  PlaceTypes'
  BY DEF PlaceTypes

LEMMA FlagTypesFrame ==
    ASSUME FlagTypes,
           UNCHANGED <<runnable, prior, mustFail, wakeMoved, controlMoved,
                       accepting, running, stopRequested, failed, stopping,
                       pausedAtBoundary, pauseRequested, debugStop, newPause>>
    PROVE  FlagTypes'
  BY DEF FlagTypes

LEMMA LineHoldsFrame ==
    ASSUME LineHolds,
           UNCHANGED <<publications, delayed, due, outcome, held>>
    PROVE  LineHolds'
  <1>1. Line' = Line
    BY DEF Line
  <1>2. \A t, u : Before(t, u)' <=> Before(t, u)
    BY DEF Before
  <1>3. \A i, j \in 1 .. Len(Line) :
           Before(Line[i], Line[j])' <=> Before(Line[i], Line[j])
    BY <1>1 DEF Before
  <1> QED BY <1>1, <1>3 DEF LineHolds

LEMMA DelayedSortedFrame ==
    ASSUME DelayedSorted,
           UNCHANGED <<delayed, due>>
    PROVE  DelayedSorted'
  BY DEF DelayedSorted

LEMMA DoneInOrderFrame ==
    ASSUME DoneInOrder,
           UNCHANGED <<due, outcome, held>>
    PROVE  DoneInOrder'
  BY DEF DoneInOrder, Done, Before

LEMMA AbandonedLastFrame ==
    ASSUME AbandonedLast,
           UNCHANGED <<outcome, at>>
    PROVE  AbandonedLast'
  BY DEF AbandonedLast

LEMMA InHandFrame ==
    ASSUME InHand,
           UNCHANGED <<held, at, processed>>
    PROVE  InHand'
  BY DEF InHand

LEMMA StoppingFrame ==
    ASSUME Stopping,
           UNCHANGED <<accepting, stopRequested, failed, stopping, debugStop,
                       disposition, at, publications, delayed>>
    PROVE  Stopping'
  BY DEF Stopping

LEMMA PausedMeansHaltedFrame ==
    ASSUME PausedMeansHalted,
           UNCHANGED <<pausedAtBoundary, at>>
    PROVE  PausedMeansHalted'
  BY DEF PausedMeansHalted

LEMMA ResumeHeededFrame ==
    ASSUME ResumeHeeded,
           UNCHANGED <<at, control, lastControl, pauseRequested,
                       pausedAtBoundary, disposition, controlMoved>>
    PROVE  ResumeHeeded'
  BY DEF ResumeHeeded

LEMMA StepsResumeFrame ==
    ASSUME StepsResume,
           UNCHANGED <<at, disposition>>
    PROVE  StepsResume'
  BY DEF StepsResume

-----------------------------------------------------------------------------
(* Each action keeps the invariant.                                          *)

LEMMA PublishKeeps ==
    ASSUME IInv, Publish
    PROVE  IInv'
  <1> USE DEF IInv, loopVars, lifeVars, atomicVars, controlVars
  <1>1. QueueTypes' /\ LineHolds' /\ DelayedSorted' /\ DoneInOrder'
    BY PublishQueues DEF IInv
  <1>2. FlagTypes'
    BY ZenonT(60) DEF Publish, FlagTypes
  <1>3. AbandonedLast'
    BY DEF Publish, AbandonedLast
  <1>4. Stopping'
    BY DEF Publish, Stopping, Admitted
  <1>5. /\ NumberTypes' /\ PlaceTypes' /\ InHand' /\ PausedMeansHalted'
        /\ ResumeHeeded' /\ StepsResume'
    BY NumberTypesFrame, PlaceTypesFrame, InHandFrame, PausedMeansHaltedFrame,
       ResumeHeededFrame, StepsResumeFrame DEF Publish
  <1> QED BY <1>1, <1>2, <1>3, <1>4, <1>5 DEF IInv

LEMMA PublishAtKeeps ==
    ASSUME IInv, NEW deadline \in 1 .. MaxTime, PublishAt(deadline)
    PROVE  IInv'
  <1> USE DEF IInv, loopVars, lifeVars, atomicVars, controlVars
  <1>1. QueueTypes' /\ LineHolds' /\ DelayedSorted' /\ DoneInOrder'
    BY PublishAtQueues DEF IInv
  <1>2. FlagTypes'
    BY ZenonT(60) DEF PublishAt, FlagTypes
  <1>3. AbandonedLast'
    BY DEF PublishAt, AbandonedLast
  <1>4. Stopping'
    BY DEF PublishAt, Stopping, Admitted
  <1>5. /\ NumberTypes' /\ PlaceTypes' /\ InHand' /\ PausedMeansHalted'
        /\ ResumeHeeded' /\ StepsResume'
    BY NumberTypesFrame, PlaceTypesFrame, InHandFrame, PausedMeansHaltedFrame,
       ResumeHeededFrame, StepsResumeFrame DEF PublishAt
  <1> QED BY <1>1, <1>2, <1>3, <1>4, <1>5 DEF IInv

LEMMA TickKeeps ==
    ASSUME IInv, Tick
    PROVE  IInv'
  <1> USE DEF IInv, loopVars, queueVars, lifeVars, atomicVars, controlVars
  <1>1. NumberTypes'
    BY ConstantsAssumption DEF Tick, NumberTypes
  <1>2. /\ QueueTypes' /\ PlaceTypes' /\ FlagTypes' /\ LineHolds'
        /\ DelayedSorted' /\ DoneInOrder' /\ AbandonedLast' /\ InHand'
        /\ Stopping' /\ PausedMeansHalted' /\ ResumeHeeded' /\ StepsResume'
    BY QueueTypesFrame, PlaceTypesFrame, FlagTypesFrame, LineHoldsFrame,
       DelayedSortedFrame, DoneInOrderFrame, AbandonedLastFrame, InHandFrame,
       StoppingFrame, PausedMeansHaltedFrame, ResumeHeededFrame,
       StepsResumeFrame DEF Tick
  <1> QED BY <1>1, <1>2 DEF IInv

LEMMA NotifyKeeps ==
    ASSUME IInv, Notify
    PROVE  IInv'
  <1> USE DEF IInv, loopVars, queueVars, lifeVars, atomicVars, controlVars
  <1>1. FlagTypes'
    BY ZenonT(60) DEF Notify, FlagTypes
  <1>2. /\ QueueTypes' /\ NumberTypes' /\ PlaceTypes' /\ LineHolds'
        /\ DelayedSorted' /\ DoneInOrder' /\ AbandonedLast' /\ InHand'
        /\ Stopping' /\ PausedMeansHalted' /\ ResumeHeeded' /\ StepsResume'
    BY QueueTypesFrame, NumberTypesFrame, PlaceTypesFrame, LineHoldsFrame,
       DelayedSortedFrame, DoneInOrderFrame, AbandonedLastFrame, InHandFrame,
       StoppingFrame, PausedMeansHaltedFrame, ResumeHeededFrame,
       StepsResumeFrame DEF Notify
  <1> QED BY <1>1, <1>2 DEF IInv

LEMMA DebugRequestPauseKeeps ==
    ASSUME IInv, DebugRequestPause
    PROVE  IInv'
  <1> USE DEF IInv, loopVars, queueVars, lifeVars
  <1>1. NumberTypes'
    BY ConstantsAssumption DEF DebugRequestPause, NumberTypes, CanControl
  <1>2. PlaceTypes'
    BY DEF DebugRequestPause, PlaceTypes
  <1>3. FlagTypes'
    BY ZenonT(60) DEF DebugRequestPause, FlagTypes
  <1>4. ResumeHeeded'
    BY DEF DebugRequestPause, ResumeHeeded
  <1>5. /\ QueueTypes' /\ LineHolds' /\ DelayedSorted' /\ DoneInOrder'
        /\ AbandonedLast' /\ InHand' /\ Stopping' /\ PausedMeansHalted'
        /\ StepsResume'
    BY QueueTypesFrame, LineHoldsFrame, DelayedSortedFrame, DoneInOrderFrame,
       AbandonedLastFrame, InHandFrame, StoppingFrame, PausedMeansHaltedFrame,
       StepsResumeFrame DEF DebugRequestPause
  <1> QED BY <1>1, <1>2, <1>3, <1>4, <1>5 DEF IInv

LEMMA PublishPauseKeeps ==
    ASSUME IInv, PublishPause
    PROVE  IInv'
  <1> USE DEF IInv, loopVars, queueVars, lifeVars, atomicVars
  <1>1. PlaceTypes'
    BY DEF PublishPause, PlaceTypes
  <1>2. FlagTypes'
    BY Zenon DEF PublishPause, FlagTypes
  <1>3. PausedMeansHalted'
    BY DEF PublishPause, PausedMeansHalted
  <1>4. ResumeHeeded'
    BY DEF PublishPause, ResumeHeeded
  <1>5. /\ QueueTypes' /\ NumberTypes' /\ LineHolds' /\ DelayedSorted'
        /\ DoneInOrder' /\ AbandonedLast' /\ InHand' /\ Stopping'
        /\ StepsResume'
    BY QueueTypesFrame, NumberTypesFrame, LineHoldsFrame, DelayedSortedFrame,
       DoneInOrderFrame, AbandonedLastFrame, InHandFrame, StoppingFrame,
       StepsResumeFrame DEF PublishPause
  <1> QED BY <1>1, <1>2, <1>3, <1>4, <1>5 DEF IInv

LEMMA DebugResumeKeeps ==
    ASSUME IInv, DebugResume
    PROVE  IInv'
  <1> USE DEF IInv, loopVars, queueVars, lifeVars
  <1>1. NumberTypes'
    BY ConstantsAssumption DEF DebugResume, NumberTypes, CanControl
  <1>2. PlaceTypes'
    BY DEF DebugResume, PlaceTypes
  <1>3. FlagTypes'
    BY ZenonT(60) DEF DebugResume, FlagTypes
  <1>4. ResumeHeeded'
    BY DEF DebugResume, ResumeHeeded
  <1>5. /\ QueueTypes' /\ LineHolds' /\ DelayedSorted' /\ DoneInOrder'
        /\ AbandonedLast' /\ InHand' /\ Stopping' /\ PausedMeansHalted'
        /\ StepsResume'
    BY QueueTypesFrame, LineHoldsFrame, DelayedSortedFrame, DoneInOrderFrame,
       AbandonedLastFrame, InHandFrame, StoppingFrame, PausedMeansHaltedFrame,
       StepsResumeFrame DEF DebugResume
  <1> QED BY <1>1, <1>2, <1>3, <1>4, <1>5 DEF IInv

LEMMA DebugStepBoundariesKeeps ==
    ASSUME IInv, NEW count \in 1 .. MaxStep, DebugStepBoundaries(count)
    PROVE  IInv'
  <1> USE DEF IInv, loopVars, queueVars, lifeVars
  <1>1. NumberTypes'
    BY ConstantsAssumption DEF DebugStepBoundaries, NumberTypes, CanControl
  <1>2. PlaceTypes'
    BY DEF DebugStepBoundaries, PlaceTypes
  <1>3. ResumeHeeded'
    BY DEF DebugStepBoundaries, ResumeHeeded
  <1>4. /\ QueueTypes' /\ FlagTypes' /\ LineHolds' /\ DelayedSorted'
        /\ DoneInOrder' /\ AbandonedLast' /\ InHand' /\ Stopping'
        /\ PausedMeansHalted' /\ StepsResume'
    BY QueueTypesFrame, FlagTypesFrame, LineHoldsFrame, DelayedSortedFrame,
       DoneInOrderFrame, AbandonedLastFrame, InHandFrame, StoppingFrame,
       PausedMeansHaltedFrame, StepsResumeFrame DEF DebugStepBoundaries
  <1> QED BY <1>1, <1>2, <1>3, <1>4 DEF IInv

LEMMA StepClearsPauseKeeps ==
    ASSUME IInv, StepClearsPause
    PROVE  IInv'
  <1> USE DEF IInv, loopVars, queueVars, lifeVars
  <1>1. PlaceTypes'
    BY DEF StepClearsPause, PlaceTypes
  <1>2. FlagTypes'
    BY ZenonT(60) DEF StepClearsPause, FlagTypes
  <1>3. ResumeHeeded'
    BY DEF StepClearsPause, ResumeHeeded
  <1>4. /\ QueueTypes' /\ NumberTypes' /\ LineHolds' /\ DelayedSorted'
        /\ DoneInOrder' /\ AbandonedLast' /\ InHand' /\ Stopping'
        /\ PausedMeansHalted' /\ StepsResume'
    BY QueueTypesFrame, NumberTypesFrame, LineHoldsFrame, DelayedSortedFrame,
       DoneInOrderFrame, AbandonedLastFrame, InHandFrame, StoppingFrame,
       PausedMeansHaltedFrame, StepsResumeFrame DEF StepClearsPause
  <1> QED BY <1>1, <1>2, <1>3, <1>4 DEF IInv

LEMMA PublishResumeKeeps ==
    ASSUME IInv, PublishResume
    PROVE  IInv'
  <1> USE DEF IInv, loopVars, queueVars, lifeVars, atomicVars
  <1>1. PlaceTypes'
    BY DEF PublishResume, PlaceTypes
  <1>2. FlagTypes'
    BY Zenon DEF PublishResume, FlagTypes
  <1>3. PausedMeansHalted'
    BY DEF PublishResume, PausedMeansHalted
  <1>4. ResumeHeeded'
    BY DEF PublishResume, ResumeHeeded
  <1>5. /\ QueueTypes' /\ NumberTypes' /\ LineHolds' /\ DelayedSorted'
        /\ DoneInOrder' /\ AbandonedLast' /\ InHand' /\ Stopping'
        /\ StepsResume'
    BY QueueTypesFrame, NumberTypesFrame, LineHoldsFrame, DelayedSortedFrame,
       DoneInOrderFrame, AbandonedLastFrame, InHandFrame, StoppingFrame,
       StepsResumeFrame DEF PublishResume
  <1> QED BY <1>1, <1>2, <1>3, <1>4, <1>5 DEF IInv

LEMMA RequestStopKeeps ==
    ASSUME IInv, RequestStop
    PROVE  IInv'
  <1> USE DEF IInv, loopVars, queueVars, atomicVars, controlVars
  <1>1. FlagTypes'
    BY Zenon DEF RequestStop, FlagTypes
  <1>2. Stopping'
    BY DEF RequestStop, Stopping
  <1>3. /\ QueueTypes' /\ NumberTypes' /\ PlaceTypes' /\ LineHolds'
        /\ DelayedSorted' /\ DoneInOrder' /\ AbandonedLast' /\ InHand'
        /\ PausedMeansHalted' /\ ResumeHeeded' /\ StepsResume'
    BY QueueTypesFrame, NumberTypesFrame, PlaceTypesFrame, LineHoldsFrame,
       DelayedSortedFrame, DoneInOrderFrame, AbandonedLastFrame, InHandFrame,
       PausedMeansHaltedFrame, ResumeHeededFrame, StepsResumeFrame DEF
       RequestStop
  <1> QED BY <1>1, <1>2, <1>3 DEF IInv

LEMMA DebugRequestStopKeeps ==
    ASSUME IInv, DebugRequestStop
    PROVE  IInv'
  <1> USE DEF IInv, loopVars, queueVars, controlVars
  <1>1. FlagTypes'
    BY ZenonT(60) DEF DebugRequestStop, FlagTypes
  <1>2. Stopping'
    BY DEF DebugRequestStop, Stopping
  <1>3. /\ QueueTypes' /\ NumberTypes' /\ PlaceTypes' /\ LineHolds'
        /\ DelayedSorted' /\ DoneInOrder' /\ AbandonedLast' /\ InHand'
        /\ PausedMeansHalted' /\ ResumeHeeded' /\ StepsResume'
    BY QueueTypesFrame, NumberTypesFrame, PlaceTypesFrame, LineHoldsFrame,
       DelayedSortedFrame, DoneInOrderFrame, AbandonedLastFrame, InHandFrame,
       PausedMeansHaltedFrame, ResumeHeededFrame, StepsResumeFrame DEF
       DebugRequestStop
  <1> QED BY <1>1, <1>2, <1>3 DEF IInv

LEMMA SetupDoneKeeps ==
    ASSUME IInv, NEW selected \in BOOLEAN, SetupDone(selected)
    PROVE  IInv'
  <1> USE DEF IInv, queueVars, atomicVars, controlVars
  <1>1. PlaceTypes'
    BY DEF SetupDone, PlaceTypes
  <1>2. FlagTypes'
    BY ZenonT(60) DEF SetupDone, FlagTypes
  <1>3. AbandonedLast'
    BY DEF SetupDone, AbandonedLast
  <1>4. InHand'
    BY DEF SetupDone, InHand
  <1>5. Stopping'
    BY DEF SetupDone, Stopping
  <1>6. PausedMeansHalted'
    BY DEF SetupDone, PausedMeansHalted
  <1>7. ResumeHeeded'
    BY DEF SetupDone, ResumeHeeded
  <1>8. StepsResume'
    BY DEF SetupDone, StepsResume
  <1>9. /\ QueueTypes' /\ NumberTypes' /\ LineHolds' /\ DelayedSorted'
        /\ DoneInOrder'
    BY QueueTypesFrame, NumberTypesFrame, LineHoldsFrame, DelayedSortedFrame,
       DoneInOrderFrame DEF SetupDone
  <1> QED BY <1>1, <1>2, <1>3, <1>4, <1>5, <1>6, <1>7, <1>8, <1>9 DEF IInv

LEMMA SetupThrowsKeeps ==
    ASSUME IInv, SetupThrows
    PROVE  IInv'
  <1> USE DEF IInv, queueVars, lifeVars, atomicVars, controlVars
  <1>1. PlaceTypes'
    BY DEF SetupThrows, PlaceTypes
  <1>2. AbandonedLast'
    BY DEF SetupThrows, AbandonedLast
  <1>3. InHand'
    BY DEF SetupThrows, InHand
  <1>4. Stopping'
    BY DEF SetupThrows, Stopping
  <1>5. PausedMeansHalted'
    BY DEF SetupThrows, PausedMeansHalted
  <1>6. ResumeHeeded'
    BY DEF SetupThrows, ResumeHeeded
  <1>7. StepsResume'
    BY DEF SetupThrows, StepsResume
  <1>8. /\ QueueTypes' /\ NumberTypes' /\ FlagTypes' /\ LineHolds'
        /\ DelayedSorted' /\ DoneInOrder'
    BY QueueTypesFrame, NumberTypesFrame, FlagTypesFrame, LineHoldsFrame,
       DelayedSortedFrame, DoneInOrderFrame DEF SetupThrows
  <1> QED BY <1>1, <1>2, <1>3, <1>4, <1>5, <1>6, <1>7, <1>8 DEF IInv

LEMMA SnapshotLoopStateKeeps ==
    ASSUME IInv, SnapshotLoopState
    PROVE  IInv'
  <1> USE DEF IInv, queueVars, lifeVars, atomicVars, controlVars
  <1>1. NumberTypes'
    BY ConstantsAssumption DEF SnapshotLoopState, NumberTypes
  <1>2. PlaceTypes'
    BY DEF SnapshotLoopState, PlaceTypes
  <1>3. FlagTypes'
    BY ZenonT(60) DEF SnapshotLoopState, FlagTypes
  <1>4. AbandonedLast'
    BY DEF SnapshotLoopState, AbandonedLast
  <1>5. InHand'
    BY DEF SnapshotLoopState, InHand
  <1>6. Stopping'
    BY DEF SnapshotLoopState, Stopping
  <1>7. PausedMeansHalted'
    BY DEF SnapshotLoopState, PausedMeansHalted
  <1>8. ResumeHeeded'
    BY DEF SnapshotLoopState, ResumeHeeded
  <1>9. StepsResume'
    BY DEF SnapshotLoopState, StepsResume
  <1>10. QueueTypes' /\ LineHolds' /\ DelayedSorted' /\ DoneInOrder'
    BY QueueTypesFrame, LineHoldsFrame, DelayedSortedFrame, DoneInOrderFrame
       DEF SnapshotLoopState
  <1> QED BY <1>1, <1>2, <1>3, <1>4, <1>5, <1>6, <1>7, <1>8, <1>9, <1>10 DEF
              IInv

LEMMA TakePublicationKeeps ==
    ASSUME IInv, TakePublication
    PROVE  IInv'
  <1> USE DEF IInv, lifeVars, atomicVars, controlVars
  <1>1. /\ QueueTypes' /\ LineHolds' /\ DelayedSorted' /\ DoneInOrder'
        /\ held' \in Tickets
    BY TakeQueues DEF IInv
  <1>2. NumberTypes'
    BY <1>1, ConstantsAssumption DEF TakePublication, NumberTypes
  <1>3. PlaceTypes'
    BY DEF TakePublication, PlaceTypes
  <1>4. AbandonedLast'
    BY DEF TakePublication, AbandonedLast
  <1>5. InHand'
    BY <1>1 DEF TakePublication, InHand, Tickets
  <1>6. Stopping'
    BY DEF TakePublication, Stopping
  <1>7. PausedMeansHalted'
    BY DEF TakePublication, PausedMeansHalted
  <1>8. ResumeHeeded'
    BY DEF TakePublication, ResumeHeeded
  <1>9. StepsResume'
    BY DEF TakePublication, StepsResume
  <1>10. FlagTypes'
    BY FlagTypesFrame DEF TakePublication
  <1> QED BY <1>1, <1>2, <1>3, <1>4, <1>5, <1>6, <1>7, <1>8, <1>9, <1>10 DEF
              IInv

LEMMA ApplyPublicationKeeps ==
    ASSUME IInv, NEW selected \in BOOLEAN, ApplyPublication(selected)
    PROVE  IInv'
  <1> USE DEF IInv, lifeVars, atomicVars, controlVars
  <1>1. QueueTypes' /\ LineHolds' /\ DelayedSorted' /\ DoneInOrder'
    <2>1. /\ held # 0 /\ held' = 0 /\ "Applied" \in {"Applied", "Threw"}
          /\ outcome' = [outcome EXCEPT ![held] = "Applied"]
          /\ UNCHANGED <<publications, delayed, due>>
      BY DEF ApplyPublication, InHand
    <2> HIDE DEF IInv
    <2> QED BY <2>1, ResolveQueues DEF IInv
  <1>2. NumberTypes'
    BY ConstantsAssumption DEF ApplyPublication, NumberTypes, InHand
  <1>3. PlaceTypes'
    BY DEF ApplyPublication, PlaceTypes
  <1>4. FlagTypes'
    <2>1. runnable' \in BOOLEAN
      BY Zenon DEF ApplyPublication
    <2>2. /\ prior' \in BOOLEAN /\ mustFail' \in BOOLEAN
          /\ wakeMoved' \in BOOLEAN /\ controlMoved' \in BOOLEAN
          /\ accepting' \in BOOLEAN /\ running' \in BOOLEAN
          /\ stopRequested' \in BOOLEAN /\ failed' \in BOOLEAN
          /\ stopping' \in BOOLEAN /\ pausedAtBoundary' \in BOOLEAN
          /\ pauseRequested' \in BOOLEAN /\ debugStop' \in BOOLEAN
          /\ newPause' \in BOOLEAN
      BY DEF ApplyPublication, FlagTypes
    <2> QED BY <2>1, <2>2, Zenon DEF FlagTypes
  <1>5. AbandonedLast'
    BY DEF ApplyPublication, AbandonedLast
  <1>6. InHand'
    BY DEF ApplyPublication, InHand
  <1>7. Stopping'
    BY DEF ApplyPublication, Stopping
  <1>8. PausedMeansHalted'
    BY DEF ApplyPublication, PausedMeansHalted
  <1>9. ResumeHeeded'
    BY DEF ApplyPublication, ResumeHeeded
  <1>10. StepsResume'
    BY DEF ApplyPublication, StepsResume
  <1> QED BY <1>1, <1>2, <1>3, <1>4, <1>5, <1>6, <1>7, <1>8, <1>9, <1>10 DEF
              IInv

LEMMA PublicationThrowsKeeps ==
    ASSUME IInv, PublicationThrows
    PROVE  IInv'
  <1> USE DEF IInv, lifeVars, atomicVars, controlVars
  <1>1. QueueTypes' /\ LineHolds' /\ DelayedSorted' /\ DoneInOrder'
    <2>1. /\ held # 0 /\ held' = 0 /\ "Threw" \in {"Applied", "Threw"}
          /\ outcome' = [outcome EXCEPT ![held] = "Threw"]
          /\ UNCHANGED <<publications, delayed, due>>
      BY DEF PublicationThrows, InHand
    <2> HIDE DEF IInv
    <2> QED BY <2>1, ResolveQueues DEF IInv
  <1>2. NumberTypes'
    BY ConstantsAssumption DEF PublicationThrows, NumberTypes
  <1>3. PlaceTypes'
    BY DEF PublicationThrows, PlaceTypes
  <1>4. AbandonedLast'
    BY DEF PublicationThrows, AbandonedLast
  <1>5. InHand'
    BY DEF PublicationThrows, InHand
  <1>6. Stopping'
    BY DEF PublicationThrows, Stopping
  <1>7. PausedMeansHalted'
    BY DEF PublicationThrows, PausedMeansHalted
  <1>8. ResumeHeeded'
    BY DEF PublicationThrows, ResumeHeeded
  <1>9. StepsResume'
    BY DEF PublicationThrows, StepsResume
  <1>10. FlagTypes'
    BY FlagTypesFrame DEF PublicationThrows
  <1> QED BY <1>1, <1>2, <1>3, <1>4, <1>5, <1>6, <1>7, <1>8, <1>9, <1>10 DEF
              IInv

LEMMA LimitExceededKeeps ==
    ASSUME IInv, LimitExceeded
    PROVE  IInv'
  <1> USE DEF IInv, queueVars, lifeVars, atomicVars, controlVars
  <1>1. PlaceTypes'
    BY DEF LimitExceeded, PlaceTypes
  <1>2. FlagTypes'
    BY ZenonT(60) DEF LimitExceeded, FlagTypes
  <1>3. AbandonedLast'
    BY DEF LimitExceeded, AbandonedLast
  <1>4. InHand'
    BY DEF LimitExceeded, InHand
  <1>5. Stopping'
    BY DEF LimitExceeded, Stopping
  <1>6. PausedMeansHalted'
    BY DEF LimitExceeded, PausedMeansHalted
  <1>7. ResumeHeeded'
    BY DEF LimitExceeded, ResumeHeeded
  <1>8. StepsResume'
    BY DEF LimitExceeded, StepsResume
  <1>9. /\ QueueTypes' /\ NumberTypes' /\ LineHolds' /\ DelayedSorted'
        /\ DoneInOrder'
    BY QueueTypesFrame, NumberTypesFrame, LineHoldsFrame, DelayedSortedFrame,
       DoneInOrderFrame DEF LimitExceeded
  <1> QED BY <1>1, <1>2, <1>3, <1>4, <1>5, <1>6, <1>7, <1>8, <1>9 DEF IInv

LEMMA EndConsequencesKeeps ==
    ASSUME IInv, EndConsequences
    PROVE  IInv'
  <1> USE DEF IInv, queueVars, lifeVars, atomicVars, controlVars
  <1>1. PlaceTypes'
    BY DEF EndConsequences, PlaceTypes
  <1>2. AbandonedLast'
    BY DEF EndConsequences, AbandonedLast
  <1>3. InHand'
    BY DEF EndConsequences, InHand
  <1>4. Stopping'
    BY DEF EndConsequences, Stopping
  <1>5. PausedMeansHalted'
    BY DEF EndConsequences, PausedMeansHalted
  <1>6. ResumeHeeded'
    BY DEF EndConsequences, ResumeHeeded
  <1>7. StepsResume'
    BY DEF EndConsequences, StepsResume
  <1>8. /\ QueueTypes' /\ NumberTypes' /\ FlagTypes' /\ LineHolds'
        /\ DelayedSorted' /\ DoneInOrder'
    BY QueueTypesFrame, NumberTypesFrame, FlagTypesFrame, LineHoldsFrame,
       DelayedSortedFrame, DoneInOrderFrame DEF EndConsequences
  <1> QED BY <1>1, <1>2, <1>3, <1>4, <1>5, <1>6, <1>7, <1>8 DEF IInv

LEMMA CheckDebugStopKeeps ==
    ASSUME IInv, CheckDebugStop
    PROVE  IInv'
  <1> USE DEF IInv, queueVars, lifeVars, atomicVars, controlVars
  <1>1. PlaceTypes'
    BY DEF CheckDebugStop, PlaceTypes
  <1>2. AbandonedLast'
    BY DEF CheckDebugStop, AbandonedLast
  <1>3. InHand'
    BY DEF CheckDebugStop, InHand
  <1>4. Stopping'
    BY DEF CheckDebugStop, Stopping
  <1>5. PausedMeansHalted'
    BY DEF CheckDebugStop, PausedMeansHalted
  <1>6. ResumeHeeded'
    BY DEF CheckDebugStop, ResumeHeeded
  <1>7. StepsResume'
    BY DEF CheckDebugStop, StepsResume
  <1>8. /\ QueueTypes' /\ NumberTypes' /\ FlagTypes' /\ LineHolds'
        /\ DelayedSorted' /\ DoneInOrder'
    BY QueueTypesFrame, NumberTypesFrame, FlagTypesFrame, LineHoldsFrame,
       DelayedSortedFrame, DoneInOrderFrame DEF CheckDebugStop
  <1> QED BY <1>1, <1>2, <1>3, <1>4, <1>5, <1>6, <1>7, <1>8 DEF IInv

LEMMA CheckDebugPauseKeeps ==
    ASSUME IInv, CheckDebugPause
    PROVE  IInv'
  <1> USE DEF IInv, queueVars, lifeVars, atomicVars, controlVars
  <1>1. PlaceTypes'
    BY DEF CheckDebugPause, PlaceTypes
  <1>2. AbandonedLast'
    BY DEF CheckDebugPause, AbandonedLast
  <1>3. InHand'
    BY DEF CheckDebugPause, InHand
  <1>4. Stopping'
    BY DEF CheckDebugPause, Stopping
  <1>5. PausedMeansHalted'
    BY DEF CheckDebugPause, PausedMeansHalted
  <1>6. ResumeHeeded'
    BY DEF CheckDebugPause, ResumeHeeded
  <1>7. StepsResume'
    BY DEF CheckDebugPause, StepsResume
  <1>8. /\ QueueTypes' /\ NumberTypes' /\ FlagTypes' /\ LineHolds'
        /\ DelayedSorted' /\ DoneInOrder'
    BY QueueTypesFrame, NumberTypesFrame, FlagTypesFrame, LineHoldsFrame,
       DelayedSortedFrame, DoneInOrderFrame DEF CheckDebugPause
  <1> QED BY <1>1, <1>2, <1>3, <1>4, <1>5, <1>6, <1>7, <1>8 DEF IInv

LEMMA CountStepKeeps ==
    ASSUME IInv, CountStep
    PROVE  IInv'
  <1> USE DEF IInv, queueVars, lifeVars, controlVars
  <1>1. NumberTypes'
    BY ConstantsAssumption DEF CountStep, NumberTypes
  <1>2. PlaceTypes'
    BY DEF CountStep, PlaceTypes
  <1>3. AbandonedLast'
    BY DEF CountStep, AbandonedLast
  <1>4. InHand'
    BY DEF CountStep, InHand
  <1>5. Stopping'
    BY DEF CountStep, Stopping
  <1>6. PausedMeansHalted'
    BY DEF CountStep, PausedMeansHalted
  <1>7. ResumeHeeded'
    <2>1. MaxStep = 0 => stepsRemaining # 1
      BY DEF NumberTypes
    <2> QED BY <2>1 DEF CountStep, ResumeHeeded, StepsResume
  <1>8. StepsResume'
    BY DEF CountStep, StepsResume
  <1>9. /\ QueueTypes' /\ FlagTypes' /\ LineHolds' /\ DelayedSorted'
        /\ DoneInOrder'
    BY QueueTypesFrame, FlagTypesFrame, LineHoldsFrame, DelayedSortedFrame,
       DoneInOrderFrame DEF CountStep
  <1> QED BY <1>1, <1>2, <1>3, <1>4, <1>5, <1>6, <1>7, <1>8, <1>9 DEF IInv

LEMMA PauseAfterLastStepKeeps ==
    ASSUME IInv, PauseAfterLastStep
    PROVE  IInv'
  <1> USE DEF IInv, queueVars, lifeVars, controlVars
  <1>1. PlaceTypes'
    BY DEF PauseAfterLastStep, PlaceTypes
  <1>2. FlagTypes'
    BY ZenonT(60) DEF PauseAfterLastStep, FlagTypes
  <1>3. AbandonedLast'
    BY DEF PauseAfterLastStep, AbandonedLast
  <1>4. InHand'
    BY DEF PauseAfterLastStep, InHand
  <1>5. Stopping'
    BY DEF PauseAfterLastStep, Stopping
  <1>6. PausedMeansHalted'
    BY DEF PauseAfterLastStep, PausedMeansHalted
  <1>7. ResumeHeeded'
    BY DEF PauseAfterLastStep, ResumeHeeded
  <1>8. StepsResume'
    BY DEF PauseAfterLastStep, StepsResume
  <1>9. /\ QueueTypes' /\ NumberTypes' /\ LineHolds' /\ DelayedSorted'
        /\ DoneInOrder'
    BY QueueTypesFrame, NumberTypesFrame, LineHoldsFrame, DelayedSortedFrame,
       DoneInOrderFrame DEF PauseAfterLastStep
  <1> QED BY <1>1, <1>2, <1>3, <1>4, <1>5, <1>6, <1>7, <1>8, <1>9 DEF IInv

LEMMA PublishBoundaryKeeps ==
    ASSUME IInv, PublishBoundary
    PROVE  IInv'
  <1> USE DEF IInv, queueVars, lifeVars, atomicVars, controlVars
  <1>0. /\ AfterBoundary \in {"Failing", "JoinAll", "Waiting", "Guest"}
        /\ AfterBoundary = "JoinAll" => stopRequested
    BY DEF AfterBoundary, PlaceTypes, FlagTypes, Stopping
  <1>1. PlaceTypes'
    BY DEF PublishBoundary, PlaceTypes, AfterBoundary
  <1>2. FlagTypes'
    BY ZenonT(60) DEF PublishBoundary, FlagTypes, AfterBoundary
  <1>3. AbandonedLast'
    BY DEF PublishBoundary, AbandonedLast, AfterBoundary
  <1>4. InHand'
    <2> HIDE DEF IInv
    <2>1. /\ at = "Publish" /\ at' \in {"Failing", "JoinAll", "Waiting", "Guest"}
          /\ at' = "JoinAll" => stopRequested
          /\ UNCHANGED <<held, accepting, stopRequested, failed, stopping,
                         debugStop, disposition, publications, delayed,
                         processed, control, lastControl, pauseRequested,
                         controlMoved>>
          /\ pausedAtBoundary' => ~ controlMoved /\ disposition = "Paused"
      BY <1>0 DEF PublishBoundary, queueVars, lifeVars, atomicVars, controlVars
    <2> QED BY <2>1 DEF IInv, InHand
  <1>5. Stopping'
    <2> HIDE DEF IInv
    <2>1. /\ at = "Publish" /\ at' \in {"Failing", "JoinAll", "Waiting", "Guest"}
          /\ at' = "JoinAll" => stopRequested
          /\ UNCHANGED <<held, accepting, stopRequested, failed, stopping,
                         debugStop, disposition, publications, delayed,
                         processed, control, lastControl, pauseRequested,
                         controlMoved>>
          /\ pausedAtBoundary' => ~ controlMoved /\ disposition = "Paused"
      BY <1>0 DEF PublishBoundary, queueVars, lifeVars, atomicVars, controlVars
    <2> QED BY <2>1 DEF IInv, Stopping
  <1>6. PausedMeansHalted'
    BY DEF PublishBoundary, PausedMeansHalted, AfterBoundary
  <1>7. ResumeHeeded'
    <2> HIDE DEF IInv
    <2>1. /\ at = "Publish" /\ at' \in {"Failing", "JoinAll", "Waiting", "Guest"}
          /\ at' = "JoinAll" => stopRequested
          /\ UNCHANGED <<held, accepting, stopRequested, failed, stopping,
                         debugStop, disposition, publications, delayed,
                         processed, control, lastControl, pauseRequested,
                         controlMoved>>
          /\ pausedAtBoundary' => ~ controlMoved /\ disposition = "Paused"
      BY <1>0 DEF PublishBoundary, queueVars, lifeVars, atomicVars, controlVars
    <2> QED BY <2>1 DEF IInv, ResumeHeeded
  <1>8. StepsResume'
    <2> HIDE DEF IInv
    <2>1. /\ at = "Publish" /\ at' \in {"Failing", "JoinAll", "Waiting", "Guest"}
          /\ at' = "JoinAll" => stopRequested
          /\ UNCHANGED <<held, accepting, stopRequested, failed, stopping,
                         debugStop, disposition, publications, delayed,
                         processed, control, lastControl, pauseRequested,
                         controlMoved>>
          /\ pausedAtBoundary' => ~ controlMoved /\ disposition = "Paused"
      BY <1>0 DEF PublishBoundary, queueVars, lifeVars, atomicVars, controlVars
    <2> QED BY <2>1 DEF IInv, StepsResume
  <1>9. /\ QueueTypes' /\ NumberTypes' /\ LineHolds' /\ DelayedSorted'
        /\ DoneInOrder'
    BY QueueTypesFrame, NumberTypesFrame, LineHoldsFrame, DelayedSortedFrame,
       DoneInOrderFrame DEF PublishBoundary
  <1> QED BY <1>1, <1>2, <1>3, <1>4, <1>5, <1>6, <1>7, <1>8, <1>9 DEF IInv

LEMMA WaitForWorkKeeps ==
    ASSUME IInv, WaitForWork
    PROVE  IInv'
  <1> USE DEF IInv, queueVars, lifeVars, atomicVars, controlVars
  <1>1. PlaceTypes'
    BY DEF WaitForWork, PlaceTypes
  <1>2. AbandonedLast'
    BY DEF WaitForWork, AbandonedLast
  <1>3. InHand'
    BY DEF WaitForWork, InHand
  <1>4. Stopping'
    BY DEF WaitForWork, Stopping
  <1>5. PausedMeansHalted'
    BY DEF WaitForWork, PausedMeansHalted
  <1>6. ResumeHeeded'
    BY DEF WaitForWork, ResumeHeeded
  <1>7. StepsResume'
    BY DEF WaitForWork, StepsResume
  <1>8. /\ QueueTypes' /\ NumberTypes' /\ FlagTypes' /\ LineHolds'
        /\ DelayedSorted' /\ DoneInOrder'
    BY QueueTypesFrame, NumberTypesFrame, FlagTypesFrame, LineHoldsFrame,
       DelayedSortedFrame, DoneInOrderFrame DEF WaitForWork
  <1> QED BY <1>1, <1>2, <1>3, <1>4, <1>5, <1>6, <1>7, <1>8 DEF IInv

LEMMA YieldKeeps ==
    ASSUME IInv, NEW selected \in BOOLEAN, Yield(selected)
    PROVE  IInv'
  <1> USE DEF IInv, queueVars, lifeVars, atomicVars, controlVars
  <1>1. PlaceTypes'
    BY DEF Yield, PlaceTypes
  <1>2. FlagTypes'
    BY ZenonT(60) DEF Yield, FlagTypes
  <1>3. AbandonedLast'
    BY DEF Yield, AbandonedLast
  <1>4. InHand'
    BY DEF Yield, InHand
  <1>5. Stopping'
    BY DEF Yield, Stopping
  <1>6. PausedMeansHalted'
    BY DEF Yield, PausedMeansHalted
  <1>7. ResumeHeeded'
    BY DEF Yield, ResumeHeeded
  <1>8. StepsResume'
    BY DEF Yield, StepsResume
  <1>9. /\ QueueTypes' /\ NumberTypes' /\ LineHolds' /\ DelayedSorted'
        /\ DoneInOrder'
    BY QueueTypesFrame, NumberTypesFrame, LineHoldsFrame, DelayedSortedFrame,
       DoneInOrderFrame DEF Yield
  <1> QED BY <1>1, <1>2, <1>3, <1>4, <1>5, <1>6, <1>7, <1>8, <1>9 DEF IInv

LEMMA GuestThrowsKeeps ==
    ASSUME IInv, GuestThrows
    PROVE  IInv'
  <1> USE DEF IInv, queueVars, lifeVars, atomicVars, controlVars
  <1>1. PlaceTypes'
    BY DEF GuestThrows, PlaceTypes
  <1>2. FlagTypes'
    BY ZenonT(60) DEF GuestThrows, FlagTypes
  <1>3. AbandonedLast'
    BY DEF GuestThrows, AbandonedLast
  <1>4. InHand'
    BY DEF GuestThrows, InHand
  <1>5. Stopping'
    BY DEF GuestThrows, Stopping
  <1>6. PausedMeansHalted'
    BY DEF GuestThrows, PausedMeansHalted
  <1>7. ResumeHeeded'
    BY DEF GuestThrows, ResumeHeeded
  <1>8. StepsResume'
    BY DEF GuestThrows, StepsResume
  <1>9. /\ QueueTypes' /\ NumberTypes' /\ LineHolds' /\ DelayedSorted'
        /\ DoneInOrder'
    BY QueueTypesFrame, NumberTypesFrame, LineHoldsFrame, DelayedSortedFrame,
       DoneInOrderFrame DEF GuestThrows
  <1> QED BY <1>1, <1>2, <1>3, <1>4, <1>5, <1>6, <1>7, <1>8, <1>9 DEF IInv

LEMMA GuestStopsKeeps ==
    ASSUME IInv, GuestStops
    PROVE  IInv'
  <1> USE DEF IInv, queueVars, controlVars
  <1>1. PlaceTypes'
    BY DEF GuestStops, PlaceTypes
  <1>2. FlagTypes'
    BY Zenon DEF GuestStops, FlagTypes
  <1>3. AbandonedLast'
    BY DEF GuestStops, AbandonedLast
  <1>4. InHand'
    BY DEF GuestStops, InHand
  <1>5. Stopping'
    BY DEF GuestStops, Stopping
  <1>6. PausedMeansHalted'
    BY DEF GuestStops, PausedMeansHalted
  <1>7. ResumeHeeded'
    BY DEF GuestStops, ResumeHeeded
  <1>8. StepsResume'
    BY DEF GuestStops, StepsResume
  <1>9. /\ QueueTypes' /\ NumberTypes' /\ LineHolds' /\ DelayedSorted'
        /\ DoneInOrder'
    BY QueueTypesFrame, NumberTypesFrame, LineHoldsFrame, DelayedSortedFrame,
       DoneInOrderFrame DEF GuestStops
  <1> QED BY <1>1, <1>2, <1>3, <1>4, <1>5, <1>6, <1>7, <1>8, <1>9 DEF IInv

LEMMA BreakpointKeeps ==
    ASSUME IInv, Breakpoint
    PROVE  IInv'
  <1> USE DEF IInv, loopVars, queueVars, lifeVars
  <1>1. NumberTypes'
    BY ConstantsAssumption DEF Breakpoint, NumberTypes
  <1>2. PlaceTypes'
    BY DEF Breakpoint, PlaceTypes
  <1>3. FlagTypes'
    BY Zenon DEF Breakpoint, FlagTypes
  <1>4. PausedMeansHalted'
    BY DEF Breakpoint, PausedMeansHalted
  <1>5. ResumeHeeded'
    BY DEF Breakpoint, ResumeHeeded
  <1>6. /\ QueueTypes' /\ LineHolds' /\ DelayedSorted' /\ DoneInOrder'
        /\ AbandonedLast' /\ InHand' /\ Stopping' /\ StepsResume'
    BY QueueTypesFrame, LineHoldsFrame, DelayedSortedFrame, DoneInOrderFrame,
       AbandonedLastFrame, InHandFrame, StoppingFrame, StepsResumeFrame DEF
       Breakpoint
  <1> QED BY <1>1, <1>2, <1>3, <1>4, <1>5, <1>6 DEF IInv

LEMMA FailKeeps ==
    ASSUME IInv, Fail
    PROVE  IInv'
  <1> USE DEF IInv, queueVars, atomicVars, controlVars
  <1>1. PlaceTypes'
    BY DEF Fail, PlaceTypes
  <1>2. FlagTypes'
    BY Zenon DEF Fail, FlagTypes
  <1>3. AbandonedLast'
    BY DEF Fail, AbandonedLast
  <1>4. InHand'
    BY DEF Fail, InHand
  <1>5. Stopping'
    BY DEF Fail, Stopping
  <1>6. PausedMeansHalted'
    BY DEF Fail, PausedMeansHalted
  <1>7. ResumeHeeded'
    BY DEF Fail, ResumeHeeded
  <1>8. StepsResume'
    BY DEF Fail, StepsResume
  <1>9. /\ QueueTypes' /\ NumberTypes' /\ LineHolds' /\ DelayedSorted'
        /\ DoneInOrder'
    BY QueueTypesFrame, NumberTypesFrame, LineHoldsFrame, DelayedSortedFrame,
       DoneInOrderFrame DEF Fail
  <1> QED BY <1>1, <1>2, <1>3, <1>4, <1>5, <1>6, <1>7, <1>8, <1>9 DEF IInv

LEMMA JoinAllKeeps ==
    ASSUME IInv, NEW throws \in BOOLEAN, JoinAll(throws)
    PROVE  IInv'
  <1> USE DEF IInv, queueVars, atomicVars, controlVars
  <1>1. PlaceTypes'
    BY DEF JoinAll, PlaceTypes
  <1>2. FlagTypes'
    BY ZenonT(60) DEF JoinAll, FlagTypes
  <1>3. AbandonedLast'
    BY DEF JoinAll, AbandonedLast
  <1>4. InHand'
    BY DEF JoinAll, InHand
  <1>5. Stopping'
    BY DEF JoinAll, Stopping
  <1>6. PausedMeansHalted'
    BY DEF JoinAll, PausedMeansHalted
  <1>7. ResumeHeeded'
    BY DEF JoinAll, ResumeHeeded
  <1>8. StepsResume'
    BY DEF JoinAll, StepsResume
  <1>9. /\ QueueTypes' /\ NumberTypes' /\ LineHolds' /\ DelayedSorted'
        /\ DoneInOrder'
    BY QueueTypesFrame, NumberTypesFrame, LineHoldsFrame, DelayedSortedFrame,
       DoneInOrderFrame DEF JoinAll
  <1> QED BY <1>1, <1>2, <1>3, <1>4, <1>5, <1>6, <1>7, <1>8, <1>9 DEF IInv

LEMMA FailPendingPublicationsKeeps ==
    ASSUME IInv, FailPendingPublications
    PROVE  IInv'
  <1> USE DEF IInv, lifeVars, atomicVars, controlVars
  <1>1. QueueTypes' /\ LineHolds' /\ DelayedSorted' /\ DoneInOrder'
    BY AbandonQueues DEF IInv
  <1>2. PlaceTypes'
    BY DEF FailPendingPublications, PlaceTypes
  <1>3. AbandonedLast'
    BY DEF FailPendingPublications, AbandonedLast
  <1>4. InHand'
    BY DEF FailPendingPublications, InHand
  <1>5. Stopping'
    BY DEF FailPendingPublications, Stopping
  <1>6. PausedMeansHalted'
    BY DEF FailPendingPublications, PausedMeansHalted
  <1>7. ResumeHeeded'
    BY DEF FailPendingPublications, ResumeHeeded
  <1>8. StepsResume'
    BY DEF FailPendingPublications, StepsResume
  <1>9. NumberTypes' /\ FlagTypes'
    BY NumberTypesFrame, FlagTypesFrame DEF FailPendingPublications
  <1> QED BY <1>1, <1>2, <1>3, <1>4, <1>5, <1>6, <1>7, <1>8, <1>9 DEF IInv

LEMMA FinishKeeps ==
    ASSUME IInv, Finish
    PROVE  IInv'
  <1> USE DEF IInv, queueVars, atomicVars, controlVars
  <1>1. PlaceTypes'
    BY DEF Finish, PlaceTypes
  <1>2. FlagTypes'
    BY Zenon DEF Finish, FlagTypes
  <1>3. AbandonedLast'
    BY DEF Finish, AbandonedLast
  <1>4. InHand'
    BY DEF Finish, InHand
  <1>5. Stopping'
    BY DEF Finish, Stopping
  <1>6. PausedMeansHalted'
    BY DEF Finish, PausedMeansHalted
  <1>7. ResumeHeeded'
    BY DEF Finish, ResumeHeeded
  <1>8. StepsResume'
    BY DEF Finish, StepsResume
  <1>9. /\ QueueTypes' /\ NumberTypes' /\ LineHolds' /\ DelayedSorted'
        /\ DoneInOrder'
    BY QueueTypesFrame, NumberTypesFrame, LineHoldsFrame, DelayedSortedFrame,
       DoneInOrderFrame DEF Finish
  <1> QED BY <1>1, <1>2, <1>3, <1>4, <1>5, <1>6, <1>7, <1>8, <1>9 DEF IInv

-----------------------------------------------------------------------------
(* The invariant holds at first and is inductive.                            *)

LEMMA InitInv == Init => IInv
  <1> SUFFICES ASSUME Init PROVE IInv
    OBVIOUS
  <1> USE DEF Init
  <1>1. /\ <<>> \in Seq(Tickets) /\ <<>> \in Seq(0 .. MaxTime)
        /\ <<>> \in Seq(Outcomes) /\ Len(<<>>) = 0
    BY EmptySeq
  <1>2. Line = <<>>
    BY <1>1, ConcatEmptySeq DEF Line
  <1>3. QueueTypes
    BY <1>1, ConstantsAssumption DEF QueueTypes
  <1>4. NumberTypes /\ PlaceTypes
    BY ConstantsAssumption DEF NumberTypes, PlaceTypes
  <1>5. FlagTypes
    BY Zenon DEF FlagTypes
  <1>6. LineHolds
    <2>1. /\ \A i \in 1 .. Len(Line) : FALSE
          /\ \A t \in 1 .. Len(outcome) : FALSE
      BY <1>1, <1>2
    <2>2. held = 0
      OBVIOUS
    <2> QED BY <2>1, <2>2, Zenon DEF LineHolds
  <1>7. DelayedSorted /\ DoneInOrder /\ AbandonedLast
    BY <1>1 DEF DelayedSorted, DoneInOrder, AbandonedLast
  <1>8. InHand /\ Stopping /\ PausedMeansHalted /\ StepsResume
    BY DEF InHand, Stopping, PausedMeansHalted, StepsResume
  <1>9. ResumeHeeded
    BY DEF ResumeHeeded
  <1> QED BY <1>3, <1>4, <1>5, <1>6, <1>7, <1>8, <1>9 DEF IInv

LEMMA StutterKeeps ==
    ASSUME IInv, UNCHANGED vars
    PROVE  IInv'
  <1> USE DEF IInv, vars, loopVars, queueVars, lifeVars, atomicVars, controlVars
  <1> QED BY QueueTypesFrame, NumberTypesFrame, PlaceTypesFrame, FlagTypesFrame,
               LineHoldsFrame, DelayedSortedFrame, DoneInOrderFrame,
               AbandonedLastFrame, InHandFrame, StoppingFrame,
               PausedMeansHaltedFrame, ResumeHeededFrame, StepsResumeFrame

\* The invariant is inductive.
LEMMA NextInv == IInv /\ [Next]_vars => IInv'
  <1> SUFFICES ASSUME IInv, [Next]_vars PROVE IInv'
    OBVIOUS
  <1>1. CASE Loop
    <2>1. CASE \E selected \in BOOLEAN : SetupDone(selected)
      BY <2>1, SetupDoneKeeps
    <2>2. CASE SetupThrows
      BY <2>2, SetupThrowsKeeps
    <2>3. CASE SnapshotLoopState
      BY <2>3, SnapshotLoopStateKeeps
    <2>4. CASE TakePublication
      BY <2>4, TakePublicationKeeps
    <2>5. CASE \E selected \in BOOLEAN : ApplyPublication(selected)
      BY <2>5, ApplyPublicationKeeps
    <2>6. CASE PublicationThrows
      BY <2>6, PublicationThrowsKeeps
    <2>7. CASE LimitExceeded
      BY <2>7, LimitExceededKeeps
    <2>8. CASE EndConsequences
      BY <2>8, EndConsequencesKeeps
    <2>9. CASE CheckDebugStop
      BY <2>9, CheckDebugStopKeeps
    <2>10. CASE CheckDebugPause
      BY <2>10, CheckDebugPauseKeeps
    <2>11. CASE CountStep
      BY <2>11, CountStepKeeps
    <2>12. CASE PauseAfterLastStep
      BY <2>12, PauseAfterLastStepKeeps
    <2>13. CASE PublishBoundary
      BY <2>13, PublishBoundaryKeeps
    <2>14. CASE WaitForWork
      BY <2>14, WaitForWorkKeeps
    <2>15. CASE \E selected \in BOOLEAN : Yield(selected)
      BY <2>15, YieldKeeps
    <2>16. CASE GuestThrows
      BY <2>16, GuestThrowsKeeps
    <2>17. CASE GuestStops
      BY <2>17, GuestStopsKeeps
    <2>18. CASE Fail
      BY <2>18, FailKeeps
    <2>19. CASE \E throws \in BOOLEAN : JoinAll(throws)
      BY <2>19, JoinAllKeeps
    <2>20. CASE FailPendingPublications
      BY <2>20, FailPendingPublicationsKeeps
    <2>21. CASE Finish
      BY <2>21, FinishKeeps
    <2> QED BY <1>1, <2>1, <2>2, <2>3, <2>4, <2>5, <2>6, <2>7, <2>8, <2>9,
               <2>10, <2>11, <2>12, <2>13, <2>14, <2>15, <2>16, <2>17, <2>18,
               <2>19, <2>20, <2>21 DEF Loop
  <1>2. CASE Calls
    <2>1. CASE PublishPause
      BY <2>1, PublishPauseKeeps
    <2>2. CASE StepClearsPause
      BY <2>2, StepClearsPauseKeeps
    <2>3. CASE PublishResume
      BY <2>3, PublishResumeKeeps
    <2>4. CASE DebugRequestStop
      BY <2>4, DebugRequestStopKeeps
    <2> QED BY <1>2, <2>1, <2>2, <2>3, <2>4 DEF Calls
  <1>3. CASE Publish
    BY <1>3, PublishKeeps
  <1>4. CASE \E deadline \in 1 .. MaxTime : PublishAt(deadline)
    BY <1>4, PublishAtKeeps
  <1>5. CASE Tick
    BY <1>5, TickKeeps
  <1>6. CASE Notify
    BY <1>6, NotifyKeeps
  <1>7. CASE DebugRequestPause
    BY <1>7, DebugRequestPauseKeeps
  <1>8. CASE DebugResume
    BY <1>8, DebugResumeKeeps
  <1>9. CASE \E count \in 1 .. MaxStep : DebugStepBoundaries(count)
    BY <1>9, DebugStepBoundariesKeeps
  <1>10. CASE RequestStop
    BY <1>10, RequestStopKeeps
  <1>11. CASE Breakpoint
    BY <1>11, BreakpointKeeps
  <1>12. CASE UNCHANGED vars
    BY <1>12, StutterKeeps
  <1> QED BY <1>1, <1>2, <1>3, <1>4, <1>5, <1>6, <1>7, <1>8, <1>9, <1>10,
              <1>11, <1>12 DEF Next

-----------------------------------------------------------------------------
(* What follows from it.                                                     *)

LEMMA InvQueues == IInv => QueuesExact
  <1> SUFFICES ASSUME IInv PROVE QueuesExact
    OBVIOUS
  <1> USE DEF IInv
  <1>1. TypeOK
    BY TypeParts
  <1>2. /\ DOMAIN outcome = 1 .. Len(outcome) /\ DOMAIN Line = 1 .. Len(Line)
        /\ DOMAIN publications = 1 .. Len(publications)
        /\ DOMAIN delayed = 1 .. Len(delayed)
        /\ Len(publications) \in Nat /\ Len(delayed) \in Nat
        /\ Len(Line) = Len(publications) + Len(delayed)
        /\ \A i \in 1 .. Len(publications) : Line[i] = publications[i]
        /\ \A i \in 1 .. Len(delayed) : Line[Len(publications) + i] = delayed[i]
    BY QueueFacts, LenProperties DEF QueueTypes
  <1>3. /\ \A t : t \in Range(publications) <=>
                     \E i \in 1 .. Len(publications) : publications[i] = t
        /\ \A t : t \in Range(delayed) <=>
                     \E i \in 1 .. Len(delayed) : delayed[i] = t
        /\ \A t : t \in Range(Line) <=> \E i \in 1 .. Len(Line) : Line[i] = t
    BY <1>2 DEF Range
  <1>4. \A t : t \in Range(Line) <=> t \in Range(publications) \/ t \in Range(delayed)
    <2> SUFFICES ASSUME NEW t
                 PROVE  t \in Range(Line)
                          <=> t \in Range(publications) \/ t \in Range(delayed)
      OBVIOUS
    <2>1. ASSUME t \in Range(publications) PROVE t \in Range(Line)
      <3>1. PICK i \in 1 .. Len(publications) : publications[i] = t
        BY <1>3, <2>1
      <3>2. i \in 1 .. Len(Line) /\ Line[i] = t
        BY <1>2, <3>1
      <3> QED BY <1>3, <3>2
    <2>2. ASSUME t \in Range(delayed) PROVE t \in Range(Line)
      <3>1. PICK i \in 1 .. Len(delayed) : delayed[i] = t
        BY <1>3, <2>2
      <3>2. /\ Len(publications) + i \in 1 .. Len(Line)
            /\ Line[Len(publications) + i] = t
        BY <1>2, <3>1
      <3> QED BY <1>3, <3>2
    <2>3. ASSUME t \in Range(Line)
          PROVE  t \in Range(publications) \/ t \in Range(delayed)
      <3>1. PICK i \in 1 .. Len(Line) : Line[i] = t
        BY <1>3, <2>3
      <3>2. CASE i <= Len(publications)
        <4>1. i \in 1 .. Len(publications) /\ publications[i] = t
          BY <1>2, <3>1, <3>2
        <4> QED BY <1>3, <4>1
      <3>3. CASE ~ (i <= Len(publications))
        <4>1. /\ i - Len(publications) \in 1 .. Len(delayed)
              /\ Len(publications) + (i - Len(publications)) = i
          BY <1>2, <3>1, <3>3
        <4>2. delayed[i - Len(publications)] = t
          BY <1>2, <3>1, <4>1
        <4> QED BY <1>3, <4>1, <4>2
      <3> QED BY <3>2, <3>3
    <2> QED BY <2>1, <2>2, <2>3
  <1>5. {t \in DOMAIN outcome : outcome[t] = "Queued"}
          = Range(publications) \cup Range(delayed) \cup ({held} \ {0})
    <2>1. ASSUME NEW t \in 1 .. Len(outcome), outcome[t] = "Queued"
          PROVE  t \in Range(Line) \/ t = held
      BY <1>3, <2>1 DEF LineHolds
    <2>2. ASSUME NEW t, t \in Range(Line) \/ (t = held /\ held # 0)
          PROVE  t \in 1 .. Len(outcome) /\ outcome[t] = "Queued"
      BY <1>3, <2>2 DEF LineHolds
    <2>3. ~ 0 \in 1 .. Len(outcome)
      BY QueueFacts
    <2>4. ASSUME NEW t
          PROVE  t \in {x \in DOMAIN outcome : outcome[x] = "Queued"}
                   <=> t \in Range(Line) \/ (t = held /\ held # 0)
      <3>1. CASE t \in 1 .. Len(outcome) /\ outcome[t] = "Queued"
        <4>1. t \in Range(Line) \/ t = held
          BY <2>1, <3>1
        <4>2. t # 0
          BY <2>3, <3>1
        <4> QED BY <1>2, <3>1, <4>1, <4>2
      <3>2. CASE ~ (t \in 1 .. Len(outcome) /\ outcome[t] = "Queued")
        BY <1>2, <2>2, <3>2
      <3> QED BY <3>1, <3>2
    <2>5. ASSUME NEW t
          PROVE  t \in Range(publications) \cup Range(delayed) \cup ({held} \ {0})
                   <=> t \in Range(Line) \/ (t = held /\ held # 0)
      <3>1. t \in {held} \ {0} <=> t = held /\ held # 0
        OBVIOUS
      <3>2. t \in Range(Line) <=> t \in Range(publications) \/ t \in Range(delayed)
        BY <1>4
      <3> HIDE DEF IInv
      <3> QED BY <3>1, <3>2
    <2> QED BY <2>4, <2>5
  <1>6. IsInjective(Line) /\ held \notin Range(Line)
    <2>1. held \notin Range(Line)
      BY <1>3 DEF LineHolds
    <2>2. ASSUME NEW i \in 1 .. Len(Line), NEW j \in 1 .. Len(Line), i # j
          PROVE  Line[i] # Line[j]
      <3>1. i < j \/ j < i
        BY <1>2, <2>2
      <3> QED BY <3>1 DEF LineHolds
    <2> QED BY <1>2, <2>1, <2>2 DEF IsInjective
  <1>7. ASSUME NEW i \in DOMAIN delayed, NEW j \in DOMAIN delayed, i < j
        PROVE  \/ due[delayed[i]] < due[delayed[j]]
               \/ /\ due[delayed[i]] = due[delayed[j]]
                  /\ delayed[i] < delayed[j]
    <2> DEFINE a == Len(publications) + i
               b == Len(publications) + j
    <2>1. /\ a \in 1 .. Len(Line) /\ b \in 1 .. Len(Line) /\ a < b
          /\ Line[a] = delayed[i] /\ Line[b] = delayed[j]
      BY <1>2, <1>7
    <2> HIDE DEF a, b
    <2>2. delayed[i] # delayed[j] /\ Before(delayed[i], delayed[j])
      BY <2>1 DEF LineHolds
    <2>3. due[delayed[i]] <= due[delayed[j]]
      BY <1>2, <1>7 DEF DelayedSorted
    <2>4. /\ due[delayed[i]] \in Int /\ due[delayed[j]] \in Int
          /\ delayed[i] \in Int /\ delayed[j] \in Int
      BY <1>2, DelayedKnown
    <2> QED BY <2>2, <2>3, <2>4 DEF Before
  <1> QED BY <1>1, <1>5, <1>6, <1>7 DEF QueuesExact, QueuedOnce, Line

LEMMA InvApplied == IInv => AppliedWhenDue
  <1> SUFFICES ASSUME IInv, NEW t \in 1 .. Len(outcome), NEW u \in 1 .. Len(outcome),
                      t < u, due[t] <= due[u], Done(u)
               PROVE  Done(t)
    BY QueueFacts DEF IInv, AppliedWhenDue, Done
  <1> QED BY DEF IInv, DoneInOrder, Before

LEMMA InvHalts == IInv => HaltsCleanly
  <1> SUFFICES ASSUME IInv PROVE HaltsCleanly
    OBVIOUS
  <1> USE DEF IInv
  <1>1. PausedMeansHalted
    OBVIOUS
  <1>2. ASSUME at = "Exited"
        PROVE  ~ accepting /\ \A t \in DOMAIN outcome : outcome[t] # "Queued"
    <2>1. ~ accepting /\ held = 0 /\ publications = <<>> /\ delayed = <<>>
      BY <1>2 DEF Stopping, InHand
    <2>2. Len(Line) = 0 /\ DOMAIN outcome = 1 .. Len(outcome)
      BY <2>1, QueueFacts, EmptySeq
    <2>3. ~ 0 \in 1 .. Len(outcome) /\ \A i \in 1 .. Len(Line) : FALSE
      BY <2>2, QueueFacts
    <2> QED BY <2>1, <2>2, <2>3 DEF LineHolds
  <1> QED BY <1>1, <1>2 DEF HaltsCleanly, ExitsClean

LEMMA Always == Spec => []IInv
  BY InitInv, NextInv, PTL DEF Spec

\* For any number of publications, immediate and delayed, from any number of
\* host threads: the state is well typed and each publication that is not
\* resolved is in exactly one of the two queues or in the executor's hand, the
\* delayed ones in the order of their deadlines.
THEOREM QueuesAlwaysExact == Spec => []QueuesExact
  BY Always, InvQueues, PTL

\* A command published first and due no later is applied first, whoever moved a
\* delayed one to the queue.
THEOREM AlwaysAppliedWhenDue == Spec => []AppliedWhenDue
  BY Always, InvApplied, PTL

\* A pause that is acknowledged is never a running guest, and an executor that
\* has ended takes no more publications and leaves none queued.
THEOREM AlwaysHaltsCleanly == Spec => []HaltsCleanly
  BY Always, InvHalts, PTL

\* Without boundary steps, debugPaused() is false from the return of
\* debugResume() to the next pause, whatever boundary was under way.
THEOREM ResumedIsRunning == Spec => [](MaxStep = 0 => ResumedMeansRunning)
  <1>1. IInv => (MaxStep = 0 => ResumedMeansRunning)
    BY DEF IInv, ResumeHeeded, ResumedMeansRunning
  <1> QED BY <1>1, Always, PTL

-----------------------------------------------------------------------------
(* Refinement of BoundaryMailbox.                                            *)

\* What waits to be applied at the next boundary, or is in hand, is due.
OnTime ==
    /\ \A i \in 1 .. Len(publications) : due[publications[i]] <= now
    /\ held # 0 => due[held] <= now

Ending == {"Failing", "JoinAll", "FailPending", "Finish", "Exited"}

\* A command that throws ends the loop.
ThrewLast == (\E t \in 1 .. Len(outcome) : outcome[t] = "Threw") => at \in Ending

MInv == IInv /\ OnTime /\ ThrewLast

\* Nobody leaves the end of run(), and a step that moves no publication opens
\* the mailbox, closes it or leaves it as it is.
OtherSteps ==
    /\ UNCHANGED <<publications, delayed, due, outcome, held, now>>
    /\ at \in Ending => at' \in Ending
    /\ Mailbox!Open \/ Mailbox!Close \/ Phase' = Phase

QueueStep ==
    \/ Publish
    \/ \E deadline \in 1 .. MaxTime : PublishAt(deadline)
    \/ Tick
    \/ TakePublication
    \/ \E selected \in BOOLEAN : ApplyPublication(selected)
    \/ PublicationThrows
    \/ FailPendingPublications

LEMMA LoopSteps ==
    ASSUME IInv, Loop
    PROVE  QueueStep \/ OtherSteps
  <1> USE DEF OtherSteps, Ending, queueVars
  <1>1. ASSUME NEW selected \in BOOLEAN, SetupDone(selected) PROVE OtherSteps
    <2>1. stopRequested \in BOOLEAN /\ (stopRequested => ~ accepting)
      BY DEF IInv, FlagTypes, Stopping
    <2>2. Mailbox!Open \/ Phase' = Phase
      BY <1>1, <2>1 DEF SetupDone, Mailbox!Open, Phase
    <2> QED BY <1>1, <2>2 DEF SetupDone
  <1>2. ASSUME SetupThrows PROVE OtherSteps
    BY <1>2 DEF SetupThrows, lifeVars, Phase
  <1>3. ASSUME SnapshotLoopState PROVE OtherSteps
    BY <1>3 DEF SnapshotLoopState, lifeVars, Phase
  <1>4. ASSUME LimitExceeded \/ EndConsequences PROVE OtherSteps
    BY <1>4 DEF LimitExceeded, EndConsequences, lifeVars, Phase
  <1>5. ASSUME CheckDebugStop \/ CheckDebugPause PROVE OtherSteps
    BY <1>5 DEF CheckDebugStop, CheckDebugPause, lifeVars, Phase
  <1>6. ASSUME CountStep \/ PauseAfterLastStep PROVE OtherSteps
    BY <1>6 DEF CountStep, PauseAfterLastStep, lifeVars, Phase
  <1>7. ASSUME PublishBoundary \/ WaitForWork PROVE OtherSteps
    BY <1>7 DEF PublishBoundary, WaitForWork, lifeVars, Phase
  <1>8. ASSUME NEW selected \in BOOLEAN, Yield(selected) PROVE OtherSteps
    BY <1>8 DEF Yield, lifeVars, Phase
  <1>9. ASSUME GuestThrows PROVE OtherSteps
    BY <1>9 DEF GuestThrows, lifeVars, Phase
  <1>10. ASSUME GuestStops PROVE OtherSteps
    <2>1. Mailbox!Close \/ Phase' = Phase
      BY <1>10 DEF GuestStops, Mailbox!Close, Phase, queueVars
    <2> QED BY <1>10, <2>1 DEF GuestStops
  <1>11. ASSUME Fail PROVE OtherSteps
    <2>1. Mailbox!Close \/ Phase' = Phase
      BY <1>11 DEF Fail, Mailbox!Close, Phase, queueVars
    <2> QED BY <1>11, <2>1 DEF Fail
  <1>12. ASSUME NEW throws \in BOOLEAN, JoinAll(throws) PROVE OtherSteps
    BY <1>12 DEF JoinAll, Phase
  <1>13. ASSUME Finish PROVE OtherSteps
    <2>1. stopRequested /\ ~ accepting
      BY <1>13 DEF IInv, Stopping, Finish
    <2>2. Phase' = Phase
      BY <1>13, <2>1 DEF Finish, Phase
    <2> QED BY <1>13, <2>2 DEF Finish
  <1> HIDE DEF OtherSteps
  <1> QED BY <1>1, <1>2, <1>3, <1>4, <1>5, <1>6, <1>7, <1>8, <1>9, <1>10,
             <1>11, <1>12, <1>13, Zenon DEF Loop, QueueStep

LEMMA AllSteps ==
    ASSUME IInv, [Next]_vars
    PROVE  QueueStep \/ OtherSteps
  <1> USE DEF OtherSteps, Ending, queueVars, loopVars
  <1>1. ASSUME Calls PROVE OtherSteps
    <2>1. Phase' = Phase
      BY <1>1 DEF Calls, PublishPause, StepClearsPause, PublishResume,
                  DebugRequestStop, lifeVars, Phase
    <2> QED BY <1>1, <2>1 DEF Calls, PublishPause, StepClearsPause,
                              PublishResume, DebugRequestStop
  <1>2. ASSUME Notify PROVE OtherSteps
    BY <1>2 DEF Notify, lifeVars, Phase
  <1>3. ASSUME DebugRequestPause \/ DebugResume PROVE OtherSteps
    BY <1>3 DEF DebugRequestPause, DebugResume, lifeVars, Phase
  <1>4. ASSUME Breakpoint PROVE OtherSteps
    BY <1>4 DEF Breakpoint, lifeVars, Phase
  <1>5. ASSUME NEW count \in 1 .. MaxStep, DebugStepBoundaries(count)
        PROVE  OtherSteps
    BY <1>5 DEF DebugStepBoundaries, lifeVars, Phase
  <1>6. ASSUME RequestStop PROVE OtherSteps
    <2>1. Mailbox!Close \/ Phase' = Phase
      BY <1>6 DEF RequestStop, Mailbox!Close, Phase
    <2> QED BY <1>6, <2>1 DEF RequestStop
  <1>7. ASSUME UNCHANGED vars PROVE OtherSteps
    BY <1>7 DEF vars, lifeVars, Phase
  <1> HIDE DEF OtherSteps
  <1> QED BY <1>1, <1>2, <1>3, <1>4, <1>5, <1>6, <1>7, LoopSteps, Zenon
          DEF Next, QueueStep

\* What publications hold is known and has a deadline.
LEMMA PublicationsKnown ==
    ASSUME QueueTypes, LineHolds, NEW i \in 1 .. Len(publications)
    PROVE  publications[i] \in 1 .. Len(outcome)
  <1>1. i \in 1 .. Len(Line) /\ Line[i] = publications[i]
    BY QueueFacts
  <1> QED BY <1>1 DEF LineHolds

\* What can be taken is due.
LEMMA EligibleDue ==
    ASSUME IInv, OnTime, NEW i \in 1 .. Len(Eligible)
    PROVE  Eligible[i] \in 1 .. Len(outcome) /\ due[Eligible[i]] <= now
  <1> DEFINE n == DueBy(now)
  <1>0. QueueTypes /\ NumberTypes /\ LineHolds /\ DelayedSorted /\ now \in Int
    BY DEF IInv, NumberTypes
  <1>1. /\ n \in 0 .. Len(delayed)
        /\ \A j \in 1 .. n : due[delayed[j]] <= now
    BY <1>0, DueFirst
  <1>2. /\ Len(Eligible) = Len(publications) + n
        /\ \A j \in 1 .. Len(publications) + n : Eligible[j] = Line[j]
    BY <1>0, EligibleFirst
  <1> HIDE DEF n
  <1>3. /\ Len(publications) \in Nat /\ Len(delayed) \in Nat
        /\ Len(Line) = Len(publications) + Len(delayed)
        /\ \A j \in 1 .. Len(publications) : Line[j] = publications[j]
        /\ \A j \in 1 .. Len(delayed) : Line[Len(publications) + j] = delayed[j]
    BY <1>0, QueueFacts
  <1>4. i \in 1 .. Len(Line) /\ Eligible[i] = Line[i]
    BY <1>1, <1>2, <1>3
  <1>5. Line[i] \in 1 .. Len(outcome)
    BY <1>0, <1>4 DEF LineHolds
  <1>6. CASE i <= Len(publications)
    BY <1>3, <1>4, <1>5, <1>6 DEF OnTime
  <1>7. CASE ~ (i <= Len(publications))
    <2>1. /\ i - Len(publications) \in 1 .. n
          /\ i - Len(publications) \in 1 .. Len(delayed)
          /\ Len(publications) + (i - Len(publications)) = i
      BY <1>1, <1>2, <1>3, <1>7
    <2>2. PICK j \in 1 .. n : j \in 1 .. Len(delayed) /\ Len(publications) + j = i
      BY <2>1
    <2>3. Line[i] = delayed[j]
      BY <1>3, <2>2
    <2> QED BY <1>1, <1>4, <1>5, <2>2, <2>3
  <1> QED BY <1>6, <1>7

LEMMA PublishOnTime ==
    ASSUME MInv, Publish
    PROVE  OnTime' /\ ThrewLast' /\ Joins(now)
  <1>1. QueueTypes /\ NumberTypes /\ LineHolds /\ OnTime /\ now \in 0 .. MaxTime
    BY DEF MInv, IInv, NumberTypes
  <1>2. Joins(now)
    BY <1>1, AppendJoins DEF Publish
  <1>3. /\ Eligible \in Seq(Tickets) /\ Len(Eligible) \in Nat
        /\ Ticket \in Tickets
    <2>1. Eligible \in Seq(Tickets)
      BY EligibleFirst DEF MInv, IInv
    <2> QED BY <1>1, <2>1, LenProperties, AdmittedTicket DEF Publish
  <1>4. /\ Len(publications') = Len(Eligible) + 1
        /\ \A i \in 1 .. Len(Eligible) : publications'[i] = Eligible[i]
        /\ publications'[Len(Eligible) + 1] = Ticket
    <2>1. publications' = Append(Eligible, Ticket)
      BY DEF Publish
    <2> QED BY <1>3, <2>1, AppendProperties
  <1>5. now' = now /\ held' = held /\ at' = at
    BY DEF Publish, loopVars
  <1>6. ASSUME NEW i \in 1 .. Len(publications')
        PROVE  due'[publications'[i]] <= now
    <2>1. CASE i \in 1 .. Len(Eligible)
      <3>1. Eligible[i] \in 1 .. Len(outcome) /\ due[Eligible[i]] <= now
        BY <2>1, EligibleDue DEF MInv
      <3> QED BY <1>2, <1>4, <2>1, <3>1 DEF Joins
    <2>2. CASE i = Len(Eligible) + 1
      BY <1>1, <1>2, <1>4, <2>2 DEF Joins
    <2> QED BY <1>3, <1>4, <2>1, <2>2
  <1>7. held # 0 => due'[held] <= now
    BY <1>1, <1>2 DEF OnTime, LineHolds, Joins
  <1>8. OnTime'
    BY <1>5, <1>6, <1>7 DEF OnTime
  <1>9. ThrewLast'
    BY <1>1, <1>2, <1>5, QueueFacts DEF MInv, ThrewLast, Joins, Ticket
  <1> QED BY <1>2, <1>8, <1>9

LEMMA PublishAtOnTime ==
    ASSUME MInv, NEW deadline \in 1 .. MaxTime, PublishAt(deadline)
    PROVE  OnTime' /\ ThrewLast' /\ Joins(deadline)
  <1>1. /\ QueueTypes /\ NumberTypes /\ LineHolds /\ OnTime
        /\ deadline \in 0 .. MaxTime
    BY DEF MInv, IInv
  <1>2. Joins(deadline)
    BY <1>1, AppendJoins DEF PublishAt
  <1>3. now' = now /\ held' = held /\ at' = at /\ publications' = publications
    BY DEF PublishAt, loopVars
  <1>4. \A i \in 1 .. Len(publications) : due'[publications[i]] <= now
    BY <1>1, <1>2, PublicationsKnown DEF OnTime, Joins
  <1>5. held # 0 => due'[held] <= now
    BY <1>1, <1>2 DEF OnTime, LineHolds, Joins
  <1>6. OnTime'
    BY <1>3, <1>4, <1>5 DEF OnTime
  <1>7. ThrewLast'
    BY <1>1, <1>2, <1>3, QueueFacts DEF MInv, ThrewLast, Joins, Ticket
  <1> QED BY <1>2, <1>6, <1>7

LEMMA TakeOnTime ==
    ASSUME MInv, TakePublication
    PROVE  OnTime' /\ ThrewLast'
  <1>1. /\ Eligible # <<>> /\ held' = Head(Eligible)
        /\ publications' = Tail(Eligible)
    BY DEF TakePublication, HasQueued
  <1>2. due' = due /\ outcome' = outcome /\ now' = now /\ at = "Consequences"
    BY DEF TakePublication
  <1>3. Eligible \in Seq(Tickets)
    BY EligibleFirst DEF MInv, IInv
  <1>4. Len(Eligible) \in Nat /\ Len(Eligible) >= 1
    BY <1>1, <1>3, EmptySeq, LenProperties
  <1>5. Head(Eligible) = Eligible[1]
    BY <1>1, <1>3
  <1>6. /\ Len(Tail(Eligible)) = Len(Eligible) - 1
        /\ \A i \in 1 .. Len(Eligible) - 1 : Tail(Eligible)[i] = Eligible[i + 1]
    BY <1>1, <1>3, HeadTailProperties
  <1>7. \A i \in 1 .. Len(Eligible) : due[Eligible[i]] <= now
    BY EligibleDue DEF MInv
  <1>8. OnTime'
    BY <1>1, <1>2, <1>4, <1>5, <1>6, <1>7 DEF OnTime
  <1>9. ThrewLast'
    BY <1>2 DEF MInv, ThrewLast, Ending
  <1> QED BY <1>8, <1>9

\* The invariant the refinement needs is inductive.
LEMMA NextOnTime == MInv /\ [Next]_vars => MInv'
  <1> SUFFICES ASSUME MInv, [Next]_vars PROVE OnTime' /\ ThrewLast'
    BY NextInv DEF MInv
  <1>0. QueueTypes /\ LineHolds /\ OnTime /\ ThrewLast /\ IInv
    BY DEF MInv, IInv
  <1>1. CASE OtherSteps
    <2>1. OnTime'
      BY <1>0, <1>1 DEF OtherSteps, OnTime
    <2>2. ThrewLast'
      BY <1>0, <1>1 DEF OtherSteps, ThrewLast
    <2> QED BY <2>1, <2>2
  <1>2. CASE Publish
    BY <1>2, PublishOnTime
  <1>3. ASSUME NEW deadline \in 1 .. MaxTime, PublishAt(deadline)
        PROVE  OnTime' /\ ThrewLast'
    BY <1>3, PublishAtOnTime
  <1>4. CASE Tick
    <2>1. /\ now' = now + 1 /\ now \in Int
          /\ UNCHANGED <<publications, due, outcome, held, at>>
      BY <1>4 DEF MInv, IInv, NumberTypes, Tick, queueVars, loopVars
    <2>2. \A t \in 1 .. Len(outcome) : due[t] \in Int
      BY <1>0, QueueFacts
    <2>3. ASSUME NEW t \in 1 .. Len(outcome), due[t] <= now
          PROVE  due[t] <= now + 1
      BY <2>1, <2>2, <2>3
    <2>4. ThrewLast'
      BY <1>0, <2>1 DEF ThrewLast
    <2>5. \A i \in 1 .. Len(publications) : due[publications[i]] <= now + 1
      BY <1>0, <2>3, PublicationsKnown DEF OnTime
    <2>6. held # 0 => due[held] <= now + 1
      BY <1>0, <2>3 DEF OnTime, LineHolds
    <2> QED BY <2>1, <2>4, <2>5, <2>6 DEF OnTime
  <1>5. CASE TakePublication
    BY <1>5, TakeOnTime
  <1>6. ASSUME NEW selected \in BOOLEAN, ApplyPublication(selected)
        PROVE  OnTime' /\ ThrewLast'
    <2>1. /\ UNCHANGED <<publications, due, now>> /\ held' = 0
          /\ outcome' = [outcome EXCEPT ![held] = "Applied"]
          /\ at = "Applying"
      BY <1>6 DEF ApplyPublication
    <2>2. OnTime'
      BY <1>0, <2>1 DEF OnTime
    <2>3. Len(outcome') = Len(outcome)
          /\ \A t \in 1 .. Len(outcome) :
                outcome'[t] = IF t = held THEN "Applied" ELSE outcome[t]
      <3>1. held \in 1 .. Len(outcome)
        BY <1>0, <2>1 DEF IInv, InHand, LineHolds
      <3> QED BY <1>0, <2>1, <3>1, ExceptSeq DEF QueueTypes, Outcomes
    <2>4. \A t \in 1 .. Len(outcome) : outcome[t] # "Threw"
      BY <1>0, <2>1 DEF ThrewLast, Ending
    <2>5. ThrewLast'
      BY <2>3, <2>4 DEF ThrewLast
    <2> QED BY <2>2, <2>5
  <1>7. CASE PublicationThrows
    BY <1>0, <1>7 DEF PublicationThrows, OnTime, ThrewLast, Ending
  <1>8. CASE FailPendingPublications
    <2>1. /\ publications' = <<>> /\ UNCHANGED <<held, due, now>>
          /\ at' = "Finish"
      BY <1>8 DEF FailPendingPublications
    <2>2. \A i \in 1 .. Len(publications') : FALSE
      BY <2>1, EmptySeq
    <2> QED BY <1>0, <2>1, <2>2 DEF OnTime, ThrewLast, Ending
  <1> QED BY <1>0, <1>1, <1>2, <1>3, <1>4, <1>5, <1>6, <1>7, <1>8, AllSteps,
             Zenon DEF QueueStep

LEMMA PublishIsPost ==
    ASSUME IInv, Publish
    PROVE  Mailbox!Post(now)
  <1>1. Phase = "Open" /\ Phase' = Phase
    BY DEF Publish, Admitted, Phase, lifeVars
  <1> QED BY <1>1 DEF Publish, Mailbox!Post

LEMMA PublishAtIsPost ==
    ASSUME IInv, NEW deadline, PublishAt(deadline)
    PROVE  Mailbox!Post(deadline)
  <1>1. Phase = "Open" /\ Phase' = Phase
    BY DEF PublishAt, Admitted, Phase, lifeVars
  <1> QED BY <1>1 DEF PublishAt, Mailbox!Post

\* The command in hand is the next one of the mailbox.
LEMMA HeldIsDelivered ==
    ASSUME MInv, at = "Applying", NEW result \in {"Applied", "Threw"},
           outcome' = [outcome EXCEPT ![held] = result],
           UNCHANGED <<now, due, lifeVars>>
    PROVE  /\ held \in 1 .. Len(outcome)
           /\ Mailbox!Deliver(held, result)
  <1>0. /\ QueueTypes /\ LineHolds /\ DoneInOrder /\ AbandonedLast /\ OnTime
        /\ ThrewLast /\ held # 0
    BY DEF MInv, IInv, InHand
  <1>1. held \in 1 .. Len(outcome) /\ outcome[held] = "Queued"
    BY <1>0 DEF LineHolds
  <1>2. due[held] <= now
    BY <1>0 DEF OnTime
  <1>3. ASSUME NEW u \in 1 .. held - 1, Mailbox!Waits(u)
        PROVE  due[u] > due[held]
    <2>1. /\ u \in 1 .. Len(outcome) /\ u < held
          /\ due[u] \in Int /\ due[held] \in Int
      BY <1>0, <1>1, QueueFacts
    <2>2. outcome[u] = "Queued"
      BY <1>3 DEF Mailbox!Waits
    <2>3. Before(held, u)
      BY <1>0, <1>1, <2>1, <2>2 DEF DoneInOrder, Done
    <2> QED BY <2>1, <2>3 DEF Before
  <1>4. ASSUME NEW u \in 1 .. Len(outcome)
        PROVE  outcome[u] \in {"Queued", "Applied"}
    <2>1. outcome[u] \in Outcomes
      BY <1>0, ElementOfSeq DEF QueueTypes
    <2>2. outcome[u] # "Threw" /\ outcome[u] # "Abandoned"
      BY <1>0 DEF ThrewLast, AbandonedLast, Ending
    <2> QED BY <2>1, <2>2 DEF Outcomes
  <1>5. Phase' = Phase
    BY DEF Phase, lifeVars
  <1> QED BY <1>1, <1>2, <1>3, <1>4, <1>5 DEF Mailbox!Deliver, Mailbox!Waits

LEMMA FailPendingIsAbandon ==
    ASSUME IInv, FailPendingPublications
    PROVE  Mailbox!Abandon
  <1>0. QueueTypes /\ LineHolds /\ held = 0 /\ stopRequested /\ ~ accepting
    BY DEF IInv, InHand, Stopping, FailPendingPublications
  <1>1. Phase = "Closed" /\ Phase' = Phase
    BY <1>0 DEF Phase, FailPendingPublications, lifeVars
  <1>2. /\ DOMAIN outcome = 1 .. Len(outcome) /\ DOMAIN Line = 1 .. Len(Line)
        /\ ~ 0 \in 1 .. Len(outcome)
    BY <1>0, QueueFacts, LenProperties
  <1>3. ASSUME NEW t \in 1 .. Len(outcome)
        PROVE  t \in Range(Line) <=> Mailbox!Waits(t)
    <2>1. t \in Range(Line) <=> \E i \in 1 .. Len(Line) : Line[i] = t
      BY <1>2 DEF Range
    <2>2. t # held
      BY <1>0, <1>2
    <2> QED BY <1>0, <2>1, <2>2 DEF LineHolds, Mailbox!Waits
  <1>4. outcome' = [t \in 1 .. Len(outcome) |->
                      IF t \in Range(Line) THEN "Abandoned" ELSE outcome[t]]
    BY <1>2 DEF FailPendingPublications, Line
  <1>5. outcome' = [t \in 1 .. Len(outcome) |->
                      IF Mailbox!Waits(t) THEN "Abandoned" ELSE outcome[t]]
    BY <1>3, <1>4
  <1> QED BY <1>1, <1>5 DEF Mailbox!Abandon, FailPendingPublications

\* Every step of the executor is a step of the mailbox or leaves it alone.
LEMMA NextMailbox == MInv /\ [Next]_vars => [Mailbox!Next]_Mailbox!vars
  <1> SUFFICES ASSUME MInv, [Next]_vars
               PROVE  \/ Mailbox!Next
                      \/ UNCHANGED <<Phase, now, due, outcome>>
    BY DEF Mailbox!vars
  <1>0. IInv
    BY DEF MInv
  <1>1. CASE OtherSteps
    BY <1>1 DEF OtherSteps, Mailbox!Next
  <1>2. CASE Publish
    <2>1. now \in 0 .. MaxTime
      BY <1>0 DEF IInv, NumberTypes
    <2>2. Mailbox!Post(now)
      BY <1>0, <1>2, PublishIsPost
    <2> QED BY <2>1, <2>2 DEF Mailbox!Next
  <1>3. ASSUME NEW deadline \in 1 .. MaxTime, PublishAt(deadline)
        PROVE  Mailbox!Next
    <2>1. deadline \in 0 .. MaxTime
      OBVIOUS
    <2>2. Mailbox!Post(deadline)
      BY <1>0, <1>3, PublishAtIsPost
    <2> QED BY <2>1, <2>2 DEF Mailbox!Next
  <1>4. CASE Tick
    <2>1. Mailbox!Tick
      BY <1>4 DEF Tick, Mailbox!Tick, Phase, queueVars, lifeVars
    <2> QED BY <2>1 DEF Mailbox!Next
  <1>5. CASE TakePublication
    BY <1>5 DEF TakePublication, Phase, lifeVars
  <1>6. ASSUME NEW selected \in BOOLEAN, ApplyPublication(selected)
        PROVE  Mailbox!Next
    <2>1. held \in 1 .. Len(outcome) /\ Mailbox!Deliver(held, "Applied")
      BY <1>6, HeldIsDelivered DEF ApplyPublication
    <2> QED BY <2>1 DEF Mailbox!Next
  <1>7. CASE PublicationThrows
    <2>1. held \in 1 .. Len(outcome) /\ Mailbox!Deliver(held, "Threw")
      BY <1>7, HeldIsDelivered DEF PublicationThrows
    <2> QED BY <2>1 DEF Mailbox!Next
  <1>8. CASE FailPendingPublications
    BY <1>0, <1>8, FailPendingIsAbandon DEF Mailbox!Next
  <1> QED BY <1>0, <1>1, <1>2, <1>3, <1>4, <1>5, <1>6, <1>7, <1>8, AllSteps,
             Zenon DEF QueueStep

LEMMA InitMailbox == Init => MInv /\ Mailbox!Init
  <1> SUFFICES ASSUME Init PROVE MInv /\ Mailbox!Init
    OBVIOUS
  <1>1. \A i \in 1 .. Len(publications) : FALSE
    BY EmptySeq DEF Init
  <1>2. \A i \in 1 .. Len(outcome) : FALSE
    BY EmptySeq DEF Init
  <1>3. OnTime /\ ThrewLast
    BY <1>1, <1>2 DEF Init, OnTime, ThrewLast
  <1> QED BY <1>3, InitInv DEF MInv, Init, Mailbox!Init, Phase

\* The executor is, for its publishers, a mailbox that opens and closes once:
\* whoever moves a delayed command to the queue, however the boundaries, the
\* debugger's calls and the stops interleave, and whichever way the executor
\* ends, a command is applied when it is due, in order and not after a failure,
\* and what is left at the end is given up in one step, after the mailbox closed.
THEOREM ExecutorIsMailbox == Spec => IsMailbox
  <1>1. Mailbox!Init /\ [][Mailbox!Next]_Mailbox!vars => IsMailbox
    BY DEF IsMailbox, Mailbox!Spec
  <1>2. Spec => []MInv
    BY InitMailbox, NextOnTime, PTL DEF Spec
  <1> QED BY <1>1, <1>2, InitMailbox, NextMailbox, PTL DEF Spec
=============================================================================
