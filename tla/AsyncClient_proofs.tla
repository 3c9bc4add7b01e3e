-------------------------- MODULE AsyncClient_proofs --------------------------
(***************************************************************************)
(* For any number of tasks and events: every event that arrived is in one  *)
(* place, tasks get theirs in order, and only the end of a call whose      *)
(* future is done loses one.                                               *)
(***************************************************************************)
EXTENDS AsyncClient, SequenceTheorems, TLAPS

IInv == TypeOK /\ EventsAccounted /\ TasksInOrder

USE AsyncAssumption

Queued == ibuf \o fifo
Taken  == arrived - Len(Queued)

\* The parts of EventsAccounted: the events that wait are the last ones that
\* arrived, in order; those taken are somewhere; and in one place each.
InLine == \A i \in 1..Len(Queued) : Queued[i] = Taken + i

Placed ==
    \A n \in Events :
        n <= Taken <=> \/ n \in lost
                       \/ \E t \in Tasks : res[t] = n
                       \/ \E t \in Tasks : n \in Got(t)

Once ==
    /\ \A t \in Tasks : res[t] \notin lost /\ Got(t) \intersect lost = {}
    /\ \A t, u \in Tasks :
          /\ res[t] \notin Got(u)
          /\ t # u => Got(t) \intersect Got(u) = {}
          /\ t # u /\ res[t] # 0 => res[t] # res[u]

-----------------------------------------------------------------------------
(* Sequences.                                                              *)

\* What is in a sequence when an element has been appended.
LEMMA AppendedElements ==
    ASSUME NEW S, NEW s \in Seq(S), NEW e \in S
    PROVE  {Append(s, e)[i] : i \in DOMAIN Append(s, e)} = {s[i] : i \in DOMAIN s} \union {e}
  <1>1. /\ DOMAIN s = 1..Len(s) /\ Len(s) \in Nat
        /\ DOMAIN Append(s, e) = 1..(Len(s) + 1)
    BY LenProperties, AppendProperties
  <1>2. \A i \in 1..(Len(s) + 1) : Append(s, e)[i] = IF i <= Len(s) THEN s[i] ELSE e
    BY <1>1, AppendProperties
  <1> QED
    BY <1>1, <1>2

\* The head of a sequence is its first element.
LEMMA HeadIsFirst ==
    ASSUME NEW S, NEW s \in Seq(S), s # <<>>
    PROVE  Head(s) = s[1]
  <1>1. Len(s) \in Nat \ {0}
    BY EmptySeq
  <1>2. SubSeq(s, 1, Len(s)) = s
    BY SubSeqFull
  <1> QED
    BY <1>1, <1>2, HeadTailOfSubSeq

\* What is in a sequence of events are events.
LEMMA GotEvents ==
    ASSUME TypeOK, NEW t \in Tasks
    PROVE  Got(t) \subseteq Events
  <1>1. log[t] \in Seq(Events)
    BY DEF TypeOK
  <1> QED
    BY <1>1, LenProperties, ElementOfSeq DEF Got

\* What waits is a sequence of events.
LEMMA QueuedTypes ==
    ASSUME TypeOK
    PROVE  /\ Queued \in Seq(Events) /\ Len(Queued) = Len(ibuf) + Len(fifo)
           /\ Len(Queued) \in Nat /\ Taken \in Int /\ arrived \in Nat
  <1>1. ibuf \in Seq(Events) /\ fifo \in Seq(Events) /\ arrived \in 0..MaxEvents
    BY DEF TypeOK
  <1>2. Queued \in Seq(Events) /\ Len(Queued) = Len(ibuf) + Len(fifo)
    BY <1>1, ConcatProperties DEF Queued
  <1>3. Len(Queued) \in Nat
    BY <1>2, LenProperties
  <1> QED
    BY <1>1, <1>2, <1>3 DEF Taken

\* The events taken are a beginning of those that arrived.
LEMMA TakenBounds ==
    ASSUME TypeOK, InLine
    PROVE  Taken \in 0..MaxEvents
  <1>1. Taken <= MaxEvents
    BY QueuedTypes DEF Taken, TypeOK
  <1>2. CASE Len(Queued) = 0
    BY <1>2, QueuedTypes DEF Taken, TypeOK
  <1>3. CASE Len(Queued) # 0
    <2>1. 1 \in 1..Len(Queued)
      BY <1>3, QueuedTypes
    <2>2. Queued[1] = Taken + 1 /\ Queued[1] \in Events
      BY <2>1, QueuedTypes, ElementOfSeq DEF InLine
    <2> QED
      BY <1>1, <2>2, QueuedTypes DEF Events
  <1> QED
    BY <1>2, <1>3

\* EventsAccounted is its parts.
LEMMA AccountedParts ==
    ASSUME TypeOK
    PROVE  EventsAccounted <=> InLine /\ Placed /\ Once
  <1> DEFINE held == {res[t] : t \in Held}
             got  == UNION {Got(t) : t \in Tasks}
  <1>1. Queued = [i \in 1..Len(Queued) |-> Taken + i] <=> InLine
    <2>1. DOMAIN Queued = 1..Len(Queued) /\ Queued = [i \in 1..Len(Queued) |-> Queued[i]]
      BY QueuedTypes, LenProperties
    <2> QED
      BY <2>1 DEF InLine
  <1>2. lost \subseteq Events /\ held \subseteq Events /\ got \subseteq Events
    BY GotEvents DEF TypeOK, Held
  <1>3. \A n \in Events : n \in held <=> \E t \in Tasks : res[t] = n
    BY DEF Held, Events
  <1>4. \A n \in Events : n \in got <=> \E t \in Tasks : n \in Got(t)
    OBVIOUS
  <1>5. ASSUME InLine
        PROVE  1..Taken = lost \union held \union got <=> Placed
    <2>1. Taken \in 0..MaxEvents
      BY <1>5, TakenBounds
    <2>2. 1..Taken \subseteq Events /\ \A n \in Events : n \in 1..Taken <=> n <= Taken
      BY <2>1 DEF Events
    <2> HIDE DEF held, got
    <2> QED
      BY <1>2, <1>3, <1>4, <2>2 DEF Placed
  <1>6. Once <=> /\ \A t \in Tasks : (Got(t) \union {res[t]}) \intersect lost = {}
                 /\ \A t, u \in Tasks :
                       /\ res[t] \notin Got(u)
                       /\ t # u => Got(t) \intersect Got(u) = {}
                       /\ t # u /\ t \in Held => res[t] # res[u]
    BY DEF Once, Held
  <1> HIDE DEF held, got
  <1> QED
    BY <1>1, <1>5, <1>6 DEF EventsAccounted, Queued, Taken, held, got

\* An event is taken from the front of what waits.
LEMMA TakeFirst ==
    ASSUME TypeOK, Available, TakeEvent
    PROVE  /\ ibuf' \in Seq(Events) /\ fifo' \in Seq(Events)
           /\ Len(Queued') = Len(Queued) - 1
           /\ \A i \in 1..Len(Queued') : Queued'[i] = Queued[i + 1]
           /\ 1 \in 1..Len(Queued)
           /\ NextEvent = Queued[1] /\ NextEvent \in Events
  <1>1. ibuf \in Seq(Events) /\ fifo \in Seq(Events)
    BY DEF TypeOK
  <1>2. Len(ibuf) \in Nat /\ Len(fifo) \in Nat
    BY <1>1, LenProperties
  <1>3. \A i \in 1..Len(Queued) :
            Queued[i] = IF i <= Len(ibuf) THEN ibuf[i] ELSE fifo[i - Len(ibuf)]
    BY <1>1, QueuedTypes, ConcatProperties DEF Queued
  <1>4. NextEvent = Queued[1]
    <2>1. Queued # <<>>
      BY <1>1, ConcatEqualIffEmpty DEF Queued, Available
    <2> QED
      BY <2>1, QueuedTypes, HeadIsFirst DEF NextEvent, Queued
  <1>5. CASE ibuf # <<>>
    <2>1. ibuf' = Tail(ibuf) /\ fifo' = fifo
      BY <1>5 DEF TakeEvent
    <2>2. /\ Tail(ibuf) \in Seq(Events) /\ Len(Tail(ibuf)) = Len(ibuf) - 1
          /\ \A i \in 1..Len(Tail(ibuf)) : Tail(ibuf)[i] = ibuf[i + 1]
          /\ Len(ibuf) # 0
      BY <1>1, <1>2, <1>5, HeadTailProperties, EmptySeq
    <2>3. /\ Len(Queued') = Len(ibuf) - 1 + Len(fifo)
          /\ \A i \in 1..(Len(ibuf) - 1 + Len(fifo)) :
                Queued'[i] = IF i <= Len(ibuf) - 1 THEN Tail(ibuf)[i] ELSE fifo[i - (Len(ibuf) - 1)]
      BY <1>1, <2>1, <2>2, ConcatProperties DEF Queued
    <2>4. ASSUME NEW i \in 1..Len(Queued')
          PROVE  Queued'[i] = Queued[i + 1]
      BY <1>2, <1>3, <2>2, <2>3, QueuedTypes
    <2>5. 1 \in 1..Len(Queued)
      BY <1>2, <2>2, QueuedTypes
    <2> QED
      BY <1>1, <1>2, <1>4, <2>1, <2>2, <2>3, <2>4, <2>5, QueuedTypes, ElementOfSeq
  <1>6. CASE ibuf = <<>>
    <2>1. fifo # <<>> /\ ibuf' = Tail(fifo) /\ fifo' = <<>>
      BY <1>6 DEF TakeEvent, Available
    <2>2. Queued = fifo
      BY <1>1, <1>6, ConcatEmptySeq DEF Queued
    <2>3. /\ Tail(fifo) \in Seq(Events) /\ Len(Tail(fifo)) = Len(fifo) - 1
          /\ \A i \in 1..Len(Tail(fifo)) : Tail(fifo)[i] = fifo[i + 1]
          /\ Len(fifo) # 0
      BY <1>1, <1>2, <2>1, HeadTailProperties, EmptySeq
    <2>4. Queued' = Tail(fifo)
      BY <2>1, <2>3, ConcatEmptySeq DEF Queued
    <2> QED
      BY <1>2, <1>4, <2>1, <2>2, <2>3, <2>4, QueuedTypes, ElementOfSeq, EmptySeq
  <1> QED
    BY <1>5, <1>6

-----------------------------------------------------------------------------
(* Types.                                                                  *)

\* A call's future comes and goes with it.
LEMMA CallTypes ==
    ASSUME TypeOK, NEW t \in Tasks,
           NEW c \in {"none", "input", "timed", "output"},
           NEW f \in {"none", "pending", "done"}, NEW r \in Events \union {0},
           call' = [call EXCEPT ![t] = c], fut' = [fut EXCEPT ![t] = f],
           res' = [res EXCEPT ![t] = r],
           c = "none" <=> f = "none", r # 0 <=> f = "done" /\ c \in {"input", "timed"}
    PROVE  /\ call' \in [Tasks -> {"none", "input", "timed", "output"}]
           /\ fut' \in [Tasks -> {"none", "pending", "done"}]
           /\ res' \in [Tasks -> Events \union {0}]
           /\ \A u \in Tasks : /\ call'[u] = "none" <=> fut'[u] = "none"
                               /\ res'[u] # 0 <=> fut'[u] = "done" /\ call'[u] \in {"input", "timed"}
  <1>1. /\ call' \in [Tasks -> {"none", "input", "timed", "output"}]
        /\ fut' \in [Tasks -> {"none", "pending", "done"}]
        /\ res' \in [Tasks -> Events \union {0}]
    BY DEF TypeOK
  <1>2. call'[t] = c /\ fut'[t] = f /\ res'[t] = r
    BY DEF TypeOK
  <1>3. ASSUME NEW u \in Tasks, u # t
        PROVE  call'[u] = call[u] /\ fut'[u] = fut[u] /\ res'[u] = res[u]
    BY <1>3 DEF TypeOK
  <1>4. \A u \in Tasks : /\ call[u] = "none" <=> fut[u] = "none"
                         /\ res[u] # 0 <=> fut[u] = "done" /\ call[u] \in {"input", "timed"}
    BY DEF TypeOK
  <1> QED
    BY <1>1, <1>2, <1>3, <1>4

\* So it does when the call ends.
LEMMA LeaveTypes ==
    ASSUME TypeOK, NEW t \in Tasks, Leave(t)
    PROVE  /\ call' \in [Tasks -> {"none", "input", "timed", "output"}]
           /\ fut' \in [Tasks -> {"none", "pending", "done"}]
           /\ res' \in [Tasks -> Events \union {0}]
           /\ \A u \in Tasks : /\ call'[u] = "none" <=> fut'[u] = "none"
                               /\ res'[u] # 0 <=> fut'[u] = "done" /\ call'[u] \in {"input", "timed"}
  BY CallTypes DEF Leave

\* And when it begins.
LEMMA WaitTypes ==
    ASSUME TypeOK, NEW t \in Tasks, NEW c \in {"input", "timed", "output"}, Wait(t, c),
           call[t] = "none"
    PROVE  /\ call' \in [Tasks -> {"none", "input", "timed", "output"}]
           /\ fut' \in [Tasks -> {"none", "pending", "done"}]
           /\ res' \in [Tasks -> Events \union {0}]
           /\ reader' \in Tasks \union {None}
           /\ \A u \in Tasks : /\ call'[u] = "none" <=> fut'[u] = "none"
                               /\ res'[u] # 0 <=> fut'[u] = "done" /\ call'[u] \in {"input", "timed"}
  <1>1. res[t] = 0
    BY DEF TypeOK
  <1>2. res' = [res EXCEPT ![t] = 0]
    BY <1>1 DEF Wait, TypeOK
  <1>3. call' = [call EXCEPT ![t] = c] /\ fut' = [fut EXCEPT ![t] = "pending"] /\ reader' = t
    BY DEF Wait
  <1> QED
    BY <1>2, <1>3, CallTypes

\* Every variable keeps its type.
LEMMA StepTypes ==
    ASSUME TypeOK, [Next]_vars
    PROVE  TypeOK'
  <1>1. CASE Arrive
    <2>1. arrived + 1 \in Events /\ arrived + 1 \in 0..MaxEvents
      BY <1>1 DEF Arrive, TypeOK, Events
    <2>2. fifo' \in Seq(Events)
      BY <1>1, <2>1, AppendProperties DEF Arrive, TypeOK
    <2> QED
      BY <1>1, <2>1, <2>2 DEF Arrive, TypeOK, outVars, tasks
  <1>2. CASE KernelSend
    BY <1>2 DEF KernelSend, TypeOK, inVars, tasks
  <1>3. CASE Close
    BY <1>3 DEF Close, TypeOK, inVars, outVars, tasks
  <1>4. ASSUME NEW t \in Tasks, InputNow(t)
        PROVE  TypeOK'
    <2>1. ibuf' \in Seq(Events) /\ fifo' \in Seq(Events) /\ NextEvent \in Events
      BY <1>4, TakeFirst DEF InputNow
    <2>2. log' \in [Tasks -> Seq(Events)]
      BY <1>4, <2>1, AppendProperties DEF InputNow, Deliver, TypeOK
    <2> QED
      BY <1>4, <2>1, <2>2 DEF InputNow, TypeOK, outVars, tasks
  <1>5. ASSUME NEW t \in Tasks, NEW c \in {"input", "timed"}, InputWait(t, c)
        PROVE  TypeOK'
    <2>1. Wait(t, c) /\ call[t] = "none" /\ UNCHANGED <<inVars, outVars, open, log, lost>>
      BY <1>5 DEF InputWait
    <2> QED
      BY <2>1, WaitTypes DEF TypeOK, inVars, outVars
  <1>6. ASSUME NEW t \in Tasks, OutputNow(t)
        PROVE  TypeOK'
    BY <1>6 DEF OutputNow, TypeOK, inVars, tasks
  <1>7. ASSUME NEW t \in Tasks, OutputWait(t)
        PROVE  TypeOK'
    <2>1. Wait(t, "output") /\ call[t] = "none" /\ UNCHANGED <<inVars, outVars, open, log, lost>>
      BY <1>7 DEF OutputWait
    <2> QED
      BY <2>1, WaitTypes DEF TypeOK, inVars, outVars
  <1>8. ASSUME NEW t \in Tasks, ReaderInput(t)
        PROVE  TypeOK'
    <2>1. ibuf' \in Seq(Events) /\ fifo' \in Seq(Events) /\ NextEvent \in Events
      BY <1>8, TakeFirst DEF ReaderInput, Available
    <2>2. call' = [call EXCEPT ![t] = call[t]]
      BY <1>8 DEF ReaderInput, TypeOK
    <2>3. NextEvent # 0
      BY <2>1 DEF Events
    <2> QED
      BY <1>8, <2>1, <2>2, <2>3, CallTypes DEF ReaderInput, TypeOK, outVars
  <1>9. ASSUME NEW t \in Tasks, StaleReader(t)
        PROVE  TypeOK'
    BY <1>9 DEF StaleReader, TypeOK, vars
  <1>10. ASSUME NEW t \in Tasks, ReaderOutput(t)
         PROVE  TypeOK'
    <2>1. call' = [call EXCEPT ![t] = call[t]] /\ res' = [res EXCEPT ![t] = 0] /\ call[t] = "output"
      BY <1>10 DEF ReaderOutput, TypeOK
    <2>2. fut' = [fut EXCEPT ![t] = "done"] /\ call' = [call EXCEPT ![t] = "output"]
      BY <1>10, <2>1 DEF ReaderOutput
    <2>3. "output" \notin {"input", "timed"} /\ "output" # "none"
      OBVIOUS
    <2>4. /\ call' \in [Tasks -> {"none", "input", "timed", "output"}]
          /\ fut' \in [Tasks -> {"none", "pending", "done"}]
          /\ res' \in [Tasks -> Events \union {0}]
          /\ \A u \in Tasks :
                /\ call'[u] = "none" <=> fut'[u] = "none"
                /\ res'[u] # 0 <=> fut'[u] = "done" /\ call'[u] \in {"input", "timed"}
      BY <2>1, <2>2, <2>3, CallTypes
    <2> QED
      BY <1>10, <2>4 DEF ReaderOutput, TypeOK, inVars
  <1>11. ASSUME NEW t \in Tasks, Wake(t)
         PROVE  TypeOK'
    <2>1. log' \in [Tasks -> Seq(Events)]
      <3>1. CASE call[t] = "output"
        BY <1>11, <3>1 DEF Wake, TypeOK
      <3>2. CASE call[t] # "output"
        <4>1. res[t] \in Events
          BY <1>11, <3>2 DEF Wake, TypeOK
        <4>2. Append(log[t], res[t]) \in Seq(Events)
          BY <4>1, AppendProperties DEF TypeOK
        <4> QED
          BY <1>11, <3>2, <4>2 DEF Wake, Deliver, TypeOK
      <3> QED
        BY <3>1, <3>2
    <2> QED
      BY <1>11, <2>1, LeaveTypes DEF Wake, TypeOK, inVars, outVars
  <1>12. ASSUME NEW t \in Tasks, Timeout(t)
         PROVE  TypeOK'
    BY <1>12, LeaveTypes DEF Timeout, TypeOK, inVars, outVars
  <1>13. ASSUME NEW t \in Tasks, LateTimeout(t)
         PROVE  TypeOK'
    <2>1. res[t] \in Events
      BY <1>13 DEF LateTimeout, TypeOK
    <2> QED
      BY <1>13, <2>1, LeaveTypes DEF LateTimeout, TypeOK, inVars, outVars
  <1>14. ASSUME NEW t \in Tasks, Cancel(t)
         PROVE  TypeOK'
    <2>1. lost' \subseteq Events
      BY <1>14 DEF Cancel, TypeOK
    <2> QED
      BY <1>14, <2>1, LeaveTypes DEF Cancel, TypeOK, inVars, outVars
  <1>15. CASE UNCHANGED vars
    BY <1>15 DEF TypeOK, vars
  <1> QED
    BY <1>1, <1>2, <1>3, <1>4, <1>5, <1>6, <1>7, <1>8, <1>9, <1>10, <1>11, <1>12, <1>13,
       <1>14, <1>15 DEF Next, Callback

-----------------------------------------------------------------------------
(* Where events are, and what a step does to it.                           *)

\* The parts of EventsAccounted, in the next state.
LEMMA AccountedPartsNext ==
    ASSUME TypeOK'
    PROVE  EventsAccounted' <=> InLine' /\ Placed' /\ Once'
  BY AccountedParts, PTL

\* An event returned to a task is in its log.
LEMMA DeliverGot ==
    ASSUME TypeOK, NEW t \in Tasks, NEW n \in Events, Deliver(t, n)
    PROVE  \A u \in Tasks : Got(u)' = IF u = t THEN Got(t) \union {n} ELSE Got(u)
  <1>1. log[t] \in Seq(Events)
    BY DEF TypeOK
  <1>2. log'[t] = Append(log[t], n) /\ \A u \in Tasks : u # t => log'[u] = log[u]
    BY DEF Deliver, TypeOK
  <1>3. Got(t)' = Got(t) \union {n}
    BY <1>1, <1>2, AppendedElements DEF Got
  <1> QED
    BY <1>2, <1>3 DEF Got

\* The log of a task stays in order when the event comes after those in it.
LEMMA DeliverInOrder ==
    ASSUME TypeOK, NEW t \in Tasks, NEW n \in Events, Deliver(t, n), TasksInOrder,
           \A m \in Got(t) : m < n
    PROVE  \A u \in Tasks : \A i, j \in DOMAIN log'[u] : i < j => log'[u][i] < log'[u][j]
  <1>1. log[t] \in Seq(Events)
    BY DEF TypeOK
  <1>2. log'[t] = Append(log[t], n) /\ \A u \in Tasks : u # t => log'[u] = log[u]
    BY DEF Deliver, TypeOK
  <1>3. DOMAIN log[t] = 1..Len(log[t]) /\ Len(log[t]) \in Nat
    BY <1>1, LenProperties
  <1>4. /\ DOMAIN log'[t] = 1..(Len(log[t]) + 1)
        /\ \A i \in 1..Len(log[t]) : log'[t][i] = log[t][i]
        /\ log'[t][Len(log[t]) + 1] = n
    BY <1>1, <1>2, AppendProperties, LenProperties
  <1>5. ASSUME NEW i \in DOMAIN log'[t], NEW j \in DOMAIN log'[t], i < j
        PROVE  log'[t][i] < log'[t][j]
    <2>1. i \in 1..Len(log[t]) /\ log'[t][i] = log[t][i]
      BY <1>3, <1>4, <1>5
    <2>2. CASE j = Len(log[t]) + 1
      BY <1>3, <1>4, <2>1, <2>2 DEF Got
    <2>3. CASE j # Len(log[t]) + 1
      BY <1>3, <1>4, <1>5, <2>1, <2>3 DEF TasksInOrder
    <2> QED
      BY <2>2, <2>3
  <1> QED
    BY <1>2, <1>5 DEF TasksInOrder

\* A step that leaves the events and who has them alone changes nothing.
LEMMA ElsewhereSafe ==
    ASSUME EventsAccounted, TasksInOrder, UNCHANGED <<inVars, lost, res, log>>
    PROVE  EventsAccounted' /\ TasksInOrder'
  <1>1. UNCHANGED <<arrived, fifo, ibuf, lost, res, log>>
    BY DEF inVars
  <1>2. Held' = Held /\ \A t \in Tasks : Got(t)' = Got(t)
    BY <1>1 DEF Held, Got
  <1>3. EventsAccounted'
    BY <1>1, <1>2 DEF EventsAccounted
  <1>4. TasksInOrder'
    BY <1>1, <1>2 DEF TasksInOrder
  <1> QED
    BY <1>3, <1>4

\* What arrives is the last in line.
LEMMA ArriveSafe ==
    ASSUME IInv, TypeOK', Arrive
    PROVE  EventsAccounted' /\ TasksInOrder'
  <1>0. TypeOK /\ InLine /\ Placed /\ Once /\ TasksInOrder
    BY AccountedParts DEF IInv
  <1>1. UNCHANGED <<ibuf, lost, res, log>> /\ fifo' = Append(fifo, arrived + 1)
        /\ arrived' = arrived + 1 /\ arrived + 1 \in Events
    BY <1>0 DEF Arrive, tasks, TypeOK, Events
  <1>2. Held' = Held /\ \A t \in Tasks : Got(t)' = Got(t)
    BY <1>1 DEF Held, Got
  <1>3. ibuf \in Seq(Events) /\ fifo \in Seq(Events) /\ Len(ibuf) \in Nat /\ Len(fifo) \in Nat
    BY <1>0, LenProperties DEF TypeOK
  <1>4. Len(Queued') = Len(Queued) + 1 /\ Taken' = Taken
    <2>1. Len(fifo') = Len(fifo) + 1 /\ fifo' \in Seq(Events)
      BY <1>1, <1>3, AppendProperties
    <2>2. Len(Queued') = Len(ibuf) + Len(fifo) + 1
      BY <1>1, <1>3, <2>1, ConcatProperties DEF Queued
    <2> QED
      BY <1>0, <1>1, <2>2, QueuedTypes DEF Taken
  <1>5. InLine'
    <2>1. Queued' = Queued \o <<arrived + 1>>
      BY <1>1, <1>3, AppendIsConcat, ConcatAssociative DEF Queued
    <2>2. Queued' = Append(Queued, arrived + 1)
      BY <1>0, <1>1, <2>1, QueuedTypes, AppendIsConcat
    <2>3. \A i \in 1..Len(Queued) : Queued'[i] = Queued[i]
      BY <1>0, <1>1, <2>2, QueuedTypes, AppendProperties
    <2>4. Queued'[Len(Queued) + 1] = arrived + 1
      BY <1>0, <1>1, <2>2, QueuedTypes, AppendProperties
    <2>5. Len(Queued) \in Nat /\ Taken = arrived - Len(Queued) /\ arrived \in Nat
      BY <1>0, QueuedTypes DEF Taken
    <2>6. ASSUME NEW i \in 1..Len(Queued')
          PROVE  Queued'[i] = Taken + i
      <3>1. CASE i = Len(Queued) + 1
        BY <2>4, <2>5, <3>1
      <3>2. CASE i # Len(Queued) + 1
        BY <1>0, <1>4, <2>3, <2>5, <3>2 DEF InLine
      <3> QED
        BY <3>1, <3>2
    <2> QED
      BY <1>4, <2>6 DEF InLine
  <1>6. Placed' /\ Once'
    BY <1>0, <1>1, <1>2, <1>4 DEF Placed, Once
  <1>7. TasksInOrder'
    BY <1>0, <1>1, <1>2 DEF TasksInOrder
  <1> QED
    BY <1>5, <1>6, <1>7, AccountedPartsNext

\* The event at the front is the one after those taken: nobody has it yet, and it
\* comes after all that anybody has.
LEMMA TakeNew ==
    ASSUME TypeOK, InLine, Placed, Available, TakeEvent, arrived' = arrived
    PROVE  /\ InLine' /\ Taken' = Taken + 1
           /\ NextEvent \in Events /\ NextEvent = Taken + 1
           /\ NextEvent \notin lost
           /\ \A t \in Tasks : /\ res[t] # NextEvent
                               /\ NextEvent \notin Got(t)
                               /\ \A m \in Got(t) : m < NextEvent
  <1>1. Taken' = Taken + 1 /\ NextEvent = Taken + 1 /\ NextEvent \in Events
    BY TakeFirst, QueuedTypes DEF Taken, InLine
  <1>2. InLine'
    <2>1. Len(Queued') = Len(Queued) - 1 /\ Len(Queued) \in Nat /\ Taken \in Int
      BY TakeFirst, QueuedTypes
    <2>2. ASSUME NEW i \in 1..Len(Queued')
          PROVE  Queued'[i] = Taken' + i
      <3>1. i + 1 \in 1..Len(Queued) /\ Queued'[i] = Queued[i + 1]
        BY <2>1, TakeFirst
      <3> QED
        BY <1>1, <2>1, <3>1 DEF InLine
    <2> QED
      BY <2>2 DEF InLine
  <1>3. Taken \in 0..MaxEvents
    BY TakenBounds
  <1>4. ~(NextEvent <= Taken)
    BY <1>1, <1>3
  <1>5. ASSUME NEW t \in Tasks, NEW m \in Got(t)
        PROVE  m < NextEvent
    <2>1. m \in Events
      BY GotEvents
    <2>2. m <= Taken
      BY <2>1 DEF Placed
    <2> QED
      BY <1>1, <1>3, <2>1, <2>2 DEF Events
  <1> QED
    BY <1>1, <1>2, <1>4, <1>5 DEF Placed

\* A call that finds an event returns the next one.
LEMMA InputNowSafe ==
    ASSUME IInv, TypeOK', NEW t \in Tasks, InputNow(t)
    PROVE  EventsAccounted' /\ TasksInOrder'
  <1>0. TypeOK /\ InLine /\ Placed /\ Once /\ TasksInOrder
    BY AccountedParts DEF IInv
  <1> DEFINE n == NextEvent
  <1>1. /\ InLine' /\ Taken' = Taken + 1 /\ n \in Events /\ n = Taken + 1 /\ n \notin lost
        /\ \A u \in Tasks : /\ res[u] # n /\ n \notin Got(u)
                            /\ \A m \in Got(u) : m < n
    BY <1>0, TakeNew DEF InputNow
  <1>2. UNCHANGED <<res, lost>> /\ Deliver(t, n) /\ res[t] = 0
    BY <1>0 DEF InputNow, tasks, TypeOK
  <1> HIDE DEF n
  <1>3. \A u \in Tasks : Got(u)' = IF u = t THEN Got(t) \union {n} ELSE Got(u)
    BY <1>0, <1>1, <1>2, DeliverGot
  <1>4. Placed'
    <2>1. ASSUME NEW m \in Events
          PROVE  m <= Taken + 1 <=> m <= Taken \/ m = n
      BY <1>0, <1>1, TakenBounds DEF Events
    <2>2. \A m \in Events : (\E u \in Tasks : m \in Got(u)') <=>
                               m = n \/ \E u \in Tasks : m \in Got(u)
      BY <1>3
    <2> QED
      BY <1>0, <1>1, <1>2, <2>1, <2>2 DEF Placed
  <1>5. Once'
    BY <1>0, <1>1, <1>2, <1>3 DEF Once
  <1>6. TasksInOrder'
    <2>1. \A u \in Tasks : \A i, j \in DOMAIN log'[u] : i < j => log'[u][i] < log'[u][j]
      BY <1>0, <1>1, <1>2, DeliverInOrder
    <2>2. \A u \in Tasks : u \in Held' => u # t /\ u \in Held
      BY <1>2 DEF Held
    <2> QED
      BY <1>0, <1>2, <1>3, <2>1, <2>2 DEF TasksInOrder
  <1> QED
    BY <1>1, <1>4, <1>5, <1>6, AccountedPartsNext

\* The callback of a waiting call puts the next event into the future.
LEMMA ReaderInputSafe ==
    ASSUME IInv, TypeOK', NEW t \in Tasks, ReaderInput(t)
    PROVE  EventsAccounted' /\ TasksInOrder'
  <1>0. TypeOK /\ InLine /\ Placed /\ Once /\ TasksInOrder
    BY AccountedParts DEF IInv
  <1> DEFINE n == NextEvent
  <1>1. /\ InLine' /\ Taken' = Taken + 1 /\ n \in Events /\ n = Taken + 1 /\ n \notin lost
        /\ \A u \in Tasks : /\ res[u] # n /\ n \notin Got(u)
                            /\ \A m \in Got(u) : m < n
    BY <1>0, TakeNew DEF ReaderInput, Available
  <1>2. /\ UNCHANGED <<log, lost>> /\ res[t] = 0 /\ res'[t] = n
        /\ \A u \in Tasks : u # t => res'[u] = res[u]
    BY <1>0 DEF ReaderInput, TypeOK
  <1> HIDE DEF n
  <1>3. \A u \in Tasks : Got(u)' = Got(u)
    BY <1>2 DEF Got
  <1>4. Placed'
    <2>1. ASSUME NEW m \in Events
          PROVE  m <= Taken + 1 <=> m <= Taken \/ m = n
      BY <1>0, <1>1, TakenBounds DEF Events
    <2>2. \A m \in Events : (\E u \in Tasks : res'[u] = m) <=> m = n \/ \E u \in Tasks : res[u] = m
      BY <1>2 DEF Events
    <2> QED
      BY <1>0, <1>1, <1>2, <1>3, <2>1, <2>2 DEF Placed
  <1>5. Once'
    BY <1>0, <1>1, <1>2, <1>3 DEF Once
  <1>6. TasksInOrder'
    BY <1>0, <1>1, <1>2, <1>3 DEF TasksInOrder, Held
  <1> QED
    BY <1>1, <1>4, <1>5, <1>6, AccountedPartsNext

\* A call whose future is done returns its event.
LEMMA WakeSafe ==
    ASSUME IInv, TypeOK', NEW t \in Tasks, Wake(t)
    PROVE  EventsAccounted' /\ TasksInOrder'
  <1>0. TypeOK /\ InLine /\ Placed /\ Once /\ TasksInOrder
    BY AccountedParts DEF IInv
  <1>1. CASE call[t] = "output"
    <2>0. res[t] = 0
      <3>1. res[t] # 0 <=> fut[t] = "done" /\ call[t] \in {"input", "timed"}
        BY <1>0, Zenon DEF TypeOK
      <3> QED
        BY <1>1, <3>1
    <2>1. res' = res
      <3>1. res' = [res EXCEPT ![t] = 0] /\ res \in [Tasks -> Events \union {0}]
        BY <1>0 DEF Wake, Leave, TypeOK
      <3> QED
        BY <2>0, <3>1
    <2> QED
      BY <1>1, <2>1, ElsewhereSafe DEF Wake, IInv
  <1>2. CASE call[t] # "output"
    <2> DEFINE n == res[t]
    <2>1. /\ n \in Events /\ UNCHANGED <<inVars, lost>> /\ Deliver(t, n) /\ res'[t] = 0
          /\ \A u \in Tasks : u # t => res'[u] = res[u]
      BY <1>0, <1>2 DEF Wake, Leave, TypeOK
    <2>2. \A u \in Tasks : Got(u)' = IF u = t THEN Got(t) \union {n} ELSE Got(u)
      BY <1>0, <2>1, DeliverGot
    <2>3. InLine' /\ Taken' = Taken
      BY <1>0, <2>1 DEF InLine, Taken, Queued, inVars
    <2>4. 0 \notin Events
      BY DEF Events
    <2>5. Placed'
      <3>1. \A m \in Events : (\E u \in Tasks : m \in Got(u)') <=>
                                 m = n \/ \E u \in Tasks : m \in Got(u)
        BY <2>2
      <3>2. \A m \in Events : m = n \/ (\E u \in Tasks : res'[u] = m) <=>
                                 \E u \in Tasks : res[u] = m
        BY <2>1, <2>4
      <3> QED
        BY <1>0, <2>1, <2>3, <3>1, <3>2 DEF Placed
    <2>6. Once'
      <3>1. 0 \notin lost /\ \A u \in Tasks : 0 \notin Got(u)
        BY <1>0, <2>4, GotEvents DEF TypeOK
      <3>2. \A u \in Tasks : res'[u] \in {0, res[u]} /\ (res'[u] # 0 => u # t)
        BY <2>1
      <3>3. n # 0
        BY <2>1, <2>4
      <3> HIDE DEF n
      <3>4. /\ n \notin lost
            /\ \A u \in Tasks : n \notin Got(u) /\ (u # t => res[u] # n)
        BY <1>0, <3>3 DEF Once, n
      <3>5. \A u \in Tasks : res'[u] \notin lost' /\ Got(u)' \intersect lost' = {}
        BY <1>0, <2>1, <2>2, <3>1, <3>2, <3>4 DEF Once
      <3>6. \A u, v \in Tasks : res'[u] \notin Got(v)'
        <4> TAKE u, v \in Tasks
        <4>1. CASE res'[u] = 0
          BY <2>2, <3>1, <3>3, <4>1
        <4>2. CASE res'[u] # 0
          BY <1>0, <2>1, <2>2, <3>2, <3>4, <4>2 DEF Once
        <4> QED
          BY <4>1, <4>2
      <3>7. \A u, v \in Tasks : u # v => Got(u)' \intersect Got(v)' = {}
        BY <1>0, <2>2, <3>4 DEF Once
      <3>8. \A u, v \in Tasks : u # v /\ res'[u] # 0 => res'[u] # res'[v]
        BY <1>0, <3>2 DEF Once
      <3> QED
        BY <3>5, <3>6, <3>7, <3>8 DEF Once
    <2>7. TasksInOrder'
      <3>1. t \in Held
        BY <2>1, <2>4 DEF Held
      <3>2. \A u \in Tasks : \A i, j \in DOMAIN log'[u] : i < j => log'[u][i] < log'[u][j]
        BY <1>0, <2>1, <3>1, DeliverInOrder DEF TasksInOrder
      <3>3. \A u \in Tasks : u \in Held' => u # t /\ u \in Held
        BY <2>1 DEF Held
      <3> QED
        BY <1>0, <2>1, <2>2, <3>2, <3>3 DEF TasksInOrder
    <2> QED
      BY <2>3, <2>5, <2>6, <2>7, AccountedPartsNext
  <1> QED
    BY <1>1, <1>2

\* A call that ends in another way takes the event in its future with it.
LEMMA LeaveSafe ==
    ASSUME IInv, TypeOK', NEW t \in Tasks, Leave(t), UNCHANGED <<inVars, log>>,
           lost' = IF res[t] # 0 THEN lost \union {res[t]} ELSE lost
    PROVE  EventsAccounted' /\ TasksInOrder'
  <1>0. TypeOK /\ InLine /\ Placed /\ Once /\ TasksInOrder
    BY AccountedParts DEF IInv
  <1>1. CASE res[t] = 0
    <2>1. res' = res
      BY <1>0, <1>1 DEF Leave, TypeOK
    <2> QED
      BY <1>1, <2>1, ElsewhereSafe DEF IInv
  <1>2. CASE res[t] # 0
    <2> DEFINE n == res[t]
    <2>1. /\ n \in Events /\ lost' = lost \union {n} /\ res'[t] = 0
          /\ \A u \in Tasks : u # t => res'[u] = res[u]
      BY <1>0, <1>2 DEF Leave, TypeOK
    <2>2. \A u \in Tasks : Got(u)' = Got(u)
      BY DEF Got
    <2>3. InLine' /\ Taken' = Taken
      BY <1>0 DEF InLine, Taken, Queued, inVars
    <2>4. 0 \notin Events
      BY DEF Events
    <2>5. Placed'
      <3>1. \A m \in Events : m = n \/ (\E u \in Tasks : res'[u] = m) <=>
                                 \E u \in Tasks : res[u] = m
        BY <2>1, <2>4
      <3> QED
        BY <1>0, <2>1, <2>2, <2>3, <3>1 DEF Placed, inVars
    <2>6. Once'
      <3>1. 0 \notin lost /\ \A u \in Tasks : 0 \notin Got(u)
        BY <1>0, <2>4, GotEvents DEF TypeOK
      <3>2. \A u \in Tasks : res'[u] \in {0, res[u]} /\ (res'[u] # 0 => u # t)
        BY <2>1
      <3>3. n # 0
        BY <2>1, <2>4
      <3> HIDE DEF n
      <3>4. /\ n \notin lost
            /\ \A u \in Tasks : n \notin Got(u) /\ (u # t => res[u] # n)
        BY <1>0, <3>3 DEF Once, n
      <3>5. \A u \in Tasks : res'[u] \notin lost'
        <4> TAKE u \in Tasks
        <4>1. CASE res'[u] = 0
          BY <2>1, <3>1, <3>3, <4>1
        <4>2. CASE res'[u] # 0
          BY <1>0, <2>1, <3>2, <3>4, <4>2 DEF Once
        <4> QED
          BY <4>1, <4>2
      <3>6. \A u \in Tasks : Got(u)' \intersect lost' = {}
        BY <1>0, <2>1, <2>2, <3>4 DEF Once
      <3>7. \A u, v \in Tasks : /\ res'[u] \notin Got(v)'
                                /\ u # v => Got(u)' \intersect Got(v)' = {}
                                /\ u # v /\ res'[u] # 0 => res'[u] # res'[v]
        BY <1>0, <2>2, <3>1, <3>2 DEF Once
      <3> QED
        BY <3>5, <3>6, <3>7 DEF Once
    <2>7. TasksInOrder'
      <3>1. \A u \in Tasks : u \in Held' => u \in Held /\ res'[u] = res[u]
        BY <2>1 DEF Held
      <3> QED
        BY <1>0, <2>2, <3>1 DEF TasksInOrder
    <2> QED
      BY <2>3, <2>5, <2>6, <2>7, AccountedPartsNext
  <1> QED
    BY <1>1, <1>2

-----------------------------------------------------------------------------
(* The invariant.                                                          *)

\* Initially nothing has arrived, and nobody has anything.
LEMMA InitIInv == Init => IInv
  <1> SUFFICES ASSUME Init PROVE IInv
    OBVIOUS
  <1>1. TypeOK
    BY EmptySeq DEF Init, TypeOK
  <1>2. Queued = <<>> /\ Len(Queued) = 0 /\ Taken = 0
    <2>1. <<>> \in Seq(Events) /\ Len(<<>>) = 0
      BY EmptySeq
    <2>2. <<>> \o <<>> = <<>>
      BY <2>1, ConcatEmptySeq
    <2>3. ibuf = <<>> /\ fifo = <<>> /\ arrived = 0
      BY DEF Init
    <2>4. Queued = <<>>
      BY <2>2, <2>3 DEF Queued
    <2>5. Len(Queued) = 0
      BY <2>1, <2>4, Zenon
    <2>6. Taken = 0
      BY <2>3, <2>5 DEF Taken
    <2> QED
      BY <2>4, <2>5, <2>6, Zenon
  <1>3. /\ lost = {} /\ \A t \in Tasks : res[t] = 0 /\ Got(t) = {} /\ log[t] = <<>>
    BY DEF Init, Got
  <1>4. InLine /\ Placed /\ Once
    BY <1>2, <1>3 DEF InLine, Placed, Once, Events
  <1>5. TasksInOrder
    BY <1>3 DEF TasksInOrder, Held
  <1> QED
    BY <1>1, <1>4, <1>5, AccountedParts DEF IInv

\* Every step keeps the invariant.
LEMMA Inductive == IInv /\ [Next]_vars => IInv'
  <1> SUFFICES ASSUME IInv, [Next]_vars PROVE IInv'
    OBVIOUS
  <1>0. TypeOK /\ TypeOK' /\ EventsAccounted /\ TasksInOrder
    BY StepTypes DEF IInv
  <1>1. CASE Arrive
    BY <1>0, <1>1, ArriveSafe DEF IInv
  <1>2. CASE KernelSend \/ Close
    BY <1>0, <1>2, ElsewhereSafe DEF IInv, KernelSend, Close, tasks
  <1>3. ASSUME NEW t \in Tasks, InputNow(t)
        PROVE  IInv'
    BY <1>0, <1>3, InputNowSafe DEF IInv
  <1>4. ASSUME NEW t \in Tasks, \/ InputWait(t, "input") \/ InputWait(t, "timed")
                                \/ OutputNow(t) \/ OutputWait(t)
        PROVE  IInv'
    BY <1>0, <1>4, ElsewhereSafe DEF IInv, InputWait, OutputNow, OutputWait, Wait, tasks
  <1>5. ASSUME NEW t \in Tasks, ReaderInput(t)
        PROVE  IInv'
    BY <1>0, <1>5, ReaderInputSafe DEF IInv
  <1>6. ASSUME NEW t \in Tasks, StaleReader(t) \/ ReaderOutput(t)
        PROVE  IInv'
    BY <1>0, <1>6, ElsewhereSafe DEF IInv, StaleReader, ReaderOutput, vars, inVars
  <1>7. ASSUME NEW t \in Tasks, Wake(t)
        PROVE  IInv'
    BY <1>0, <1>7, WakeSafe DEF IInv
  <1>8. ASSUME NEW t \in Tasks, Timeout(t)
        PROVE  IInv'
    <2>1. res[t] = 0
      BY <1>0, <1>8 DEF Timeout, TypeOK
    <2> QED
      BY <1>0, <1>8, <2>1, LeaveSafe DEF IInv, Timeout
  <1>9. ASSUME NEW t \in Tasks, LateTimeout(t)
        PROVE  IInv'
    <2>1. res[t] # 0
      BY <1>0, <1>9 DEF LateTimeout, TypeOK
    <2> QED
      BY <1>0, <1>9, <2>1, LeaveSafe DEF IInv, LateTimeout
  <1>10. ASSUME NEW t \in Tasks, Cancel(t)
         PROVE  IInv'
    BY <1>0, <1>10, LeaveSafe DEF IInv, Cancel
  <1>11. CASE UNCHANGED vars
    BY <1>0, <1>11, ElsewhereSafe DEF IInv, vars, inVars
  <1> QED
    BY <1>1, <1>2, <1>3, <1>4, <1>5, <1>6, <1>7, <1>8, <1>9, <1>10, <1>11 DEF Next, Callback

\* The invariant holds in every state.
THEOREM Invariant == Spec => []IInv
  BY InitIInv, Inductive, PTL DEF Spec

\* Futures and calls of all tasks have their types, a future belongs to a call, and
\* only the done future of an input call holds an event.
THEOREM TypeCorrect == Spec => []TypeOK
  BY Invariant, PTL DEF IInv

\* However many tasks wait and displace each other's callbacks, every event that
\* arrived waits, or one task has it, or it is lost: never two of these.
THEOREM AllAccounted == Spec => []EventsAccounted
  BY Invariant, PTL DEF IInv

\* Each task gets its events in the order they arrived, whether at once or by
\* waiting, and whatever others take in between.
THEOREM InOrder == Spec => []TasksInOrder
  BY Invariant, PTL DEF IInv

-----------------------------------------------------------------------------
(* What is lost.                                                           *)

\* A step in which an event is lost ends the call of the task whose done future
\* holds it.
LEMMA LossOfStep ==
    ASSUME TypeOK, [Next]_vars, NEW n \in lost' \ lost
    PROVE  \E t \in Tasks : fut[t] = "done" /\ res[t] = n /\ fut'[t] = "none"
  <1>1. ASSUME NEW t \in Tasks, LateTimeout(t)
        PROVE  fut[t] = "done" /\ res[t] = n /\ fut'[t] = "none"
    BY <1>1 DEF LateTimeout, Leave, TypeOK
  <1>2. ASSUME NEW t \in Tasks, Cancel(t)
        PROVE  fut[t] = "done" /\ res[t] = n /\ fut'[t] = "none"
    BY <1>2 DEF Cancel, Leave, TypeOK
  <1>3. \E t \in Tasks : LateTimeout(t) \/ Cancel(t)
    <2> SUFFICES ASSUME ~ \E t \in Tasks : LateTimeout(t) \/ Cancel(t)
                 PROVE  lost' = lost
      OBVIOUS
    <2> QED
      BY DEF Next, vars, Arrive, KernelSend, Close, InputNow, InputWait, OutputNow, OutputWait,
             Callback, ReaderInput, StaleReader, ReaderOutput, Wake, Timeout
  <1> QED
    BY <1>1, <1>2, <1>3

\* An event is lost only when a call ends, by its timeout or by cancellation, after
\* its callback took the event and before its task ran; never by a callback that
\* outlives its call, or is displaced by another.
THEOREM OnlyRaceLoses == Spec => LossOnlyInTheRace
  <1>1. TypeOK /\ [Next]_vars =>
            [\A n \in lost' \ lost :
                \E t \in Tasks : fut[t] = "done" /\ res[t] = n /\ fut'[t] = "none"]_vars
    BY LossOfStep
  <1> QED
    BY <1>1, TypeCorrect, PTL DEF Spec, LossOnlyInTheRace
=============================================================================
