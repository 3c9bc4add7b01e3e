-------------------------- MODULE SyncInput_proofs --------------------------
(***************************************************************************)
(* For every size of the FIFO and of the buffer, every timeout and every   *)
(* number of events: what event_input returns is what was sent, in order,  *)
(* with an error wherever some are missing; it never sleeps on an event it *)
(* has, nor past its deadline; and None means that nothing was there.      *)
(***************************************************************************)
EXTENDS SyncInput, SequenceTheorems, TLAPS

USE SyncInputAssumption

\* What the application has not got yet.
Queued == ibuf \o fifo

\* Numbers that follow one another.
InARow(s) == \A i \in 1..Len(s) : s[i] = s[1] + i - 1

\* No event is missing between those that wait; and unless the FIFO was full since it
\* was read last, none after them.
Flow ==
    /\ InARow(Queued)
    /\ ~overflow => \A i \in 1..Len(Queued) : Queued[i] = arrived - Len(Queued) + i

\* The last result, and whether nothing is missing after it that was not reported.
Last     == IF Len(log) = 0 THEN 0 ELSE log[Len(log)]
Complete == Len(log) = 0 \/ Last # Gap

\* The first event that waits is the next after the last one returned.
Continued ==
    Complete => /\ Len(Queued) = 0 => arrived = Last
                /\ Len(Queued) > 0 => Queued[1] = Last + 1

\* No event is missing between two that were returned one after the other.
Reported ==
    \A i \in 1..Len(log) :
        LET before == IF i = 1 THEN 0 ELSE log[i - 1]
        IN  log[i] # Gap /\ (i = 1 \/ before # Gap) => log[i] = before + 1

\* A call that has found nothing has an empty buffer, and whatever is in the FIFO has
\* come since; only poll() naps.
InTime ==
    /\ pc # "poll" => nap = 0
    /\ fresh <= arrived
    /\ pc \in {"check", "poll"} => Len(ibuf) = 0 /\ Len(fifo) <= fresh
    /\ pc = "poll" /\ timeout > 0 => 0 <= nap /\ nap <= left

IInv == TypeOK /\ Flow /\ Continued /\ Reported /\ InTime

-----------------------------------------------------------------------------
(* Sequences and numbers.                                                  *)

\* A sequence without elements.
LEMMA EmptyLen ==
    ASSUME NEW S, NEW s \in Seq(S)
    PROVE  Len(s) \in Nat /\ (s = <<>> <=> Len(s) = 0)
  BY EmptySeq, LenProperties

\* The head of a sequence is its first element.
LEMMA HeadIsFirst ==
    ASSUME NEW S, NEW s \in Seq(S), Len(s) > 0
    PROVE  Head(s) = s[1] /\ s[1] \in S
  <1>1. Len(s) \in Nat /\ 1 \in 1..Len(s) /\ Len(s) \in 1..Len(s)
    BY LenProperties
  <1>2. SubSeq(s, 1, Len(s)) = s
    BY SubSeqFull
  <1> QED
    BY <1>1, <1>2, HeadTailOfSubSeq, ElementOfSeq

\* Taking the first element of a sequence takes it from whatever begins with it.
LEMMA TailConcat ==
    ASSUME NEW S, NEW s \in Seq(S), NEW t \in Seq(S), Len(s) > 0
    PROVE  Tail(s) \o t = Tail(s \o t)
  <1>1. s # <<>> /\ Len(s) \in Nat /\ Len(t) \in Nat
    BY EmptyLen
  <1>2. /\ s \o t \in Seq(S) /\ Len(s \o t) = Len(s) + Len(t)
        /\ \A i \in 1..(Len(s) + Len(t)) :
              (s \o t)[i] = IF i <= Len(s) THEN s[i] ELSE t[i - Len(s)]
    BY ConcatProperties
  <1>3. s \o t # <<>>
    BY <1>1, <1>2, EmptyLen
  <1>4. /\ Tail(s) \in Seq(S) /\ Len(Tail(s)) = Len(s) - 1
        /\ \A i \in 1..(Len(s) - 1) : Tail(s)[i] = s[i + 1]
    BY <1>1, HeadTailProperties
  <1>5. /\ Tail(s \o t) \in Seq(S) /\ Len(Tail(s \o t)) = Len(s) + Len(t) - 1
        /\ \A i \in 1..(Len(s) + Len(t) - 1) : Tail(s \o t)[i] = (s \o t)[i + 1]
    BY <1>2, <1>3, HeadTailProperties
  <1>6. /\ Tail(s) \o t \in Seq(S) /\ Len(Tail(s) \o t) = Len(s) - 1 + Len(t)
        /\ \A i \in 1..(Len(s) - 1 + Len(t)) :
              (Tail(s) \o t)[i] = IF i <= Len(s) - 1 THEN Tail(s)[i] ELSE t[i - (Len(s) - 1)]
    BY <1>4, ConcatProperties
  <1>7. ASSUME NEW i \in 1..(Len(s) + Len(t) - 1)
        PROVE  (Tail(s) \o t)[i] = Tail(s \o t)[i]
    BY <1>1, <1>2, <1>4, <1>5, <1>6
  <1> QED
    BY <1>1, <1>5, <1>6, <1>7, SeqEqual

\* Appending to the second of two sequences appends to both together.
LEMMA AppendConcat ==
    ASSUME NEW S, NEW r \in Seq(S), NEW q \in Seq(S), NEW e \in S
    PROVE  r \o Append(q, e) = Append(r \o q, e)
  <1>1. <<e>> \in Seq(S) /\ r \o q \in Seq(S)
    BY ConcatProperties
  <1>2. Append(q, e) = q \o <<e>> /\ Append(r \o q, e) = (r \o q) \o <<e>>
    BY <1>1, AppendIsConcat
  <1> QED
    BY <1>1, <1>2, ConcatAssociative

\* What a fetch reads and what it leaves are all there was.
LEMMA FetchedAll ==
    ASSUME NEW s \in Seq(Events)
    PROVE  /\ Drained(s) \in Seq(Events) /\ Remaining(s) \in Seq(Events)
           /\ Len(Drained(s)) <= BufSize /\ Len(Remaining(s)) <= Len(s)
           /\ Drained(s) \o Remaining(s) = s
           /\ Len(s) > 0 => Len(Drained(s)) > 0
  <1> DEFINE n == IF Len(s) < BufSize THEN Len(s) ELSE BufSize
  <1>1. Len(s) \in Nat /\ n \in 0..Len(s) /\ n <= BufSize /\ (Len(s) > 0 => n > 0)
    BY LenProperties
  <1>2. \A i \in 1..Len(s) : s[i] \in Events
    BY ElementOfSeq
  <1>3. Drained(s) = SubSeq(s, 1, n) /\ Drained(s) \in Seq(Events) /\ Len(Drained(s)) = n
    <2>1. Drained(s) = SubSeq(s, 1, n)
      BY DEF Drained
    <2>2. \A i \in 1..n : s[i] \in Events
      BY <1>1, <1>2
    <2>3. SubSeq(s, 1, n) \in Seq(Events) /\ Len(SubSeq(s, 1, n)) = IF 1 <= n THEN n - 1 + 1 ELSE 0
      BY <1>1, <2>2, SubSeqProperties
    <2> QED
      BY <1>1, <2>1, <2>3
  <1> HIDE DEF n
  <1>4. /\ Remaining(s) = SubSeq(s, n + 1, Len(s)) /\ Remaining(s) \in Seq(Events)
        /\ Len(Remaining(s)) <= Len(s)
    <2>1. Remaining(s) = SubSeq(s, n + 1, Len(s))
      BY <1>3 DEF Remaining
    <2>2. \A i \in (n + 1)..Len(s) : s[i] \in Events
      BY <1>1, <1>2
    <2>3. /\ SubSeq(s, n + 1, Len(s)) \in Seq(Events)
          /\ Len(SubSeq(s, n + 1, Len(s))) = IF n + 1 <= Len(s) THEN Len(s) - (n + 1) + 1 ELSE 0
      BY <1>1, <2>2, SubSeqProperties
    <2> QED
      BY <1>1, <2>1, <2>3
  <1>5. SubSeq(s, 1, n) \o SubSeq(s, n + 1, Len(s)) = SubSeq(s, 1, Len(s))
    <2>1. 1 \in 1..(Len(s) + 1) /\ n \in (1 - 1)..Len(s) /\ Len(s) \in n..Len(s)
      BY <1>1
    <2> QED
      BY <2>1, ConcatAdjacentSubSeq
  <1> QED
    BY <1>1, <1>3, <1>4, <1>5, SubSeqFull

\* A part of a second that is left is not slept away as none, nor as more than itself.
LEMMA RoundedUp ==
    ASSUME NEW l \in Nat \ {0}
    PROVE  (l + Second - 1) \div Second \in 1..l
  <1> DEFINE d == (l + Second - 1) \div Second
  <1>1. d \in Int /\ Second * d <= l + Second - 1 /\ l + Second - 1 < Second * d + Second
    OBVIOUS
  <1> QED
    BY <1>1

\* The types of the sequences, and what a state without one of them is.
LEMMA Sequences ==
    ASSUME TypeOK
    PROVE  /\ ibuf \in Seq(Events) /\ fifo \in Seq(Events) /\ Queued \in Seq(Events)
           /\ log \in Seq(Events \union {Gap})
           /\ Len(ibuf) \in Nat /\ Len(fifo) \in Nat /\ Len(log) \in Nat
           /\ Len(Queued) = Len(ibuf) + Len(fifo)
           /\ ibuf = <<>> <=> Len(ibuf) = 0
           /\ fifo = <<>> <=> Len(fifo) = 0
           /\ ibuf = <<>> => Queued = fifo
           /\ overflow => Len(fifo) > 0
           /\ \A i \in 1..Len(Queued) : Queued[i] \in Events
  <1>1. /\ ibuf \in Seq(Events) /\ fifo \in Seq(Events) /\ log \in Seq(Events \union {Gap})
        /\ overflow => Len(fifo) = FifoSize
    BY DEF TypeOK
  <1>2. /\ Len(ibuf) \in Nat /\ Len(fifo) \in Nat /\ Len(log) \in Nat
        /\ ibuf = <<>> <=> Len(ibuf) = 0
        /\ fifo = <<>> <=> Len(fifo) = 0
    BY <1>1, EmptyLen
  <1>3. Queued \in Seq(Events) /\ Len(Queued) = Len(ibuf) + Len(fifo)
    BY <1>1, ConcatProperties DEF Queued
  <1>4. ibuf = <<>> => Queued = fifo
    BY <1>1, ConcatEmptySeq DEF Queued
  <1>5. \A i \in 1..Len(Queued) : Queued[i] \in Events
    BY <1>3, ElementOfSeq
  <1>6. overflow => Len(fifo) > 0
    BY <1>1
  <1> QED
    BY <1>1, <1>2, <1>3, <1>4, <1>5, <1>6

\* The event that a call takes is the first that waits, and the others stay: a FIFO
\* that was full is not read as long as the buffer has an event.
LEMMA Taken ==
    ASSUME TypeOK, TakeEvent, ~Empty, ~Failed
    PROVE  /\ ibuf' \in Seq(Events) /\ Len(ibuf') <= BufSize
           /\ fifo' \in Seq(Events) /\ Len(fifo') <= FifoSize
           /\ overflow' = overflow /\ (overflow => Len(fifo') = FifoSize)
           /\ Len(Queued) > 0 /\ NextEvent = Queued[1] /\ Queued' = Tail(Queued)
  <1>1. Len(ibuf) <= BufSize /\ Len(fifo) <= FifoSize /\ (overflow => Len(fifo) = FifoSize)
    BY DEF TypeOK
  <1>2. Len(Queued) > 0
    BY Sequences DEF Empty, Failed
  <1>3. NextEvent = Queued[1]
    BY <1>2, Sequences, HeadIsFirst DEF NextEvent, Queued
  <1>4. CASE ibuf # <<>>
    <2>1. ibuf' = Tail(ibuf) /\ fifo' = fifo /\ overflow' = overflow
      BY <1>4 DEF TakeEvent
    <2>2. Tail(ibuf) \in Seq(Events) /\ Len(Tail(ibuf)) = Len(ibuf) - 1 /\ Len(ibuf) > 0
      BY <1>4, Sequences, HeadTailProperties
    <2>3. Tail(ibuf) \o fifo = Tail(Queued)
      BY <2>2, Sequences, TailConcat DEF Queued
    <2>4. Queued' = Tail(Queued)
      BY <2>1, <2>3, Zenon DEF Queued
    <2>5. Len(ibuf') <= BufSize
      BY <1>1, <2>1, <2>2, Sequences
    <2> QED
      BY <1>1, <1>2, <1>3, <2>1, <2>2, <2>4, <2>5, Sequences
  <1>5. CASE ibuf = <<>>
    <2>1. ibuf' = Tail(Drained(fifo)) /\ fifo' = Remaining(fifo) /\ overflow' = overflow /\ ~overflow
      BY <1>5 DEF TakeEvent, Failed
    <2>2. /\ Drained(fifo) \in Seq(Events) /\ Remaining(fifo) \in Seq(Events)
          /\ Len(Drained(fifo)) <= BufSize /\ Len(Remaining(fifo)) <= Len(fifo)
          /\ Drained(fifo) \o Remaining(fifo) = fifo /\ Len(Drained(fifo)) > 0
      BY <1>2, <1>5, Sequences, FetchedAll
    <2>3. /\ Tail(Drained(fifo)) \in Seq(Events)
          /\ Len(Tail(Drained(fifo))) = Len(Drained(fifo)) - 1 /\ Len(Drained(fifo)) \in Nat
      BY <2>2, EmptyLen, HeadTailProperties
    <2>4. Tail(Drained(fifo)) \o Remaining(fifo) = Tail(fifo)
      BY <2>2, TailConcat
    <2> QED
      BY <1>1, <1>2, <1>3, <1>5, <2>1, <2>2, <2>3, <2>4, Sequences DEF Queued
  <1> QED
    BY <1>4, <1>5

\* A fetch into the empty buffer moves what waits, or loses it all with the overflow.
LEMMA Fetched ==
    ASSUME TypeOK, Fetch, ibuf = <<>>
    PROVE  /\ ibuf' \in Seq(Events) /\ Len(ibuf') <= BufSize
           /\ fifo' \in Seq(Events) /\ Len(fifo') <= FifoSize
           /\ overflow' = FALSE
           /\ IF overflow THEN Queued' = <<>> ELSE Queued' = Queued
  <1>1. Len(ibuf) <= BufSize /\ Len(fifo) <= FifoSize /\ FifoSize \in Nat
    BY DEF TypeOK
  <1>2. CASE overflow
    <2>1. fifo' = <<>> /\ overflow' = FALSE /\ ibuf' = <<>>
      BY <1>2 DEF Fetch
    <2>2. <<>> \in Seq(Events) /\ Len(<<>>) = 0
      BY EmptySeq
    <2>3. fifo' \in Seq(Events) /\ ibuf' \in Seq(Events) /\ Len(fifo') = 0 /\ Len(ibuf') = 0
      BY <2>1, <2>2, Zenon
    <2>4. <<>> \o <<>> = <<>>
      BY <2>2, ConcatEmptySeq
    <2>5. Queued' = <<>>
      BY <2>1, <2>4 DEF Queued
    <2>6. Len(fifo') <= FifoSize /\ Len(ibuf') <= BufSize
      BY <1>1, <2>3
    <2> QED
      BY <1>2, <2>1, <2>3, <2>5, <2>6, Zenon
  <1>3. CASE ~overflow
    <2>1. fifo' = Remaining(fifo) /\ ibuf' = Drained(fifo) /\ overflow' = overflow
      BY <1>3 DEF Fetch
    <2>2. /\ Drained(fifo) \in Seq(Events) /\ Remaining(fifo) \in Seq(Events)
          /\ Len(Drained(fifo)) <= BufSize /\ Len(Remaining(fifo)) <= Len(fifo)
          /\ Drained(fifo) \o Remaining(fifo) = fifo
      BY Sequences, FetchedAll
    <2>3. Queued' = Queued
      BY <2>1, <2>2, Sequences DEF Queued
    <2>4. Len(fifo') <= FifoSize
      BY <1>1, <2>1, <2>2, Sequences, LenProperties
    <2>5. overflow' = FALSE
      BY <1>3, <2>1 DEF TypeOK
    <2> QED
      BY <1>3, <2>1, <2>2, <2>3, <2>4, <2>5
  <1> QED
    BY <1>2, <1>3

-----------------------------------------------------------------------------
(* What was returned, and what waits.                                      *)

\* A gap appended to the log says that anything may be missing after it.
LEMMA GapLogged ==
    ASSUME TypeOK, Reported, Flow', log' = Append(log, Gap)
    PROVE  Continued' /\ Reported' /\ log' \in Seq(Events \union {Gap})
  <1>1. log \in Seq(Events \union {Gap}) /\ Len(log) \in Nat
    BY Sequences
  <1>2. /\ log' \in Seq(Events \union {Gap}) /\ Len(log') = Len(log) + 1
        /\ \A i \in 1..Len(log) : log'[i] = log[i]
        /\ log'[Len(log) + 1] = Gap
    BY <1>1, AppendProperties
  <1>3. ~Complete'
    BY <1>1, <1>2 DEF Complete, Last
  <1>4. Reported'
    BY <1>1, <1>2 DEF Reported
  <1> QED
    BY <1>2, <1>3, <1>4 DEF Continued

\* The first event that waits is the one that is expected after the last result.
LEMMA EventLogged ==
    ASSUME TypeOK, Flow, Continued, Reported,
           Len(Queued) > 0, log' = Append(log, Queued[1]), Queued' = Tail(Queued),
           arrived' = arrived, overflow => Len(Queued) > 1
    PROVE  Continued' /\ Reported' /\ log' \in Seq(Events \union {Gap})
  <1>1. log \in Seq(Events \union {Gap}) /\ Len(log) \in Nat /\ Queued \in Seq(Events)
    BY Sequences
  <1>2. Len(Queued) \in Nat /\ Queued[1] \in Events /\ Queued[1] \in Nat \ {0} /\ Queued # <<>>
    BY <1>1, EmptyLen, ElementOfSeq DEF Events
  <1>3. /\ log' \in Seq(Events \union {Gap}) /\ Len(log') = Len(log) + 1
        /\ \A i \in 1..Len(log) : log'[i] = log[i]
        /\ log'[Len(log) + 1] = Queued[1]
    BY <1>1, <1>2, AppendProperties
  <1>4. Len(Tail(Queued)) = Len(Queued) - 1 /\ \A i \in 1..(Len(Queued) - 1) : Tail(Queued)[i] = Queued[i + 1]
    BY <1>1, <1>2, HeadTailProperties
  <1>5. Last' = Queued[1]
    BY <1>1, <1>3 DEF Last
  <1>6. Complete => Queued[1] = Last + 1
    BY DEF Continued
  <1>7. Reported'
    BY <1>1, <1>3, <1>6 DEF Reported, Complete, Last
  <1>8. Continued'
    <2>1. Len(Queued') = Len(Queued) - 1
      BY <1>4
    <2>2. CASE Len(Queued) = 1
      <3>1. arrived = Queued[1]
        <4>1. Queued[1] = arrived - Len(Queued) + 1
          BY <2>2 DEF Flow
        <4>2. arrived \in Nat
          BY DEF TypeOK
        <4> QED
          BY <2>2, <4>1, <4>2
      <3>2. Len(Queued') = 0 /\ ~(Len(Queued') > 0)
        <4>1. \A n : n = Len(Queued) - 1 => n = 0
          BY <2>2
        <4>2. Len(Queued') = 0
          BY <2>1, <4>1, Zenon
        <4> QED
          BY <4>2
      <3>3. arrived' = Last'
        BY <1>5, <3>1, Zenon
      <3> QED
        BY <3>2, <3>3 DEF Continued
    <2>3. CASE Len(Queued) > 1
      <3>1. Queued[2] = Queued[1] + 1
        BY <1>2, <2>3 DEF Flow, InARow
      <3>2. Queued'[1] = Queued[2]
        BY <1>2, <1>4, <2>3
      <3> QED
        BY <1>2, <1>5, <2>1, <2>3, <3>1, <3>2 DEF Continued
    <2> QED
      BY <1>2, <2>2, <2>3, Sequences
  <1> QED
    BY <1>3, <1>7, <1>8

\* A step that changes neither the log nor what waits nor what has arrived.
LEMMA NothingLogged ==
    ASSUME Flow, Continued, Reported,
           UNCHANGED <<log, arrived>>, Queued' = Queued, overflow' = overflow
    PROVE  Flow' /\ Continued' /\ Reported'
  BY DEF Flow, Continued, Reported, InARow, Complete, Last

\* Nothing waits: no event is missing in between.
LEMMA EmptyFlow ==
    ASSUME Queued' = <<>>
    PROVE  Flow'
  <1>1. Len(<<>>) = 0
    BY EmptySeq
  <1>2. 1..Len(Queued') = {}
    BY <1>1
  <1> QED
    BY <1>2 DEF Flow, InARow

-----------------------------------------------------------------------------
(* The steps.                                                              *)

\* An event that arrives comes after those that wait, unless it is lost.
LEMMA ArriveSafe ==
    ASSUME IInv, Arrive
    PROVE  IInv'
  <1>0. TypeOK /\ Flow /\ Continued /\ Reported /\ InTime
    BY DEF IInv
  <1> DEFINE e == arrived + 1
  <1>1. /\ arrived \in Nat /\ arrived < MaxEvents /\ e \in Events /\ fresh \in Nat
        /\ Len(fifo) <= FifoSize /\ (overflow => Len(fifo) = FifoSize)
    BY <1>0 DEF TypeOK, Arrive, Events
  <1>2. /\ arrived' = e /\ fresh' \in {0, fresh + 1} /\ (pc # "idle" => fresh' = fresh + 1)
        /\ UNCHANGED <<ibuf, pc, waits, timeout, left, nap, log, result>>
    BY DEF Arrive, inCall
  <1>3. CASE Len(fifo) < FifoSize
    <2>1. fifo' = Append(fifo, e) /\ overflow' = overflow /\ ~overflow
      BY <1>0, <1>1, <1>3, Sequences DEF Arrive
    <2>2. /\ Append(fifo, e) \in Seq(Events) /\ Len(Append(fifo, e)) = Len(fifo) + 1
          /\ Len(fifo) \in Nat
      BY <1>0, <1>1, Sequences, AppendProperties
    <2>3. TypeOK'
      <3>1. fresh' \in 0..MaxEvents /\ arrived' \in 0..MaxEvents
        BY <1>0, <1>1, <1>2 DEF InTime
      <3>2. fifo' \in Seq(Events) /\ Len(fifo') <= FifoSize
        BY <1>3, <2>1, <2>2
      <3> QED
        BY <1>0, <1>2, <2>1, <3>1, <3>2 DEF TypeOK
    <2>4. Queued' = Append(Queued, e)
      <3>1. ibuf \o Append(fifo, e) = Append(ibuf \o fifo, e)
        BY <1>0, <1>1, Sequences, AppendConcat
      <3> QED
        BY <1>2, <2>1, <3>1 DEF Queued
    <2>5. /\ Len(Queued') = Len(Queued) + 1 /\ Queued'[Len(Queued) + 1] = e
          /\ \A i \in 1..Len(Queued) : Queued'[i] = Queued[i]
          /\ Len(Queued) \in Nat
      BY <1>0, <1>1, <2>4, Sequences, AppendProperties, LenProperties
    <2>6. \A i \in 1..Len(Queued') : Queued'[i] = arrived' - Len(Queued') + i
      BY <1>0, <1>1, <1>2, <2>1, <2>5 DEF Flow
    <2>7. Flow'
      BY <1>1, <1>2, <2>5, <2>6 DEF Flow, InARow
    <2>8. Continued'
      <3>1. Complete' = Complete /\ Last' = Last
        BY <1>2 DEF Complete, Last
      <3>2. Len(Queued') > 0 /\ Len(Queued') # 0
        BY <2>5
      <3>3. CASE Len(Queued) = 0
        BY <1>0, <1>1, <2>5, <3>1, <3>2, <3>3 DEF Continued
      <3>4. CASE Len(Queued) > 0
        <4>1. Queued'[1] = Queued[1]
          BY <2>5, <3>4
        <4> QED
          BY <1>0, <3>1, <3>2, <3>4, <4>1 DEF Continued
      <3> QED
        BY <2>5, <3>3, <3>4
    <2>9. Reported'
      BY <1>0, <1>2 DEF Reported
    <2>10. InTime'
      BY <1>0, <1>1, <1>2, <2>1, <2>2 DEF InTime
    <2> QED
      BY <2>3, <2>7, <2>8, <2>9, <2>10 DEF IInv
  <1>4. CASE ~(Len(fifo) < FifoSize)
    <2>1. fifo' = fifo /\ overflow' = TRUE /\ Queued' = Queued /\ Len(fifo) = FifoSize
      BY <1>0, <1>1, <1>2, <1>4, Sequences DEF Arrive, Queued
    <2>2. TypeOK'
      <3>1. fresh' \in 0..MaxEvents /\ arrived' \in 0..MaxEvents
        BY <1>0, <1>1, <1>2 DEF InTime
      <3> QED
        BY <1>0, <1>2, <2>1, <3>1 DEF TypeOK
    <2>3. Flow' /\ Reported'
      BY <1>0, <1>2, <2>1 DEF Flow, InARow, Reported
    <2>4. Len(Queued) > 0
      BY <1>0, <2>1, Sequences
    <2>5. Continued'
      <3>1. Complete' = Complete /\ Last' = Last
        BY <1>2 DEF Complete, Last
      <3> QED
        BY <1>0, <2>1, <2>4, <3>1 DEF Continued
    <2>6. InTime'
      BY <1>0, <1>1, <1>2, <2>1, Sequences DEF InTime
    <2> QED
      BY <2>2, <2>3, <2>5, <2>6 DEF IInv
  <1> QED
    BY <1>3, <1>4

\* The waiting of a call, and its end with nothing, leave the events alone.
LEMMA WaitSafe ==
    ASSUME IInv, NEW t \in Timeouts \union {0}, NEW w \in BOOLEAN,
           Tick \/ Begin(w, t) \/ TryAgain \/ GiveUp \/ Poll \/ Wake
    PROVE  IInv'
  <1>0. TypeOK /\ Flow /\ Continued /\ Reported /\ InTime
    BY DEF IInv
  <1>1. UNCHANGED <<arrived, fifo, overflow, ibuf, log>>
    BY DEF Tick, Begin, TryAgain, GiveUp, Poll, Wake, kernel
  <1>2. Flow' /\ Continued' /\ Reported'
    BY <1>0, <1>1, NothingLogged DEF Queued
  <1>3. /\ left \in 0..timeout /\ nap \in -1..timeout /\ timeout \in Nat /\ fresh \in 0..MaxEvents
        /\ arrived \in Nat /\ timeout \in Timeouts \union {0} /\ t \in Nat
    BY <1>0 DEF TypeOK
  <1>4. /\ pc' \in {"idle", "try", "check", "poll"} /\ waits' \in BOOLEAN
        /\ timeout' \in Timeouts \union {0} /\ left' \in 0..timeout' /\ nap' \in -1..timeout'
        /\ result' \in {"event", "error", "EAGAIN", "None"} /\ fresh' \in 0..MaxEvents
        /\ InTime'
    <2>1. CASE Tick
      <3>1. UNCHANGED <<pc, waits, timeout, result, fresh>> /\ left' = Less(left) /\ nap' = Less(nap)
        BY <2>1 DEF Tick, kernel
      <3>2. left' \in 0..timeout /\ nap' \in -1..timeout
        BY <1>3, <3>1 DEF Less
      <3>3. /\ nap = 0 => nap' = 0
            /\ 0 <= nap /\ nap <= left => 0 <= nap' /\ nap' <= left'
        BY <1>3, <3>1 DEF Less
      <3> QED
        BY <1>0, <1>1, <3>1, <3>2, <3>3 DEF TypeOK, InTime
    <2>2. CASE Begin(w, t)
      <3>1. /\ pc = "idle" /\ pc' = "try" /\ waits' = w /\ timeout' = t /\ left' = t
            /\ UNCHANGED <<nap, result, fresh>>
        BY <2>2 DEF Begin, kernel
      <3>2. nap = 0
        BY <1>0, <3>1 DEF InTime
      <3> QED
        BY <1>0, <1>1, <1>3, <3>1, <3>2 DEF TypeOK, InTime
    <2>3. CASE pc' = "idle" /\ (TryAgain \/ GiveUp)
      <3>1. \E r \in {"EAGAIN", "None"} : Return(r)
        BY <2>3 DEF TryAgain, GiveUp
      <3>2. /\ result' \in {"EAGAIN", "None"} /\ fresh' = 0 /\ waits' = FALSE
            /\ timeout' = 0 /\ left' = 0 /\ nap' = 0
        BY <3>1 DEF Return
      <3>3. InTime'
        BY <1>1, <1>3, <2>3, <3>2 DEF InTime
      <3>4. 0 \in 0..timeout' /\ 0 \in -1..timeout' /\ 0 \in 0..MaxEvents
        BY <3>2
      <3>5. pc' \in {"idle", "try", "check", "poll"} /\ waits' \in BOOLEAN
        BY <2>3, <3>2
      <3> QED
        BY <3>2, <3>3, <3>4, <3>5
    <2>4. CASE pc' # "idle" /\ TryAgain
      <3>1. /\ pc = "try" /\ pc' = "check" /\ UNCHANGED <<fresh, waits, timeout, left, nap, result>>
            /\ ibuf = <<>> /\ fifo = <<>>
        BY <2>4 DEF TryAgain, Empty, Return
      <3>2. Len(ibuf) = 0 /\ Len(fifo) = 0
        BY <1>0, <3>1, Sequences
      <3> QED
        BY <1>0, <1>1, <1>3, <3>1, <3>2 DEF TypeOK, InTime
    <2>5. CASE Poll
      <3>1. /\ pc = "check" /\ pc' = "poll" /\ nap' = PollTime /\ ~(timeout > 0 /\ left = 0)
            /\ UNCHANGED <<fresh, waits, timeout, left, result>>
        BY <2>5 DEF Poll, Expired, kernel
      <3>2. IF timeout = 0 THEN nap' = -1 ELSE nap' \in 1..left
        <4>1. CASE timeout = 0
          BY <3>1, <4>1 DEF PollTime
        <4>2. CASE timeout # 0
          <5>1. left \in Nat \ {0}
            BY <1>3, <3>1, <4>2
          <5> QED
            BY <3>1, <4>2, <5>1, RoundedUp DEF PollTime
        <4> QED
          BY <4>1, <4>2
      <3>3. nap' \in -1..timeout /\ (timeout > 0 => 0 <= nap' /\ nap' <= left)
        BY <1>3, <3>2
      <3> QED
        BY <1>0, <1>1, <1>3, <3>1, <3>3 DEF TypeOK, InTime
    <2>6. CASE Wake
      <3>1. /\ pc' = "try" /\ nap' = 0 /\ fresh' = 0 /\ UNCHANGED <<waits, timeout, left, result>>
        BY <2>6 DEF Wake
      <3> QED
        BY <1>0, <1>1, <1>3, <3>1 DEF TypeOK, InTime
    <2>7. CASE GiveUp
      BY <2>3, <2>7 DEF GiveUp, Return
    <2> QED
      BY <2>1, <2>2, <2>3, <2>4, <2>5, <2>6, <2>7
  <1>5. TypeOK'
    BY <1>0, <1>1, <1>4 DEF TypeOK
  <1> QED
    BY <1>2, <1>4, <1>5 DEF IInv

\* A call that returns an event or an error is over.
LEMMA ReturnTypes ==
    ASSUME TypeOK, NEW r \in {"event", "error"}, Return(r), arrived' = arrived
    PROVE  /\ pc' = "idle" /\ waits' \in BOOLEAN /\ timeout' \in Timeouts \union {0}
           /\ left' \in 0..timeout' /\ nap' \in -1..timeout'
           /\ result' \in {"event", "error"} /\ fresh' \in 0..MaxEvents
           /\ InTime'
  <1>1. /\ pc' = "idle" /\ result' = r /\ fresh' = 0
        /\ waits' = FALSE /\ timeout' = 0 /\ left' = 0 /\ nap' = 0
    BY DEF Return
  <1>2. InTime'
    BY <1>1 DEF InTime, TypeOK
  <1>3. 0 \in 0..timeout' /\ 0 \in -1..timeout' /\ 0 \in 0..MaxEvents
    BY <1>1
  <1> QED
    BY <1>1, <1>2, <1>3

\* An event that is returned is the next one; one lost in the decoder is a gap.
LEMMA TryEventSafe ==
    ASSUME IInv, TryEvent
    PROVE  IInv'
  <1>0. TypeOK /\ Flow /\ Continued /\ Reported /\ InTime
    BY DEF IInv
  <1>1. /\ TakeEvent /\ ~Empty /\ ~Failed /\ arrived' = arrived
        /\ \E r \in {"event", "error"} : Return(r)
        /\ log' = Append(log, Gap) \/ log' = Append(log, NextEvent)
    BY DEF TryEvent
  <1>2. /\ ibuf' \in Seq(Events) /\ Len(ibuf') <= BufSize
        /\ fifo' \in Seq(Events) /\ Len(fifo') <= FifoSize
        /\ overflow' = overflow /\ (overflow => Len(fifo') = FifoSize)
        /\ Len(Queued) > 0 /\ NextEvent = Queued[1] /\ Queued' = Tail(Queued)
    BY <1>0, <1>1, Taken
  <1>3. /\ Len(Queued) \in Nat /\ Len(Queued') = Len(Queued) - 1
        /\ \A i \in 1..Len(Queued') : Queued'[i] = Queued[i + 1]
        /\ \A i \in 1..Len(Queued) : Queued[i] \in Nat
    <2>1. Queued \in Seq(Events) /\ Queued # <<>> /\ Len(Queued) \in Nat
      BY <1>0, <1>2, Sequences, EmptyLen
    <2>2. /\ Len(Tail(Queued)) = Len(Queued) - 1
          /\ \A i \in 1..Len(Tail(Queued)) : Tail(Queued)[i] = Queued[i + 1]
      BY <2>1, HeadTailProperties
    <2>3. \A i \in 1..Len(Queued) : Queued[i] \in Nat
      BY <2>1, ElementOfSeq DEF Events
    <2> QED
      BY <1>2, <2>1, <2>2, <2>3
  <1>4. Flow'
    <2>1. InARow(Queued)'
      <3>1. \A i \in 1..Len(Queued) : Queued[i] = Queued[1] + i - 1
        BY <1>0 DEF Flow, InARow
      <3>2. ASSUME NEW i \in 1..Len(Queued')
            PROVE  Queued'[i] = Queued'[1] + i - 1
        <4>1. /\ i + 1 \in 1..Len(Queued) /\ 2 \in 1..Len(Queued) /\ 1 \in 1..Len(Queued')
              /\ Queued[1] \in Nat
          BY <1>3
        <4>2. Queued'[i] = Queued[i + 1] /\ Queued'[1] = Queued[2]
          BY <1>3, <4>1
        <4>3. Queued[i + 1] = Queued[1] + i /\ Queued[2] = Queued[1] + 1
          BY <3>1, <4>1
        <4> QED
          BY <4>1, <4>2, <4>3
      <3> QED
        BY <3>2 DEF InARow
    <2>2. ASSUME ~overflow', NEW i \in 1..Len(Queued')
          PROVE  Queued'[i] = arrived' - Len(Queued') + i
      <3>1. Queued[i + 1] = arrived - Len(Queued) + (i + 1)
        BY <1>0, <1>2, <1>3, <2>2 DEF Flow
      <3> QED
        BY <1>0, <1>1, <1>3, <3>1 DEF TypeOK
    <2> QED
      BY <2>1, <2>2 DEF Flow
  <1>5. overflow => Len(Queued) > 1
    <2>1. overflow => Len(ibuf) > 0 /\ Len(fifo) > 0
      BY <1>0, <1>1, Sequences DEF Failed
    <2> QED
      BY <1>0, <2>1, Sequences
  <1>6. Continued' /\ Reported' /\ log' \in Seq(Events \union {Gap})
    <2>1. CASE log' = Append(log, Gap)
      BY <1>0, <1>4, <2>1, GapLogged
    <2>2. CASE log' = Append(log, NextEvent)
      BY <1>0, <1>1, <1>2, <1>5, <2>2, EventLogged
    <2> QED
      BY <1>1, <2>1, <2>2
  <1>7. TypeOK' /\ InTime'
    BY <1>0, <1>1, <1>2, <1>6, ReturnTypes DEF TypeOK
  <1> QED
    BY <1>4, <1>6, <1>7 DEF IInv

\* The overflow is reported with a gap, and nothing is left to wait.
LEMMA TryFailedSafe ==
    ASSUME IInv, TryFailed
    PROVE  IInv'
  <1>0. TypeOK /\ Flow /\ Continued /\ Reported /\ InTime
    BY DEF IInv
  <1>1. Fetch /\ ibuf = <<>> /\ overflow /\ log' = Append(log, Gap) /\ Return("error") /\ arrived' = arrived
    BY DEF TryFailed, Failed
  <1>2. /\ ibuf' \in Seq(Events) /\ Len(ibuf') <= BufSize
        /\ fifo' \in Seq(Events) /\ Len(fifo') <= FifoSize
        /\ overflow' = FALSE /\ Queued' = <<>>
    BY <1>0, <1>1, Fetched
  <1>3. Flow'
    BY <1>2, EmptyFlow
  <1>4. Continued' /\ Reported' /\ log' \in Seq(Events \union {Gap})
    BY <1>0, <1>1, <1>3, GapLogged
  <1>5. TypeOK' /\ InTime'
    BY <1>0, <1>1, <1>2, <1>4, ReturnTypes DEF TypeOK
  <1> QED
    BY <1>3, <1>4, <1>5 DEF IInv

\* Between two calls the buffer is filled, or what waits is dropped.
LEMMA IdleSafe ==
    ASSUME IInv, event_input_pending \/ drop_input \/ drop_input_buffer
    PROVE  IInv'
  <1>0. TypeOK /\ Flow /\ Continued /\ Reported /\ InTime
    BY DEF IInv
  <1>1. UNCHANGED <<arrived, fresh, pc, waits, timeout, left, nap, result>> /\ pc = "idle"
    BY DEF event_input_pending, drop_input, drop_input_buffer, inCall, kernel
  <1>2. InTime'
    BY <1>0, <1>1 DEF InTime
  <1>3. <<>> \in Seq(Events) /\ Len(<<>>) = 0
    BY EmptySeq
  <1>4. /\ ibuf' \in Seq(Events) /\ Len(ibuf') <= BufSize
        /\ fifo' \in Seq(Events) /\ Len(fifo') <= FifoSize
        /\ overflow' \in BOOLEAN /\ (overflow' => Len(fifo') = FifoSize)
        /\ Flow' /\ Continued' /\ Reported' /\ log' \in Seq(Events \union {Gap})
    <2>1. CASE event_input_pending
      <3>1. Fetch /\ ibuf = <<>> /\ log' = IF overflow THEN Append(log, Gap) ELSE log
        BY <2>1 DEF event_input_pending
      <3>2. /\ ibuf' \in Seq(Events) /\ Len(ibuf') <= BufSize
            /\ fifo' \in Seq(Events) /\ Len(fifo') <= FifoSize
            /\ overflow' = FALSE
            /\ IF overflow THEN Queued' = <<>> ELSE Queued' = Queued
        BY <1>0, <3>1, Fetched
      <3>3. CASE overflow
        <4>1. Flow'
          BY <3>2, <3>3, EmptyFlow
        <4> QED
          BY <1>0, <3>1, <3>2, <3>3, <4>1, GapLogged
      <3>4. CASE ~overflow
        <4>1. log' = log /\ Queued' = Queued /\ overflow' = overflow
          BY <1>0, <3>1, <3>2, <3>4 DEF TypeOK
        <4>2. Flow' /\ Continued' /\ Reported'
          BY <1>0, <1>1, <4>1, NothingLogged
        <4> QED
          BY <1>0, <3>2, <4>1, <4>2 DEF TypeOK
      <3> QED
        BY <3>3, <3>4
    <2>2. CASE drop_input
      <3>1. ibuf' = <<>> /\ fifo' = <<>> /\ overflow' = FALSE /\ log' = Append(log, Gap)
        BY <2>2 DEF drop_input
      <3>2. /\ ibuf' \in Seq(Events) /\ Len(ibuf') = 0
            /\ fifo' \in Seq(Events) /\ Len(fifo') = 0
        BY <1>3, <3>1, Zenon
      <3>3. Queued' = <<>>
        BY <1>3, <3>1, ConcatEmptySeq DEF Queued
      <3>4. Flow'
        BY <3>3, EmptyFlow
      <3>5. Continued' /\ Reported' /\ log' \in Seq(Events \union {Gap})
        BY <1>0, <3>1, <3>4, GapLogged
      <3>6. Len(ibuf') <= BufSize /\ Len(fifo') <= FifoSize
        BY <3>2
      <3> QED
        BY <3>1, <3>2, <3>4, <3>5, <3>6, Zenon
    <2>3. CASE drop_input_buffer
      <3>1. ibuf' = <<>> /\ fifo' = fifo /\ overflow' = overflow /\ log' = Append(log, Gap)
        BY <2>3 DEF drop_input_buffer, kernel
      <3>2. ibuf' \in Seq(Events) /\ Len(ibuf') = 0
        BY <1>3, <3>1, Zenon
      <3>3. Queued' = fifo
        BY <1>0, <3>1, Sequences, ConcatEmptySeq DEF Queued
      <3>4. /\ Len(Queued) = Len(ibuf) + Len(fifo) /\ Len(ibuf) \in Nat /\ Len(fifo) \in Nat
            /\ \A i \in 1..Len(fifo) : fifo[i] = Queued[i + Len(ibuf)]
            /\ \A i \in 1..Len(Queued) : Queued[i] \in Nat
        <4>1. \A i \in 1..(Len(ibuf) + Len(fifo)) :
                  Queued[i] = IF i <= Len(ibuf) THEN ibuf[i] ELSE fifo[i - Len(ibuf)]
          BY <1>0, Sequences, ConcatProperties DEF Queued
        <4>2. Len(Queued) = Len(ibuf) + Len(fifo) /\ Len(ibuf) \in Nat /\ Len(fifo) \in Nat
          BY <1>0, Sequences
        <4>3. \A i \in 1..Len(fifo) : fifo[i] = Queued[i + Len(ibuf)]
          <5> TAKE i \in 1..Len(fifo)
          <5>1. i + Len(ibuf) \in 1..(Len(ibuf) + Len(fifo)) /\ ~(i + Len(ibuf) <= Len(ibuf))
                /\ i + Len(ibuf) - Len(ibuf) = i
            BY <4>2
          <5> QED
            BY <4>1, <5>1
        <4>4. \A i \in 1..Len(Queued) : Queued[i] \in Nat
          BY <1>0, Sequences DEF Events
        <4> QED
          BY <4>2, <4>3, <4>4
      <3>5. InARow(fifo)
        <4> SUFFICES ASSUME NEW i \in 1..Len(fifo)
                     PROVE  fifo[i] = fifo[1] + i - 1
          BY DEF InARow
        <4>1. 1 \in 1..Len(fifo) /\ i + Len(ibuf) \in 1..Len(Queued) /\ 1 + Len(ibuf) \in 1..Len(Queued)
              /\ 1 \in 1..Len(Queued)
          BY <3>4
        <4>2. /\ Queued[i + Len(ibuf)] = Queued[1] + (i + Len(ibuf)) - 1
              /\ Queued[1 + Len(ibuf)] = Queued[1] + (1 + Len(ibuf)) - 1
          BY <1>0, <4>1 DEF Flow, InARow
        <4>3. fifo[i] = Queued[i + Len(ibuf)] /\ fifo[1] = Queued[1 + Len(ibuf)] /\ Queued[1] \in Nat
          BY <3>4, <4>1
        <4> QED
          BY <3>4, <4>2, <4>3
      <3>6. ~overflow => \A i \in 1..Len(fifo) : fifo[i] = arrived - Len(fifo) + i
        BY <1>0, <3>4 DEF Flow, TypeOK
      <3>7. Flow'
        BY <1>1, <3>1, <3>3, <3>5, <3>6 DEF Flow, InARow
      <3>8. Continued' /\ Reported' /\ log' \in Seq(Events \union {Gap})
        BY <1>0, <3>1, <3>7, GapLogged
      <3>9. Len(ibuf') <= BufSize
        BY <3>2
      <3> QED
        BY <1>0, <3>1, <3>2, <3>7, <3>8, <3>9 DEF TypeOK
    <2> QED
      BY <2>1, <2>2, <2>3
  <1>5. TypeOK'
    BY <1>0, <1>1, <1>4 DEF TypeOK
  <1> QED
    BY <1>2, <1>4, <1>5 DEF IInv

-----------------------------------------------------------------------------
(* The theorems.                                                           *)

\* At first nothing was sent and nothing is read.
LEMMA InitIInv == Init => IInv
  <1> SUFFICES ASSUME Init
               PROVE  IInv
    OBVIOUS
  <1>1. <<>> \in Seq(Events) /\ <<>> \in Seq(Events \union {Gap}) /\ Len(<<>>) = 0
    BY EmptySeq
  <1>2. /\ fifo \in Seq(Events) /\ ibuf \in Seq(Events) /\ log \in Seq(Events \union {Gap})
        /\ Len(fifo) = 0 /\ Len(ibuf) = 0 /\ Len(log) = 0
    BY <1>1, Zenon DEF Init
  <1>3. TypeOK
    <2>1. Len(fifo) <= FifoSize /\ Len(ibuf) <= BufSize
      BY <1>2
    <2>2. /\ arrived \in 0..MaxEvents /\ ~overflow /\ overflow \in BOOLEAN
          /\ pc \in {"idle", "try", "check", "poll"} /\ waits \in BOOLEAN
          /\ timeout \in Timeouts \union {0} /\ left \in 0..timeout /\ nap \in -1..timeout
          /\ result \in {"event", "error", "EAGAIN", "None"} /\ fresh \in 0..MaxEvents
      <3>1. /\ arrived = 0 /\ overflow = FALSE /\ fresh = 0 /\ pc = "idle" /\ waits = FALSE
            /\ timeout = 0 /\ left = 0 /\ nap = 0 /\ result = "event"
        BY DEF Init
      <3>2. 0 \in 0..MaxEvents /\ left \in 0..timeout /\ nap \in -1..timeout
        BY <3>1
      <3> QED
        BY <3>1, <3>2, Zenon
    <2> QED
      BY <1>2, <2>1, <2>2 DEF TypeOK
  <1>4. Len(Queued) = 0
    BY <1>2, <1>3, Sequences
  <1>5. Flow /\ Reported
    BY <1>2, <1>4 DEF Flow, InARow, Reported
  <1>6. Continued
    BY <1>2, <1>4 DEF Continued, Last, Init
  <1>7. InTime
    BY DEF InTime, Init
  <1> QED
    BY <1>3, <1>5, <1>6, <1>7 DEF IInv

\* The strengthened invariant is inductive.
LEMMA Inductive == IInv /\ [Next]_vars => IInv'
  <1> SUFFICES ASSUME IInv, [Next]_vars
               PROVE  IInv'
    OBVIOUS
  <1>1. CASE Arrive
    BY <1>1, ArriveSafe
  <1>2. ASSUME NEW t \in Timeouts \union {0}, NEW w \in BOOLEAN, Begin(w, t)
        PROVE  IInv'
    BY <1>2, WaitSafe
  <1>3. CASE Tick \/ TryAgain \/ GiveUp \/ Poll \/ Wake
    <2>1. 0 \in Timeouts \union {0} /\ TRUE \in BOOLEAN
      OBVIOUS
    <2> QED
      BY <1>3, <2>1, WaitSafe
  <1>4. CASE TryEvent
    BY <1>4, TryEventSafe
  <1>5. CASE TryFailed
    BY <1>5, TryFailedSafe
  <1>6. CASE event_input_pending \/ drop_input \/ drop_input_buffer
    BY <1>6, IdleSafe
  <1>7. CASE UNCHANGED vars
    <2>1. UNCHANGED <<arrived, fifo, overflow, fresh, ibuf, pc, waits, timeout, left, nap, log, result>>
      BY <1>7 DEF vars, kernel, inCall
    <2>2. TypeOK' /\ Reported' /\ InTime'
      BY <2>1, Zenon DEF IInv, TypeOK, Reported, InTime
    <2>3. Queued' = Queued /\ Last' = Last /\ Complete' = Complete
      BY <2>1 DEF Queued, Last, Complete
    <2>4. Flow' /\ Continued'
      BY <2>1, <2>3 DEF IInv, Flow, InARow, Continued
    <2> QED
      BY <2>2, <2>4 DEF IInv
  <1> QED
    BY <1>1, <1>2, <1>3, <1>4, <1>5, <1>6, <1>7 DEF Next

\* The strengthened invariant holds in every reachable state.
THEOREM Invariant == Spec => []IInv
  BY InitIInv, Inductive, PTL DEF Spec

\* Every variable keeps its type; only a FIFO that is full overflows.
THEOREM TypeCorrect == Spec => []TypeOK
  <1>1. IInv => TypeOK
    BY DEF IInv
  <1> QED
    BY <1>1, Invariant, PTL

\* event_input returns the events in the order they were sent, each once, with an
\* error, or a drop the application asked for, wherever some are missing.
THEOREM NoSilentGap == Spec => []GapsReported
  <1>1. ASSUME IInv
        PROVE  GapsReported
    <2>1. TypeOK /\ Continued /\ Reported
      BY <1>1 DEF IInv
    <2>2. log \in Seq(Events \union {Gap}) /\ Len(log) \in Nat /\ Queued \in Seq(Events)
      BY <2>1, Sequences
    <2>3. CASE Queued = <<>>
      <3>1. Results = log
        BY <2>2, <2>3, ConcatEmptySeq DEF Results, Queued
      <3>2. DOMAIN log = 1..Len(log)
        BY <2>2, LenProperties
      <3> QED
        BY <2>1, <3>1, <3>2 DEF GapsReported, Reported
    <2>4. CASE Queued # <<>>
      <3>1. Len(Queued) > 0 /\ Queued[1] \in Events /\ Head(Queued) = Queued[1]
        BY <2>2, <2>4, EmptyLen, HeadIsFirst
      <3>2. Results = Append(log, Queued[1])
        <4>1. Results = log \o <<Queued[1]>>
          BY <2>4, <3>1 DEF Results, Queued
        <4>2. Append(log, Queued[1]) = log \o <<Queued[1]>>
          BY <2>2, <3>1, AppendIsConcat
        <4> QED
          BY <4>1, <4>2
      <3>3. /\ DOMAIN Results = 1..(Len(log) + 1)
            /\ \A i \in 1..Len(log) : Results[i] = log[i]
            /\ Results[Len(log) + 1] = Queued[1]
        BY <2>2, <3>1, <3>2, AppendProperties, LenProperties
      <3>4. Complete => Queued[1] = Last + 1
        BY <2>1, <3>1 DEF Continued
      <3> SUFFICES ASSUME NEW i \in DOMAIN Results
                   PROVE  LET before == IF i = 1 THEN 0 ELSE Results[i - 1]
                          IN  Results[i] # Gap /\ (i = 1 \/ before # Gap) => Results[i] = before + 1
        BY DEF GapsReported
      <3>5. CASE i \in 1..Len(log)
        BY <2>1, <2>2, <3>3, <3>5 DEF Reported
      <3>6. CASE i = Len(log) + 1
        BY <2>2, <3>3, <3>4, <3>6 DEF Complete, Last
      <3> QED
        BY <2>2, <3>3, <3>5, <3>6
    <2> QED
      BY <2>3, <2>4
  <1> QED
    BY <1>1, Invariant, PTL

\* event_input polls only with an empty buffer, and not past its deadline.
THEOREM NeverOversleeps == Spec => []SleepsRight
  <1>1. ASSUME IInv
        PROVE  SleepsRight
    <2>1. TypeOK /\ InTime
      BY <1>1 DEF IInv
    <2> QED
      BY <2>1, Sequences DEF SleepsRight, InTime
  <1> QED
    BY <1>1, Invariant, PTL

\* event_input returns None only at its deadline, after a try made since the last
\* poll has found nothing.
THEOREM NoneIsTrue == Spec => NoneFoundNothing
  <1>1. ASSUME IInv, [Next]_vars
        PROVE  [result' = "None" /\ pc' = "idle" /\ pc # "idle" =>
                   timeout > 0 /\ left = 0 /\ ibuf = <<>> /\ Len(fifo) <= fresh]_vars
    <2> SUFFICES ASSUME Next, result' = "None", pc' = "idle", pc # "idle"
                 PROVE  timeout > 0 /\ left = 0 /\ ibuf = <<>> /\ Len(fifo) <= fresh
      BY <1>1
    <2>1. GiveUp
      BY DEF Next, Arrive, Tick, Begin, TryEvent, TryFailed, TryAgain, Poll, Wake, Return,
             event_input_pending, drop_input, drop_input_buffer, inCall
    <2>2. TypeOK /\ InTime
      BY <1>1 DEF IInv
    <2> QED
      BY <2>1, <2>2, Sequences DEF GiveUp, Expired, InTime
  <1> QED
    BY <1>1, Invariant, PTL DEF Spec, NoneFoundNothing
=============================================================================
