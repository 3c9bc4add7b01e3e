-------------------------- MODULE MidoBackend_proofs --------------------------
(***************************************************************************)
(* For any number of MIDO ports, ids and events: the input thread hands    *)
(* each event on once and in order, and neither passes over an event of an *)
(* open port nor gives it to another, however ports are opened, closed and *)
(* dropped meanwhile and their ids passed on.                              *)
(***************************************************************************)
EXTENDS MidoBackend, SequenceTheorems, TLAPS

USE MidoAssumption

Sent == [id : Ids, to : Inputs, ready : BOOLEAN]

\* The event n may be handed to the object p.
Own(n, p) == sent[n].to = p \/ ~sent[n].ready \/ Closed(sent[n].to)

\* An object that has a port has it under its id; one that is open is entered in
\* ports; and so is the object of an event that was sent when it was open, under
\* the id the event was sent to, unless it has been closed.
PortsKept ==
    /\ \A p \in Ports : phase[p] \in {"created", "open"} => kports[portId[p]] = p
    /\ \A q \in Ids : kports[q] # None => portId[kports[q]] = q
    /\ \A p \in Ports : phase[p] = "open" => ports[portId[p]] = p
    /\ \A n \in 1..Len(sent) : sent[n].ready /\ ~Closed(sent[n].to) =>
          phase[sent[n].to] = "open" /\ portId[sent[n].to] = sent[n].id

\* What the thread has done with: handed on or passed over.
Dealt == ignored \union UNION {Handled(p) : p \in Ports}

\* The events come in the order they were sent: those in the FIFO after the one the
\* thread has, and that after all the thread has done with.
InFlow ==
    /\ Increasing(fifo)
    /\ \A n \in Range(fifo) : n <= Len(sent) /\ thread.event < n /\ \A m \in Dealt : m < n
    /\ thread.event <= Len(sent)
    /\ \A m \in Dealt : m <= Len(sent) /\ (thread.event # 0 => m < thread.event)

\* The thread has an event from its reading to its handing on, and an object that
\* may be handed it once it has looked it up.
AtHand ==
    /\ thread.event # 0 <=> thread.pc \in {"route", "handle", "call"}
    /\ thread.pc \in {"handle", "call"} => thread.port \in Inputs /\ Own(thread.event, thread.port)

IInv ==
    /\ TypeOK /\ InOrderOnce /\ OnlyOwnEvents /\ OpenPortsHear
    /\ PortsKept /\ InFlow /\ AtHand

-----------------------------------------------------------------------------
(* Sequences.                                                              *)

\* The head of a sequence is its first element.
LEMMA HeadIsFirst ==
    ASSUME NEW S, NEW s \in Seq(S), s # <<>>
    PROVE  Head(s) = s[1] /\ 1 \in 1..Len(s)
  <1>1. Len(s) \in Nat \ {0}
    BY EmptySeq
  <1>2. SubSeq(s, 1, Len(s)) = s
    BY SubSeqFull
  <1> QED
    BY <1>1, <1>2, HeadTailOfSubSeq

\* What is in a sequence when an element has been appended.
LEMMA RangeAppend ==
    ASSUME NEW S, NEW s \in Seq(S), NEW e \in S
    PROVE  Range(Append(s, e)) = Range(s) \union {e}
  <1>1. /\ DOMAIN s = 1..Len(s) /\ Len(s) \in Nat
        /\ DOMAIN Append(s, e) = 1..(Len(s) + 1)
    BY LenProperties, AppendProperties
  <1>2. \A i \in 1..(Len(s) + 1) : Append(s, e)[i] = IF i <= Len(s) THEN s[i] ELSE e
    BY <1>1, AppendProperties
  <1> QED
    BY <1>1, <1>2 DEF Range

\* A sequence of events stays in order when a later one is appended.
LEMMA IncreasingAppend ==
    ASSUME NEW s \in Seq(Events), NEW e \in Events, Increasing(s), \A m \in Range(s) : m < e
    PROVE  Increasing(Append(s, e))
  <1>1. DOMAIN s = 1..Len(s) /\ Len(s) \in Nat
    BY LenProperties
  <1>2. /\ DOMAIN Append(s, e) = 1..(Len(s) + 1)
        /\ \A i \in 1..Len(s) : Append(s, e)[i] = s[i]
        /\ Append(s, e)[Len(s) + 1] = e
    BY AppendProperties, LenProperties
  <1> SUFFICES ASSUME NEW i \in DOMAIN Append(s, e), NEW j \in DOMAIN Append(s, e), i < j
               PROVE  Append(s, e)[i] < Append(s, e)[j]
    BY DEF Increasing
  <1>3. i \in 1..Len(s)
    BY <1>1, <1>2
  <1>4. CASE j = Len(s) + 1
    BY <1>1, <1>2, <1>3, <1>4 DEF Range
  <1>5. CASE j # Len(s) + 1
    BY <1>1, <1>2, <1>3, <1>5 DEF Increasing
  <1> QED
    BY <1>4, <1>5

\* The head of an increasing sequence comes before the others, which stay in order.
LEMMA IncreasingTail ==
    ASSUME NEW s \in Seq(Events), s # <<>>, Increasing(s)
    PROVE  /\ Tail(s) \in Seq(Events) /\ Len(Tail(s)) = Len(s) - 1
           /\ Increasing(Tail(s)) /\ Range(Tail(s)) \subseteq Range(s)
           /\ Head(s) \in Range(s) /\ Head(s) \in Events
           /\ \A n \in Range(Tail(s)) : Head(s) < n
  <1>1. DOMAIN s = 1..Len(s) /\ Len(s) \in Nat
    BY LenProperties
  <1>2. /\ Tail(s) \in Seq(Events) /\ Len(Tail(s)) = Len(s) - 1
        /\ \A i \in 1..(Len(s) - 1) : Tail(s)[i] = s[i + 1]
    BY HeadTailProperties
  <1>3. DOMAIN Tail(s) = 1..(Len(s) - 1)
    BY <1>2, LenProperties
  <1>4. Head(s) = s[1] /\ 1 \in DOMAIN s
    BY <1>1, HeadIsFirst
  <1>5. ASSUME NEW i \in DOMAIN Tail(s)
        PROVE  Tail(s)[i] = s[i + 1] /\ i + 1 \in DOMAIN s /\ 1 < i + 1
    BY <1>1, <1>2, <1>3
  <1>6. Increasing(Tail(s))
    BY <1>3, <1>5 DEF Increasing
  <1>7. \A n \in Range(Tail(s)) : n \in Range(s) /\ Head(s) < n
    BY <1>4, <1>5 DEF Range, Increasing
  <1>8. Head(s) \in Range(s) /\ Head(s) \in Events
    BY <1>1, <1>4, ElementOfSeq DEF Range
  <1> QED
    BY <1>2, <1>6, <1>7, <1>8

\* Moving the head of one sequence to the end of the one before changes nothing.
LEMMA MoveHead ==
    ASSUME NEW S, NEW r \in Seq(S), NEW q \in Seq(S), q # <<>>
    PROVE  Append(r, Head(q)) \o Tail(q) = r \o q
  <1>1. Head(q) \in S /\ Tail(q) \in Seq(S) /\ <<Head(q)>> \in Seq(S)
    BY HeadTailProperties
  <1>2. Append(r, Head(q)) = r \o <<Head(q)>>
    BY <1>1, AppendIsConcat
  <1>3. <<Head(q)>> \o Tail(q) = q
    <2>1. Len(q) \in Nat /\ 1 \in 1..Len(q) /\ Head(q) = q[1]
      BY HeadIsFirst, LenProperties
    <2>2. SubSeq(q, 1, Len(q)) = <<q[1]>> \o SubSeq(q, 2, Len(q))
      BY <2>1, SubSeqRecursiveFirst
    <2>3. SubSeq(q, 1, Len(q)) = q /\ Tail(q) = SubSeq(q, 2, Len(q))
      BY SubSeqFull, TailIsSubSeq
    <2> QED
      BY <2>1, <2>2, <2>3
  <1> QED
    BY <1>1, <1>2, <1>3, ConcatAssociative

\* Appending to the second of two sequences appends to both together.
LEMMA AppendConcat ==
    ASSUME NEW S, NEW r \in Seq(S), NEW q \in Seq(S), NEW e \in S
    PROVE  r \o Append(q, e) = Append(r \o q, e)
  <1>1. <<e>> \in Seq(S) /\ r \o q \in Seq(S)
    BY ConcatProperties
  <1>2. Append(q, e) = q \o <<e>> /\ Append(r \o q, e) = (r \o q) \o <<e>>
    BY <1>1, AppendIsConcat
  <1> QED
    BY <1>1, <1>2, ConcatAssociative

\* What is in a sequence of events are events.
LEMMA RangeEvents ==
    ASSUME NEW s \in Seq(Events)
    PROVE  Range(s) \subseteq Events /\ 0 \notin Range(s)
  BY RangeOfSeq DEF Events

\* What is handed to an object are events.
LEMMA HandledEvents ==
    ASSUME TypeOK, NEW p \in Ports
    PROVE  /\ called[p] \in Seq(Events) /\ queue[p] \in Seq(Events) /\ received[p] \in Seq(Events)
           /\ Queued(p) \in Seq(Events)
           /\ Range(Queued(p)) = Range(received[p]) \union Range(queue[p])
           /\ Handled(p) \subseteq Events
  <1>1. called \in [Ports -> Seq(Events)] /\ queue \in [Ports -> Seq(Events)]
        /\ received \in [Ports -> Seq(Events)]
    BY DEF TypeOK
  <1>2. called[p] \in Seq(Events) /\ queue[p] \in Seq(Events) /\ received[p] \in Seq(Events)
    BY <1>1
  <1>3. Queued(p) \in Seq(Events)
    BY <1>2, ConcatProperties DEF Queued
  <1>4. Range(Queued(p)) = Range(received[p]) \union Range(queue[p])
    BY <1>2, RangeConcatenation DEF Queued
  <1>5. Handled(p) \subseteq Events
    BY <1>2, <1>3, RangeEvents DEF Handled
  <1> QED
    BY <1>2, <1>3, <1>4, <1>5

-----------------------------------------------------------------------------
(* Types.                                                                  *)

\* The event the thread has been sent.
LEMMA EventSent ==
    ASSUME TypeOK, InFlow, AtHand, thread.event # 0
    PROVE  /\ thread.event \in Events /\ thread.event \in 1..Len(sent) /\ Event \in Sent
           /\ Len(sent) \in Nat
  <1>1. sent \in Seq(Sent) /\ thread.event \in Events
    BY DEF TypeOK, Sent
  <1>2. Len(sent) \in Nat
    BY <1>1, LenProperties
  <1>3. thread.event \in 1..Len(sent)
    BY <1>1, <1>2 DEF InFlow, Events
  <1> QED
    BY <1>1, <1>2, <1>3, ElementOfSeq DEF Event

\* The objects that have a port are the ones in use, whatever object step is taken.
LEMMA InUse ==
    ASSUME TypeOK, PortsKept, NEW p \in Ports
    PROVE  /\ phase[p] \in {"created", "open"} =>
                 portId[p] \in Ids /\ kports[portId[p]] = p
           /\ \A q \in Ids : kports[q] = p => q = portId[p] /\ phase[p] \in {"created", "open"}
           /\ p # None
  BY DEF TypeOK, PortsKept

\* Every variable keeps its type when an object is opened, closed or dropped.
LEMMA ObjectTypes ==
    ASSUME TypeOK, PortsKept, NEW p \in Ports,
           \/ \E q \in Ids : create_port(p, q)
           \/ connect_fails(p) \/ register_port(p) \/ close_port(p) \/ collect_port(p)
    PROVE  TypeOK'
  <1>0. /\ kports \in [Ids -> Ports \union {None}] /\ ports \in [Ids -> Ports \union {None}]
        /\ phase \in [Ports -> {"new", "created", "open", "closed", "gone"}]
        /\ portId \in [Ports -> Ids] /\ callback \in [Ports -> BOOLEAN]
        /\ portId[p] \in Ids
    BY DEF TypeOK
  <1>1. UNCHANGED <<fifo, overflow, sent, queue, called, received, thread, ignored>>
    BY DEF create_port, connect_fails, register_port, close_port, collect_port, kernel, inputs
  <1>2. /\ kports' \in [Ids -> Ports \union {None}] /\ ports' \in [Ids -> Ports \union {None}]
        /\ phase' \in [Ports -> {"new", "created", "open", "closed", "gone"}]
        /\ portId' \in [Ports -> Ids] /\ callback' \in [Ports -> BOOLEAN]
        /\ \A r \in Ports : phase'[r] \in {"created", "open"} <=> \E q \in Ids : kports'[q] = r
    <2>1. ASSUME NEW q \in Ids, create_port(p, q)
          PROVE  <1>2!:
      <3>1. callback' \in [Ports -> BOOLEAN]
        BY <1>0, <2>1 DEF create_port, objects
      <3>2. /\ kports' \in [Ids -> Ports \union {None}] /\ ports' \in [Ids -> Ports \union {None}]
            /\ phase' \in [Ports -> {"new", "created", "open", "closed", "gone"}]
            /\ portId' \in [Ports -> Ids]
            /\ kports'[q] = p /\ kports[q] = None /\ phase'[p] = "created" /\ phase[p] = "new"
            /\ \A r \in Ids : r # q => kports'[r] = kports[r]
            /\ \A r \in Ports : r # p => phase'[r] = phase[r]
        BY <1>0, <2>1 DEF create_port
      <3>3. ASSUME NEW r \in Ports
            PROVE  phase'[r] \in {"created", "open"} <=> \E x \in Ids : kports'[x] = r
        <4>1. phase[r] \in {"created", "open"} <=> \E x \in Ids : kports[x] = r
          BY DEF TypeOK
        <4>2. CASE r = p
          BY <3>2, <4>2
        <4>3. CASE r # p
          <5>1. r # None
            OBVIOUS
          <5>2. \A x \in Ids : kports'[x] = r <=> kports[x] = r
            BY <3>2, <4>3, <5>1
          <5> QED
            BY <3>2, <4>1, <4>3, <5>2
        <4> QED
          BY <4>2, <4>3
      <3> QED
        BY <3>1, <3>2, <3>3
    <2>2. ASSUME connect_fails(p) \/ close_port(p)
          PROVE  <1>2!:
      <3>1. UNCHANGED <<portId, ports, callback>>
        BY <2>2 DEF connect_fails, close_port
      <3>2. /\ kports' = [kports EXCEPT ![portId[p]] = None]
            /\ phase[p] \in {"created", "open"}
            /\ phase' = [phase EXCEPT ![p] = "gone"] \/ phase' = [phase EXCEPT ![p] = "closed"]
        BY <2>2 DEF connect_fails, close_port
      <3>3. ASSUME NEW r \in Ports
            PROVE  phase'[r] \in {"created", "open"} <=> \E x \in Ids : kports'[x] = r
        <4>1. CASE r = p
          BY <1>0, <3>2, <4>1, InUse
        <4>2. CASE r # p
          <5>1. phase'[r] = phase[r]
            BY <1>0, <3>2, <4>2
          <5>2. \A x \in Ids : kports'[x] = r <=> kports[x] = r
            BY <1>0, <3>2, <4>2, InUse
          <5>3. phase[r] \in {"created", "open"} <=> \E x \in Ids : kports[x] = r
            BY DEF TypeOK
          <5> QED
            BY <5>1, <5>2, <5>3
        <4> QED
          BY <4>1, <4>2
      <3> QED
        BY <1>0, <3>1, <3>2, <3>3
    <2>3. ASSUME register_port(p) \/ collect_port(p)
          PROVE  <1>2!:
      <3>1. /\ UNCHANGED <<kports, portId, callback>>
            /\ ports' \in [Ids -> Ports \union {None}]
            /\ phase' \in [Ports -> {"new", "created", "open", "closed", "gone"}]
        BY <1>0, <2>3 DEF register_port, collect_port
      <3>2. \A r \in Ports : phase'[r] \in {"created", "open"} <=> phase[r] \in {"created", "open"}
        BY <1>0, <2>3 DEF register_port, collect_port
      <3> QED
        BY <1>0, <3>1, <3>2 DEF TypeOK
    <2> QED
      BY <2>1, <2>2, <2>3
  <1> QED
    BY <1>1, <1>2 DEF TypeOK

\* Setting a callback changes nothing else.
LEMMA SetCallbackTypes ==
    ASSUME TypeOK, NEW p \in Ports, NEW b \in Calls, set_callback(p, b)
    PROVE  TypeOK'
  <1>1. callback' \in [Ports -> BOOLEAN]
    BY DEF set_callback, TypeOK
  <1>2. UNCHANGED <<kports, fifo, overflow, sent, phase, portId, ports, queue, called, received,
                    thread, ignored>>
    BY DEF set_callback, kernel, objects, inputs
  <1> QED
    BY <1>1, <1>2 DEF TypeOK

\* An event gets into the FIFO only when there is room.
LEMMA SendTypes ==
    ASSUME TypeOK, NEW q \in Ids, Send(q)
    PROVE  TypeOK'
  <1>1. sent \in Seq(Sent) /\ fifo \in Seq(Events) /\ Len(fifo) <= FifoSize
        /\ kports[q] \in Inputs /\ kports[q] \in Ports
    BY DEF TypeOK, Send, Sent
  <1>2. Len(sent) \in Nat /\ Len(fifo) \in Nat /\ Len(sent) < MaxEvents
    BY <1>1, LenProperties DEF Send
  <1>3. [id |-> q, to |-> kports[q], ready |-> phase[kports[q]] = "open"] \in Sent
    BY <1>1 DEF Sent
  <1>4. sent' \in Seq(Sent)
    BY <1>1, <1>3, AppendProperties DEF Send
  <1>5. fifo' \in Seq(Events) /\ Len(fifo') <= FifoSize /\ overflow' \in BOOLEAN
    <2>1. Len(sent) + 1 \in Events
      BY <1>2 DEF Events
    <2>2. CASE Len(fifo) < FifoSize
      <3>1. fifo' = Append(fifo, Len(sent) + 1) /\ overflow' = overflow
        BY <2>2 DEF Send
      <3> QED
        BY <1>1, <1>2, <2>1, <2>2, <3>1, AppendProperties DEF TypeOK
    <2>3. CASE ~(Len(fifo) < FifoSize)
      BY <1>1, <2>3 DEF Send
    <2> QED
      BY <2>2, <2>3
  <1>6. UNCHANGED <<kports, phase, portId, ports, callback, queue, called, received, thread, ignored>>
    BY DEF Send, objects, inputs
  <1> QED
    BY <1>4, <1>5, <1>6 DEF TypeOK, Sent

\* receive takes from the queue of an Input.
LEMMA ReceiveTypes ==
    ASSUME TypeOK, NEW p \in Ports, receive(p)
    PROVE  TypeOK'
  <1>1. /\ queue \in [Ports -> Seq(Events)] /\ received \in [Ports -> Seq(Events)]
        /\ queue[p] # <<>> /\ p \in Inputs
    BY DEF TypeOK, receive
  <1>2. Head(queue[p]) \in Events /\ Tail(queue[p]) \in Seq(Events)
    BY <1>1, HeadTailProperties
  <1>3. Append(received[p], Head(queue[p])) \in Seq(Events)
    BY <1>1, <1>2, AppendProperties
  <1>4. queue' \in [Ports -> Seq(Events)] /\ received' \in [Ports -> Seq(Events)]
    BY <1>1, <1>2, <1>3 DEF receive
  <1>5. \A r \in Ports \ Inputs : queue'[r] = <<>> /\ received'[r] = <<>>
    BY <1>1 DEF receive, TypeOK
  <1>6. UNCHANGED <<kports, fifo, overflow, sent, phase, portId, ports, callback, called, thread,
                    ignored>>
    BY DEF receive, kernel, objects
  <1>7. \A f \in {queue', called', received'} :
           f \in [Ports -> Seq(Events)] /\ \A r \in Ports \ Inputs : f[r] = <<>>
    <2>1. called' \in [Ports -> Seq(Events)] /\ \A r \in Ports \ Inputs : called'[r] = <<>>
      BY <1>6 DEF TypeOK
    <2> QED
      BY <1>4, <1>5, <2>1, Zenon
  <1>8. \A r \in Ports : phase'[r] \in {"created", "open"} <=> \E q \in Ids : kports'[q] = r
    BY <1>6, Zenon DEF TypeOK
  <1>9. /\ kports' \in [Ids -> Ports \union {None}] /\ overflow' \in BOOLEAN
        /\ fifo' \in Seq(Events) /\ Len(fifo') <= FifoSize
        /\ sent' \in Seq([id : Ids, to : Inputs, ready : BOOLEAN])
        /\ phase' \in [Ports -> {"new", "created", "open", "closed", "gone"}]
        /\ portId' \in [Ports -> Ids] /\ ports' \in [Ids -> Ports \union {None}]
        /\ callback' \in [Ports -> BOOLEAN] /\ ignored' \subseteq Events
        /\ thread' \in [pc : {"read", "route", "handle", "call", "dead"},
                        event : Events \union {0}, port : Ports \union {None}]
    BY <1>6 DEF TypeOK
  <1> QED
    BY <1>7, <1>8, <1>9, Zenon DEF TypeOK

\* What the thread does keeps the types: only Inputs are handed events.
LEMMA ThreadTypes ==
    ASSUME TypeOK, InFlow, AtHand, read \/ read_fails \/ route \/ handle \/ call \/ call_fails
    PROVE  TypeOK'
  <1> DEFINE Threads == [pc : {"read", "route", "handle", "call", "dead"},
                         event : Events \union {0}, port : Ports \union {None}]
  <1>0. /\ thread \in Threads /\ fifo \in Seq(Events) /\ Len(fifo) <= FifoSize
        /\ ports \in [Ids -> Ports \union {None}] /\ ignored \subseteq Events
        /\ queue \in [Ports -> Seq(Events)] /\ called \in [Ports -> Seq(Events)]
    BY DEF TypeOK
  <1>1. CASE read
    <2>1. fifo # <<>> /\ fifo' = Tail(fifo)
          /\ thread' = [thread EXCEPT !.pc = "route", !.event = Head(fifo)]
      BY <1>1 DEF read
    <2>2. fifo' \in Seq(Events) /\ Len(fifo') = Len(fifo) - 1 /\ Head(fifo) \in Events
      BY <1>0, <2>1, HeadTailProperties
    <2>3. Len(fifo) \in Nat
      BY <1>0, LenProperties
    <2>4. thread' \in Threads
      BY <1>0, <2>1, <2>2
    <2>5. UNCHANGED <<kports, overflow, sent, phase, portId, ports, callback, queue, called,
                      received, ignored>>
      BY <1>1 DEF read, objects, inputs
    <2>6. Len(fifo') <= FifoSize
      BY <1>0, <2>2, <2>3
    <2> HIDE DEF Threads
    <2>7. thread' \in [pc : {"read", "route", "handle", "call", "dead"},
                       event : Events \union {0}, port : Ports \union {None}]
      BY <2>4 DEF Threads
    <2> QED
      BY <2>2, <2>5, <2>6, <2>7, Zenon DEF TypeOK
  <1>2. CASE read_fails
    <2>1. thread' \in Threads
      BY <1>2 DEF read_fails, Stop
    <2>2. fifo' \in Seq(Events) /\ Len(fifo') <= FifoSize /\ overflow' \in BOOLEAN
      <3>1. fifo' = <<>> /\ overflow' = FALSE
        BY <1>2 DEF read_fails
      <3>2. <<>> \in Seq(Events) /\ Len(<<>>) = 0
        BY EmptySeq
      <3>3. fifo' \in Seq(Events) /\ Len(fifo') = 0
        BY <3>1, <3>2, Zenon
      <3>4. Len(fifo') <= FifoSize
        BY <3>3
      <3> QED
        BY <3>1, <3>3, <3>4, Zenon
    <2>3. UNCHANGED <<kports, sent, phase, portId, ports, callback, queue, called, received, ignored>>
      BY <1>2 DEF read_fails, objects, inputs
    <2> QED
      BY <2>1, <2>2, <2>3 DEF TypeOK
  <1>3. CASE route
    <2>1. thread.event \in Events /\ Event.id \in Ids
      BY <1>3, EventSent DEF route, AtHand, Sent
    <2>2. thread' \in Threads /\ ignored' \subseteq Events
      <3> DEFINE p == ports[Event.id]
      <3>1. p \in Ports \union {None}
        BY <1>0, <2>1
      <3>2. \/ /\ thread' = [pc |-> "read", event |-> 0, port |-> p]
               /\ ignored' = ignored \union {thread.event}
            \/ /\ thread' = [thread EXCEPT !.pc = "handle", !.port = p]
               /\ ignored' = ignored
        BY <1>3 DEF route
      <3> HIDE DEF p
      <3>3. thread' \in Threads
        <4>1. [pc |-> "read", event |-> 0, port |-> p] \in Threads
          BY <3>1
        <4>2. [thread EXCEPT !.pc = "handle", !.port = p] \in Threads
          BY <1>0, <3>1
        <4> QED
          BY <3>2, <4>1, <4>2, Zenon
      <3> QED
        BY <1>0, <2>1, <3>2, <3>3
    <2>3. UNCHANGED <<kports, fifo, overflow, sent, phase, portId, ports, callback, queue, called,
                      received>>
      BY <1>3 DEF route, kernel, objects, inputs
    <2> QED
      BY <2>2, <2>3 DEF TypeOK
  <1>4. CASE handle
    <2>1. thread.event \in Events /\ thread.port \in Inputs /\ thread.port \in Ports
      BY <1>4, EventSent DEF handle, AtHand
    <2>2. thread' \in Threads
      BY <1>0, <1>4, <2>1 DEF handle, Goto, NextEvent
    <2>3. Append(queue[thread.port], thread.event) \in Seq(Events)
      BY <1>0, <2>1, AppendProperties
    <2>4. queue' \in [Ports -> Seq(Events)] /\ \A r \in Ports \ Inputs : queue'[r] = <<>>
      <3>1. \A r \in Ports \ Inputs : queue[r] = <<>>
        BY DEF TypeOK
      <3> QED
        <4>1. \/ queue' = queue
              \/ queue' = [queue EXCEPT ![thread.port] = Append(queue[thread.port], thread.event)]
          BY <1>4 DEF handle
        <4>2. CASE queue' = queue
          BY <1>0, <3>1, <4>2
        <4>3. CASE queue' = [queue EXCEPT ![thread.port] = Append(queue[thread.port], thread.event)]
          BY <1>0, <2>1, <2>3, <3>1, <4>3
        <4> QED
          BY <4>1, <4>2, <4>3
    <2>5. UNCHANGED <<kports, fifo, overflow, sent, phase, portId, ports, callback, called,
                      received, ignored>>
      BY <1>4 DEF handle, kernel, objects
    <2> QED
      BY <2>2, <2>4, <2>5 DEF TypeOK
  <1>5. CASE call
    <2>1. thread.event \in Events /\ thread.port \in Inputs /\ thread.port \in Ports
      BY <1>5, EventSent DEF call, AtHand
    <2>2. thread' \in Threads
      BY <1>0, <1>5, <2>1 DEF call, NextEvent
    <2>3. Append(called[thread.port], thread.event) \in Seq(Events)
      BY <1>0, <2>1, AppendProperties
    <2>4. called' \in [Ports -> Seq(Events)] /\ \A r \in Ports \ Inputs : called'[r] = <<>>
      <3>1. \A r \in Ports \ Inputs : called[r] = <<>>
        BY DEF TypeOK
      <3> QED
        <4>1. called' = [called EXCEPT ![thread.port] = Append(called[thread.port], thread.event)]
          BY <1>5 DEF call
        <4> QED
          BY <1>0, <2>1, <2>3, <3>1, <4>1
    <2>5. UNCHANGED <<kports, fifo, overflow, sent, phase, portId, ports, callback, queue,
                      received, ignored>>
      BY <1>5 DEF call, kernel, objects
    <2>6. /\ queue \in [Ports -> Seq(Events)] /\ received \in [Ports -> Seq(Events)]
          /\ \A r \in Ports \ Inputs : queue[r] = <<>> /\ received[r] = <<>>
      BY DEF TypeOK
    <2> QED
      BY <2>2, <2>4, <2>5, <2>6 DEF TypeOK
  <1>6. CASE call_fails
    <2>1. thread' \in Threads
      BY <1>6 DEF call_fails, Stop
    <2>2. UNCHANGED <<kports, fifo, overflow, sent, phase, portId, ports, callback, queue, called,
                      received, ignored>>
      BY <1>6 DEF call_fails, kernel, objects, inputs
    <2> QED
      BY <2>1, <2>2 DEF TypeOK
  <1> QED
    BY <1>1, <1>2, <1>3, <1>4, <1>5, <1>6

-----------------------------------------------------------------------------
(* What the application and the kernel do.                                 *)

\* As long as closed objects stay closed, what an object's owner does leaves the
\* thread's part of the invariant as it is.
LEMMA SortedSafe ==
    ASSUME TypeOK, InOrderOnce, OnlyOwnEvents, OpenPortsHear, InFlow, AtHand,
           UNCHANGED <<fifo, thread, called, ignored, sent>>,
           \A p \in Ports : Queued(p)' = Queued(p),
           \A p \in Ports : Closed(p) => Closed(p)'
    PROVE  InOrderOnce' /\ OnlyOwnEvents' /\ OpenPortsHear' /\ InFlow' /\ AtHand'
  <1>0. UNCHANGED <<fifo, thread, called, ignored, sent>>
    OBVIOUS
  <1>1. \A p \in Ports : Queued(p)' = Queued(p) /\ Handled(p)' = Handled(p)
    BY <1>0 DEF Handled
  <1>2. Pending' = Pending /\ Dealt' = Dealt
    BY <1>0, <1>1 DEF Pending, Dealt
  <1>3. sent \in Seq(Sent) /\ \A n \in 1..Len(sent) : sent[n].to \in Ports
    <2>1. sent \in Seq(Sent)
      BY DEF TypeOK, Sent
    <2>2. ASSUME NEW n \in 1..Len(sent)
          PROVE  sent[n] \in Sent
      BY <2>1, ElementOfSeq
    <2> QED
      BY <2>1, <2>2 DEF Sent
  <1>4. \A n \in Dealt : n \in 1..Len(sent)
    <2>1. Dealt \subseteq Events
      BY HandledEvents DEF Dealt, TypeOK
    <2> QED
      BY <1>3, <2>1, LenProperties DEF InFlow, Events
  <1>5. InOrderOnce'
    BY <1>0, <1>1, <1>2 DEF InOrderOnce
  <1>6. InFlow'
    BY <1>0, <1>2 DEF InFlow
  <1>7. OnlyOwnEvents'
    BY <1>0, <1>1, <1>3, <1>4 DEF OnlyOwnEvents, Dealt
  <1>8. OpenPortsHear'
    BY <1>0, <1>3, <1>4 DEF OpenPortsHear, Dealt
  <1>9. AtHand'
    <2>1. CASE thread.event = 0
      BY <1>0, <2>1 DEF AtHand
    <2>2. CASE thread.event # 0
      <3>1. sent[thread.event].to \in Ports
        BY <1>3, <2>2, EventSent
      <3> QED
        BY <1>0, <3>1 DEF AtHand, Own
    <2> QED
      BY <2>1, <2>2
  <1> QED
    BY <1>5, <1>6, <1>7, <1>8, <1>9

\* Opening, closing and dropping an object keeps the ports of the others theirs.
LEMMA ObjectKeepsPorts ==
    ASSUME TypeOK, PortsKept, NEW p \in Ports,
           \/ \E q \in Ids : create_port(p, q)
           \/ connect_fails(p) \/ register_port(p) \/ close_port(p) \/ collect_port(p)
    PROVE  PortsKept' /\ \A r \in Ports : Closed(r) => Closed(r)'
  <1>0. /\ kports \in [Ids -> Ports \union {None}] /\ ports \in [Ids -> Ports \union {None}]
        /\ phase \in [Ports -> {"new", "created", "open", "closed", "gone"}]
        /\ portId \in [Ports -> Ids] /\ portId[p] \in Ids /\ sent' = sent
    BY DEF TypeOK, create_port, connect_fails, register_port, close_port, collect_port, kernel
  <1>1. \A n \in 1..Len(sent) : sent[n].to \in Ports
    <2>1. sent \in Seq(Sent)
      BY DEF TypeOK, Sent
    <2>2. ASSUME NEW n \in 1..Len(sent)
          PROVE  sent[n] \in Sent
      BY <2>1, ElementOfSeq
    <2> QED
      BY <2>2 DEF Sent
  <1>2. ASSUME NEW q \in Ids, create_port(p, q)
        PROVE  PortsKept' /\ \A r \in Ports : Closed(r) => Closed(r)'
    <2>1. /\ kports'[q] = p /\ kports[q] = None /\ \A x \in Ids : x # q => kports'[x] = kports[x]
          /\ phase[p] = "new" /\ phase'[p] = "created" /\ portId'[p] = q /\ ports' = ports
          /\ \A r \in Ports : r # p => phase'[r] = phase[r] /\ portId'[r] = portId[r]
      BY <1>0, <1>2 DEF create_port
    <2>2. \A r \in Ports : phase'[r] \in {"created", "open"} => kports'[portId'[r]] = r
      BY <1>0, <2>1, InUse
    <2>3. \A x \in Ids : kports'[x] # None => portId'[kports'[x]] = x
      <3> TAKE x \in Ids
      <3>1. CASE x = q
        BY <2>1, <3>1
      <3>2. CASE x # q
        <4>1. kports[x] # p
          BY <2>1, InUse
        <4> QED
          BY <1>0, <2>1, <3>2, <4>1 DEF PortsKept
      <3> QED
        BY <3>1, <3>2
    <2>4. \A r \in Ports : phase'[r] = "open" => ports'[portId'[r]] = r
      BY <2>1 DEF PortsKept
    <2>5. ASSUME NEW n \in 1..Len(sent), sent[n].ready, phase'[sent[n].to] \notin {"closed", "gone"}
          PROVE  phase'[sent[n].to] = "open" /\ portId'[sent[n].to] = sent[n].id
      <3>1. ~Closed(sent[n].to)
        BY <1>1, <2>1, <2>5 DEF Closed
      <3> QED
        BY <1>1, <2>1, <2>5, <3>1 DEF PortsKept
    <2> QED
      BY <1>0, <2>1, <2>2, <2>3, <2>4, <2>5 DEF PortsKept, Closed
  <1>3. ASSUME connect_fails(p) \/ close_port(p)
        PROVE  PortsKept' /\ \A r \in Ports : Closed(r) => Closed(r)'
    <2>1. /\ kports' = [kports EXCEPT ![portId[p]] = None]
          /\ phase[p] \in {"created", "open"} /\ phase'[p] \in {"closed", "gone"}
          /\ \A r \in Ports : r # p => phase'[r] = phase[r]
          /\ portId' = portId /\ ports' = ports
      BY <1>0, <1>3 DEF connect_fails, close_port
    <2>2. \A r \in Ports : phase'[r] \in {"created", "open"} => kports'[portId[r]] = r
      <3> SUFFICES ASSUME NEW r \in Ports, phase'[r] \in {"created", "open"}
                   PROVE  kports'[portId[r]] = r
        OBVIOUS
      <3>1. r # p /\ phase'[r] = phase[r]
        BY <2>1
      <3>2. portId[r] \in Ids /\ kports[portId[r]] = r
        BY <3>1, InUse
      <3>3. portId[r] # portId[p]
        BY <2>1, <3>1, <3>2, InUse
      <3> QED
        BY <1>0, <2>1, <3>2, <3>3
    <2>3. \A x \in Ids : kports'[x] # None => portId[kports'[x]] = x
      BY <1>0, <2>1 DEF PortsKept
    <2>4. \A r \in Ports : phase'[r] = "open" => ports[portId[r]] = r
      BY <2>1 DEF PortsKept
    <2>5. ASSUME NEW n \in 1..Len(sent), sent[n].ready, phase'[sent[n].to] \notin {"closed", "gone"}
          PROVE  phase'[sent[n].to] = "open" /\ portId[sent[n].to] = sent[n].id
      <3>1. sent[n].to # p /\ ~Closed(sent[n].to)
        BY <1>1, <2>1, <2>5 DEF Closed
      <3> QED
        BY <1>1, <2>1, <2>5, <3>1 DEF PortsKept
    <2> QED
      BY <1>0, <2>1, <2>2, <2>3, <2>4, <2>5 DEF PortsKept, Closed
  <1>4. ASSUME register_port(p)
        PROVE  PortsKept' /\ \A r \in Ports : Closed(r) => Closed(r)'
    <2>1. /\ ports' = [ports EXCEPT ![portId[p]] = p] /\ kports' = kports /\ portId' = portId
          /\ phase[p] = "created" /\ phase'[p] = "open"
          /\ \A r \in Ports : r # p => phase'[r] = phase[r]
      BY <1>0, <1>4 DEF register_port
    <2>2. ASSUME NEW r \in Ports, phase'[r] = "open"
          PROVE  ports'[portId[r]] = r
      <3>1. CASE r = p
        BY <1>0, <2>1, <3>1
      <3>2. CASE r # p
        <4>1. phase[r] = "open" /\ portId[r] # portId[p] /\ portId[r] \in Ids
          BY <2>1, <2>2, <3>2, InUse
        <4> QED
          BY <1>0, <2>1, <4>1 DEF PortsKept
      <3> QED
        BY <3>1, <3>2
    <2>3. ASSUME NEW n \in 1..Len(sent), sent[n].ready, phase'[sent[n].to] \notin {"closed", "gone"}
          PROVE  phase'[sent[n].to] = "open" /\ portId[sent[n].to] = sent[n].id
      <3>1. sent[n].to \in Ports /\ ~Closed(sent[n].to)
        BY <1>1, <2>1, <2>3 DEF Closed
      <3> QED
        BY <2>1, <2>3, <3>1 DEF PortsKept
    <2>4. \A r \in Ports : phase'[r] \in {"created", "open"} => kports[portId[r]] = r
      BY <2>1 DEF PortsKept
    <2> QED
      BY <1>0, <2>1, <2>2, <2>3, <2>4 DEF PortsKept, Closed
  <1>5. ASSUME collect_port(p)
        PROVE  PortsKept' /\ \A r \in Ports : Closed(r) => Closed(r)'
    <2>1. /\ ports' = [q \in Ids |-> IF ports[q] = p THEN None ELSE ports[q]]
          /\ kports' = kports /\ portId' = portId
          /\ phase[p] = "closed" /\ phase'[p] = "gone"
          /\ \A r \in Ports : r # p => phase'[r] = phase[r]
      BY <1>0, <1>5 DEF collect_port
    <2>2. ASSUME NEW r \in Ports, phase'[r] = "open"
          PROVE  ports'[portId[r]] = r
      <3>1. r # p /\ phase[r] = "open" /\ portId[r] \in Ids
        BY <1>0, <2>1, <2>2
      <3> QED
        BY <2>1, <3>1 DEF PortsKept
    <2>3. ASSUME NEW n \in 1..Len(sent), sent[n].ready, phase'[sent[n].to] \notin {"closed", "gone"}
          PROVE  phase'[sent[n].to] = "open" /\ portId[sent[n].to] = sent[n].id
      <3>1. sent[n].to \in Ports /\ sent[n].to # p /\ ~Closed(sent[n].to)
        BY <1>1, <2>1, <2>3 DEF Closed
      <3> QED
        BY <2>1, <2>3, <3>1 DEF PortsKept
    <2>4. \A r \in Ports : phase'[r] \in {"created", "open"} => kports[portId[r]] = r
      BY <2>1 DEF PortsKept
    <2> QED
      BY <1>0, <2>1, <2>2, <2>3, <2>4 DEF PortsKept, Closed
  <1> QED
    BY <1>2, <1>3, <1>4, <1>5

\* An event is sent to a port that is there, after all that were sent before.
LEMMA SendSafe ==
    ASSUME IInv, NEW q \in Ids, Send(q)
    PROVE  IInv'
  <1>0. /\ TypeOK /\ InOrderOnce /\ OnlyOwnEvents /\ OpenPortsHear /\ PortsKept /\ InFlow /\ AtHand
        /\ TypeOK'
    BY SendTypes DEF IInv
  <1> DEFINE k == Len(sent) + 1
             e == [id |-> q, to |-> kports[q], ready |-> phase[kports[q]] = "open"]
  <1>1. /\ UNCHANGED <<kports, phase, portId, ports, queue, called, received, thread, ignored>>
        /\ sent' = Append(sent, e) /\ Len(sent) < MaxEvents /\ kports[q] \in Inputs
        /\ fifo' = fifo \/ fifo' = Append(fifo, k)
    BY DEF Send, objects, inputs
  <1>2. sent \in Seq(Sent) /\ fifo \in Seq(Events) /\ Len(sent) \in Nat /\ k \in Events
    <2>1. sent \in Seq(Sent) /\ fifo \in Seq(Events)
      BY <1>0 DEF TypeOK, Sent
    <2> QED
      BY <1>1, <2>1, LenProperties DEF Events
  <1>3. e \in Sent /\ kports[q] \in Ports /\ kports[q] # None
    BY <1>0, <1>1 DEF Sent, TypeOK
  <1>4. /\ Len(sent') = k /\ \A n \in 1..Len(sent) : sent'[n] = sent[n]
        /\ sent'[k] = e
    BY <1>1, <1>2, <1>3, AppendProperties
  <1>5. \A p \in Ports : Queued(p)' = Queued(p) /\ Handled(p)' = Handled(p)
    BY <1>1 DEF Queued, Handled
  <1>6. Dealt' = Dealt /\ Dealt \subseteq Events /\ \A m \in Dealt : m \in 1..Len(sent)
    <2>1. Dealt \subseteq Events
      BY <1>0, HandledEvents DEF Dealt, TypeOK
    <2>2. \A m \in Dealt : m \in 1..Len(sent)
      BY <1>0, <1>2, <2>1 DEF InFlow, Events
    <2> QED
      BY <1>1, <1>5, <2>1, <2>2 DEF Dealt
  <1>7. InFlow'
    <2>0. thread.event \in Nat /\ Range(fifo) \subseteq Events
      <3>1. thread.event \in Events \union {0}
        BY <1>0 DEF TypeOK
      <3> QED
        BY <1>2, <3>1, RangeEvents DEF Events
    <2>1. CASE fifo' = fifo
      BY <1>0, <1>1, <1>2, <1>4, <1>6, <2>0, <2>1 DEF InFlow, Events
    <2>2. CASE fifo' = Append(fifo, k)
      <3>1. Range(fifo') = Range(fifo) \union {k}
        BY <1>2, <2>2, RangeAppend
      <3>2. \A n \in Range(fifo) : n < k
        BY <1>0, <1>2, <2>0 DEF InFlow, Events
      <3>3. Increasing(fifo)'
        <4>1. Increasing(fifo)
          BY <1>0 DEF InFlow
        <4>2. Increasing(Append(fifo, k))
          BY <1>2, <3>2, <4>1, IncreasingAppend
        <4> QED
          BY <2>2, <4>2 DEF Increasing
      <3>4. thread.event < k /\ \A m \in Dealt : m < k /\ m <= k
        BY <1>0, <1>2, <1>6, <2>0 DEF InFlow
      <3>5. \A n \in Range(fifo') : n <= k /\ thread.event < n /\ \A m \in Dealt : m < n
        BY <1>0, <1>2, <2>0, <3>1, <3>2, <3>4 DEF InFlow, Events
      <3>6. \A m \in Dealt : thread.event # 0 => m < thread.event
        BY <1>0 DEF InFlow
      <3> QED
        BY <1>1, <1>2, <1>4, <1>6, <2>0, <3>3, <3>4, <3>5, <3>6 DEF InFlow
    <2>3. fifo' = fifo \/ fifo' = Append(fifo, k)
      BY <1>1
    <2> QED
      BY <2>1, <2>2, <2>3
  <1>8. InOrderOnce'
    <2>1. Range(fifo') \subseteq Range(fifo) \union {k}
      <3>1. Range(Append(fifo, k)) = Range(fifo) \union {k}
        BY <1>2, RangeAppend
      <3> QED
        BY <1>1, <3>1
    <2>2. k \notin Dealt
      BY <1>2, <1>6
    <2>3. ASSUME NEW p \in Ports
          PROVE  Handled(p) \intersect (Pending' \union ignored') = {}
      BY <1>0, <1>1, <2>1, <2>2 DEF InOrderOnce, Pending, Dealt
    <2> QED
      BY <1>0, <1>1, <1>5, <2>3 DEF InOrderOnce
  <1>9. OnlyOwnEvents'
    BY <1>0, <1>1, <1>4, <1>5, <1>6 DEF OnlyOwnEvents, Dealt, Closed
  <1>10. OpenPortsHear'
    BY <1>0, <1>1, <1>4, <1>6 DEF OpenPortsHear, Dealt, Closed
  <1>11. AtHand'
    <2>1. CASE thread.event = 0
      BY <1>0, <1>1, <2>1 DEF AtHand
    <2>2. CASE thread.event # 0
      <3>1. sent'[thread.event] = sent[thread.event]
        BY <1>0, <1>4, <2>2, EventSent
      <3> QED
        BY <1>0, <1>1, <3>1 DEF AtHand, Own, Closed
    <2> QED
      BY <2>1, <2>2
  <1>12. PortsKept'
    <2>1. ASSUME NEW n \in 1..Len(sent'), sent'[n].ready,
                 phase'[sent'[n].to] \notin {"closed", "gone"}
          PROVE  phase'[sent'[n].to] = "open" /\ portId'[sent'[n].to] = sent'[n].id
      <3>1. CASE n = k
        <4>1. sent'[n].to = kports[q] /\ sent'[n].id = q /\ sent'[n].ready = (phase[kports[q]] = "open")
          BY <1>4, <3>1
        <4>2. phase[kports[q]] = "open" /\ portId[kports[q]] = q
          BY <1>0, <1>3, <2>1, <4>1 DEF PortsKept
        <4> QED
          BY <1>1, <4>1, <4>2
      <3>2. CASE n # k
        <4>1. n \in 1..Len(sent)
          BY <1>2, <1>4, <3>2
        <4> QED
          BY <1>0, <1>1, <1>4, <2>1, <4>1 DEF PortsKept, Closed
      <3> QED
        BY <3>1, <3>2
    <2> QED
      BY <1>0, <1>1, <2>1 DEF PortsKept, Closed
  <1> QED
    BY <1>0, <1>7, <1>8, <1>9, <1>10, <1>11, <1>12 DEF IInv

\* receive moves the first message of the queue to those received: what has been
\* queued stays the same.
LEMMA ReceiveSafe ==
    ASSUME IInv, NEW p \in Ports, receive(p)
    PROVE  IInv'
  <1>0. /\ TypeOK /\ InOrderOnce /\ OnlyOwnEvents /\ OpenPortsHear /\ PortsKept /\ InFlow /\ AtHand
        /\ TypeOK'
    BY ReceiveTypes DEF IInv
  <1>1. UNCHANGED <<kports, fifo, sent, phase, portId, ports, called, thread, ignored>>
    BY DEF receive, kernel, objects
  <1>2. ASSUME NEW r \in Ports
        PROVE  Queued(r)' = Queued(r)
    <2>1. /\ received'[p] = Append(received[p], Head(queue[p])) /\ queue'[p] = Tail(queue[p])
          /\ queue[p] # <<>>
          /\ r # p => received'[r] = received[r] /\ queue'[r] = queue[r]
      BY <1>0 DEF receive, TypeOK
    <2>2. Append(received[p], Head(queue[p])) \o Tail(queue[p]) = received[p] \o queue[p]
      BY <1>0, <2>1, HandledEvents, MoveHead
    <2> QED
      BY <2>1, <2>2 DEF Queued
  <1>3. \A r \in Ports : Closed(r) => Closed(r)'
    BY <1>1 DEF Closed
  <1>4. InOrderOnce' /\ OnlyOwnEvents' /\ OpenPortsHear' /\ InFlow' /\ AtHand'
    BY <1>0, <1>1, <1>2, <1>3, SortedSafe
  <1>5. PortsKept'
    BY <1>0, <1>1 DEF PortsKept, Closed
  <1> QED
    BY <1>0, <1>4, <1>5 DEF IInv

\* What the application does with an object, but for receive.
LEMMA ObjectSafe ==
    ASSUME IInv, NEW p \in Ports,
           \/ \E q \in Ids : create_port(p, q)
           \/ connect_fails(p) \/ register_port(p) \/ close_port(p) \/ collect_port(p)
           \/ \E b \in Calls : set_callback(p, b)
    PROVE  IInv'
  <1>0. TypeOK /\ InOrderOnce /\ OnlyOwnEvents /\ OpenPortsHear /\ PortsKept /\ InFlow /\ AtHand
    BY DEF IInv
  <1>1. UNCHANGED <<fifo, thread, queue, called, received, ignored, sent>>
    BY DEF create_port, connect_fails, register_port, close_port, collect_port, set_callback,
           kernel, inputs
  <1>2. TypeOK' /\ PortsKept' /\ \A r \in Ports : Closed(r) => Closed(r)'
    <2>1. CASE \E b \in Calls : set_callback(p, b)
      <3>1. UNCHANGED <<kports, phase, portId, ports>>
        BY <2>1 DEF set_callback, objects
      <3> QED
        BY <1>0, <1>1, <2>1, <3>1, SetCallbackTypes DEF PortsKept, Closed
    <2>2. CASE \/ \E q \in Ids : create_port(p, q)
               \/ connect_fails(p) \/ register_port(p) \/ close_port(p) \/ collect_port(p)
      BY <1>0, <2>2, ObjectTypes, ObjectKeepsPorts
    <2> QED
      BY <2>1, <2>2
  <1>3. \A r \in Ports : Queued(r)' = Queued(r)
    BY <1>1 DEF Queued
  <1>4. InOrderOnce' /\ OnlyOwnEvents' /\ OpenPortsHear' /\ InFlow' /\ AtHand'
    BY <1>0, <1>1, <1>2, <1>3, SortedSafe
  <1> QED
    BY <1>2, <1>4 DEF IInv

-----------------------------------------------------------------------------
(* What the thread does.                                                   *)

\* A step that hands nothing on leaves what was handed on as it should be.
LEMMA HandsNothing ==
    ASSUME TypeOK, InOrderOnce, OnlyOwnEvents, UNCHANGED <<called, queue, received, sent, phase>>,
           Pending' \union ignored' \subseteq Pending \union ignored \union {0}
    PROVE  /\ InOrderOnce' /\ OnlyOwnEvents'
           /\ \A p \in Ports : Handled(p)' = Handled(p)
           /\ \A p \in Ports : 0 \notin Handled(p)
  <1>1. \A p \in Ports : Queued(p)' = Queued(p) /\ Handled(p)' = Handled(p)
    BY DEF Queued, Handled
  <1>2. \A p \in Ports : 0 \notin Handled(p)
    BY HandledEvents DEF Events
  <1>3. InOrderOnce'
    BY <1>1, <1>2 DEF InOrderOnce
  <1>4. OnlyOwnEvents'
    BY <1>1 DEF OnlyOwnEvents, Closed
  <1> QED
    BY <1>1, <1>2, <1>3, <1>4

\* The event read is the first of those that wait.
LEMMA ReadSafe ==
    ASSUME IInv, read
    PROVE  IInv'
  <1>0. /\ TypeOK /\ InOrderOnce /\ OnlyOwnEvents /\ OpenPortsHear /\ PortsKept /\ InFlow /\ AtHand
        /\ TypeOK'
    BY ThreadTypes DEF IInv
  <1>1. /\ fifo' = Tail(fifo) /\ fifo # <<>> /\ thread.pc = "read"
        /\ thread'.pc = "route" /\ thread'.event = Head(fifo)
        /\ UNCHANGED <<kports, sent, phase, portId, ports, queue, called, received, ignored>>
    BY <1>0 DEF read, TypeOK, objects, inputs
  <1>2. fifo \in Seq(Events) /\ Increasing(fifo) /\ 0 \notin Events
    BY <1>0 DEF TypeOK, InFlow, Events
  <1>3. /\ Increasing(Tail(fifo)) /\ Range(Tail(fifo)) \subseteq Range(fifo)
        /\ Head(fifo) \in Range(fifo) /\ Head(fifo) \in Events
        /\ \A n \in Range(Tail(fifo)) : Head(fifo) < n
    BY <1>1, <1>2, IncreasingTail
  <1>4. Pending' \union ignored' \subseteq Pending \union ignored \union {0}
    BY <1>1, <1>3 DEF Pending
  <1>5. InOrderOnce' /\ OnlyOwnEvents' /\ \A p \in Ports : Handled(p)' = Handled(p)
    BY <1>0, <1>1, <1>4, HandsNothing
  <1>6. InFlow'
    <2>1. Dealt' = Dealt
      BY <1>1, <1>5 DEF Dealt
    <2>2. Increasing(fifo)'
      BY <1>1, <1>3 DEF Increasing
    <2> QED
      BY <1>0, <1>1, <1>3, <2>1, <2>2 DEF InFlow
  <1>7. OpenPortsHear' /\ PortsKept'
    BY <1>0, <1>1 DEF OpenPortsHear, PortsKept, Closed
  <1>8. AtHand'
    BY <1>1, <1>2, <1>3 DEF AtHand
  <1> QED
    BY <1>0, <1>5, <1>6, <1>7, <1>8 DEF IInv

\* The thread ends: it has no event any more.
LEMMA StopSafe ==
    ASSUME IInv, read_fails \/ call_fails
    PROVE  IInv'
  <1>0. /\ TypeOK /\ InOrderOnce /\ OnlyOwnEvents /\ OpenPortsHear /\ PortsKept /\ InFlow /\ AtHand
        /\ TypeOK'
    BY ThreadTypes DEF IInv
  <1>1. /\ fifo' = fifo \/ fifo' = <<>>
        /\ thread'.pc = "dead" /\ thread'.event = 0
        /\ UNCHANGED <<kports, sent, phase, portId, ports, queue, called, received, ignored>>
    BY DEF read_fails, call_fails, Stop, objects, inputs, kernel
  <1>2. Range(<<>>) = {} /\ Increasing(<<>>)
    BY DEF Range, Increasing
  <1>3. Range(fifo') \subseteq Range(fifo) /\ Increasing(fifo')
    <2>1. CASE fifo' = fifo
      BY <1>0, <2>1 DEF InFlow
    <2>2. CASE fifo' = <<>>
      BY <1>2, <2>2
    <2> QED
      BY <1>1, <2>1, <2>2
  <1>4. Pending' \union ignored' \subseteq Pending \union ignored \union {0}
    BY <1>1, <1>3 DEF Pending
  <1>5. InOrderOnce' /\ OnlyOwnEvents' /\ \A p \in Ports : Handled(p)' = Handled(p)
    BY <1>0, <1>1, <1>4, HandsNothing
  <1>6. InFlow'
    <2>1. Dealt' = Dealt
      BY <1>1, <1>5 DEF Dealt
    <2>2. Increasing(fifo)'
      BY <1>3 DEF Increasing
    <2>3. \A n \in Range(fifo) : n \in Nat /\ n > 0
      <3>1. Range(fifo) \subseteq Events
        BY <1>0, RangeEvents DEF TypeOK
      <3> QED
        BY <3>1 DEF Events
    <2>4. Len(sent) \in Nat
      BY <1>0, LenProperties DEF TypeOK
    <2> QED
      BY <1>0, <1>1, <1>3, <2>1, <2>2, <2>3, <2>4 DEF InFlow
  <1>7. OpenPortsHear' /\ PortsKept'
    BY <1>0, <1>1 DEF OpenPortsHear, PortsKept, Closed
  <1>8. AtHand'
    BY <1>1 DEF AtHand
  <1> QED
    BY <1>0, <1>5, <1>6, <1>7, <1>8 DEF IInv

\* Under the id the event was sent to the thread finds the object it was for, if that
\* was open and has not been closed.
LEMMA RouteSafe ==
    ASSUME IInv, route
    PROVE  IInv'
  <1>0. /\ TypeOK /\ InOrderOnce /\ OnlyOwnEvents /\ OpenPortsHear /\ PortsKept /\ InFlow /\ AtHand
        /\ TypeOK'
    BY ThreadTypes DEF IInv
  <1> DEFINE e == thread.event
             p == ports[Event.id]
  <1>1. /\ thread.pc = "route"
        /\ UNCHANGED <<kports, fifo, sent, phase, portId, ports, queue, called, received>>
    BY DEF route, kernel, objects, inputs
  <1>2. /\ e \in Events /\ e \in 1..Len(sent) /\ Len(sent) \in Nat
        /\ Event \in Sent /\ Event = sent[e] /\ e # 0
    BY <1>0, <1>1, EventSent DEF AtHand, Event, Events
  <1>3. Event.ready /\ ~Closed(Event.to) => p = Event.to /\ p \in Inputs
    BY <1>0, <1>2 DEF PortsKept, Sent
  <1>4. /\ p \notin Inputs => /\ thread'.pc = "read" /\ thread'.event = 0
                              /\ ignored' = ignored \union {e}
        /\ p \in Inputs => /\ thread'.pc = "handle" /\ thread'.event = e /\ thread'.port = p
                           /\ ignored' = ignored
    <2>1. thread \in [pc : {"read", "route", "handle", "call", "dead"},
                      event : Events \union {0}, port : Ports \union {None}]
      BY <1>0 DEF TypeOK
    <2>2. CASE p \notin Inputs
      BY <2>2 DEF route
    <2>3. CASE p \in Inputs
      BY <2>1, <2>3 DEF route
    <2> QED
      BY <2>2, <2>3
  <1>5. Pending' \union ignored' \subseteq Pending \union ignored \union {0}
    BY <1>1, <1>4 DEF Pending
  <1>6. InOrderOnce' /\ OnlyOwnEvents' /\ \A r \in Ports : Handled(r)' = Handled(r)
    BY <1>0, <1>1, <1>5, HandsNothing
  <1>7. PortsKept'
    BY <1>0, <1>1 DEF PortsKept, Closed
  <1>8. CASE p \notin Inputs
    <2>1. Dealt' = Dealt \union {e}
      BY <1>4, <1>6, <1>8 DEF Dealt
    <2>2. /\ Increasing(fifo) /\ \A n \in Range(fifo) : n <= Len(sent) /\ e < n /\ \A m \in Dealt : m < n
          /\ e <= Len(sent) /\ \A m \in Dealt : m <= Len(sent)
      BY <1>0 DEF InFlow
    <2>3. \A n \in Range(fifo) : n \in Nat /\ n > 0
      <3>1. Range(fifo) \subseteq Events
        BY <1>0, RangeEvents DEF TypeOK
      <3> QED
        BY <3>1 DEF Events
    <2>4. InFlow'
      BY <1>1, <1>2, <1>4, <1>8, <2>1, <2>2, <2>3 DEF InFlow, Increasing
    <2>5. OpenPortsHear'
      BY <1>0, <1>1, <1>2, <1>3, <1>4, <1>8 DEF OpenPortsHear, Closed
    <2>6. AtHand'
      BY <1>4, <1>8 DEF AtHand
    <2> QED
      BY <1>0, <1>6, <1>7, <2>4, <2>5, <2>6 DEF IInv
  <1>9. CASE p \in Inputs
    <2>1. Dealt' = Dealt
      BY <1>4, <1>6, <1>9 DEF Dealt
    <2>2. InFlow'
      BY <1>0, <1>1, <1>4, <1>9, <2>1 DEF InFlow, Increasing
    <2>3. OpenPortsHear'
      BY <1>0, <1>1, <1>4, <1>9 DEF OpenPortsHear, Closed
    <2>4. AtHand'
      BY <1>1, <1>2, <1>3, <1>4, <1>9 DEF AtHand, Own, Closed
    <2> QED
      BY <1>0, <1>6, <1>7, <2>2, <2>3, <2>4 DEF IInv
  <1> QED
    BY <1>8, <1>9

\* The event of the thread, when it is handed to its object by the callback or by the
\* queue, comes after all that were handed on.
LEMMA HandOnSafe ==
    ASSUME IInv, TypeOK', NEW p \in Ports, p = thread.port, thread.pc \in {"handle", "call"},
           UNCHANGED <<kports, fifo, sent, phase, portId, ports, ignored>>,
           thread'.pc = "read", thread'.event = 0,
           \A r \in Ports \ {p} : called'[r] = called[r] /\ Queued(r)' = Queued(r),
           \/ /\ called'[p] = Append(called[p], thread.event)
              /\ Queued(p)' = Queued(p)
           \/ /\ Queued(p)' = Append(Queued(p), thread.event)
              /\ called'[p] = called[p]
    PROVE  IInv'
  <1>0. TypeOK /\ InOrderOnce /\ OnlyOwnEvents /\ OpenPortsHear /\ PortsKept /\ InFlow /\ AtHand
    BY DEF IInv
  <1> DEFINE e == thread.event
  <1>1. /\ e \in Events /\ e \in 1..Len(sent) /\ Len(sent) \in Nat /\ e # 0 /\ Own(e, p)
    BY <1>0, EventSent DEF AtHand, Events
  <1>2. called[p] \in Seq(Events) /\ Queued(p) \in Seq(Events) /\ Handled(p) \subseteq Events
    BY <1>0, HandledEvents
  <1>3. Handled(p) \subseteq Dealt /\ ignored \subseteq Dealt
    BY DEF Dealt
  <1>4. \A m \in Dealt : m < e /\ m # e
    <2>0. ignored \subseteq Events /\ \A r \in Ports : Handled(r) \subseteq Events
      BY <1>0, HandledEvents DEF TypeOK
    <2>1. Dealt \subseteq Events
      BY <2>0 DEF Dealt
    <2> QED
      BY <1>0, <1>1, <2>1 DEF InFlow, Events
  <1>5. \A n \in Range(fifo) : n # e /\ n # 0 /\ n \in Events
    <2>1. Range(fifo) \subseteq Events /\ 0 \notin Range(fifo)
      BY <1>0, RangeEvents DEF TypeOK
    <2> QED
      BY <1>0, <1>1, <2>1 DEF InFlow, Events
  <1>6. /\ Increasing(called'[p]) /\ Increasing(Queued(p)')
        /\ Range(called'[p]) \intersect Range(Queued(p)') = {}
        /\ Handled(p)' = Handled(p) \union {e}
    <2>1. /\ Increasing(called[p]) /\ Increasing(Queued(p))
          /\ Range(called[p]) \intersect Range(Queued(p)) = {}
      BY <1>0 DEF InOrderOnce
    <2>2. e \notin Range(called[p]) /\ e \notin Range(Queued(p))
      BY <1>3, <1>4 DEF Handled
    <2>3. /\ Range(Append(called[p], e)) = Range(called[p]) \union {e}
          /\ Range(Append(Queued(p), e)) = Range(Queued(p)) \union {e}
      BY <1>1, <1>2, RangeAppend
    <2>4. Increasing(Append(called[p], e)) /\ Increasing(Append(Queued(p), e))
      <3>1. \A m \in Range(called[p]) : m < e
        BY <1>3, <1>4 DEF Handled
      <3>2. \A m \in Range(Queued(p)) : m < e
        BY <1>3, <1>4 DEF Handled
      <3> QED
        BY <1>1, <1>2, <2>1, <3>1, <3>2, IncreasingAppend
    <2>5. Handled(p)' = Range(called'[p]) \union Range(Queued(p)')
      BY DEF Handled
    <2>6. CASE called'[p] = Append(called[p], e) /\ Queued(p)' = Queued(p)
      BY <2>1, <2>2, <2>3, <2>4, <2>5, <2>6 DEF Handled
    <2>7. CASE Queued(p)' = Append(Queued(p), e) /\ called'[p] = called[p]
      BY <2>1, <2>2, <2>3, <2>4, <2>5, <2>7 DEF Handled
    <2> QED
      BY <2>6, <2>7
  <1>7. \A r \in Ports \ {p} : Handled(r)' = Handled(r)
    <2> TAKE r \in Ports \ {p}
    <2>1. called'[r] = called[r] /\ Queued(r)' = Queued(r)
      OBVIOUS
    <2> QED
      BY <2>1 DEF Handled
  <1>8. \A r \in Ports : e \notin Handled(r) /\ 0 \notin Handled(r)
    <2>1. \A r \in Ports : Handled(r) \subseteq Events
      BY <1>0, HandledEvents
    <2>2. 0 \notin Events
      BY DEF Events
    <2>3. \A r \in Ports : Handled(r) \subseteq Dealt
      BY DEF Dealt
    <2> QED
      BY <1>4, <2>1, <2>2, <2>3
  <1>9. Pending' = Range(fifo) \union {0} /\ e \notin Pending' /\ e \notin ignored
    BY <1>1, <1>3, <1>4, <1>5 DEF Pending
  <1>10. InOrderOnce'
    <2>1. ASSUME NEW r \in Ports
          PROVE  /\ Increasing(called[r])' /\ Increasing(Queued(r))'
                 /\ (Range(called[r]) \intersect Range(Queued(r)) = {})'
                 /\ (Handled(r) \intersect (Pending \union ignored) = {})'
      <3>1. CASE r = p
        <4>1. Handled(p) \intersect (Pending' \union ignored') = {}
          BY <1>0, <1>8, <1>9 DEF InOrderOnce, Pending
        <4> QED
          BY <1>6, <1>9, <3>1, <4>1 DEF Increasing
      <3>2. CASE r # p
        <4>1. called'[r] = called[r] /\ Queued(r)' = Queued(r)
          BY <3>2
        <4> QED
          BY <1>0, <1>7, <1>8, <1>9, <3>2, <4>1 DEF InOrderOnce, Pending, Increasing
      <3> QED
        BY <3>1, <3>2
    <2>2. ASSUME NEW r \in Ports, NEW x \in Ports, r # x
          PROVE  Handled(r)' \intersect Handled(x)' = {}
      <3>1. Handled(r) \intersect Handled(x) = {} /\ e \notin Handled(r) /\ e \notin Handled(x)
        BY <1>0, <1>8, <2>2 DEF InOrderOnce
      <3> QED
        BY <1>6, <1>7, <2>2, <3>1
    <2> QED
      BY <2>1, <2>2 DEF InOrderOnce
  <1>11. OnlyOwnEvents'
    BY <1>0, <1>1, <1>6, <1>7 DEF OnlyOwnEvents, Own, Closed
  <1>12. OpenPortsHear' /\ PortsKept'
    BY <1>0 DEF OpenPortsHear, PortsKept, Closed
  <1>13. InFlow'
    <2>1. Dealt' = Dealt \union {e}
      BY <1>6, <1>7 DEF Dealt
    <2>2. /\ Increasing(fifo) /\ \A n \in Range(fifo) : n <= Len(sent) /\ e < n /\ \A m \in Dealt : m < n
          /\ e <= Len(sent) /\ \A m \in Dealt : m <= Len(sent)
      BY <1>0 DEF InFlow
    <2>3. \A n \in Range(fifo) : n \in Nat /\ n > 0
      BY <1>5 DEF Events
    <2> QED
      BY <1>1, <2>1, <2>2, <2>3 DEF InFlow, Increasing
  <1>14. AtHand'
    BY DEF AtHand
  <1> QED
    BY <1>0, <1>10, <1>11, <1>12, <1>13, <1>14 DEF IInv

\* The thread hands its event to the queue, or goes on to the callback with it.
LEMMA HandleSafe ==
    ASSUME IInv, handle
    PROVE  IInv'
  <1>0. /\ TypeOK /\ InOrderOnce /\ OnlyOwnEvents /\ OpenPortsHear /\ PortsKept /\ InFlow /\ AtHand
        /\ TypeOK'
    BY ThreadTypes DEF IInv
  <1> SUFFICES ASSUME NEW p \in Ports, p = thread.port
               PROVE  IInv'
    BY <1>0 DEF AtHand, handle, call
  <1>1. /\ thread.pc = "handle" /\ p \in Inputs /\ p \in Ports
        /\ UNCHANGED <<kports, fifo, sent, phase, portId, ports, called, received, ignored>>
    BY <1>0 DEF handle, AtHand, kernel, objects
  <1>2. CASE callback[p]
    <2>1. /\ thread'.pc = "call" /\ thread'.event = thread.event /\ thread'.port = p
          /\ UNCHANGED queue
      <3>1. thread \in [pc : {"read", "route", "handle", "call", "dead"},
                        event : Events \union {0}, port : Ports \union {None}]
        BY <1>0 DEF TypeOK
      <3>2. thread' = [thread EXCEPT !.pc = "call"] /\ UNCHANGED queue
        BY <1>2 DEF handle, Goto
      <3> QED
        BY <3>1, <3>2
    <2>2. Pending' \union ignored' \subseteq Pending \union ignored \union {0}
      BY <1>1, <2>1 DEF Pending
    <2>3. InOrderOnce' /\ OnlyOwnEvents' /\ \A r \in Ports : Handled(r)' = Handled(r)
      BY <1>0, <1>1, <2>1, <2>2, HandsNothing
    <2>4. Dealt' = Dealt
      BY <1>1, <2>3 DEF Dealt
    <2>5. InFlow'
      BY <1>0, <1>1, <2>1, <2>4 DEF InFlow, Increasing
    <2>6. OpenPortsHear' /\ PortsKept'
      BY <1>0, <1>1 DEF OpenPortsHear, PortsKept, Closed
    <2>7. AtHand'
      BY <1>0, <1>1, <2>1 DEF AtHand, Own, Closed
    <2> QED
      BY <1>0, <2>3, <2>5, <2>6, <2>7 DEF IInv
  <1>3. CASE ~callback[p]
    <2>1. /\ thread'.pc = "read" /\ thread'.event = 0
          /\ queue' = [queue EXCEPT ![p] = Append(queue[p], thread.event)]
      <3>1. thread' = [thread EXCEPT !.pc = "read", !.event = 0]
        BY <1>3 DEF handle, NextEvent
      <3>2. queue' = [queue EXCEPT ![p] = Append(queue[p], thread.event)]
        BY <1>3 DEF handle
      <3>3. thread \in [pc : {"read", "route", "handle", "call", "dead"},
                        event : Events \union {0}, port : Ports \union {None}]
        BY <1>0 DEF TypeOK
      <3> QED
        BY <3>1, <3>2, <3>3
    <2>2. queue'[p] = Append(queue[p], thread.event) /\ \A r \in Ports \ {p} : queue'[r] = queue[r]
      BY <1>0, <1>1, <2>1 DEF TypeOK
    <2>3. Queued(p)' = Append(Queued(p), thread.event)
      <3>1. queue[p] \in Seq(Events) /\ received[p] \in Seq(Events) /\ thread.event \in Events
        BY <1>0, <1>1, HandledEvents, EventSent DEF AtHand
      <3>2. received[p] \o Append(queue[p], thread.event) = Append(received[p] \o queue[p], thread.event)
        <4>1. \A r, x \in Seq(Events), m \in Events : r \o Append(x, m) = Append(r \o x, m)
          BY AppendConcat
        <4> QED
          BY <3>1, <4>1, Zenon
      <3> QED
        BY <1>1, <2>2, <3>2 DEF Queued
    <2>4. \A r \in Ports \ {p} : called'[r] = called[r] /\ Queued(r)' = Queued(r)
      BY <1>1, <2>2 DEF Queued
    <2> QED
      BY <1>0, <1>1, <2>1, <2>3, <2>4, HandOnSafe
  <1> QED
    BY <1>2, <1>3

\* The callback gets the event.
LEMMA CallSafe ==
    ASSUME IInv, call
    PROVE  IInv'
  <1>0. /\ TypeOK /\ InOrderOnce /\ OnlyOwnEvents /\ OpenPortsHear /\ PortsKept /\ InFlow /\ AtHand
        /\ TypeOK'
    BY ThreadTypes DEF IInv
  <1> SUFFICES ASSUME NEW p \in Ports, p = thread.port
               PROVE  IInv'
    BY <1>0 DEF AtHand, handle, call
  <1>1. /\ thread.pc = "call" /\ p \in Inputs /\ p \in Ports
        /\ UNCHANGED <<kports, fifo, sent, phase, portId, ports, queue, received, ignored>>
    BY <1>0 DEF call, AtHand, kernel, objects
  <1>2. /\ thread'.pc = "read" /\ thread'.event = 0
        /\ called' = [called EXCEPT ![p] = Append(called[p], thread.event)]
    BY <1>0 DEF call, NextEvent, TypeOK
  <1>3. called'[p] = Append(called[p], thread.event) /\ \A r \in Ports \ {p} : called'[r] = called[r]
    BY <1>0, <1>1, <1>2 DEF TypeOK
  <1>4. \A r \in Ports : Queued(r)' = Queued(r)
    BY <1>1 DEF Queued
  <1> QED
    BY <1>0, <1>1, <1>2, <1>3, <1>4, HandOnSafe

-----------------------------------------------------------------------------
(* The theorems.                                                           *)

\* At first there are no objects and no events.
LEMMA InitIInv == Init => IInv
  <1> SUFFICES ASSUME Init
               PROVE  IInv
    OBVIOUS
  <1>1. <<>> \in Seq(Events) /\ <<>> \in Seq(Sent) /\ Len(<<>>) = 0
    BY EmptySeq
  <1>2. fifo \in Seq(Events) /\ sent \in Seq(Sent) /\ Len(fifo) = 0 /\ Len(sent) = 0
    BY <1>1, Zenon DEF Init
  <1>3. \A p \in Ports : called[p] = <<>> /\ received[p] = <<>> /\ queue[p] = <<>>
    BY DEF Init
  <1>4. /\ queue \in [Ports -> Seq(Events)] /\ called \in [Ports -> Seq(Events)]
        /\ received \in [Ports -> Seq(Events)]
    BY <1>1 DEF Init
  <1>5. TypeOK
    <2>1. FifoSize >= 0
      OBVIOUS
    <2>2. Len(fifo) <= FifoSize
      BY <1>2, <2>1
    <2>3. ASSUME NEW p \in Ports
          PROVE  phase[p] \in {"created", "open"} <=> \E q \in Ids : kports[q] = p
      BY DEF Init
    <2>4. /\ kports \in [Ids -> Ports \union {None}] /\ ports \in [Ids -> Ports \union {None}]
          /\ phase \in [Ports -> {"new", "created", "open", "closed", "gone"}]
          /\ portId \in [Ports -> Ids] /\ callback \in [Ports -> BOOLEAN] /\ overflow \in BOOLEAN
          /\ thread \in [pc : {"read", "route", "handle", "call", "dead"},
                         event : Events \union {0}, port : Ports \union {None}]
          /\ ignored \subseteq Events
      BY DEF Init
    <2> QED
      BY <1>2, <1>3, <1>4, <2>2, <2>3, <2>4 DEF TypeOK, Sent
  <1>6. \A p \in Ports : Queued(p) = <<>> /\ Handled(p) = {}
    <2>1. ASSUME NEW p \in Ports
          PROVE  Queued(p) = <<>>
      BY <1>1, <1>3, ConcatEmptySeq DEF Queued
    <2>2. Range(<<>>) = {}
      BY DEF Range
    <2> QED
      BY <1>3, <2>1, <2>2 DEF Handled
  <1>7. InOrderOnce
    <2>1. Increasing(<<>>) /\ Range(<<>>) = {}
      BY DEF Increasing, Range
    <2> QED
      BY <1>3, <1>6, <2>1 DEF InOrderOnce
  <1>8. OnlyOwnEvents /\ OpenPortsHear
    BY <1>6 DEF OnlyOwnEvents, OpenPortsHear, Init
  <1>9. PortsKept
    <2>1. 1..Len(sent) = {}
      BY <1>2
    <2> QED
      BY <2>1 DEF PortsKept, Init
  <1>10. InFlow
    <2>1. Range(fifo) = {} /\ Increasing(fifo) /\ Dealt = {} /\ thread.event = 0
      BY <1>6 DEF Init, Range, Increasing, Dealt
    <2> QED
      BY <1>2, <2>1 DEF InFlow
  <1>11. AtHand
    BY DEF AtHand, Init
  <1> QED
    BY <1>5, <1>7, <1>8, <1>9, <1>10, <1>11 DEF IInv

\* The strengthened invariant is inductive.
LEMMA Inductive == IInv /\ [Next]_vars => IInv'
  <1> SUFFICES ASSUME IInv, [Next]_vars
               PROVE  IInv'
    OBVIOUS
  <1>1. ASSUME NEW q \in Ids, Send(q)
        PROVE  IInv'
    BY <1>1, SendSafe
  <1>2. ASSUME NEW q \in Ids, NEW p \in Ports, create_port(p, q)
        PROVE  IInv'
    BY <1>2, ObjectSafe
  <1>3. ASSUME NEW p \in Ports,
               \/ connect_fails(p) \/ register_port(p) \/ close_port(p) \/ collect_port(p)
               \/ \E b \in Calls : set_callback(p, b)
        PROVE  IInv'
    BY <1>3, ObjectSafe
  <1>4. ASSUME NEW p \in Ports, receive(p)
        PROVE  IInv'
    BY <1>4, ReceiveSafe
  <1>5. CASE read
    BY <1>5, ReadSafe
  <1>6. CASE read_fails \/ call_fails
    BY <1>6, StopSafe
  <1>7. CASE route
    BY <1>7, RouteSafe
  <1>8. CASE handle
    BY <1>8, HandleSafe
  <1>9. CASE call
    BY <1>9, CallSafe
  <1>10. CASE UNCHANGED vars
    <2>1. UNCHANGED <<kports, fifo, overflow, sent, phase, portId, ports, callback, queue, thread,
                      called, received, ignored>>
      BY <1>10 DEF vars
    <2>2. TypeOK'
      BY <2>1, Zenon DEF IInv, TypeOK
    <2>3. InOrderOnce' /\ OnlyOwnEvents' /\ OpenPortsHear'
      BY <2>1, Zenon DEF IInv, InOrderOnce, OnlyOwnEvents, OpenPortsHear, Closed, Queued, Handled,
         Pending, Increasing
    <2>4. PortsKept' /\ AtHand'
      BY <2>1 DEF IInv, PortsKept, AtHand, Own, Closed
    <2>5. Dealt' = Dealt
      BY <2>1 DEF Dealt, Handled, Queued
    <2>6. InFlow'
      BY <2>1, <2>5 DEF IInv, InFlow, Increasing
    <2> QED
      BY <2>2, <2>3, <2>4, <2>6 DEF IInv
  <1> QED
    BY <1>1, <1>2, <1>3, <1>4, <1>5, <1>6, <1>7, <1>8, <1>9, <1>10 DEF Next

\* The strengthened invariant holds in every reachable state.
THEOREM Invariant == Spec => []IInv
  BY InitIInv, Inductive, PTL DEF Spec

\* Every variable keeps its type; an object that is open has the port it created, and
\* only Input objects are handed events.
THEOREM TypeCorrect == Spec => []TypeOK
  <1>1. IInv => TypeOK
    BY DEF IInv
  <1> QED
    BY <1>1, Invariant, PTL

\* _input_loop hands each event to one object at most and once, by its callback or its
\* queue, and either way in the order the events were sent.
THEOREM HandedInOrderOnce == Spec => []InOrderOnce
  <1>1. IInv => InOrderOnce
    BY DEF IInv
  <1> QED
    BY <1>1, Invariant, PTL

\* _input_loop hands no object an event that was sent to another one which was open
\* then and still is, whatever ids the kernel has passed on.
THEOREM HandedToItsOwn == Spec => []OnlyOwnEvents
  <1>1. IInv => OnlyOwnEvents
    BY DEF IInv
  <1> QED
    BY <1>1, Invariant, PTL

\* _input_loop passes over no event of an object that was open when it was sent and
\* still is: the weak dictionary loses no entry but that of the object that goes.
THEOREM OpenPortsServed == Spec => []OpenPortsHear
  <1>1. IInv => OpenPortsHear
    BY DEF IInv
  <1> QED
    BY <1>1, Invariant, PTL
=============================================================================
