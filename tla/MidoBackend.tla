----------------------------- MODULE MidoBackend -----------------------------
(***************************************************************************)
(* The MIDO back-end.  One client serves every MIDO port of the process.   *)
(* A daemon thread reads its events and hands each to the port object that *)
(* is entered in "ports" under the event's destination, by its callback or *)
(* through its queue; the application's threads open, use, close and drop  *)
(* port objects meanwhile.  The kernel gives the id of a port that was     *)
(* deleted to the next one, and keeps the events sent to the deleted one.  *)
(*                                                                         *)
(* An action of the thread is what it does between two points where        *)
(* another thread can change what it has read.  Every event stands for one *)
(* MIDI message.                                                           *)
(***************************************************************************)
EXTENDS Integers, Sequences, FiniteSets, Functions

CONSTANTS
    Ports,       \* port objects; each is opened once
    Inputs,      \* those of the class Input
    Ids,         \* ids the kernel gives to ports, from 0 up
    None,        \* no port
    FifoSize,    \* events the kernel's FIFO holds
    Calls,       \* what the application sets a callback to: TRUE, a function; FALSE, None
    MaxEvents    \* bound: events sent to the client

ASSUME MidoAssumption ==
    /\ Inputs \subseteq Ports
    /\ None \notin Ports
    /\ Ids \subseteq Nat /\ 0 \in Ids
    /\ FifoSize \in Nat \ {0} /\ MaxEvents \in Nat
    /\ Calls \subseteq BOOLEAN

VARIABLES
    kports,      \* the kernel's ports: the object that created each, or None
    fifo,        \* the kernel's FIFO
    overflow,    \* it had no room for an event
    sent,        \* history: the event each number was
    phase,       \* where each object is in its life
    portId,      \* the id of its port
    ports,       \* _Client.ports, a weak dictionary
    callback,    \* PortCommon._callback is a function
    queue,       \* PortCommon._queue
    thread,      \* the input thread: where it is, its event and its mido_port
    called,      \* history: events the callbacks of each object got
    received,    \* history: events receive() returned
    ignored      \* history: events no object was found for

vars == <<kports, fifo, overflow, sent, phase, portId, ports, callback,
          queue, thread, called, received, ignored>>

kernel  == <<fifo, overflow, sent>>
objects == <<phase, portId>>
inputs  == <<queue, called, received>>

Dead == thread.pc = "dead"

-----------------------------------------------------------------------------
(* The kernel. *)

\* Anybody sends an event to the port q: what object it was for, and whether that
\* had been opened by then, is noted.
Send(q) ==
    /\ Len(sent) < MaxEvents
    /\ kports[q] \in Inputs
    /\ sent' = Append(sent, [id |-> q, to |-> kports[q], ready |-> phase[kports[q]] = "open"])
    /\ IF Len(fifo) < FifoSize THEN fifo' = Append(fifo, Len(sent) + 1) /\ UNCHANGED overflow
                               ELSE overflow' = TRUE /\ UNCHANGED fifo
    /\ UNCHANGED <<kports, objects, ports, callback, inputs, thread, ignored>>

-----------------------------------------------------------------------------
(* PortCommon._open. *)

\* The port is created, with the lowest id that is free.  Who knows its address
\* can send to it now, with or without the subscription connect_from makes.
create_port(p, q) ==
    /\ phase[p] = "new" /\ kports[q] = None
    /\ \A r \in Ids : r < q => kports[r] # None
    /\ kports' = [kports EXCEPT ![q] = p]
    /\ phase' = [phase EXCEPT ![p] = "created"]
    /\ portId' = [portId EXCEPT ![p] = q]
    /\ \E b \in Calls \union {FALSE} : callback' = [callback EXCEPT ![p] = p \in Inputs /\ b]
    /\ UNCHANGED <<kernel, ports, inputs, thread, ignored>>

\* connect_to or connect_from raises: the object was never opened, and the Port
\* goes with it.
connect_fails(p) ==
    /\ phase[p] = "created"
    /\ phase' = [phase EXCEPT ![p] = "gone"]
    /\ kports' = [kports EXCEPT ![portId[p]] = None]
    /\ UNCHANGED <<kernel, portId, ports, callback, inputs, thread, ignored>>

\* Variant: an id that is in use is kept for the object it was given to first.
register_port_setdefault(p) ==
    /\ phase[p] = "created"
    /\ phase' = [phase EXCEPT ![p] = "open"]
    /\ ports' = [ports EXCEPT ![portId[p]] = IF @ = None THEN p ELSE @]
    /\ UNCHANGED <<kports, kernel, portId, callback, inputs, thread, ignored>>

register_port(p) ==
    /\ phase[p] = "created"
    /\ phase' = [phase EXCEPT ![p] = "open"]
    /\ ports' = [ports EXCEPT ![portId[p]] = p]
    /\ UNCHANGED <<kports, kernel, portId, callback, inputs, thread, ignored>>

\* The setter of callback.
set_callback(p, b) ==
    /\ phase[p] = "open" /\ p \in Inputs /\ callback[p] # b
    /\ callback' = [callback EXCEPT ![p] = b]
    /\ UNCHANGED <<kports, kernel, objects, ports, inputs, thread, ignored>>

\* Input._receive
receive(p) ==
    /\ phase[p] = "open" /\ queue[p] # <<>>
    /\ received' = [received EXCEPT ![p] = Append(@, Head(queue[p]))]
    /\ queue' = [queue EXCEPT ![p] = Tail(@)]
    /\ UNCHANGED <<kports, kernel, objects, ports, callback, called, thread, ignored>>

\* PortCommon._close.  The object stays in ports.
close_port(p) ==
    /\ phase[p] = "open"
    /\ phase' = [phase EXCEPT ![p] = "closed"]
    /\ kports' = [kports EXCEPT ![portId[p]] = None]
    /\ UNCHANGED <<kernel, portId, ports, callback, inputs, thread, ignored>>

\* Variant: what the dictionary has under the id goes, whatever object it is.
collect_port_id(p) ==
    /\ phase[p] = "closed" /\ thread.port # p
    /\ phase' = [phase EXCEPT ![p] = "gone"]
    /\ ports' = [ports EXCEPT ![portId[p]] = None]
    /\ UNCHANGED <<kports, kernel, portId, callback, inputs, thread, ignored>>

\* The last reference to a closed object goes; mido_port of the thread is one.
collect_port(p) ==
    /\ phase[p] = "closed" /\ thread.port # p
    /\ phase' = [phase EXCEPT ![p] = "gone"]
    /\ ports' = [q \in Ids |-> IF ports[q] = p THEN None ELSE ports[q]]
    /\ UNCHANGED <<kports, kernel, portId, callback, inputs, thread, ignored>>

-----------------------------------------------------------------------------
(* _Client._input_loop. *)

Stop == thread' = [pc |-> "dead", event |-> 0, port |-> None]
Goto(label) == thread' = [thread EXCEPT !.pc = label]

read ==
    /\ thread.pc = "read" /\ fifo # <<>> /\ ~overflow
    /\ fifo' = Tail(fifo)
    /\ thread' = [thread EXCEPT !.pc = "route", !.event = Head(fifo)]
    /\ UNCHANGED <<kports, overflow, sent, objects, ports, callback, inputs, ignored>>

\* event_input raises ENOSPC, and the loop is over.
read_fails ==
    /\ thread.pc = "read" /\ overflow
    /\ fifo' = <<>> /\ overflow' = FALSE
    /\ Stop
    /\ UNCHANGED <<kports, sent, objects, ports, callback, inputs, ignored>>

Event == sent[thread.event]

\* Variant: an event for no port ends the loop.
route_breaks ==
    /\ thread.pc = "route"
    /\ LET p == ports[Event.id] IN
         IF p \notin Inputs
         THEN /\ thread' = [pc |-> "end", event |-> 0, port |-> p]
              /\ ignored' = ignored \union {thread.event}
         ELSE /\ thread' = [thread EXCEPT !.pc = "handle", !.port = p]
              /\ UNCHANGED ignored
    /\ UNCHANGED <<kports, kernel, objects, ports, callback, inputs>>

\* Variant: only the dictionary is looked at.
route_any ==
    /\ thread.pc = "route"
    /\ LET p == ports[Event.id] IN
         IF p = None
         THEN /\ thread' = [pc |-> "read", event |-> 0, port |-> p]
              /\ ignored' = ignored \union {thread.event}
         ELSE /\ thread' = [thread EXCEPT !.pc = "handle", !.port = p]
              /\ UNCHANGED ignored
    /\ UNCHANGED <<kports, kernel, objects, ports, callback, inputs>>

route ==
    /\ thread.pc = "route"
    /\ LET p == ports[Event.id] IN
         IF p \notin Inputs
         THEN /\ thread' = [pc |-> "read", event |-> 0, port |-> p]
              /\ ignored' = ignored \union {thread.event}
         ELSE /\ thread' = [thread EXCEPT !.pc = "handle", !.port = p]
              /\ UNCHANGED ignored
    /\ UNCHANGED <<kports, kernel, objects, ports, callback, inputs>>

NextEvent == thread' = [thread EXCEPT !.pc = "read", !.event = 0]

\* Variant: what the callback gets is queued as well.
handle_both ==
    /\ thread.pc = "handle"
    /\ queue' = [queue EXCEPT ![thread.port] = Append(@, thread.event)]
    /\ IF callback[thread.port] THEN Goto("call") ELSE NextEvent
    /\ UNCHANGED <<kports, kernel, objects, ports, callback, called, received, ignored>>

\* _handle_input_bytes
handle ==
    /\ thread.pc = "handle"
    /\ IF callback[thread.port]
       THEN Goto("call") /\ UNCHANGED queue
       ELSE /\ queue' = [queue EXCEPT ![thread.port] = Append(@, thread.event)]
            /\ NextEvent
    /\ UNCHANGED <<kports, kernel, objects, ports, callback, called, received, ignored>>

\* self._callback(message): _callback is read again, and returns.
call ==
    /\ thread.pc = "call" /\ callback[thread.port]
    /\ called' = [called EXCEPT ![thread.port] = Append(@, thread.event)]
    /\ NextEvent
    /\ UNCHANGED <<kports, kernel, objects, ports, callback, queue, received, ignored>>

\* The application has set it to None since, or it raises: the loop is over.
call_fails ==
    /\ thread.pc = "call"
    /\ Stop
    /\ UNCHANGED <<kports, kernel, objects, ports, callback, inputs, ignored>>
-----------------------------------------------------------------------------
Init ==
    /\ kports = [q \in Ids |-> None]
    /\ fifo = <<>> /\ overflow = FALSE /\ sent = <<>>
    /\ phase = [p \in Ports |-> "new"]
    /\ portId = [p \in Ports |-> 0]
    /\ ports = [q \in Ids |-> None]
    /\ callback = [p \in Ports |-> FALSE]
    /\ queue = [p \in Ports |-> <<>>]
    /\ called = queue /\ received = queue
    /\ thread = [pc |-> "read", event |-> 0, port |-> None]
    /\ ignored = {}

InputLoop == read \/ read_fails \/ route \/ handle \/ call \/ call_fails

Next ==
    \/ \E q \in Ids : Send(q) \/ \E p \in Ports : create_port(p, q)
    \/ \E p \in Ports :
         \/ connect_fails(p)
         \/ register_port(p)
         \/ \E b \in Calls : set_callback(p, b)
         \/ receive(p)
         \/ close_port(p)
         \/ collect_port(p)
    \/ read
    \/ read_fails
    \/ route
    \/ handle
    \/ call
    \/ call_fails

\* The thread runs.
Spec == Init /\ [][Next]_vars
FairSpec == Spec /\ WF_vars(InputLoop)

-----------------------------------------------------------------------------
(* Properties.                                                             *)

Events  == 1..MaxEvents
Closed(p) == phase[p] \in {"closed", "gone"}

\* Every variable holds a value the code can give it; an object that is open has
\* the port it created, and only Input objects are handed events.
TypeOK ==
    /\ kports \in [Ids -> Ports \union {None}]
    /\ fifo \in Seq(Events) /\ Len(fifo) <= FifoSize
    /\ overflow \in BOOLEAN
    /\ sent \in Seq([id : Ids, to : Inputs, ready : BOOLEAN])
    /\ phase \in [Ports -> {"new", "created", "open", "closed", "gone"}]
    /\ portId \in [Ports -> Ids]
    /\ ports \in [Ids -> Ports \union {None}]
    /\ callback \in [Ports -> BOOLEAN]
    /\ \A f \in {queue, called, received} :
          f \in [Ports -> Seq(Events)] /\ \A p \in Ports \ Inputs : f[p] = <<>>
    /\ thread \in [pc : {"read", "route", "handle", "call", "dead"},
                   event : Events \union {0}, port : Ports \union {None}]
    /\ ignored \subseteq Events
    /\ \A p \in Ports : phase[p] \in {"created", "open"} <=> \E q \in Ids : kports[q] = p

Queued(p)  == received[p] \o queue[p]
Handled(p) == Range(called[p]) \union Range(Queued(p))
Pending    == Range(fifo) \union {thread.event}

Increasing(s) == \A i, j \in DOMAIN s : i < j => s[i] < s[j]

\* Each event is handed to one object at most, once, and by each of its two ways,
\* the callback and the queue, an object gets its events in the order they were
\* sent.
InOrderOnce ==
    /\ \A p \in Ports : /\ Increasing(called[p]) /\ Increasing(Queued(p))
                        /\ Range(called[p]) \intersect Range(Queued(p)) = {}
                        /\ Handled(p) \intersect (Pending \union ignored) = {}
    /\ \A p, r \in Ports : p # r => Handled(p) \intersect Handled(r) = {}

\* An object gets an event sent to another one's port only if that one has been
\* closed since, and the id passed on, or had not finished opening when it was
\* sent: never an event for an object that was open and still is.
OnlyOwnEvents ==
    \A p \in Ports : \A n \in Handled(p) :
        sent[n].to = p \/ ~sent[n].ready \/ Closed(sent[n].to)

\* The thread passes over an event only if its object has been closed or had not
\* finished opening: the end of an object that had the id before takes nothing
\* away from the one that has it now.
OpenPortsHear ==
    \A n \in ignored : ~sent[n].ready \/ Closed(sent[n].to)

\* The thread gets to every event in the kernel's FIFO, unless it ends because the
\* FIFO was full or because a callback raised or was set to None under it.
EventsServed ==
    \A n \in Events :
        (n \in Range(fifo))
            ~> (Dead \/ n \in ignored \/ \E p \in Ports : n \in Handled(p))
=============================================================================
