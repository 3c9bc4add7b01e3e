----------------------------- MODULE EventCodec -----------------------------
(***************************************************************************)
(* Event objects and the snd_seq_event_t they are converted to and from:   *)
(* an application makes an event or receives one, assigns its attributes,  *)
(* sends it, once or again, with or without a queue, port and destination  *)
(* given to the call.  The timestamp is where it is delicate: one union in *)
(* ALSA's structure, which two flags tell how to read, and three           *)
(* attributes of an Event (time, tick and relative) next to its flags.     *)
(*                                                                         *)
(* The data part of the structure has two parts here: what the class of    *)
(* the event has attributes for (named), and the bytes it has none for     *)
(* (rest), which only raw_data holds.  The classes differ by what their    *)
(* constructors do with their attributes:                                  *)
(*   plain     has none (Event itself, EchoEvent, OSSEvent, ResetEvent)    *)
(*   named     takes any value (ResultEventBase, ControlChangeEventBase,   *)
(*             ParamChangeEventBase, AddressEventBase, ConnectEventBase)   *)
(*   checked   refuses values over 7 or 4 bits (NoteEventBase)             *)
(*   optional  takes None too (QueueControlEventBase)                      *)
(*   external  has bytes outside of the structure (ExternalDataEventBase)  *)
(***************************************************************************)
EXTENDS Integers

CONSTANTS
    None,        \* Python's None
    Billion,     \* nanoseconds in a second
    FlagSets,    \* values of flags: sets of "REAL", "REL" and other flags, or None
    Times,       \* arguments of RealTime: pairs of integers
    Ticks,       \* values of tick, and of the queue's position
    Headers,     \* the queue_id, source and dest an event is made with
    Arguments,   \* the queue, port and dest a call is given
    Queues,      \* queue ids
    Closed,      \* a Queue object that is closed, given to a call
    Values,      \* contents of either part of the data
    Raws,        \* what may be given for raw_data
    Wide,        \* those of them with more bits than MIDI has
    Sender,      \* the id of the client that sends
    MaxHops      \* bound: how often an event is sent

DIRECT      == 253
SUBSCRIBERS == <<254, 0>>

Data == [named : Values \union {"zero"}, rest : Values \union {"zero"}]

\* The address of a client and a port.
Addresses == Nat \X Nat

\* The flags there are.
Flags == {"REAL", "REL", "VARIABLE"} \union (UNION (FlagSets \ {None}))

\* None is none of the values an attribute may have instead.
ASSUME CodecAssumption ==
    /\ Billion \in Nat \ {0}
    /\ Times \subseteq Int \X Int /\ Ticks \subseteq Nat
    /\ MaxHops \in Nat /\ Sender \in Nat
    /\ \A h \in Headers : /\ h.queue_id \in Queues \union {None}
                          /\ {h.source, h.dest} \subseteq Addresses \union {None}
    /\ \A a \in Arguments : /\ a.queue \in Queues \union {None, Closed}
                            /\ a.port \in Nat \union {None}
                            /\ a.dest \in Addresses \union {None}
    /\ Wide \subseteq Values /\ Raws \subseteq {None} \union Data
    /\ None \notin Nat /\ None \notin Int \X Int /\ None \notin BOOLEAN
    /\ (\A f \in SUBSET Flags : f # None) /\ None \notin Data
    /\ None \notin Queues /\ None \notin Values \union {"zero"} /\ Closed # None

VARIABLES
    event,       \* the Event object, or None
    wire,        \* the snd_seq_event_t made of this event, or that it was made of
    outcome,     \* "new", "received", "sent" or "raised"
    args,        \* the arguments of the call that sent it
    origin,      \* history: what the event was received as, if not assigned to since
    hops         \* history: how often it was sent

vars == <<event, wire, outcome, args, origin, hops>>

NoArgs == [queue |-> None, port |-> None, dest |-> None]
Kinds  == {"plain", "named", "checked", "optional", "external"}
Zeroes == [named |-> "zero", rest |-> "zero"]

-----------------------------------------------------------------------------
(* RealTime(seconds, nanoseconds) of two integers; None where it raises.   *)

\* Variant: what is over a second is cut off.
RealTimeCut(t) ==
    LET ns == t[2] % Billion IN IF t[1] < 0 \/ t[2] < 0 THEN None ELSE <<t[1], ns>>

RealTime(t) ==
    LET carry == IF t[2] >= Billion THEN t[2] \div Billion ELSE 0
        s     == t[1] + carry
        ns    == t[2] - carry * Billion
    IN  IF s < 0 \/ ns < 0 THEN None ELSE <<s, ns>>

-----------------------------------------------------------------------------
(* Event._from_alsa and Event._to_alsa, with what the classes add to them. *)

Attribute(a) == IF a.kind = "plain" THEN None ELSE a.data.named

\* The constructor that _from_alsa calls raises for such a structure.
Unreadable(a) == a.kind = "checked" /\ a.data.named \in Wide

\* Variant: what the time counts from is not taken from the flags.
from_alsa_abs(a) ==
    [kind |-> a.kind, attr |-> Attribute(a), raw |-> a.data,
     flags |-> a.flags, queue_id |-> a.queue,
     time |-> IF "REAL" \in a.flags THEN RealTime(a.time) ELSE None,
     tick |-> IF "REAL" \in a.flags THEN None ELSE a.time[1],
     relative |-> FALSE,
     source |-> a.source, dest |-> a.dest]

_from_alsa(a) ==
    [kind |-> a.kind, attr |-> Attribute(a), raw |-> a.data,
     flags |-> a.flags, queue_id |-> a.queue,
     time |-> IF "REAL" \in a.flags THEN RealTime(a.time) ELSE None,
     tick |-> IF "REAL" \in a.flags THEN None ELSE a.time[1],
     relative |-> "REL" \in a.flags,
     source |-> a.source, dest |-> a.dest]

Otherwise(x, y) == IF x # None THEN x ELSE y

\* Variant: the flags are added to and never taken away.
TimestampedAdded(e) ==
    e.flags \union (IF e.time # None THEN {"REAL"} ELSE {})
            \union (IF e.relative = TRUE THEN {"REL"} ELSE {})

Timestamped(e) ==
    LET stamped == IF e.time # None THEN e.flags \union {"REAL"}
                   ELSE IF e.tick # None THEN e.flags \ {"REAL"} ELSE e.flags
    IN  IF e.relative = None THEN stamped
        ELSE IF e.relative THEN stamped \union {"REL"} ELSE stamped \ {"REL"}

\* A class with external data adds its flag after Event._to_alsa has set them all.
WireFlags(e) ==
    Timestamped(e) \union (IF e.kind = "external" THEN {"VARIABLE"} ELSE {})

\* The raw data is copied first, and the class writes its attributes over it.
WireData(e) ==
    LET raw == Otherwise(e.raw, Zeroes)
    IN  IF e.attr = None THEN raw ELSE [raw EXCEPT !.named = e.attr]

\* The union: a tick lies where the seconds do, in a structure that is all zeroes.
WireTime(e) ==
    IF e.time # None THEN e.time ELSE IF e.tick # None THEN <<e.tick, 0>> ELSE <<0, 0>>

\* Variant: an event's own queue and destination come before the arguments.
to_alsa_own(e, a) ==
    [kind   |-> e.kind, flags |-> WireFlags(e), time |-> WireTime(e), data |-> WireData(e),
     queue  |-> Otherwise(e.queue_id, Otherwise(a.queue, DIRECT)),
     source |-> IF a.port # None THEN <<0, a.port>> ELSE Otherwise(e.source, <<0, 0>>),
     dest   |-> Otherwise(e.dest, Otherwise(a.dest, SUBSCRIBERS))]

_to_alsa(e, a) ==
    [kind   |-> e.kind, flags |-> WireFlags(e), time |-> WireTime(e), data |-> WireData(e),
     queue  |-> Otherwise(a.queue, Otherwise(e.queue_id, DIRECT)),
     source |-> IF a.port # None THEN <<0, a.port>> ELSE Otherwise(e.source, <<0, 0>>),
     dest   |-> Otherwise(a.dest, Otherwise(e.dest, SUBSCRIBERS))]

\* It raises when time and tick are both set (an assertion), when flags=None was
\* given (the attribute is missing then), and for a closed queue, whose queue_id
\* is None; a closed port still has its number.
Raises(e, a) ==
    \/ e.time # None /\ e.tick # None
    \/ e.flags = None
    \/ a.queue = Closed

-----------------------------------------------------------------------------
Init ==
    /\ event = None /\ wire = None /\ outcome = "new"
    /\ args = NoArgs /\ origin = None /\ hops = 0

\* What the constructor of a class makes of its argument; a queue's id is None
\* when the queue is closed.
Given(v) == IF v = Closed THEN None ELSE v

Arity(kind, v) ==
    IF kind = "plain" THEN v = None ELSE v = None \/ v = Closed => kind = "optional"

\* Event(...): it raises for a time and a tick, for a time that is negative, and
\* for a value that has too many bits.
construct(kind, v, raw, header, flags, time, tick, relative) ==
    /\ Arity(kind, v)
    /\ IF \/ time # None /\ (tick # None \/ RealTime(time) = None)
          \/ kind = "checked" /\ v \in Wide
       THEN outcome' = "raised" /\ UNCHANGED event
       ELSE /\ outcome' = "new"
            /\ event' = [kind |-> kind, attr |-> Given(v), raw |-> raw,
                         flags |-> flags, queue_id |-> header.queue_id,
                         time |-> IF time = None THEN None ELSE RealTime(time),
                         tick |-> tick, relative |-> relative,
                         source |-> header.source, dest |-> header.dest]
    /\ UNCHANGED <<wire, args, origin, hops>>

\* The application assigns one attribute of the object.
Assign(new) ==
    /\ outcome # "raised" /\ new # event
    /\ event' = new
    /\ origin' = None /\ wire' = None /\ outcome' = "new" /\ args' = NoArgs
    /\ UNCHANGED hops

AssignTime(t) ==
    /\ event # None
    /\ IF t = None THEN Assign([event EXCEPT !.time = None])
       ELSE RealTime(t) # None /\ Assign([event EXCEPT !.time = RealTime(t)])

AssignTick(n)     == event # None /\ Assign([event EXCEPT !.tick = n])
AssignRelative(b) == event # None /\ Assign([event EXCEPT !.relative = b])

\* The constructor checks the values, an assignment does not.
AssignAttribute(v) ==
    event # None /\ Arity(event.kind, v) /\ v # Closed /\ Assign([event EXCEPT !.attr = v])

\* event_output and the calls like it, up to the structure they hand to ALSA.
output(a) ==
    /\ event # None /\ outcome # "raised" /\ hops < MaxHops
    /\ args' = a
    /\ IF Raises(event, a) THEN outcome' = "raised" /\ wire' = None /\ UNCHANGED hops
       ELSE outcome' = "sent" /\ wire' = _to_alsa(event, a) /\ hops' = hops + 1
    /\ UNCHANGED <<event, origin>>

\* The kernel fills in the sender; an event it queues by a time relative to now
\* is delivered with the time it was due.
Delivered(now) ==
    LET queued == wire.queue # DIRECT /\ "REL" \in wire.flags
    IN  [wire EXCEPT !.source = <<Sender, wire.source[2]>>,
                     !.flags  = IF queued THEN @ \ {"REL"} ELSE @,
                     !.time   = IF queued THEN <<@[1] + now, @[2]>> ELSE @]

\* snd_seq_event_input has removed the structure when _from_alsa is called: what it
\* raises for is lost.
Received(a) ==
    /\ wire' = a
    /\ IF Unreadable(a) THEN event' = None /\ origin' = None /\ outcome' = "raised"
       ELSE event' = _from_alsa(a) /\ origin' = a /\ outcome' = "received"
    /\ args' = NoArgs
    /\ UNCHANGED hops

\* The other end receives it: what it has then is an Event of its own.
receive(now) == outcome = "sent" /\ Received(Delivered(now))

\* An event from a program that fills in the structure itself.
receive_any ==
    /\ \E kind \in Kinds, flags \in FlagSets \ {None}, t \in Times, n \in Ticks,
          v, r \in Values, h \in Headers :
         /\ "REAL" \in flags => RealTime(t) = t
         /\ h.source # None /\ h.dest # None
         /\ Received([kind |-> kind,
                      flags |-> flags \union (IF kind = "external" THEN {"VARIABLE"} ELSE {}),
                      time |-> IF "REAL" \in flags THEN t ELSE <<n, 0>>,
                      data |-> [named |-> v, rest |-> r],
                      queue |-> Otherwise(h.queue_id, DIRECT), source |-> h.source, dest |-> h.dest])

\* There is no event yet.
NoEventYet == event = None /\ outcome = "new"

Next ==
    \/ /\ NoEventYet
       /\ \/ \E kind \in Kinds, v \in Values \union {None, Closed}, raw \in Raws,
               header \in Headers, flags \in FlagSets, time \in Times \union {None},
               tick \in Ticks \union {None}, relative \in {None, TRUE, FALSE} :
               construct(kind, v, raw, header, flags, time, tick, relative)
          \/ receive_any
    \/ \E t \in Times \union {None} : AssignTime(t)
    \/ \E n \in Ticks \union {None} : AssignTick(n)
    \/ \E b \in {None, TRUE, FALSE} : AssignRelative(b)
    \/ \E v \in Values \union {None} : AssignAttribute(v)
    \/ \E a \in Arguments : output(a)
    \/ \E now \in Ticks : receive(now)

Spec == Init /\ [][Next]_vars
-----------------------------------------------------------------------------
(* Properties.                                                             *)

Normal == Nat \X (0..(Billion - 1))

Value(t) == t[1] * Billion + t[2]

\* RealTime keeps the time it is given, normalised, or raises for one below zero, so
\* that comparing seconds and then nanoseconds (__lt__, __eq__) orders the time of an
\* event and any other as they follow each other.
TimesNormalised ==
    event # None /\ event.time # None => \A t \in Times :
        LET a == event.time
            b == RealTime(t)
        IN  /\ Value(t) < 0 => b = None
            /\ b # None => /\ b \in Normal /\ Value(b) = Value(t)
                           /\ a = b <=> Value(a) = Value(t)
                           /\ (a[1] < b[1] \/ (a[1] = b[1] /\ a[2] < b[2])) <=> Value(a) < Value(t)

\* An event is sent with the attributes it has, whatever its flags and its raw data
\* were: who receives the structure as it is reads the same time, tick, relative and
\* data from it, or cannot read it, and finds the bytes no attribute is for as they were.
AttributesSent ==
    outcome = "sent" =>
        LET e == _from_alsa(wire)
        IN  /\ event.time # None => e.time = event.time
            /\ event.tick # None => e.tick = event.tick
            /\ event.relative # None => e.relative = event.relative
            /\ event.attr # None => e.attr = event.attr
            /\ event.raw # None => e.raw.rest = event.raw.rest
            /\ e.flags \ {"REAL", "REL", "VARIABLE"} = event.flags \ {"REAL", "REL", "VARIABLE"}

\* An event that was received and is sent on as it is goes out exactly as it came,
\* but for what the call says of it, and the call raises only for a closed queue.
ForwardedIntact ==
    origin # None =>
        /\ outcome = "sent" =>
              wire = [origin EXCEPT
                        !.queue  = Otherwise(args.queue, @),
                        !.source = IF args.port = None THEN @ ELSE <<0, args.port>>,
                        !.dest   = Otherwise(args.dest, @)]
        /\ outcome = "raised" => args.queue = Closed

\* "The queue to force the event to", and the port and the destination: what the
\* call is given comes before what the event has, and that before direct dispatch
\* to all subscribers.
AddressedRight ==
    outcome = "sent" =>
        /\ args.queue # None => wire.queue = args.queue
        /\ args.queue = None /\ event.queue_id = None => wire.queue = DIRECT
        /\ args.port # None => wire.source[2] = args.port
        /\ args.dest # None => wire.dest = args.dest
        /\ args.dest = None /\ event.dest = None => wire.dest = SUBSCRIBERS
=============================================================================
