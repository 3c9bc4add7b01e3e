-------------------------- MODULE EventCodec_proofs --------------------------
(***************************************************************************)
(* For every event, time, flag and argument: what an event is sent with is *)
(* what its attributes and the call say, and an event that was received is *)
(* sent on as it came.                                                     *)
(***************************************************************************)
EXTENDS EventCodec, TLAPS

USE CodecAssumption

\* The queues an event may be from.
AnyQueue == Queues \union {DIRECT}

\* The Event objects there are.
IsEvent(e) ==
    /\ e \in [kind : Kinds, attr : Values \union {"zero", None}, raw : Data \union {None},
              flags : {None} \union SUBSET Flags, queue_id : AnyQueue \union {None},
              time : Normal \union {None}, tick : Nat \union {None},
              relative : BOOLEAN \union {None},
              source : Addresses \union {None}, dest : Addresses \union {None}]
    /\ e.kind = "plain" => e.attr = None

Wires ==
    [kind : Kinds, flags : SUBSET Flags, time : Normal, data : Data,
     queue : AnyQueue, source : Addresses, dest : Addresses]

\* The structures there are: a time in ticks is all in the first part of the union, and
\* a class with external data marks it.
IsWire(w) ==
    /\ w \in Wires
    /\ "REAL" \notin w.flags => w.time[2] = 0
    /\ w.kind = "external" => "VARIABLE" \in w.flags

Calls == Arguments \union {NoArgs}

Typed ==
    /\ event # None => IsEvent(event)
    /\ args \in Calls
    /\ outcome = "new" => origin = None

\* What is sent is made of the event as it is, and the call.
Made ==
    outcome = "sent" =>
        event # None /\ ~Raises(event, args) /\ wire = _to_alsa(event, args)

\* An event that was received, and not assigned to since, is what it was made of.
Kept ==
    origin # None => /\ IsWire(origin) /\ event = _from_alsa(origin)
                     /\ outcome = "raised" => Raises(event, args)

IInv == Typed /\ Made /\ Kept

-----------------------------------------------------------------------------
(* Times.                                                                  *)

\* What RealTime makes of two integers: the same time, normalised, or nothing when it
\* is below zero; a normal time stays as it is.
LEMMA Normalised ==
    ASSUME NEW t \in Int \X Int
    PROVE  /\ RealTime(t) # None => RealTime(t) \in Normal /\ Value(RealTime(t)) = Value(t)
           /\ Value(t) < 0 => RealTime(t) = None
           /\ t \in Normal => RealTime(t) = t
  <1> DEFINE c  == IF t[2] >= Billion THEN t[2] \div Billion ELSE 0
             s  == t[1] + c
             ns == t[2] - c * Billion
  <1>1. t[1] \in Int /\ t[2] \in Int /\ t = <<t[1], t[2]>>
    OBVIOUS
  <1>2. c \in Nat /\ ns \in Int /\ ns < Billion /\ (t[2] < Billion => c = 0)
    <2>1. CASE t[2] >= Billion
      <3>1. /\ t[2] \div Billion \in Nat /\ Billion * (t[2] \div Billion) <= t[2]
            /\ t[2] < Billion * (t[2] \div Billion) + Billion
        BY <1>1, <2>1
      <3> QED
        BY <1>1, <2>1, <3>1
    <2>2. CASE ~(t[2] >= Billion)
      BY <1>1, <2>2
    <2> QED
      BY <2>1, <2>2
  <1>3. s * Billion + ns = t[1] * Billion + t[2]
    BY <1>1, <1>2
  <1>4. RealTime(t) = IF s < 0 \/ ns < 0 THEN None ELSE <<s, ns>>
    BY DEF RealTime
  <1> HIDE DEF c, s, ns
  <1>5. s \in Int
    BY <1>1, <1>2 DEF s
  <1>6. CASE s < 0 \/ ns < 0
    BY <1>1, <1>2, <1>4, <1>6 DEF Normal, s, ns
  <1>7. CASE ~(s < 0 \/ ns < 0)
    <2>1. RealTime(t) = <<s, ns>> /\ <<s, ns>> \in Normal
      BY <1>2, <1>4, <1>5, <1>7 DEF Normal
    <2>2. Value(<<s, ns>>) = Value(t)
      BY <1>3 DEF Value
    <2>3. s * Billion \in Nat
      <3>1. s \in Nat
        BY <1>5, <1>7
      <3> QED
        BY <3>1
    <2>4. ~(Value(t) < 0)
      <3>1. Value(t) = s * Billion + ns
        BY <1>3 DEF Value
      <3>2. s * Billion + ns \in Nat
        BY <1>2, <1>7, <2>3
      <3>3. \A x \in Nat : ~(x < 0)
        OBVIOUS
      <3> QED
        BY <3>1, <3>2, <3>3, Zenon
    <2>5. t \in Normal => t = <<s, ns>>
      BY <1>1, <1>2 DEF Normal, s, ns
    <2> QED
      BY <2>1, <2>2, <2>4, <2>5
  <1> QED
    BY <1>6, <1>7

\* Normal times are ordered as their parts are.
LEMMA NormalOrder ==
    ASSUME NEW a \in Normal, NEW b \in Normal
    PROVE  /\ a = b <=> Value(a) = Value(b)
           /\ (a[1] < b[1] \/ (a[1] = b[1] /\ a[2] < b[2])) <=> Value(a) < Value(b)
  <1>1. /\ a[1] \in Nat /\ b[1] \in Nat /\ a[2] \in 0..(Billion - 1) /\ b[2] \in 0..(Billion - 1)
        /\ a = <<a[1], a[2]>> /\ b = <<b[1], b[2]>>
    BY DEF Normal
  <1>2. \A x, y \in Nat : x < y => x * Billion + Billion <= y * Billion
    <2> SUFFICES ASSUME NEW x \in Nat, NEW y \in Nat, x < y
                 PROVE  x * Billion + Billion <= y * Billion
      OBVIOUS
    <2>1. (y - x - 1) \in Nat /\ y * Billion = x * Billion + Billion + (y - x - 1) * Billion
      OBVIOUS
    <2>2. (y - x - 1) * Billion >= 0
      BY <2>1
    <2> QED
      BY <2>1, <2>2
  <1>3. CASE a[1] < b[1]
    <2>1. a[1] * Billion + Billion <= b[1] * Billion
      BY <1>1, <1>2, <1>3
    <2> QED
      BY <1>1, <1>3, <2>1 DEF Value
  <1>4. CASE b[1] < a[1]
    <2>1. b[1] * Billion + Billion <= a[1] * Billion
      BY <1>1, <1>2, <1>4
    <2> QED
      BY <1>1, <1>4, <2>1 DEF Value
  <1>5. CASE a[1] = b[1]
    <2>1. Value(a) = a[1] * Billion + a[2] /\ Value(b) = a[1] * Billion + b[2] /\ a[1] * Billion \in Int
      BY <1>1, <1>5 DEF Value
    <2> QED
      BY <1>1, <1>5, <2>1
  <1> QED
    BY <1>1, <1>3, <1>4, <1>5

-----------------------------------------------------------------------------
(* The two conversions.                                                    *)

\* None is no flag set, no address, no queue and no normal time.
LEMMA NoneIsNothing ==
    /\ None \notin SUBSET Flags /\ None \notin Addresses /\ None \notin AnyQueue
    /\ None \notin Normal /\ None \notin Nat /\ None \notin BOOLEAN /\ None \notin Data
    /\ None \notin Values \union {"zero"}
    /\ SUBSCRIBERS \in Addresses /\ <<0, 0>> \in Addresses /\ <<0, 0>> \in Normal
  BY DEF Addresses, AnyQueue, Normal, DIRECT, SUBSCRIBERS

\* What a call is given.
LEMMA CallTypes ==
    ASSUME NEW a \in Calls
    PROVE  /\ a.queue \in Queues \union {None, Closed} /\ a.port \in Nat \union {None}
           /\ a.dest \in Addresses \union {None}
  BY DEF Calls, NoArgs

\* The time of a structure that is read: nothing is lost when it is put back.
LEMMA ReadTime ==
    ASSUME NEW w, IsWire(w)
    PROVE  RealTime(w.time) = w.time /\ w.time \in Normal /\ w.time[1] \in Nat
           /\ w.time = <<w.time[1], w.time[2]>>
  <1>1. w.time \in Normal /\ w.time \in Int \X Int
    BY DEF IsWire, Wires, Normal
  <1> QED
    BY <1>1, Normalised DEF Normal

\* What is made of a structure is an event.
LEMMA FromWire ==
    ASSUME NEW w, IsWire(w)
    PROVE  IsEvent(_from_alsa(w))
  <1> DEFINE e == _from_alsa(w)
  <1>1. /\ w.kind \in Kinds /\ w.flags \in SUBSET Flags /\ w.data \in Data /\ w.queue \in AnyQueue
        /\ w.source \in Addresses /\ w.dest \in Addresses
    BY DEF IsWire, Wires
  <1>2. /\ e.kind = w.kind /\ e.attr = Attribute(w) /\ e.raw = w.data /\ e.flags = w.flags
        /\ e.queue_id = w.queue /\ e.source = w.source /\ e.dest = w.dest
        /\ e.relative = ("REL" \in w.flags)
        /\ e.time = (IF "REAL" \in w.flags THEN RealTime(w.time) ELSE None)
        /\ e.tick = (IF "REAL" \in w.flags THEN None ELSE w.time[1])
    BY DEF _from_alsa
  <1>3. e.time \in Normal \union {None} /\ e.tick \in Nat \union {None}
    BY <1>2, ReadTime
  <1>4. e.attr \in Values \union {"zero", None} /\ (e.kind = "plain" => e.attr = None)
    BY <1>1, <1>2 DEF Attribute, Data
  <1>5. e.relative \in BOOLEAN \union {None}
    BY <1>2
  <1>6. e = [kind |-> e.kind, attr |-> e.attr, raw |-> e.raw, flags |-> e.flags,
             queue_id |-> e.queue_id, time |-> e.time, tick |-> e.tick, relative |-> e.relative,
             source |-> e.source, dest |-> e.dest]
    BY DEF _from_alsa
  <1> HIDE DEF e
  <1>7. IsEvent(e)
    BY <1>1, <1>2, <1>3, <1>4, <1>5, <1>6 DEF IsEvent
  <1> QED
    BY <1>7 DEF e

\* The flags of a structure: REAL for a time, not for a tick, REL as the event says.
LEMMA FlagsMade ==
    ASSUME NEW e, IsEvent(e), e.flags # None, e.time = None \/ e.tick = None
    PROVE  /\ WireFlags(e) \in SUBSET Flags
           /\ e.time # None => "REAL" \in WireFlags(e)
           /\ e.tick # None => "REAL" \notin WireFlags(e)
           /\ e.relative # None => (e.relative <=> "REL" \in WireFlags(e))
           /\ e.kind = "external" => "VARIABLE" \in WireFlags(e)
           /\ WireFlags(e) \ {"REAL", "REL", "VARIABLE"} = e.flags \ {"REAL", "REL", "VARIABLE"}
  <1>1. e.flags \in SUBSET Flags /\ {"REAL", "REL", "VARIABLE"} \subseteq Flags
    <2>1. e.flags \in SUBSET Flags
      BY DEF IsEvent
    <2>2. "REAL" \in Flags /\ "REL" \in Flags /\ "VARIABLE" \in Flags
      BY DEF Flags
    <2> QED
      BY <2>1, <2>2
  <1> DEFINE stamped == IF e.time # None THEN e.flags \union {"REAL"}
                        ELSE IF e.tick # None THEN e.flags \ {"REAL"} ELSE e.flags
  <1>2. /\ stamped \in SUBSET Flags
        /\ e.time # None => "REAL" \in stamped
        /\ e.tick # None => "REAL" \notin stamped
        /\ stamped \ {"REAL", "REL", "VARIABLE"} = e.flags \ {"REAL", "REL", "VARIABLE"}
    BY <1>1
  <1>3. Timestamped(e) = IF e.relative = None THEN stamped
                         ELSE IF e.relative THEN stamped \union {"REL"} ELSE stamped \ {"REL"}
    BY DEF Timestamped
  <1> HIDE DEF stamped
  <1>4. /\ Timestamped(e) \in SUBSET Flags
        /\ "REAL" \in Timestamped(e) <=> "REAL" \in stamped
        /\ Timestamped(e) \ {"REAL", "REL", "VARIABLE"} = stamped \ {"REAL", "REL", "VARIABLE"}
    BY <1>1, <1>2, <1>3
  <1>5. e.relative # None => (e.relative <=> "REL" \in Timestamped(e))
    BY <1>3 DEF IsEvent
  <1> QED
    BY <1>1, <1>2, <1>4, <1>5 DEF WireFlags

\* An event with no time and tick at once has its time in the structure; the data is the
\* raw data with the attribute over it.
LEMMA ValuesMade ==
    ASSUME NEW e, IsEvent(e), e.time = None \/ e.tick = None
    PROVE  /\ WireTime(e) \in Normal
           /\ e.time # None => WireTime(e) = e.time
           /\ e.time = None => WireTime(e)[2] = 0
           /\ e.tick # None => WireTime(e)[1] = e.tick
           /\ WireData(e) \in Data
           /\ e.attr # None => WireData(e).named = e.attr
           /\ e.attr = None /\ e.raw # None => WireData(e) = e.raw
           /\ e.raw # None => WireData(e).rest = e.raw.rest
  <1>1. e.time \in Normal \union {None} /\ e.tick \in Nat \union {None} /\ e.raw \in Data \union {None}
        /\ e.attr \in Values \union {"zero", None}
    BY DEF IsEvent
  <1>2. /\ WireTime(e) \in Normal
        /\ e.time # None => WireTime(e) = e.time
        /\ e.time = None => WireTime(e)[2] = 0
        /\ e.tick # None => WireTime(e)[1] = e.tick
    <2>1. CASE e.time # None
      BY <1>1, <2>1 DEF WireTime
    <2>2. CASE e.time = None /\ e.tick # None
      <3>1. WireTime(e) = <<e.tick, 0>> /\ e.tick \in Nat /\ 0 \in 0..(Billion - 1)
        BY <1>1, <2>2 DEF WireTime
      <3> QED
        BY <2>2, <3>1 DEF Normal
    <2>3. CASE e.time = None /\ e.tick = None
      <3>1. WireTime(e) = <<0, 0>>
        BY <2>3 DEF WireTime
      <3> QED
        BY <2>3, <3>1, NoneIsNothing
    <2> QED
      BY <2>1, <2>2, <2>3
  <1> DEFINE raw == Otherwise(e.raw, Zeroes)
  <1>3. raw \in Data /\ (e.raw # None => raw = e.raw)
    BY <1>1 DEF Otherwise, Zeroes, Data
  <1>4. WireData(e) = IF e.attr = None THEN raw ELSE [raw EXCEPT !.named = e.attr]
    BY DEF WireData
  <1> HIDE DEF raw
  <1>5. /\ WireData(e) \in Data
        /\ e.attr # None => WireData(e).named = e.attr
        /\ e.attr = None => WireData(e) = raw
        /\ WireData(e).rest = raw.rest
    BY <1>1, <1>3, <1>4 DEF Data
  <1> QED
    BY <1>2, <1>3, <1>5

\* What the call gives comes before what the event has.
LEMMA HeaderMade ==
    ASSUME NEW e, IsEvent(e), NEW a \in Calls, a.queue # Closed
    PROVE  /\ _to_alsa(e, a).queue \in AnyQueue /\ _to_alsa(e, a).source \in Addresses
           /\ _to_alsa(e, a).dest \in Addresses
           /\ _to_alsa(e, a).queue  = IF a.queue # None THEN a.queue
                                      ELSE IF e.queue_id # None THEN e.queue_id ELSE DIRECT
           /\ _to_alsa(e, a).source = IF a.port # None THEN <<0, a.port>>
                                      ELSE IF e.source # None THEN e.source ELSE <<0, 0>>
           /\ _to_alsa(e, a).dest   = IF a.dest # None THEN a.dest
                                      ELSE IF e.dest # None THEN e.dest ELSE SUBSCRIBERS
  <1> DEFINE w == _to_alsa(e, a)
  <1>1. /\ w.queue  = IF a.queue # None THEN a.queue
                      ELSE IF e.queue_id # None THEN e.queue_id ELSE DIRECT
        /\ w.source = IF a.port # None THEN <<0, a.port>>
                      ELSE IF e.source # None THEN e.source ELSE <<0, 0>>
        /\ w.dest   = IF a.dest # None THEN a.dest
                      ELSE IF e.dest # None THEN e.dest ELSE SUBSCRIBERS
    BY DEF _to_alsa, Otherwise
  <1>2. /\ a.queue \in Queues \union {None} /\ e.queue_id \in AnyQueue \union {None}
        /\ DIRECT \in AnyQueue /\ Queues \subseteq AnyQueue
    BY CallTypes DEF IsEvent, AnyQueue
  <1>3. /\ a.port \in Nat \union {None} /\ a.dest \in Addresses \union {None}
        /\ e.source \in Addresses \union {None} /\ e.dest \in Addresses \union {None}
        /\ <<0, 0>> \in Addresses /\ SUBSCRIBERS \in Addresses
    BY CallTypes, NoneIsNothing DEF IsEvent
  <1>4. a.port \in Nat => <<0, a.port>> \in Addresses
    BY DEF Addresses
  <1> HIDE DEF w
  <1>5. w.queue \in AnyQueue /\ w.source \in Addresses /\ w.dest \in Addresses
    BY <1>1, <1>2, <1>3, <1>4
  <1> QED
    BY <1>1, <1>5 DEF w

\* What is made of an event is a structure.
LEMMA ToWire ==
    ASSUME NEW e, IsEvent(e), NEW a \in Calls, ~Raises(e, a)
    PROVE  IsWire(_to_alsa(e, a))
  <1>1. (e.time = None \/ e.tick = None) /\ e.flags # None /\ a.queue # Closed
    BY DEF Raises
  <1>2. WireFlags(e) \in SUBSET Flags /\ WireTime(e) \in Normal /\ WireData(e) \in Data
    BY <1>1, FlagsMade, ValuesMade
  <1>3. e.kind \in Kinds
    BY DEF IsEvent
  <1>4. /\ _to_alsa(e, a) =
              [kind |-> e.kind, flags |-> WireFlags(e), time |-> WireTime(e), data |-> WireData(e),
               queue |-> _to_alsa(e, a).queue, source |-> _to_alsa(e, a).source,
               dest |-> _to_alsa(e, a).dest]
    BY DEF _to_alsa
  <1>5. _to_alsa(e, a) \in Wires
    <2> DEFINE q == _to_alsa(e, a).queue
               s == _to_alsa(e, a).source
               d == _to_alsa(e, a).dest
    <2>1. q \in AnyQueue /\ s \in Addresses /\ d \in Addresses
      BY <1>1, HeaderMade
    <2> HIDE DEF q, s, d
    <2>2. [kind |-> e.kind, flags |-> WireFlags(e), time |-> WireTime(e), data |-> WireData(e),
           queue |-> q, source |-> s, dest |-> d] \in Wires
      BY <1>2, <1>3, <2>1 DEF Wires
    <2> QED
      BY <1>4, <2>2 DEF q, s, d
  <1>6. "REAL" \notin WireFlags(e) => WireTime(e)[2] = 0
    BY <1>1, FlagsMade, ValuesMade
  <1>7. e.kind = "external" => "VARIABLE" \in WireFlags(e)
    BY <1>1, FlagsMade
  <1> QED
    BY <1>4, <1>5, <1>6, <1>7 DEF IsWire, _to_alsa

\* What is received is a structure too.
LEMMA DeliveredWire ==
    ASSUME NEW now \in Ticks, IsWire(wire)
    PROVE  IsWire(Delivered(now))
  <1> DEFINE q == wire.queue # DIRECT /\ "REL" \in wire.flags
             f == IF q THEN wire.flags \ {"REL"} ELSE wire.flags
             t == IF q THEN <<wire.time[1] + now, wire.time[2]>> ELSE wire.time
  <1>1. wire \in Wires /\ wire.source \in Addresses
    BY DEF IsWire, Wires
  <1>2. Delivered(now) = [wire EXCEPT !.source = <<Sender, wire.source[2]>>, !.flags = f, !.time = t]
    BY DEF Delivered
  <1>3. f \in SUBSET Flags /\ ("REAL" \in f <=> "REAL" \in wire.flags)
        /\ ("VARIABLE" \in f <=> "VARIABLE" \in wire.flags)
    BY <1>1 DEF Wires
  <1>4. t \in Normal /\ t[2] = wire.time[2]
    <2>1. wire.time \in Normal /\ now \in Nat
      BY <1>1 DEF Wires
    <2> QED
      BY <2>1 DEF Normal
  <1>5. <<Sender, wire.source[2]>> \in Addresses
    BY <1>1 DEF Addresses
  <1> HIDE DEF f, t
  <1>6. /\ Delivered(now) \in Wires
        /\ Delivered(now).flags = f /\ Delivered(now).time = t /\ Delivered(now).kind = wire.kind
    BY <1>1, <1>2, <1>3, <1>4, <1>5 DEF Wires
  <1> QED
    BY <1>3, <1>4, <1>6 DEF IsWire

\* A structure is what its fields are.
LEMMA SameWire ==
    ASSUME NEW v \in Wires, NEW x \in Wires,
           v.kind = x.kind, v.flags = x.flags, v.time = x.time, v.data = x.data,
           v.queue = x.queue, v.source = x.source, v.dest = x.dest
    PROVE  v = x
  BY DEF Wires

\* Sending on what was received gives the same structure, but for what the call says.
LEMMA RoundTrip ==
    ASSUME NEW w, IsWire(w), NEW a \in Calls, a.queue # Closed
    PROVE  _to_alsa(_from_alsa(w), a) =
              [w EXCEPT !.queue  = Otherwise(a.queue, @),
                        !.source = IF a.port = None THEN @ ELSE <<0, a.port>>,
                        !.dest   = Otherwise(a.dest, @)]
  <1> DEFINE e == _from_alsa(w)
             v == _to_alsa(e, a)
  <1>1. /\ w \in Wires /\ w.kind \in Kinds /\ w.flags \in SUBSET Flags /\ w.data \in Data
        /\ w.queue \in AnyQueue /\ w.source \in Addresses /\ w.dest \in Addresses
        /\ w.time \in Normal
    BY DEF IsWire, Wires
  <1>2. /\ e.kind = w.kind /\ e.attr = Attribute(w) /\ e.raw = w.data /\ e.flags = w.flags
        /\ e.queue_id = w.queue /\ e.source = w.source /\ e.dest = w.dest
        /\ e.relative = ("REL" \in w.flags)
        /\ e.time = (IF "REAL" \in w.flags THEN w.time ELSE None)
        /\ e.tick = (IF "REAL" \in w.flags THEN None ELSE w.time[1])
    BY ReadTime DEF _from_alsa
  <1>3. IsEvent(e)
    BY FromWire
  <1>4. /\ v.queue  = IF a.queue # None THEN a.queue ELSE w.queue
        /\ v.source = IF a.port # None THEN <<0, a.port>> ELSE w.source
        /\ v.dest   = IF a.dest # None THEN a.dest ELSE w.dest
    <2> HIDE DEF e
    <2> QED
      BY <1>1, <1>2, <1>3, HeaderMade, NoneIsNothing
  <1>5. v.kind = w.kind /\ v.flags = WireFlags(e) /\ v.time = WireTime(e) /\ v.data = WireData(e)
    BY DEF _to_alsa, _from_alsa
  <1> HIDE DEF e
  <1>6. WireTime(e) = w.time
    <2>1. w.time[1] \in Nat /\ w.time = <<w.time[1], w.time[2]>>
      BY ReadTime
    <2>2. CASE "REAL" \in w.flags
      <3>1. e.time = w.time /\ e.time # None
        BY <1>1, <1>2, <2>2, NoneIsNothing
      <3> QED
        BY <3>1 DEF WireTime
    <2>3. CASE "REAL" \notin w.flags
      <3>1. e.time = None /\ e.tick = w.time[1] /\ e.tick # None /\ w.time[2] = 0
        BY <1>2, <2>1, <2>3, NoneIsNothing DEF IsWire
      <3> QED
        BY <2>1, <3>1 DEF WireTime
    <2> QED
      BY <2>2, <2>3
  <1>7. WireData(e) = w.data
    <2>1. e.raw # None /\ e.raw = w.data /\ w.data = [w.data EXCEPT !.named = w.data.named]
      BY <1>1, <1>2, NoneIsNothing DEF Data
    <2>2. e.attr = None \/ e.attr = w.data.named
      BY <1>2 DEF Attribute
    <2> QED
      BY <2>1, <2>2 DEF WireData, Otherwise
  <1>8. WireFlags(e) = w.flags
    <2>1. e.relative # None /\ (e.relative <=> "REL" \in w.flags)
      <3>1. e.relative = ("REL" \in w.flags)
        BY <1>2
      <3>2. e.relative = TRUE \/ e.relative = FALSE
        BY <3>1
      <3>3. TRUE # None /\ FALSE # None
        BY NoneIsNothing
      <3> QED
        BY <3>1, <3>2, <3>3
    <2>2. e.time # None <=> "REAL" \in w.flags
      <3>1. w.time # None
        BY <1>1, NoneIsNothing
      <3> QED
        BY <1>2, <3>1
    <2>3. e.tick # None => "REAL" \notin w.flags
      BY <1>2
    <2>4. e.kind = "external" => "VARIABLE" \in w.flags
      BY <1>2 DEF IsWire
    <2>5. e.flags = w.flags
      BY <1>2
    <2>6. Timestamped(e) = w.flags
      <3>1. (IF e.time # None THEN e.flags \union {"REAL"}
             ELSE IF e.tick # None THEN e.flags \ {"REAL"} ELSE e.flags) = w.flags
        <4>1. CASE "REAL" \in w.flags
          <5>1. w.flags \union {"REAL"} = w.flags
            BY <4>1
          <5> QED
            BY <2>2, <2>5, <4>1, <5>1, Zenon
        <4>2. CASE "REAL" \notin w.flags
          <5>1. w.flags \ {"REAL"} = w.flags
            BY <4>2
          <5> QED
            BY <2>2, <2>5, <4>2, <5>1, Zenon
        <4> QED
          BY <4>1, <4>2
      <3>2. Timestamped(e) = IF e.relative THEN w.flags \union {"REL"} ELSE w.flags \ {"REL"}
        BY <2>1, <3>1, Zenon DEF Timestamped
      <3>3. CASE "REL" \in w.flags
        <4>1. w.flags \union {"REL"} = w.flags
          BY <3>3
        <4> QED
          BY <2>1, <3>2, <3>3, <4>1, Zenon
      <3>4. CASE "REL" \notin w.flags
        <4>1. w.flags \ {"REL"} = w.flags
          BY <3>4
        <4> QED
          BY <2>1, <3>2, <3>4, <4>1, Zenon
      <3> QED
        BY <3>3, <3>4
    <2> QED
      BY <2>4, <2>6 DEF WireFlags
  <1>9. v \in Wires
    <2>1. e.time = None \/ e.tick = None
      BY <1>2
    <2>2. e.flags # None
      BY <1>1, <1>2, NoneIsNothing
    <2>3. ~Raises(e, a)
      BY <2>1, <2>2 DEF Raises
    <2> QED
      BY <1>3, <2>3, ToWire DEF IsWire
  <1> HIDE DEF v
  <1> DEFINE q == Otherwise(a.queue, w.queue)
             s == IF a.port = None THEN w.source ELSE <<0, a.port>>
             d == Otherwise(a.dest, w.dest)
             x == [w EXCEPT !.queue = q, !.source = s, !.dest = d]
  <1>10. v.queue = q /\ v.source = s /\ v.dest = d
    BY <1>4 DEF Otherwise
  <1>11. q \in AnyQueue /\ s \in Addresses /\ d \in Addresses
    <2>1. v.queue \in AnyQueue /\ v.source \in Addresses /\ v.dest \in Addresses
      BY <1>9 DEF Wires
    <2> HIDE DEF q, s, d
    <2> QED
      BY <1>10, <2>1
  <1>12. /\ v.kind = w.kind /\ v.flags = w.flags /\ v.time = w.time /\ v.data = w.data
         /\ v.queue = q /\ v.source = s /\ v.dest = d
    <2> HIDE DEF q, s, d
    <2> QED
      BY <1>5, <1>6, <1>7, <1>8, <1>10, Zenon
  <1>13. v = x
    <2> HIDE CodecAssumption
    <2> HIDE DEF q, s, d
    <2>1. /\ x \in Wires /\ x.kind = w.kind /\ x.flags = w.flags /\ x.time = w.time
          /\ x.data = w.data /\ x.queue = q /\ x.source = s /\ x.dest = d
      BY <1>1, <1>11 DEF Wires
    <2> HIDE DEF x
    <2> QED
      BY <1>9, <1>12, <2>1, SameWire
  <1>14. x = [w EXCEPT !.queue = Otherwise(a.queue, w.queue),
                       !.source = IF a.port = None THEN w.source ELSE <<0, a.port>>,
                       !.dest = Otherwise(a.dest, w.dest)]
    OBVIOUS
  <1> HIDE DEF x
  <1>15. v = _to_alsa(_from_alsa(w), a)
    BY DEF v, e
  <1> QED
    BY <1>13, <1>14, <1>15, Zenon

-----------------------------------------------------------------------------
(* The steps.                                                              *)

\* An event that is made is one, and was not received.
LEMMA ConstructSafe ==
    ASSUME IInv, NoEventYet,
           \E kind \in Kinds, v \in Values \union {None, Closed}, raw \in Raws,
              header \in Headers, flags \in FlagSets, time \in Times \union {None},
              tick \in Ticks \union {None}, relative \in {None, TRUE, FALSE} :
              construct(kind, v, raw, header, flags, time, tick, relative)
    PROVE  IInv'
  <1> DEFINE V == Values \union {None, Closed}
             T == Times \union {None}
             K == Ticks \union {None}
             R == {None, TRUE, FALSE}
  <1>1. \E kind \in Kinds, v \in V, raw \in Raws, header \in Headers, flags \in FlagSets,
           time \in T, tick \in K, relative \in R :
           construct(kind, v, raw, header, flags, time, tick, relative)
    OBVIOUS
  <1>2. ASSUME NEW kind \in Kinds, NEW v \in V, NEW raw \in Raws, NEW header \in Headers,
               NEW flags \in FlagSets, NEW time \in T, NEW tick \in K, NEW relative \in R,
               construct(kind, v, raw, header, flags, time, tick, relative)
        PROVE  IInv'
    <2>0. Typed /\ event = None /\ origin = None
      BY DEF IInv, Typed, NoEventYet
    <2>1. UNCHANGED <<wire, args, origin, hops>> /\ outcome' # "sent"
      BY <1>2 DEF construct
    <2>2. event' # None => IsEvent(event')
      <3>1. CASE event' = event
        BY <2>0, <3>1
      <3>2. CASE event' # event
        <4> DEFINE t == IF time = None THEN None ELSE RealTime(time)
        <4>1. event' = [kind |-> kind, attr |-> Given(v), raw |-> raw,
                        flags |-> flags, queue_id |-> header.queue_id,
                        time |-> t, tick |-> tick, relative |-> relative,
                        source |-> header.source, dest |-> header.dest]
              /\ Arity(kind, v)
          BY <1>2, <3>2 DEF construct
        <4>2. Given(v) \in Values \union {"zero", None} /\ (kind = "plain" => Given(v) = None)
          BY <4>1 DEF Given, Arity
        <4>3. flags \in {None} \union SUBSET Flags
          BY DEF Flags
        <4>4. t \in Normal \union {None}
          BY Normalised
        <4>5. /\ header.queue_id \in AnyQueue \union {None}
              /\ header.source \in Addresses \union {None} /\ header.dest \in Addresses \union {None}
          BY DEF AnyQueue
        <4>6. raw \in Data \union {None} /\ tick \in Nat \union {None} /\ relative \in BOOLEAN \union {None}
          OBVIOUS
        <4> HIDE DEF t
        <4> QED
          BY <4>1, <4>2, <4>3, <4>4, <4>5, <4>6 DEF IsEvent
      <3> QED
        BY <3>1, <3>2
    <2> QED
      BY <2>0, <2>1, <2>2 DEF IInv, Typed, Made, Kept
  <1> HIDE DEF V, T, K, R
  <1> QED
    BY <1>1, <1>2, Zenon

\* An event with another attribute is an event, and not what was received any more.
LEMMA AssignSafe ==
    ASSUME IInv,
           \/ \E t \in Times \union {None} : AssignTime(t)
           \/ \E n \in Ticks \union {None} : AssignTick(n)
           \/ \E b \in {None, TRUE, FALSE} : AssignRelative(b)
           \/ \E v \in Values \union {None} : AssignAttribute(v)
    PROVE  IInv'
  <1>1. event # None /\ IsEvent(event)
    BY DEF IInv, Typed, AssignTime, AssignTick, AssignRelative, AssignAttribute
  <1>2. ASSUME NEW new, Assign(new), IsEvent(new)
        PROVE  IInv'
    <2>1. event' = new /\ origin' = None /\ outcome' = "new" /\ args' = NoArgs
      BY <1>2 DEF Assign
    <2> QED
      BY <1>2, <2>1 DEF IInv, Typed, Made, Kept, Calls
  <1>3. ASSUME NEW t \in Times \union {None}, AssignTime(t)
        PROVE  IInv'
    <2>1. CASE t = None
      <3>1. Assign([event EXCEPT !.time = None])
        BY <1>3, <2>1 DEF AssignTime
      <3>2. IsEvent([event EXCEPT !.time = None])
        BY <1>1 DEF IsEvent
      <3> QED
        BY <1>2, <3>1, <3>2
    <2>2. CASE t # None
      <3>1. RealTime(t) # None /\ Assign([event EXCEPT !.time = RealTime(t)])
        BY <1>3, <2>2 DEF AssignTime
      <3>2. RealTime(t) \in Normal
        BY <2>2, <3>1, Normalised
      <3>3. IsEvent([event EXCEPT !.time = RealTime(t)])
        BY <1>1, <3>2 DEF IsEvent
      <3> QED
        BY <1>2, <3>1, <3>3
    <2> QED
      BY <2>1, <2>2
  <1>4. ASSUME NEW n \in Ticks \union {None}, AssignTick(n)
        PROVE  IInv'
    <2>1. IsEvent([event EXCEPT !.tick = n])
      BY <1>1 DEF IsEvent
    <2> QED
      BY <1>2, <1>4, <2>1 DEF AssignTick
  <1>5. ASSUME NEW b \in {None, TRUE, FALSE}, AssignRelative(b)
        PROVE  IInv'
    <2>1. b \in BOOLEAN \union {None}
      OBVIOUS
    <2>2. IsEvent([event EXCEPT !.relative = b])
      BY <1>1, <2>1 DEF IsEvent
    <2> QED
      BY <1>2, <1>5, <2>2 DEF AssignRelative
  <1>6. ASSUME NEW v \in Values \union {None}, AssignAttribute(v)
        PROVE  IInv'
    <2>1. event.kind = "plain" => v = None
      BY <1>6 DEF AssignAttribute, Arity
    <2>2. IsEvent([event EXCEPT !.attr = v])
      BY <1>1, <2>1 DEF IsEvent
    <2> QED
      BY <1>2, <1>6, <2>2 DEF AssignAttribute
  <1> QED
    BY <1>3, <1>4, <1>5, <1>6

\* A call sends the event as it is, or raises.
LEMMA OutputSafe ==
    ASSUME IInv, NEW a \in Arguments, output(a)
    PROVE  IInv'
  <1>1. event # None /\ args' = a /\ UNCHANGED <<event, origin>>
    BY DEF output
  <1>2. CASE Raises(event, a)
    <2>1. outcome' = "raised"
      BY <1>2 DEF output
    <2> QED
      BY <1>1, <1>2, <2>1 DEF IInv, Typed, Made, Kept, Calls
  <1>3. CASE ~Raises(event, a)
    <2>1. outcome' = "sent" /\ wire' = _to_alsa(event, a)
      BY <1>3 DEF output
    <2> QED
      BY <1>1, <1>3, <2>1 DEF IInv, Typed, Made, Kept, Calls
  <1> QED
    BY <1>2, <1>3

\* What is received is an event, unless its constructor raises.
LEMMA ReceivedSafe ==
    ASSUME NEW w, IsWire(w), Received(w)
    PROVE  IInv'
  <1>1. wire' = w /\ args' = NoArgs /\ outcome' \in {"raised", "received"}
    BY DEF Received
  <1>2. CASE Unreadable(w)
    <2>1. event' = None /\ origin' = None
      BY <1>2 DEF Received
    <2> QED
      BY <1>1, <2>1 DEF IInv, Typed, Made, Kept, Calls
  <1>3. CASE ~Unreadable(w)
    <2>1. event' = _from_alsa(w) /\ origin' = w /\ outcome' = "received"
      BY <1>3 DEF Received
    <2>2. IsEvent(event')
      BY <2>1, FromWire
    <2> QED
      BY <1>1, <2>1, <2>2 DEF IInv, Typed, Made, Kept, Calls
  <1> QED
    BY <1>2, <1>3

\* The other end receives what was sent.
LEMMA ReceiveSafe ==
    ASSUME IInv, NEW now \in Ticks, receive(now)
    PROVE  IInv'
  <1>1. Received(Delivered(now)) /\ outcome = "sent"
    BY DEF receive
  <1>2. IsWire(wire)
    BY <1>1, ToWire DEF IInv, Typed, Made
  <1> QED
    BY <1>1, <1>2, DeliveredWire, ReceivedSafe

\* So does who receives a structure that another program has filled in.
LEMMA ReceiveAnySafe ==
    ASSUME receive_any
    PROVE  IInv'
  <1>1. ASSUME NEW kind \in Kinds, NEW flags \in FlagSets \ {None}, NEW t \in Times, NEW n \in Ticks,
               NEW v \in Values, NEW r \in Values, NEW h \in Headers,
               "REAL" \in flags => RealTime(t) = t, h.source # None, h.dest # None,
               Received([kind |-> kind,
                         flags |-> flags \union (IF kind = "external" THEN {"VARIABLE"} ELSE {}),
                         time |-> IF "REAL" \in flags THEN t ELSE <<n, 0>>,
                         data |-> [named |-> v, rest |-> r],
                         queue |-> Otherwise(h.queue_id, DIRECT), source |-> h.source, dest |-> h.dest])
        PROVE  IInv'
    <2> DEFINE f == flags \union (IF kind = "external" THEN {"VARIABLE"} ELSE {})
               x == IF "REAL" \in flags THEN t ELSE <<n, 0>>
               q == Otherwise(h.queue_id, DIRECT)
               w == [kind |-> kind, flags |-> f, time |-> x, data |-> [named |-> v, rest |-> r],
                     queue |-> q, source |-> h.source, dest |-> h.dest]
    <2>1. f \in SUBSET Flags /\ (kind = "external" => "VARIABLE" \in f) /\ ("REAL" \in f <=> "REAL" \in flags)
      BY DEF Flags
    <2>2. x \in Normal /\ ("REAL" \notin flags => x[2] = 0)
      <3>1. CASE "REAL" \in flags
        <4>1. RealTime(t) = t /\ t # None
          BY <1>1, <3>1
        <4>2. t \in Normal
          BY <4>1, Normalised
        <4> QED
          BY <3>1, <4>2
      <3>2. CASE "REAL" \notin flags
        <4>1. n \in Nat /\ 0 \in 0..(Billion - 1)
          OBVIOUS
        <4> QED
          BY <3>2, <4>1 DEF Normal
      <3> QED
        BY <3>1, <3>2
    <2>3. q \in AnyQueue
      BY DEF Otherwise, AnyQueue
    <2>4. h.source \in Addresses /\ h.dest \in Addresses
      BY <1>1
    <2>5. [named |-> v, rest |-> r] \in Data
      BY DEF Data
    <2>6. Received(w)
      BY <1>1
    <2> HIDE DEF f, x, q
    <2>7. IsWire(w)
      BY <2>1, <2>2, <2>3, <2>4, <2>5 DEF IsWire, Wires
    <2> QED
      BY <2>6, <2>7, ReceivedSafe
  <1> QED
    BY <1>1 DEF receive_any

-----------------------------------------------------------------------------
(* The theorems.                                                           *)

\* The strengthened invariant is inductive.
LEMMA Inductive == IInv /\ [Next]_vars => IInv'
  <1> SUFFICES ASSUME IInv, [Next]_vars
               PROVE  IInv'
    OBVIOUS
  <1>1. CASE /\ NoEventYet
             /\ \E kind \in Kinds, v \in Values \union {None, Closed}, raw \in Raws,
                   header \in Headers, flags \in FlagSets, time \in Times \union {None},
                   tick \in Ticks \union {None}, relative \in {None, TRUE, FALSE} :
                   construct(kind, v, raw, header, flags, time, tick, relative)
    BY <1>1, ConstructSafe, Zenon
  <1>2. CASE receive_any
    BY <1>2, ReceiveAnySafe
  <1>3. CASE \/ \E t \in Times \union {None} : AssignTime(t)
             \/ \E n \in Ticks \union {None} : AssignTick(n)
             \/ \E b \in {None, TRUE, FALSE} : AssignRelative(b)
             \/ \E v \in Values \union {None} : AssignAttribute(v)
    BY <1>3, AssignSafe
  <1>4. ASSUME NEW a \in Arguments, output(a)
        PROVE  IInv'
    BY <1>4, OutputSafe
  <1>5. ASSUME NEW now \in Ticks, receive(now)
        PROVE  IInv'
    BY <1>5, ReceiveSafe
  <1>6. CASE UNCHANGED vars
    BY <1>6 DEF vars, IInv, Typed, Made, Kept
  <1> QED
    BY <1>1, <1>2, <1>3, <1>4, <1>5, <1>6, Zenon DEF Next

\* The strengthened invariant holds in every reachable state.
THEOREM Invariant == Spec => []IInv
  <1>1. Init => IInv
    BY DEF Init, IInv, Typed, Made, Kept, Calls
  <1> QED
    BY <1>1, Inductive, PTL DEF Spec

\* RealTime keeps the time it is given, normalised, or raises, so that comparing seconds
\* and then nanoseconds orders the time of an event and any other as they follow.
THEOREM TimesOrdered == Spec => []TimesNormalised
  <1>1. ASSUME IInv
        PROVE  TimesNormalised
    <2> SUFFICES ASSUME event # None, event.time # None, NEW t \in Times
                 PROVE  LET a == event.time
                            b == RealTime(t)
                        IN  /\ Value(t) < 0 => b = None
                            /\ b # None =>
                                 /\ b \in Normal /\ Value(b) = Value(t)
                                 /\ a = b <=> Value(a) = Value(t)
                                 /\ (a[1] < b[1] \/ (a[1] = b[1] /\ a[2] < b[2])) <=> Value(a) < Value(t)
      BY DEF TimesNormalised
    <2>1. event.time \in Normal
      BY <1>1 DEF IInv, Typed, IsEvent
    <2>2. /\ Value(t) < 0 => RealTime(t) = None
          /\ RealTime(t) # None => RealTime(t) \in Normal /\ Value(RealTime(t)) = Value(t)
      BY Normalised
    <2>3. CASE RealTime(t) = None
      BY <2>2, <2>3
    <2>4. CASE RealTime(t) # None
      <3> DEFINE b == RealTime(t)
      <3>1. b \in Normal /\ Value(b) = Value(t)
        BY <2>2, <2>4
      <3>2. /\ event.time = b <=> Value(event.time) = Value(b)
            /\ (event.time[1] < b[1] \/ (event.time[1] = b[1] /\ event.time[2] < b[2]))
                  <=> Value(event.time) < Value(b)
        BY <2>1, <3>1, NormalOrder
      <3> QED
        BY <2>2, <2>4, <3>1, <3>2, Zenon
    <2> QED
      BY <2>3, <2>4
  <1> QED
    BY <1>1, Invariant, PTL

\* _to_alsa sends an event with the time, tick, relative and data it has, whatever its
\* flags and its raw data were.
THEOREM AttributesKept == Spec => []AttributesSent
  <1>1. ASSUME IInv
        PROVE  AttributesSent
    <2> SUFFICES ASSUME outcome = "sent"
                 PROVE  LET e == _from_alsa(wire)
                        IN  /\ event.time # None => e.time = event.time
                            /\ event.tick # None => e.tick = event.tick
                            /\ event.relative # None => e.relative = event.relative
                            /\ event.attr # None => e.attr = event.attr
                            /\ event.raw # None => e.raw.rest = event.raw.rest
                            /\ e.flags \ {"REAL", "REL", "VARIABLE"} = event.flags \ {"REAL", "REL", "VARIABLE"}
      BY DEF AttributesSent
    <2>1. IsEvent(event) /\ args \in Calls /\ ~Raises(event, args) /\ wire = _to_alsa(event, args)
      BY <1>1 DEF IInv, Typed, Made
    <2>2. (event.time = None \/ event.tick = None) /\ event.flags # None
      BY <2>1 DEF Raises
    <2>3. IsWire(wire)
      BY <2>1, ToWire
    <2>4. /\ wire.kind = event.kind /\ wire.flags = WireFlags(event)
          /\ wire.time = WireTime(event) /\ wire.data = WireData(event)
      BY <2>1 DEF _to_alsa
    <2> DEFINE e == _from_alsa(wire)
    <2>5. /\ e.time = (IF "REAL" \in wire.flags THEN wire.time ELSE None)
          /\ e.tick = (IF "REAL" \in wire.flags THEN None ELSE wire.time[1])
          /\ e.relative = ("REL" \in wire.flags) /\ e.attr = Attribute(wire)
          /\ e.raw = wire.data /\ e.flags = wire.flags
      BY <2>3, ReadTime DEF _from_alsa
    <2> HIDE DEF e
    <2>6. /\ event.time # None => e.time = event.time
          /\ event.tick # None => e.tick = event.tick
      BY <2>1, <2>2, <2>4, <2>5, FlagsMade, ValuesMade
    <2>7. event.relative # None => e.relative = event.relative
      <3> SUFFICES ASSUME event.relative # None
                   PROVE  e.relative = event.relative
        OBVIOUS
      <3>1. event.relative <=> "REL" \in wire.flags
        BY <2>1, <2>2, <2>4, FlagsMade
      <3>2. event.relative = TRUE \/ event.relative = FALSE
        BY <2>1 DEF IsEvent
      <3>3. e.relative = TRUE \/ e.relative = FALSE
        BY <2>5
      <3>4. e.relative <=> "REL" \in wire.flags
        BY <2>5, Zenon
      <3> QED
        BY <3>1, <3>2, <3>3, <3>4, Zenon
    <2>8. event.attr # None => e.attr = event.attr
      BY <2>1, <2>2, <2>4, <2>5, ValuesMade DEF Attribute, IsEvent
    <2>9. /\ event.raw # None => e.raw.rest = event.raw.rest
          /\ e.flags \ {"REAL", "REL", "VARIABLE"} = event.flags \ {"REAL", "REL", "VARIABLE"}
      BY <2>1, <2>2, <2>4, <2>5, FlagsMade, ValuesMade
    <2> QED
      BY <2>6, <2>7, <2>8, <2>9 DEF e
  <1> QED
    BY <1>1, Invariant, PTL

\* An event that was received is sent on exactly as it came, but for what the call says,
\* and only a closed queue keeps it from being sent.
THEOREM ForwardedAsReceived == Spec => []ForwardedIntact
  <1>1. ASSUME IInv
        PROVE  ForwardedIntact
    <2> SUFFICES ASSUME origin # None
                 PROVE  /\ outcome = "sent" =>
                             wire = [origin EXCEPT
                                       !.queue  = Otherwise(args.queue, @),
                                       !.source = IF args.port = None THEN @ ELSE <<0, args.port>>,
                                       !.dest   = Otherwise(args.dest, @)]
                        /\ outcome = "raised" => args.queue = Closed
      BY DEF ForwardedIntact
    <2>1. IsWire(origin) /\ event = _from_alsa(origin) /\ args \in Calls
      BY <1>1 DEF IInv, Typed, Kept
    <2>2. CASE outcome = "sent"
      <3>1. ~Raises(event, args) /\ wire = _to_alsa(event, args)
        BY <1>1, <2>2 DEF IInv, Made
      <3>2. args.queue # Closed
        BY <3>1 DEF Raises
      <3> QED
        BY <2>1, <2>2, <3>1, <3>2, RoundTrip
    <2>3. CASE outcome = "raised"
      <3>1. Raises(event, args)
        BY <1>1, <2>3 DEF IInv, Kept
      <3>2. event.time = None \/ event.tick = None
        BY <2>1 DEF _from_alsa
      <3>3. event.flags # None
        BY <2>1, NoneIsNothing DEF _from_alsa, IsWire, Wires
      <3> QED
        BY <2>3, <3>1, <3>2, <3>3 DEF Raises
    <2> QED
      BY <2>2, <2>3
  <1> QED
    BY <1>1, Invariant, PTL

\* The queue, the port and the destination a call is given come before those of the event,
\* and those before direct dispatch to all subscribers.
THEOREM AddressedByCall == Spec => []AddressedRight
  <1>1. ASSUME IInv
        PROVE  AddressedRight
    <2> SUFFICES ASSUME outcome = "sent"
                 PROVE  /\ args.queue # None => wire.queue = args.queue
                        /\ args.queue = None /\ event.queue_id = None => wire.queue = DIRECT
                        /\ args.port # None => wire.source[2] = args.port
                        /\ args.dest # None => wire.dest = args.dest
                        /\ args.dest = None /\ event.dest = None => wire.dest = SUBSCRIBERS
      BY DEF AddressedRight
    <2>1. IsEvent(event) /\ args \in Calls /\ ~Raises(event, args) /\ wire = _to_alsa(event, args)
      BY <1>1 DEF IInv, Typed, Made
    <2>2. args.queue # Closed
      BY <2>1 DEF Raises
    <2>3. /\ wire.queue  = IF args.queue # None THEN args.queue
                           ELSE IF event.queue_id # None THEN event.queue_id ELSE DIRECT
          /\ wire.source = IF args.port # None THEN <<0, args.port>>
                           ELSE IF event.source # None THEN event.source ELSE <<0, 0>>
          /\ wire.dest   = IF args.dest # None THEN args.dest
                           ELSE IF event.dest # None THEN event.dest ELSE SUBSCRIBERS
      BY <2>1, <2>2, HeaderMade, Zenon
    <2> QED
      BY <2>3
  <1> QED
    BY <1>1, Invariant, PTL
=============================================================================
