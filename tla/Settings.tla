------------------------------ MODULE Settings ------------------------------
(***************************************************************************)
(* What the application can read, change and write back: the information   *)
(* of a client, a port or a queue, the memory pool of a client, the timer  *)
(* and the tempo of a queue.  Each is a record of attributes, filled from  *)
(* an ALSA structure by the call that reads and put into one by the call   *)
(* that writes; between the two the application assigns attributes, and    *)
(* other threads make changes of their own.                                *)
(*                                                                         *)
(* The kinds have nothing to do with one another, so a behaviour is about  *)
(* one.  Numbers without a meaning of their own are two values, and the    *)
(* attributes that are handled alike one: capability is all the numbers of *)
(* a PortInfo, id the five of a TimerId.                                   *)
(*                                                                         *)
(* Its Init, Next and Spec are SettingsInit, SettingsNext and SettingsSpec:*)
(* QueueLifecycle_proofs extends this module and QueueLifecycle.           *)
(***************************************************************************)
EXTENDS Integers, Python

CONSTANTS
    Kinds,       \* of "client", "port", "queue", "pool", "timer", "tempo"
    Types,       \* event types other than EventType.NONE
    Names,       \* names, but for the empty one
    Tempi,       \* microseconds per quarter note
    Ppqs,        \* resolutions, pulses per quarter note
    Skews,       \* skew values
    Bpms         \* beats per minute; 0 is a ZeroDivisionError

SkewBase == 65536

Minute == 60000000      \* microseconds

NoName == ""

\* The records of the six classes.
ClientInfo == [name : Names \union {NoName}, broadcast_filter : BOOLEAN, error_bounce : BOOLEAN,
               event_filter : {None} \union SUBSET (Types \union {"NONE"})]
PortInfo   == [name : Names \union {NoName}, capability : 0..1, timestamping : BOOLEAN,
               timestamp_real : BOOLEAN]
QueueInfo  == [name : Names \union {NoName}, locked : BOOLEAN]
ClientPool == [output_pool : 0..1, input_pool : 0..1, output_room : 0..1]
QueueTimer == [id : 0..1, type : 0..1, resolution : 0..1]
QueueTempo == [tempo : Nat, ppq : Nat, skew : Nat \union {None}, skew_base : {SkewBase, None}]

\* None is none of the values it stands in for.
ASSUME SettingsAssumption ==
    /\ Kinds \subseteq {"client", "port", "queue", "pool", "timer", "tempo"}
    /\ "NONE" \notin Types /\ NoName \notin Names
    /\ Tempi \union Ppqs \union Skews \subseteq Nat /\ Bpms \subseteq Nat \ {0}
    /\ None \notin Nat
    /\ None \notin ClientInfo \union PortInfo \union QueueInfo
    /\ None \notin ClientPool \union QueueTimer \union QueueTempo
    /\ (\A types \in SUBSET (Types \union {"NONE"}) : types # None)

VARIABLES
    kind,        \* what this behaviour is about
    kernel,      \* the structure the kernel would fill in
    info,        \* the record the application holds, or None
    assigned,    \* history: the attributes it has assigned
    stale,       \* history: the attributes that have changed since it was read
    running,     \* tempo: the queue runs
    control,     \* tempo: the last control event in the output buffer, or None
    asked        \* history, tempo: the last call of set_tempo, what was before and
                 \* whether it raised

settings == <<kind, kernel, info, assigned, stale, running, control, asked>>

\* alsa-lib's structures, as the kernel fills them in for what was just made.
New ==
    [client |-> [name : Names, filter : {{}}, events : {{}}],
     port   |-> [name : Names, capability : 0..1, flags : {{}, {"TIMESTAMP", "TIME_REAL"}}],
     queue  |-> [name : Names, locked : 0..1],
     pool   |-> [output_pool : {1}, input_pool : {1}, output_room : 0..1],
     timer  |-> [id : {0}, type : {0}, resolution : 0..1],
     tempo  |-> [tempo : Tempi, ppq : {96}, skew : {SkewBase}, skew_base : {SkewBase}]]

-----------------------------------------------------------------------------
(* From the structure to the record and back.                              *)

client_from_alsa(s) ==
    [name             |-> s.name,
     broadcast_filter |-> "BROADCAST" \in s.filter,
     error_bounce     |-> "BROADCAST" \in s.filter,
     event_filter     |-> IF "USE_EVENT" \in s.filter THEN s.events \ {"NONE"} ELSE None]

\* Variant: a record without a filter leaves the structure alone, and one with a filter
\* does not mark it as used.
client_to_alsa_unmarked(i) ==
    [name   |-> i.name,
     filter |-> (IF i.broadcast_filter THEN {"BROADCAST"} ELSE {})
                \union (IF i.error_bounce THEN {"BOUNCE"} ELSE {}),
     events |-> IF i.event_filter = None THEN {} ELSE i.event_filter]

\* event_filter_add marks the filter as used; no filter and an empty one clear it.
client_to_alsa(i) ==
    [name   |-> i.name,
     filter |-> (IF i.broadcast_filter THEN {"BROADCAST"} ELSE {})
                \union (IF i.error_bounce THEN {"BOUNCE"} ELSE {})
                \union (IF i.event_filter \in {None, {}} THEN {} ELSE {"USE_EVENT"}),
     events |-> IF i.event_filter = None THEN {} ELSE i.event_filter]

port_from_alsa(s) ==
    [name           |-> s.name,
     capability     |-> s.capability,
     timestamping   |-> "TIMESTAMP" \in s.flags,
     timestamp_real |-> "TIME_REAL" \in s.flags]

port_to_alsa(i) ==
    [name       |-> i.name,
     capability |-> i.capability,
     flags      |-> (IF i.timestamping THEN {"TIMESTAMP"} ELSE {})
                    \union (IF i.timestamp_real THEN {"TIME_REAL"} ELSE {})]

queue_from_alsa(s) == [name |-> s.name, locked |-> s.locked # 0]

queue_to_alsa(i) == [name |-> i.name, locked |-> IF i.locked THEN 1 ELSE 0]

pool_from_alsa(s) ==
    [output_pool |-> s.output_pool, input_pool |-> s.input_pool, output_room |-> s.output_room]

pool_to_alsa(i) ==
    [output_pool |-> i.output_pool, input_pool |-> i.input_pool, output_room |-> i.output_room]

timer_from_alsa(s) == [id |-> s.id, type |-> s.type, resolution |-> s.resolution]

timer_to_alsa(i) == [id |-> i.id, type |-> i.type, resolution |-> i.resolution]

tempo_from_alsa(s) ==
    [tempo |-> s.tempo, ppq |-> s.ppq, skew |-> s.skew, skew_base |-> s.skew_base]

-----------------------------------------------------------------------------
(* set_tempo.                                                              *)

FirstGiven(a, b) == IF a # None THEN a ELSE b

Unset(n) == n = None \/ n = 0

\* The argument tempo, a number or a QueueTempo, is two here: tempo and record.
OfRecord(args, f) == IF args.record = None THEN None ELSE args.record[f]

\* "Either tempo or bpm must be given"
BadArguments(args) == (args.bpm = None) = (args.tempo = None /\ args.record = None)

\* Variant: the base is not set for a skew without one.
tempo_to_alsa_baseless(args) ==
    LET skew == FirstGiven(args.skew, OfRecord(args, "skew"))
        base == FirstGiven(args.skew_base, OfRecord(args, "skew_base"))
    IN  [tempo     |-> IF args.bpm # None THEN Minute \div args.bpm
                       ELSE FirstGiven(args.tempo, OfRecord(args, "tempo")),
         ppq       |-> FirstGiven(FirstGiven(args.ppq, OfRecord(args, "ppq")), 96),
         skew      |-> IF Unset(skew) THEN 0 ELSE skew,
         skew_base |-> IF Unset(base) THEN 0 ELSE base]

\* The structure it fills in, which is zero where nothing is set.
tempo_to_alsa(args) ==
    LET skew == FirstGiven(args.skew, OfRecord(args, "skew"))
        base == FirstGiven(args.skew_base, OfRecord(args, "skew_base"))
    IN  [tempo     |-> IF args.bpm # None THEN Minute \div args.bpm
                       ELSE FirstGiven(args.tempo, OfRecord(args, "tempo")),
         ppq       |-> FirstGiven(FirstGiven(args.ppq, OfRecord(args, "ppq")), 96),
         skew      |-> IF Unset(skew) THEN 0 ELSE skew,
         skew_base |-> IF ~Unset(base) THEN base ELSE IF Unset(skew) THEN 0 ELSE SkewBase]

\* The call with nothing but a QueueTempo.
JustRecord(i) ==
    [tempo |-> None, record |-> i, ppq |-> None, skew |-> None, skew_base |-> None, bpm |-> None]

-----------------------------------------------------------------------------
(* The kernel.                                                             *)

from_alsa(s) ==
    CASE kind = "client" -> client_from_alsa(s)
      [] kind = "port"   -> port_from_alsa(s)
      [] kind = "queue"  -> queue_from_alsa(s)
      [] kind = "pool"   -> pool_from_alsa(s)
      [] kind = "timer"  -> timer_from_alsa(s)
      [] kind = "tempo"  -> tempo_from_alsa(s)

to_alsa(i) ==
    CASE kind = "client" -> client_to_alsa(i)
      [] kind = "port"   -> port_to_alsa(i)
      [] kind = "queue"  -> queue_to_alsa(i)
      [] kind = "pool"   -> pool_to_alsa(i)
      [] kind = "timer"  -> timer_to_alsa(i)
      [] kind = "tempo"  -> tempo_to_alsa(JustRecord(i))

\* A running queue keeps its resolution.
Refused(s) == kind = "tempo" /\ running /\ s.ppq # kernel.ppq

\* What the structure s makes of the structure k: clients and ports keep their names
\* when the new one is empty, and a skew without a base is none.
Stored(k, s) ==
    CASE kind \in {"client", "port"} -> [s EXCEPT !.name = IF @ = NoName THEN k.name ELSE @]
      [] kind = "tempo" -> IF s.skew_base = 0
                           THEN [k EXCEPT !.tempo = s.tempo, !.ppq = s.ppq] ELSE s
      [] OTHER -> s

-----------------------------------------------------------------------------
(* What an attribute is, whatever the code makes of it.                    *)

Attribute(s) ==
    CASE kind = "client" -> [client_from_alsa(s) EXCEPT
                                !.error_bounce = "BOUNCE" \in s.filter,
                                !.event_filter = IF @ = None THEN None ELSE s.events]
      [] OTHER -> from_alsa(s)

Attributes == DOMAIN from_alsa(kernel)

Values(f) ==
    CASE f = "name" -> Names \union {NoName}
      [] f \in {"broadcast_filter", "error_bounce", "timestamping", "timestamp_real", "locked"}
            -> BOOLEAN
      [] f = "event_filter" -> {None} \union SUBSET (Types \union {"NONE"})
      [] f = "tempo" -> Tempi
      [] f = "ppq"   -> Ppqs
      [] f = "skew"  -> Skews \union {None}
      [] f = "skew_base" -> {SkewBase, None}
      [] OTHER -> 0..1

\* Another's write changes attributes the application may have read.
Changed(s) ==
    /\ kernel' = s
    /\ stale' = IF info = None THEN {}
                ELSE stale \union {f \in Attributes : Attribute(s)[f] # Attribute(kernel)[f]}
    /\ UNCHANGED <<kind, info, assigned, running, control>>

-----------------------------------------------------------------------------
(* The calls.                                                              *)

SettingsInit ==
    /\ kind \in Kinds /\ kernel \in New[kind]
    /\ info = None /\ assigned = {} /\ stale = {}
    /\ running = FALSE /\ control = None /\ asked = None

Read(k, r) ==
    /\ kind = k /\ info = None
    /\ info' = r
    /\ asked' = None
    /\ UNCHANGED <<kind, kernel, assigned, stale, running, control>>

get_client_info == Read("client", client_from_alsa(kernel))
get_port_info   == Read("port", port_from_alsa(kernel))
get_queue_info  == Read("queue", queue_from_alsa(kernel))
get_client_pool == Read("pool", pool_from_alsa(kernel))
get_timer       == Read("timer", timer_from_alsa(kernel))
get_tempo       == Read("tempo", tempo_from_alsa(kernel))

\* A record made by the application: what it does not give is the class's default.
Default ==
    CASE kind = "client" -> [name |-> NoName, broadcast_filter |-> FALSE, error_bounce |-> FALSE,
                             event_filter |-> None]
      [] kind = "port"   -> [name |-> NoName, capability |-> 0, timestamping |-> FALSE,
                             timestamp_real |-> FALSE]
      [] kind = "queue"  -> [name |-> NoName, locked |-> FALSE]
      [] kind = "pool"   -> [output_pool |-> 0, input_pool |-> 0, output_room |-> 0]
      [] kind = "timer"  -> [id |-> 0, type |-> 0, resolution |-> 0]
      [] kind = "tempo"  -> [tempo |-> 500000, ppq |-> 96, skew |-> None, skew_base |-> None]

construct ==
    /\ info = None
    /\ info' = Default /\ assigned' = Attributes
    /\ asked' = None
    /\ UNCHANGED <<kind, kernel, stale, running, control>>

assign(f, v) ==
    /\ info # None
    /\ info' = [info EXCEPT ![f] = v] /\ assigned' = assigned \union {f}
    /\ asked' = None
    /\ UNCHANGED <<kind, kernel, stale, running, control>>

\* The record is written and let go.
Write(k, s) ==
    /\ kind = k /\ info # None
    /\ kernel' = Stored(kernel, s)
    /\ info' = None /\ assigned' = {} /\ stale' = {} /\ asked' = None
    /\ UNCHANGED <<kind, running, control>>

set_client_info == Write("client", client_to_alsa(info))
set_port_info   == Write("port", port_to_alsa(info))
set_info        == Write("queue", queue_to_alsa(info))
set_client_pool == Write("pool", pool_to_alsa(info))
set_timer       == Write("timer", timer_to_alsa(info))

\* Another thread reads, assigns one attribute and writes.
set_elsewhere(f, v) ==
    LET s == to_alsa([from_alsa(kernel) EXCEPT ![f] = v])
    IN  /\ ~Refused(s)
        /\ Changed(Stored(kernel, s))
        /\ asked' = None

\* One type more; alsa-lib reads and writes the information for it.
set_client_event_filter(t) ==
    /\ kind = "client"
    /\ Changed([kernel EXCEPT !.filter = @ \union {"USE_EVENT"}, !.events = @ \union {t}])
    /\ asked' = None

\* set_client_pool_output, set_client_pool_output_room, set_client_pool_input.
set_client_pool_size(f, size) ==
    /\ kind = "pool"
    /\ Changed([kernel EXCEPT ![f] = size])
    /\ asked' = None

\* Queue.set_tempo, with the record if there is one, which is let go.
set_tempo(args) ==
    /\ kind = "tempo" /\ args.record = info
    /\ LET raises == BadArguments(args) \/ Refused(tempo_to_alsa(args))
       IN  /\ asked' = [args |-> args, before |-> kernel, raised |-> raises]
           /\ kernel' = IF raises THEN kernel ELSE Stored(kernel, tempo_to_alsa(args))
    /\ info' = None /\ assigned' = {} /\ stale' = {}
    /\ UNCHANGED <<kind, running, control>>

\* Queue.start, stop and continue_: the event is in the output buffer, where the last
\* one counts.
Control(type) ==
    /\ kind = "tempo"
    /\ control' = type /\ asked' = None
    /\ UNCHANGED <<kind, kernel, info, assigned, stale, running>>

\* The output buffer is drained, and the queue plays the events.
drain_output ==
    /\ control # None
    /\ running' = (control # "STOP") /\ control' = None /\ asked' = None
    /\ UNCHANGED <<kind, kernel, info, assigned, stale>>

Arguments ==
    [tempo : IF info = None THEN Tempi \union {None} ELSE {None}, record : {info},
     ppq : Ppqs \union {None}, skew : Skews \union {None}, skew_base : {SkewBase, None},
     bpm : Bpms \union {None}]

SettingsNext ==
    \/ get_client_info \/ get_port_info \/ get_queue_info
    \/ get_client_pool \/ get_timer \/ get_tempo
    \/ construct
    \/ \E f \in Attributes : \E v \in Values(f) : assign(f, v) \/ set_elsewhere(f, v)
    \/ set_client_info \/ set_port_info \/ set_info
    \/ set_client_pool \/ set_timer
    \/ \E t \in Types \union {"NONE"} : set_client_event_filter(t)
    \/ \E f \in {"output_pool", "input_pool", "output_room"}, size \in 0..1 :
         set_client_pool_size(f, size)
    \/ kind = "tempo" /\ \E args \in Arguments : set_tempo(args)
    \/ \E type \in {"START", "STOP", "CONTINUE"} : Control(type)
    \/ drain_output

SettingsSpec == SettingsInit /\ [][SettingsNext]_settings

-----------------------------------------------------------------------------
(* Properties.                                                             *)

\* What the application means by the value it has assigned to f: an empty name is no
\* name for a client or a port, an empty filter is none, and so is a skew of None,
\* or of 0, with no base; with a base, None is 0.
MeantSkew(f) ==
    IF Unset(info.skew) /\ Unset(info.skew_base) THEN kernel[f]
    ELSE FirstGiven(info[f], [skew |-> 0, skew_base |-> SkewBase][f])

Meant(f) ==
    CASE f = "name" -> IF kind \in {"client", "port"} /\ info.name = NoName THEN kernel.name
                       ELSE info.name
      [] f = "event_filter" -> IF info.event_filter = {} THEN None ELSE info.event_filter
      [] f \in {"skew", "skew_base"} -> MeantSkew(f)
      [] OTHER -> info[f]

\* A filter that is read and written loses EventType.NONE, and is none without it.
Reread(filter) == IF filter \in {None, {}, {"NONE"}} THEN None ELSE filter \ {"NONE"}

\* Whether an attribute is, after a write, as it should be.
AsWritten(f, now, then) ==
    /\ f \in assigned => now = Meant(f)
    /\ f \notin assigned \union stale =>
         CASE f = "error_bounce" -> \/ "broadcast_filter" \in stale
                                    \/ now = Attribute(kernel)["broadcast_filter"]
           [] f = "event_filter" -> now = Reread(then)
           [] OTHER -> now = then

\* Writing a record back gives the attributes that were assigned their values and
\* leaves the others as they are; one that another thread has changed since the record
\* was read goes back to what it was.  As the code is, error_bounce goes the way of
\* broadcast_filter, from which it is read.
OnlyAssignedWritten ==
    [][/\ info # None /\ info' = None
       /\ kind = "tempo" => ~asked'.raised /\ asked'.args = JustRecord(info)
       =>
          \A f \in Attributes : AsWritten(f, Attribute(kernel')[f], Attribute(kernel)[f])]_settings

\* set_tempo sets what it is given, by an argument rather than by the QueueTempo, and
\* nothing else, but for the resolution, which becomes 96 when none is given, and the
\* skew, which a base without one sets to 0.  It raises for no tempo or two, and for
\* another resolution of a queue that runs, and then leaves the tempo as it was.
Given(f) == {v \in {asked.args[f]} : v # None}
            \union {v \in {OfRecord(asked.args, f)} : asked.args[f] = None /\ v # None}

TempoAsAsked ==
    asked # None =>
        IF asked.raised
        THEN /\ kernel = asked.before
             /\ running \/ Given("tempo") = {} \/ asked.args.bpm # None
        ELSE /\ \/ kernel.tempo \in Given("tempo") /\ asked.args.bpm = None
                \/ asked.args.bpm # None /\ kernel.tempo = Minute \div asked.args.bpm
             /\ kernel.ppq \in IF Given("ppq") = {} THEN {96} ELSE Given("ppq")
             /\ running => kernel.ppq = asked.before.ppq
             /\ Given("skew") \ {0} # {} => kernel.skew \in Given("skew")
             /\ Given("skew") \subseteq {0} =>
                   kernel.skew = IF Given("skew_base") # {} THEN 0 ELSE asked.before.skew
=============================================================================
