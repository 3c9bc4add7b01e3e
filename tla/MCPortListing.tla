---------------------------- MODULE MCPortListing ----------------------------
(* Small instances of PortListing. *)
EXTENDS PortListing, TLC

RW    == {"READ", "SUBS_READ", "WRITE", "SUBS_WRITE"}
Synth == [caps |-> {"WRITE", "SUBS_WRITE"}, type |-> {"GENERIC", "SYNTHESIZER"}, name |-> "port"]
Plain == [caps |-> RW, type |-> {"GENERIC"}, name |-> "port"]
Dull  == [caps |-> {"READ", "WRITE", "SUBS_READ", "NO_EXPORT"}, type |-> {"GENERIC"}, name |-> "x"]
Timer == [caps |-> {"READ", "SUBS_READ"}, type |-> {}, name |-> "Timer"]

SomeKinds == {Synth, Plain, Dull, Timer}

Client_(name, a, b) == [name |-> name, ports |-> (0 :> a) @@ (1 :> b)]
System == Client_("System", Timer, None)

SomeSystems ==
    {(0 :> System) @@ (1 :> Client_("Midi Through", Plain, None)) @@ (2 :> Client_("synth", Plain, Synth)),
     (0 :> System) @@ (1 :> Client_("8ch", Synth, Dull)) @@ (2 :> None),
     (0 :> System) @@ (1 :> Client_("synth", Plain, Plain)) @@ (2 :> Client_("Midi Through", Plain, Dull))}

UserNames == {"Midi Through", "synth", "8ch"}
Numbers   == [d \in {"8ch"} |-> 8]

Ask(input, output, only, all, type) ==
    [input |-> input, output |-> output, type |-> type, include_system |-> all,
     include_midi_through |-> ~all \/ input, include_no_export |-> all,
     only_connectable |-> only, sort |-> only \/ output]

SomeArguments ==
    {Ask(i, o, n, FALSE, {"GENERIC"}) : i, o, n \in BOOLEAN}
        \union {Ask(i, FALSE, TRUE, TRUE, {}) : i \in BOOLEAN}
=============================================================================
