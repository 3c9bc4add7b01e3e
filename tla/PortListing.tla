----------------------------- MODULE PortListing -----------------------------
(***************************************************************************)
(* list_ports, and what the MIDO back-end does with its result.  The list  *)
(* is put together by one query for every client and port, while other     *)
(* programs come and go: a client that leaves makes room for another with  *)
(* the same id.                                                            *)
(*                                                                         *)
(* A port's capabilities and its type are sets of flags.  A client is its  *)
(* name and its ports; None stands for a client, or a port, that is not    *)
(* there.                                                                  *)
(***************************************************************************)
EXTENDS Integers, Sequences, FiniteSets, Functions

CONSTANTS
    Systems,     \* what the sequencer may hold at first: [ClientIds -> client or None]
    Users,       \* ids of the clients that come and go; 0 is the system's
    PortIds,
    Kinds,       \* ports that may be created: [caps, type, name]
    Names,       \* names of the clients that may come
    Digits,      \* those that begin with a digit
    NumberOf,    \* and the number each of them begins with
    Arguments,   \* arguments of list_ports
    None,
    MaxChanges   \* bound: changes during a call

ClientIds == Users \union {0}
Clients   == [name : Names \union {"System"}, ports : [PortIds -> Kinds \union {None}]]

ASSUME ListingAssumption ==
    /\ Users \subseteq Nat \ {0} /\ PortIds \subseteq Nat
    /\ Systems \subseteq [ClientIds -> Clients \union {None}]
    /\ None \notin Clients /\ None \notin Kinds
    /\ Digits \subseteq Names /\ NumberOf \in [Digits -> Nat]
    /\ \A a \in Arguments :
          /\ a.input \in BOOLEAN /\ a.output \in BOOLEAN /\ a.only_connectable \in BOOLEAN
          /\ a.include_system \in BOOLEAN /\ a.include_midi_through \in BOOLEAN
          /\ a.include_no_export \in BOOLEAN /\ a.sort \in BOOLEAN
    /\ MaxChanges \in Nat

VARIABLES
    clients,     \* the sequencer's clients
    changes,     \* how often they changed in this call
    pc,          \* "idle", "clients" (outer loop), "ports" (inner loop), "done" or "raised"
    args,        \* the arguments of the call
    client_id,   \* where the outer query is, -1 at the beginning
    client_name, \* the name it returned
    port_id,     \* where the inner query is, -1 at the beginning
    result,      \* the list so far: [client_id, port_id, caps, type, name, client_name]
    steady       \* history: addresses of ports there since the call began

vars == <<clients, changes, pc, args, client_id, client_name, port_id, result, steady>>
others == <<clients, changes, steady>>
call   == <<pc, args, client_id, client_name, port_id, result>>

Present(c)  == clients[c] # None
PortsOf(c)  == {p \in PortIds : clients[c].ports[p] # None}
Addresses   == {a \in ClientIds \X PortIds : Present(a[1]) /\ a[2] \in PortsOf(a[1])}
Smallest(S) == CHOOSE n \in S : \A m \in S : n <= m

-----------------------------------------------------------------------------
(* Other programs. *)

Running == pc \in {"clients", "ports"}

Change(c, new) ==
    /\ Running /\ changes < MaxChanges
    /\ changes' = changes + 1
    /\ clients' = [clients EXCEPT ![c] = new]
    /\ UNCHANGED call

ClientEnters(name) ==
    LET free == {c \in Users : ~Present(c)}
    IN  /\ free # {}
        /\ Change(Smallest(free), [name |-> name, ports |-> [p \in PortIds |-> None]])
        /\ UNCHANGED steady

ClientExits(c) ==
    /\ Present(c)
    /\ Change(c, None)
    /\ steady' = {a \in steady : a[1] # c}

PortAdded(c, kind) ==
    /\ Present(c)
    /\ LET free == PortIds \ PortsOf(c)
       IN  free # {} /\ Change(c, [clients[c] EXCEPT !.ports[Smallest(free)] = kind])
    /\ UNCHANGED steady

PortRemoved(c, p) ==
    /\ Present(c) /\ p \in PortsOf(c)
    /\ Change(c, [clients[c] EXCEPT !.ports[p] = None])
    /\ steady' = steady \ {<<c, p>>}

-----------------------------------------------------------------------------
(* Which ports are listed, and in what order. *)

Connectable(info, rw, subs) ==
    rw \in info.caps /\ (args.only_connectable => subs \in info.caps)

\* Variant: a port must be usable both ways when neither way was asked for.
PassesBoth(info) ==
    /\ args.type \subseteq info.type
    /\ "NO_EXPORT" \in info.caps => args.include_no_export
    /\ args.output \/ ~args.input => Connectable(info, "WRITE", "SUBS_WRITE")
    /\ args.input \/ ~args.output => Connectable(info, "READ", "SUBS_READ")

Passes(info) ==
    /\ args.type \subseteq info.type
    /\ "NO_EXPORT" \in info.caps => args.include_no_export
    /\ args.output => Connectable(info, "WRITE", "SUBS_WRITE")
    /\ args.input => Connectable(info, "READ", "SUBS_READ")
    /\ \/ args.output \/ args.input
       \/ Connectable(info, "WRITE", "SUBS_WRITE")
       \/ Connectable(info, "READ", "SUBS_READ")

SkippedClient(c, name) ==
    \/ c = 0 /\ ~args.include_system
    \/ name = "Midi Through" /\ ~args.include_midi_through

Generic == {"GENERIC"}
WRITE_PORT_PREFERRED_TYPES ==
    << {"GENERIC", "GM", "SYNTHESIZER"}, {"GENERIC", "SYNTHESIZER"}, {"GENERIC", "GM"}, Generic >>
RW_PORT_PREFERRED_TYPES == << Generic >>

preferred_types ==
    IF args.output /\ ~args.input THEN WRITE_PORT_PREFERRED_TYPES ELSE RW_PORT_PREFERRED_TYPES

\* How many of the preferred types come before the first that info has.
preference(info) ==
    Smallest({i - 1 : i \in {j \in DOMAIN preferred_types : preferred_types[j] \subseteq info.type}}
                \union {Len(preferred_types)})

\* Variant: the dummy port is not put last.
keyNoThrough(info) == <<0, preference(info), info.client_id, info.port_id>>

key(info) ==
    << IF info.client_name = "Midi Through" THEN 1 ELSE 0,
       preference(info), info.client_id, info.port_id >>

LexLess(a, b) ==
    \E i \in DOMAIN a : a[i] < b[i] /\ \A j \in 1..(i - 1) : a[j] = b[j]

\* list.sort: what has equal keys stays in its order.
Precede(s, k) ==
    {j \in DOMAIN s : \/ LexLess(key(s[j]), key(s[k]))
                      \/ j < k /\ ~LexLess(key(s[k]), key(s[j]))}

Sorted(s) ==
    LET place(i) == CHOOSE k \in DOMAIN s : Cardinality(Precede(s, k)) = i - 1
    IN  IF args.sort THEN [i \in DOMAIN s |-> s[place(i)]] ELSE s

-----------------------------------------------------------------------------
(* The call. *)

Begin(a) ==
    /\ pc = "idle"
    /\ pc' = "clients" /\ args' = a
    /\ client_id' = -1 /\ result' = <<>>
    /\ steady' = Addresses /\ changes' = 0
    /\ UNCHANGED <<clients, client_name, port_id>>

\* Variant: the query starts over after a client that is skipped.
next_client_restarts ==
    LET later == {c \in ClientIds : Present(c) /\ c > client_id}
        c     == Smallest(later)
    IN  /\ pc = "clients" /\ later # {}
        /\ client_id' = IF SkippedClient(c, clients[c].name) THEN -1 ELSE c
        /\ client_name' = clients[c].name
        /\ IF SkippedClient(c, clients[c].name)
           THEN UNCHANGED <<pc, port_id>>
           ELSE pc' = "ports" /\ port_id' = -1
        /\ UNCHANGED <<args, result, others>>

\* snd_seq_query_next_client
next_client ==
    LET later == {c \in ClientIds : Present(c) /\ c > client_id}
        c     == Smallest(later)
    IN  /\ pc = "clients" /\ later # {}
        /\ client_id' = c /\ client_name' = clients[c].name
        /\ IF SkippedClient(c, clients[c].name)
           THEN UNCHANGED <<pc, port_id>>
           ELSE pc' = "ports" /\ port_id' = -1
        /\ UNCHANGED <<args, result, others>>

\* It returns ENOENT: the list is sorted and returned.
no_more_clients ==
    /\ pc = "clients" /\ \A c \in ClientIds : Present(c) => c <= client_id
    /\ pc' = "done" /\ result' = Sorted(result)
    /\ UNCHANGED <<args, client_id, client_name, port_id, others>>

Later == IF Present(client_id) THEN {p \in PortsOf(client_id) : p > port_id} ELSE {}

\* What the list says of a port; its client_name is the one queried before.
PortInfo(p) ==
    LET port == clients[client_id].ports[p]
    IN  [client_id |-> client_id, port_id |-> p, caps |-> port.caps, type |-> port.type,
         name |-> port.name, client_name |-> client_name]

\* snd_seq_query_next_port
next_port ==
    LET info == PortInfo(Smallest(Later))
    IN  /\ pc = "ports" /\ Later # {}
        /\ port_id' = Smallest(Later)
        /\ result' = IF Passes(info) THEN Append(result, info) ELSE result
        /\ UNCHANGED <<pc, args, client_id, client_name, others>>

no_more_ports ==
    /\ pc = "ports" /\ Present(client_id) /\ Later = {}
    /\ pc' = "clients"
    /\ UNCHANGED <<args, client_id, client_name, port_id, result, others>>

\* The client has left: ENXIO, which is raised.
client_gone ==
    /\ pc = "ports" /\ ~Present(client_id)
    /\ pc' = "raised"
    /\ UNCHANGED <<args, client_id, client_name, port_id, result, others>>
-----------------------------------------------------------------------------
(* _find_port of the MIDO back-end.  What it is asked for is one of         *)
(*   <<"address", c, p>>, <<"device", client_name, name, c, p>> (as shown by *)
(*   get_devices), <<"pair", client_name, name>> and <<"name", name>>.       *)

\* Address(name), for which snd_seq_parse_address takes whatever begins with a
\* digit.
Address(asked) ==
    CASE asked[1] = "address"  -> {<<asked[2], asked[3]>>}
      [] asked[1] # "address"  -> {<<NumberOf[d], 0>> : d \in Digits \intersect {asked[2]}}

\* Variant: the name of the client and the port is looked at, not the address.
MatchesPair(asked, info) ==
    << asked[1] = "device" /\ asked[2] = info.client_name /\ asked[3] = info.name,
       asked = <<"pair", info.client_name, info.name>>,
       asked = <<"name", info.client_name>>,
       asked = <<"name", info.name>> >>

\* The four comparisons by name, in the order they are tried.
Matches(asked, info) ==
    << asked = <<"device", info.client_name, info.name, info.client_id, info.port_id>>,
       asked = <<"pair", info.client_name, info.name>>,
       asked = <<"name", info.client_name>>,
       asked = <<"name", info.name>> >>

\* The index of the port found, 0 for OSError.
First(S) == IF S = {} THEN 0 ELSE Smallest(S)

_find_port(list, asked) ==
    IF Address(asked) # {}
    THEN First({i \in DOMAIN list : <<list[i].client_id, list[i].port_id>> \in Address(asked)})
    ELSE LET found(k) == {i \in DOMAIN list : Matches(asked, list[i])[k]}
             stage    == First({k \in 1..4 : found(k) # {}})
         IN  IF stage = 0 THEN 0 ELSE Smallest(found(stage))

-----------------------------------------------------------------------------
Init ==
    /\ clients \in Systems
    /\ changes = 0 /\ pc = "idle" /\ args \in Arguments
    /\ client_id = -1 /\ client_name = None /\ port_id = -1
    /\ result = <<>> /\ steady = {}

Listing == next_client \/ no_more_clients \/ next_port \/ no_more_ports \/ client_gone

Next ==
    \/ \E name \in Names : ClientEnters(name)
    \/ \E c \in Users : ClientExits(c) \/ \E p \in PortIds : PortRemoved(c, p)
    \/ \E c \in Users, kind \in Kinds : PortAdded(c, kind)
    \/ Begin(args)
    \/ next_client
    \/ no_more_clients
    \/ next_port
    \/ no_more_ports
    \/ client_gone

\* The calling thread runs.
Spec == Init /\ [][Next]_vars
FairSpec == Spec /\ WF_vars(Listing)

-----------------------------------------------------------------------------
(* Properties.                                                             *)

Listed == {<<result[i].client_id, result[i].port_id>> : i \in DOMAIN result}

Usable(info, rw, subs) ==
    rw \in info.caps /\ (~args.only_connectable \/ subs \in info.caps)

\* What the documentation of list_ports asks of a port: the type, and what input
\* and output stand for.
Wanted(info) ==
    LET reads  == Usable(info, "READ", "SUBS_READ")
        writes == Usable(info, "WRITE", "SUBS_WRITE")
    IN  /\ args.type \subseteq info.type
        /\ args.include_no_export \/ "NO_EXPORT" \notin info.caps
        /\ CASE args.input /\ args.output   -> reads /\ writes
             [] args.input /\ ~args.output  -> reads
             [] ~args.input /\ args.output  -> writes
             [] OTHER                       -> reads \/ writes

\* Whatever else changes meanwhile, a port that is there all the time is listed if
\* it is wanted, and is not if it is not; and it is listed under the name of its
\* own client, not of one that had the id before.  No address is listed twice.
SteadyListedRight ==
    pc = "done" =>
        /\ Cardinality(Listed) = Len(result)
        /\ \A a \in steady :
              LET c    == clients[a[1]]
                  info == c.ports[a[2]]
              IN  /\ a \in Listed <=> Wanted(info) /\ ~SkippedClient(a[1], c.name)
                  /\ \A i \in DOMAIN result :
                        <<result[i].client_id, result[i].port_id>> = a
                           => result[i].client_name = c.name

\* The first of a sorted list is not the dummy "Midi Through" port if there is any
\* other, and no other has a type that is preferred to its.
BestFirst ==
    pc = "done" /\ args.sort => \A i \in DOMAIN result :
        result[i].client_name # "Midi Through" =>
            /\ result[1].client_name # "Midi Through"
            /\ preference(result[1]) <= preference(result[i])

\* The name get_devices shows for a port opens that port, unless the client's name
\* begins with a digit, and so is taken for an address.
DeviceFound ==
    pc = "done" => \A i \in DOMAIN result :
        result[i].client_name \notin Digits =>
            _find_port(result, <<"device", result[i].client_name, result[i].name,
                                 result[i].client_id, result[i].port_id>>) = i

\* The call ends, however the sequencer's clients come and go.
ListingEnds == Running ~> ~Running
=============================================================================
