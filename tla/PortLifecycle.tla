--------------------------- MODULE PortLifecycle ---------------------------
(***************************************************************************)
(* Port objects, the kernel's ports and the subscriptions between them.    *)
(* A client creates ports and connects them, by its Port objects or by     *)
(* their addresses; a port goes when its object is closed or collected,    *)
(* and takes its subscriptions along.  The kernel hands the id of a port   *)
(* that is gone out again, while the closed object that had it can still   *)
(* be used as an address.  One thread lists the subscribers of a port by   *)
(* one query for each, while the others go on.                             *)
(*                                                                         *)
(* A client is its id; ids of closed clients are not given out again.      *)
(* Ports have the default capabilities, so that every client may connect   *)
(* them.  The queue and time stamps of a subscription, and whether it is   *)
(* exclusive, are left out.                                                *)
(***************************************************************************)
EXTENDS Integers, Sequences, FiniteSets, Functions

CONSTANTS
    Clients,     \* SequencerClient objects
    Objects,     \* Port objects; one that was collected can be made again
    Addresses,   \* the addresses the kernel gives ports, pairs <<client, id>>
    TypeLists,   \* the lists of types subscribers are asked for, each once
    None,        \* no client, object or id
    MaxSubs      \* bound: subscriptions made in a behaviour

ASSUME PortAssumption ==
    /\ None \notin Clients /\ None \notin Objects /\ None \notin Nat
    /\ Addresses \subseteq Clients \X Nat /\ MaxSubs \in Nat
    /\ TypeLists \subseteq Seq({"READ", "WRITE"}) \ {<<>>}
    /\ \A list \in TypeLists : IsInjective(list)

VARIABLES
    open,        \* clients whose handle is not None
    ports,       \* the kernel's ports, pairs <<client, id>>
    subs,        \* the kernel's subscriptions: [from, to, n, by], listed in the order
                 \* of n; by is history: the open objects they were made with
    serial,      \* the n of the last one made
    live,        \* Port objects somebody refers to
    client,      \* Port.client, None for an object that is closed
    client_id,   \* Port.client_id and Port.port_id: close leaves them
    port_id,
    pc,          \* list_port_subscribers: "idle" or "query"
    asked,       \* its arguments, an address and the list of types
    types,       \* the types it has not finished
    index,       \* its loop variable i
    result,      \* what it lists: the type asked for and the number of a subscription
    began,       \* history: the serial when it began
    gone         \* history: what it could have listed and went since, as in result

objects == <<live, client, client_id, port_id>>
call    == <<pc, asked, types, index, result>>
vars    == <<open, ports, subs, serial, objects, call, began, gone>>

\* The objects that are open, of clients that are.
Open == {o \in Objects : client[o] # None /\ client[o] \in open}

InUse(o) == IF o \in Open THEN o ELSE None

-----------------------------------------------------------------------------
(* The kernel.                                                             *)

From(a) == {s \in subs : s.from = a}
To(a)   == {s \in subs : s.to = a}

\* The subscriptions a query of type t about the port a runs over: those that read
\* from it, or those that write to it.
Group(a, t) == IF t = "READ" THEN From(a) ELSE To(a)

\* Subscriptions go; the history of a running list call notices.
Drop(S) ==
    /\ subs' = subs \ S
    /\ gone' = IF pc = "idle" THEN gone
              ELSE gone \union UNION {{<<t, s.n>> : s \in S \intersect Group(asked[1], t)} :
                                     t \in Range(asked[2])}
    /\ UNCHANGED <<serial, began>>

\* Ports go, with all their subscriptions.
RemovePorts(P) ==
    /\ ports' = ports \ P
    /\ Drop({s \in subs : s.from \in P \/ s.to \in P})

\* A pair of ports is connected once.
snd_seq_subscribe_port(f, t, sender, dest) ==
    /\ {f, t} \subseteq ports
    /\ From(f) \intersect To(t) = {}
    /\ serial < MaxSubs
    /\ serial' = serial + 1
    /\ subs' = subs \union {[from |-> f, to |-> t, n |-> serial + 1,
                             by |-> <<InUse(sender), InUse(dest)>>]}
    /\ UNCHANGED <<ports, began, gone>>

snd_seq_unsubscribe_port(f, t) ==
    /\ From(f) \intersect To(t) # {}
    /\ Drop(From(f) \intersect To(t))
    /\ UNCHANGED ports

-----------------------------------------------------------------------------
(* Port objects.                                                           *)

Init ==
    /\ open = Clients
    /\ ports = {} /\ subs = {} /\ serial = 0
    /\ live = {}
    /\ client = [o \in Objects |-> None]
    /\ client_id = [o \in Objects |-> None]
    /\ port_id = [o \in Objects |-> None]
    /\ pc = "idle" /\ asked = None /\ types = <<>> /\ index = 0 /\ result = <<>>
    /\ began = 0 /\ gone = {}

\* snd_seq_create_simple_port returns the id of the port it makes; snd_seq_create_port,
\* for the arguments the simple one has not, returns 0 and leaves the id in info.
created(full, p) == IF full THEN 0 ELSE p

\* Variant: the result is taken for the id of the port in both cases.
returnedAsIs(full, p) == created(full, p)

\* "if port == 0: port = alsa.snd_seq_port_info_get_port(info)"
returned(full, p) == IF full /\ created(full, p) = 0 THEN p ELSE created(full, p)

\* The kernel takes the lowest free id, or the one asked for; here any.
create_port(c, p, o, full) ==
    /\ c \in open /\ <<c, p>> \in Addresses \ ports
    /\ ports' = ports \union {<<c, p>>}
    /\ o \notin live
    /\ live' = live \union {o}
    /\ client' = [client EXCEPT ![o] = c]
    /\ client_id' = [client_id EXCEPT ![o] = c]
    /\ port_id' = [port_id EXCEPT ![o] = returned(full, p)]
    /\ UNCHANGED <<open, subs, serial, call, began, gone>>

\* Variant: close only forgets the client.
closeNoDelete(o) ==
    /\ o \in live /\ client[o] # None
    /\ client' = [client EXCEPT ![o] = None]
    /\ UNCHANGED <<ports, subs, serial, began, gone>>

\* Port.close of an object that is open.  The system call is skipped when the client
\* is closed, and fails when there is no such port.
close(o) ==
    /\ o \in live /\ client[o] # None
    /\ client' = [client EXCEPT ![o] = None]
    /\ IF client[o] \in open /\ <<client[o], port_id[o]>> \in ports
       THEN RemovePorts({<<client[o], port_id[o]>>})
       ELSE UNCHANGED <<ports, subs, serial, began, gone>>

Close(o) == close(o) /\ UNCHANGED <<open, live, client_id, port_id, call>>

\* Variant: the object is collected without being closed.
__del__NoClose(o) ==
    /\ o \in live
    /\ live' = live \ {o}
    /\ UNCHANGED <<open, ports, subs, serial, client, client_id, port_id, call, began, gone>>

\* The last reference goes, and with it what the object held.
__del__(o) ==
    /\ o \in live
    /\ IF client[o] # None THEN close(o)
                           ELSE UNCHANGED <<client, ports, subs, serial, began, gone>>
    /\ live' = live \ {o}
    /\ client_id' = [client_id EXCEPT ![o] = None]
    /\ port_id' = [port_id EXCEPT ![o] = None]
    /\ UNCHANGED <<open, call>>

\* SequencerClientBase.close: its Port objects stay as they are.
CloseClient(c) ==
    /\ c \in open
    /\ open' = open \ {c}
    /\ RemovePorts({a \in ports : a[1] = c})
    /\ UNCHANGED <<objects, call>>

-----------------------------------------------------------------------------
(* Subscriptions.                                                          *)

\* What Address makes of a Port object, closed or not.
Address(o) == <<client_id[o], port_id[o]>>

connect_to(o, dest) ==
    /\ o \in Open /\ dest \in live
    /\ snd_seq_subscribe_port(<<client[o], port_id[o]>>, Address(dest), o, dest)
    /\ UNCHANGED <<open, objects, call>>

\* Variant: sender and destination are swapped.
connect_from_swapped(o, src) ==
    /\ o \in Open /\ src \in live
    /\ snd_seq_subscribe_port(<<client[o], port_id[o]>>, Address(src), src, o)
    /\ UNCHANGED <<open, objects, call>>

connect_from(o, src) ==
    /\ o \in Open /\ src \in live
    /\ snd_seq_subscribe_port(Address(src), <<client[o], port_id[o]>>, src, o)
    /\ UNCHANGED <<open, objects, call>>

disconnect_to(o, dest) ==
    /\ o \in Open /\ dest \in live
    /\ snd_seq_unsubscribe_port(<<client[o], port_id[o]>>, Address(dest))
    /\ UNCHANGED <<open, objects, call>>

disconnect_from(o, src) ==
    /\ o \in Open /\ src \in live
    /\ snd_seq_unsubscribe_port(Address(src), <<client[o], port_id[o]>>)
    /\ UNCHANGED <<open, objects, call>>

\* The calls of a client, any that is open: it need not be that of either port.
subscribe_port(sender, dest) ==
    /\ open # {} /\ {sender, dest} \subseteq live
    /\ snd_seq_subscribe_port(Address(sender), Address(dest), sender, dest)
    /\ UNCHANGED <<open, objects, call>>

unsubscribe_port(sender, dest) ==
    /\ open # {} /\ {sender, dest} \subseteq live
    /\ snd_seq_unsubscribe_port(Address(sender), Address(dest))
    /\ UNCHANGED <<open, objects, call>>

-----------------------------------------------------------------------------
(* Listing the subscribers of a port.                                      *)

\* The one with index k, in the order they were made; none if there are not so many.
Indexed(S, k) == {s \in S : Cardinality({r \in S : r.n < s.n}) = k}

Answer == Indexed(Group(asked[1], Head(types)), index)

list_port_subscribers(o, list) ==
    /\ pc = "idle" /\ o \in live
    /\ pc' = "query" /\ asked' = <<Address(o), list>> /\ types' = list
    /\ index' = 0 /\ result' = <<>>
    /\ began' = serial /\ gone' = {}
    /\ UNCHANGED <<open, ports, subs, serial, objects>>

query_port_subscribers ==
    /\ pc = "query" /\ Answer # {}
    /\ result' = Append(result, <<Head(types), (CHOOSE s \in Answer : TRUE).n>>)
    /\ index' = index + 1
    /\ UNCHANGED <<open, ports, subs, serial, objects, pc, asked, types, began, gone>>

Return ==
    /\ pc' = "idle" /\ asked' = None /\ types' = <<>> /\ index' = 0 /\ result' = <<>>
    /\ began' = 0 /\ gone' = {}

\* Variant: the index is not reset for the next type.
query_fails_keeps_index ==
    /\ pc = "query" /\ Answer = {}
    /\ IF Len(types) = 1
       THEN Return
       ELSE types' = Tail(types) /\ UNCHANGED <<pc, asked, index, result, began, gone>>
    /\ UNCHANGED <<open, ports, subs, serial, objects>>

\* The query fails, because there are no more or the port is gone: that is the end of
\* this type, and of the call after the last.
query_fails ==
    /\ pc = "query" /\ Answer = {}
    /\ IF Len(types) = 1
       THEN Return
       ELSE types' = Tail(types) /\ index' = 0 /\ UNCHANGED <<pc, asked, result, began, gone>>
    /\ UNCHANGED <<open, ports, subs, serial, objects>>

Next ==
    \/ \E a \in Addresses, o \in Objects, full \in BOOLEAN : create_port(a[1], a[2], o, full)
    \/ \E o \in Objects : Close(o) \/ __del__(o)
    \/ \E c \in Clients : CloseClient(c)
    \/ \E o, other \in Objects :
         \/ connect_to(o, other)
         \/ connect_from(o, other)
         \/ disconnect_to(o, other)
         \/ disconnect_from(o, other)
         \/ subscribe_port(o, other)
         \/ unsubscribe_port(o, other)
    \/ \E o \in Objects, list \in TypeLists : list_port_subscribers(o, list)
    \/ query_port_subscribers
    \/ query_fails

Spec == Init /\ [][Next]_vars

-----------------------------------------------------------------------------
(* Properties.                                                             *)

Subscriptions ==
    [from : Addresses, to : Addresses, n : Nat,
     by : (Objects \union {None}) \X (Objects \union {None})]

\* Every variable holds a value the code can give it; an object somebody refers to has
\* an address, and one that is open is referred to and has the address of its client.
TypeOK ==
    /\ open \subseteq Clients
    /\ ports \subseteq Addresses
    /\ subs \subseteq Subscriptions /\ serial \in Nat
    /\ live \subseteq Objects
    /\ client \in [Objects -> Clients \union {None}]
    /\ client_id \in [Objects -> Clients \union {None}]
    /\ port_id \in [Objects -> Nat \union {None}]
    /\ \A o \in live : Address(o) \in Addresses
    /\ \A o \in Objects : client[o] # None => o \in live /\ client_id[o] = client[o]
    /\ pc \in {"idle", "query"}
    /\ pc = "query" => asked \in Addresses \X TypeLists /\ types # <<>>
    /\ types \in Seq({"READ", "WRITE"}) /\ index \in Nat
    /\ began \in Nat /\ gone \subseteq {"READ", "WRITE"} \X Nat

\* The objects in use and the kernel's ports are one to one: every object has the
\* port made for it, with which no other object of the client meddles, and no port is
\* left without an object that will delete it.
ObjectForPort ==
    /\ \A o \in Open : Address(o) \in ports
    /\ \A o, p \in Open : Address(o) = Address(p) => o = p
    /\ \A a \in ports : \E o \in Open : Address(o) = a

\* A subscription made with an open object connects, in the direction asked for, the
\* port of that object: it does not outlive it, to connect a later port with its id.
SubscribedAsMeant ==
    \A s \in subs :
        /\ {s.from, s.to} \subseteq ports
        /\ s.by[1] # None => s.by[1] \in Open /\ s.from = Address(s.by[1])
        /\ s.by[2] # None => s.by[2] \in Open /\ s.to = Address(s.by[2])

\* What list_port_subscribers returns is in the order of the subscriptions, none twice;
\* and for each that is there all the time and is missing, since a query by index
\* passes over one, another that came before it went meanwhile.
ListedRight ==
    [][pc = "query" /\ pc' = "idle" =>
          /\ \A k, m \in DOMAIN result :
                k < m /\ result[k][1] = result[m][1] => result[k][2] < result[m][2]
          /\ \A t \in Range(asked[2]) :
                LET missed  == {n \in {s.n : s \in Group(asked[1], t)} \intersect 1..began :
                                   <<t, n>> \notin Range(result)}
                    removed == {n \in 1..serial : <<t, n>> \in gone}
                IN  /\ Cardinality(missed) <= Cardinality(removed)
                    /\ \A n \in missed : \E m \in removed : m < n]_vars

\* Ports and subscriptions are the graph their users see: whatever ids are used
\* again, closing an object takes away its own connections only.
ObjectOf(a) == CHOOSE o \in Open : Address(o) = a

Graph == INSTANCE PortGraph WITH
    Ports <- Objects,
    nodes <- Open,
    edges <- {<<ObjectOf(s.from), ObjectOf(s.to)>> : s \in subs}

ImplementsGraph == Graph!Spec
=============================================================================
