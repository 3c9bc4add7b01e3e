------------------------ MODULE PortLifecycle_proofs ------------------------
(***************************************************************************)
(* For any number of clients, objects and ids: the Port objects in use and *)
(* the kernel's ports are one to one, subscriptions connect the ports they *)
(* were made for, and ports and subscriptions are the graph of PortGraph.  *)
(* A list of subscribers is in order, and what is missing is excused.      *)
(***************************************************************************)
EXTENDS PortLifecycle, SequenceTheorems, FiniteSetTheorems, WellFoundedInduction, TLAPS

IInv == TypeOK /\ ObjectForPort /\ SubscribedAsMeant

USE PortAssumption

\* Initially there are no ports.
LEMMA InitIInv == Init => IInv
  BY DEF Init, IInv, TypeOK, ObjectForPort, SubscribedAsMeant, Open

\* An object in use is referred to and has an address of its client.
LEMMA OpenObjects ==
    ASSUME TypeOK, NEW o \in Open
    PROVE  /\ o \in Objects /\ o \in live /\ client[o] \in open /\ client[o] # None
           /\ Address(o) = <<client[o], port_id[o]>>
           /\ o # None
  BY DEF TypeOK, Open, Address

-----------------------------------------------------------------------------
(* Types.                                                                  *)

\* A subscription that goes leaves its number, if anything, in the history.
LEMMA DropTypes ==
    ASSUME TypeOK, NEW S \in SUBSET subs, Drop(S)
    PROVE  /\ subs' \subseteq Subscriptions /\ serial' \in Nat /\ began' \in Nat
           /\ gone' \subseteq {"READ", "WRITE"} \X Nat
  <1>1. ASSUME pc = "query"
        PROVE  Range(asked[2]) \subseteq {"READ", "WRITE"}
    <2>1. asked[2] \in Seq({"READ", "WRITE"})
      BY <1>1 DEF TypeOK
    <2> QED
      BY <2>1 DEF Range
  <1>2. \A s \in subs : s.n \in Nat
    BY DEF TypeOK, Subscriptions
  <1>3. pc \in {"idle", "query"}
    BY DEF TypeOK
  <1>4. gone' \subseteq {"READ", "WRITE"} \X Nat
    <2>1. CASE pc = "idle"
      BY <2>1 DEF Drop, TypeOK
    <2>2. CASE pc = "query"
      <3>1. gone' = gone \union UNION {{<<t, s.n>> : s \in S \intersect Group(asked[1], t)} :
                                          t \in Range(asked[2])}
        BY <2>2 DEF Drop
      <3>2. ASSUME NEW t \in Range(asked[2]), NEW s \in S
            PROVE  <<t, s.n>> \in {"READ", "WRITE"} \X Nat
        BY <1>1, <1>2, <2>2
      <3>3. gone \subseteq {"READ", "WRITE"} \X Nat
        BY DEF TypeOK
      <3> QED
        BY <3>1, <3>2, <3>3
    <2> QED
      BY <1>3, <2>1, <2>2
  <1> QED
    BY <1>4 DEF Drop, TypeOK

\* Closing an object preserves the types, whoever calls close.
LEMMA CloseTypes ==
    ASSUME TypeOK, NEW o \in Objects, close(o)
    PROVE  /\ ports' \subseteq ports
           /\ subs' \subseteq Subscriptions /\ serial' \in Nat /\ began' \in Nat
           /\ gone' \subseteq {"READ", "WRITE"} \X Nat
           /\ client' = [client EXCEPT ![o] = None]
  <1>1. CASE client[o] \in open /\ <<client[o], port_id[o]>> \in ports
    <2>1. RemovePorts({<<client[o], port_id[o]>>})
      BY <1>1 DEF close
    <2> QED
      BY <2>1, DropTypes DEF RemovePorts, close
  <1>2. CASE ~(client[o] \in open /\ <<client[o], port_id[o]>> \in ports)
    BY <1>2 DEF close, TypeOK
  <1> QED
    BY <1>1, <1>2

\* Every variable keeps its type.
LEMMA StepTypes ==
    ASSUME IInv, [Next]_vars
    PROVE  TypeOK'
  <1>0. TypeOK
    BY DEF IInv
  <1>1. ASSUME NEW a \in Addresses, NEW o \in Objects, NEW full \in BOOLEAN,
               create_port(a[1], a[2], o, full)
        PROVE  TypeOK'
    <2>1. a[1] \in Clients /\ a[2] \in Nat /\ a = <<a[1], a[2]>>
      OBVIOUS
    <2>2. returned(full, a[2]) = a[2]
      BY DEF returned, created
    <2>3. client[o] = None
      BY <1>0, <1>1 DEF TypeOK, create_port
    <2> QED
      BY <1>0, <1>1, <2>1, <2>2, <2>3 DEF TypeOK, create_port, call, Address
  <1>2. ASSUME NEW o \in Objects, Close(o)
        PROVE  TypeOK'
    BY <1>0, <1>2, CloseTypes DEF TypeOK, Close, call, Address
  <1>3. ASSUME NEW o \in Objects, __del__(o)
        PROVE  TypeOK'
    <2>1. CASE client[o] # None
      BY <1>0, <1>3, <2>1, CloseTypes DEF TypeOK, __del__, call, Address
    <2>2. CASE client[o] = None
      BY <1>0, <1>3, <2>2 DEF TypeOK, __del__, call, Address
    <2> QED
      BY <2>1, <2>2
  <1>4. ASSUME NEW c \in Clients, CloseClient(c)
        PROVE  TypeOK'
    BY <1>0, <1>4, DropTypes DEF TypeOK, CloseClient, RemovePorts, objects, call, Address
  <1>5. ASSUME NEW f, NEW t, NEW o \in Objects, NEW p \in Objects,
               snd_seq_subscribe_port(f, t, o, p), UNCHANGED <<open, objects, call>>
        PROVE  TypeOK'
    <2>1. InUse(o) \in Objects \union {None} /\ InUse(p) \in Objects \union {None}
      BY DEF InUse
    <2>2. subs' \subseteq Subscriptions /\ serial' \in Nat
      BY <1>0, <1>5, <2>1 DEF TypeOK, snd_seq_subscribe_port, Subscriptions
    <2> QED
      BY <1>0, <1>5, <2>2 DEF TypeOK, snd_seq_subscribe_port, objects, call, Address
  <1>6. ASSUME NEW f, NEW t, snd_seq_unsubscribe_port(f, t), UNCHANGED <<open, objects, call>>
        PROVE  TypeOK'
    <2>1. From(f) \intersect To(t) \in SUBSET subs
      BY DEF From
    <2> QED
      BY <1>0, <1>6, <2>1, DropTypes
         DEF TypeOK, snd_seq_unsubscribe_port, objects, call, Address
  <1>7. ASSUME NEW o \in Objects, NEW list \in TypeLists, list_port_subscribers(o, list)
        PROVE  TypeOK'
    BY <1>0, <1>7 DEF TypeOK, list_port_subscribers, objects, Address
  <1>8. ASSUME query_port_subscribers
        PROVE  TypeOK'
    BY <1>0, <1>8 DEF TypeOK, query_port_subscribers, objects, Address
  <1>9. ASSUME query_fails
        PROVE  TypeOK'
    <2>1. types \in Seq({"READ", "WRITE"}) /\ types # <<>>
      BY <1>0, <1>9 DEF TypeOK, query_fails
    <2>2. CASE Len(types) = 1
      BY <1>0, <1>9, <2>2 DEF TypeOK, query_fails, Return, objects, Address
    <2>3. CASE Len(types) # 1
      <3>0. Len(types) \in Nat \ {0}
        BY <2>1, EmptySeq
      <3>1. Len(types) - 1 # 0
        BY <2>3, <3>0
      <3>2. Tail(types) \in Seq({"READ", "WRITE"}) /\ Len(Tail(types)) = Len(types) - 1
        BY <2>1, HeadTailProperties
      <3>3. Tail(types) # <<>>
        <4>1. Len(<<>>) = 0
          BY EmptySeq
        <4> QED
          BY <3>1, <3>2, <4>1
      <3>4. types' = Tail(types) /\ index' = 0 /\ UNCHANGED <<pc, asked, began, gone>>
        BY <1>9, <2>3 DEF query_fails
      <3>5. UNCHANGED <<open, ports, subs, serial, live, client, client_id, port_id>>
        BY <1>9 DEF query_fails, objects
      <3> QED
        BY <1>0, <3>2, <3>3, <3>4, <3>5 DEF TypeOK, Address
    <2> QED
      BY <2>2, <2>3
  <1>10. CASE UNCHANGED vars
    BY <1>0, <1>10 DEF TypeOK, vars, objects, call, Address
  <1> QED
    BY <1>1, <1>2, <1>3, <1>4, <1>5, <1>6, <1>7, <1>8, <1>9, <1>10
       DEF Next, connect_to, connect_from, disconnect_to, disconnect_from,
           subscribe_port, unsubscribe_port

-----------------------------------------------------------------------------
(* Ports and subscriptions.                                                *)

\* What a step that makes no port and no subscription does, seen from both sides: some
\* ports P go, with their subscriptions and the objects for them.
Removes(P) ==
    /\ ports' = ports \ P
    /\ subs' = {s \in subs : s.from \notin P /\ s.to \notin P}
    /\ Open' = {o \in Open : Address(o) \notin P}
    /\ \A o \in Open' : Address(o)' = Address(o)

\* Such a step preserves what is said of ports and subscriptions.
LEMMA RemovesSafe ==
    ASSUME IInv, NEW P, Removes(P)
    PROVE  ObjectForPort' /\ SubscribedAsMeant'
  <1>1. ObjectForPort'
    BY DEF IInv, ObjectForPort, Removes
  <1>2. ASSUME NEW s \in subs'
        PROVE  /\ s \in subs /\ {s.from, s.to} \subseteq ports'
               /\ s.by[1] # None => s.by[1] \in Open' /\ s.from = Address(s.by[1])'
               /\ s.by[2] # None => s.by[2] \in Open' /\ s.to = Address(s.by[2])'
    <2>1. s \in subs /\ s.from \notin P /\ s.to \notin P
      BY <1>2 DEF Removes
    <2>2. /\ {s.from, s.to} \subseteq ports
          /\ s.by[1] # None => s.by[1] \in Open /\ s.from = Address(s.by[1])
          /\ s.by[2] # None => s.by[2] \in Open /\ s.to = Address(s.by[2])
      BY <2>1 DEF IInv, SubscribedAsMeant
    <2> QED
      BY <2>1, <2>2 DEF Removes
  <1>3. SubscribedAsMeant'
    BY <1>2 DEF SubscribedAsMeant
  <1> QED
    BY <1>1, <1>3

\* Closing an object removes its port, or nothing if the client is closed.
LEMMA CloseRemoves ==
    ASSUME IInv, NEW o \in Objects, close(o), open' = open,
           \A p \in Objects \ {o} : client_id'[p] = client_id[p] /\ port_id'[p] = port_id[p]
    PROVE  \E P : Removes(P)
  <1>0. TypeOK /\ ObjectForPort
    BY DEF IInv
  <1>1. client' = [client EXCEPT ![o] = None] /\ client \in [Objects -> Clients \union {None}]
    BY <1>0, CloseTypes DEF TypeOK
  <1>2. Open' = Open \ {o} /\ \A p \in Open' : Address(p)' = Address(p)
    BY <1>1 DEF Open, Address
  <1>3. CASE o \in Open
    <2>1. /\ Address(o) = <<client[o], port_id[o]>>
          /\ client[o] \in open /\ Address(o) \in ports
      BY <1>0, <1>3, OpenObjects DEF ObjectForPort
    <2>2. RemovePorts({Address(o)})
      BY <2>1 DEF close
    <2>3. \A p \in Open : Address(p) \in {Address(o)} <=> p = o
      BY <1>0, <1>3 DEF ObjectForPort
    <2>4. Removes({Address(o)})
      BY <1>2, <2>2, <2>3 DEF Removes, RemovePorts, Drop
    <2> QED
      BY <2>4
  <1>4. CASE o \notin Open
    <2>1. client[o] \notin open
      BY <1>4 DEF Open, close
    <2>2. Removes({})
      BY <1>2, <1>4, <2>1 DEF Removes, close
    <2> QED
      BY <2>2
  <1> QED
    BY <1>3, <1>4

\* Closing and collecting objects and closing clients are such steps.
LEMMA EndingsRemove ==
    ASSUME IInv
    PROVE  /\ \A o \in Objects : Close(o) \/ __del__(o) => \E P : Removes(P)
           /\ \A c \in Clients : CloseClient(c) => \E P : Removes(P)
  <1>0. TypeOK /\ ObjectForPort
    BY DEF IInv
  <1>1. ASSUME NEW o \in Objects, Close(o)
        PROVE  \E P : Removes(P)
    BY <1>1, CloseRemoves DEF Close
  <1>2. ASSUME NEW o \in Objects, __del__(o)
        PROVE  \E P : Removes(P)
    <2>1. \A p \in Objects \ {o} : client_id'[p] = client_id[p] /\ port_id'[p] = port_id[p]
      BY <1>0, <1>2 DEF __del__, TypeOK
    <2>2. CASE client[o] # None
      BY <1>2, <2>1, <2>2, CloseRemoves DEF __del__
    <2>3. CASE client[o] = None
      <3>1. o \notin Open
        BY <2>3 DEF Open
      <3>2. UNCHANGED <<open, client, ports, subs>>
        BY <1>2, <2>3 DEF __del__
      <3>3. Removes({})
        BY <2>1, <3>1, <3>2 DEF Removes, Open, Address
      <3> QED
        BY <3>3
    <2> QED
      BY <2>2, <2>3
  <1>3. ASSUME NEW c \in Clients, CloseClient(c)
        PROVE  \E P : Removes(P)
    <2> DEFINE P == {a \in ports : a[1] = c}
    <2>1. \A o \in Open : Address(o) \in P <=> client[o] = c
      BY <1>0, OpenObjects DEF ObjectForPort
    <2>2. Open' = {o \in Open : client[o] # c} /\ \A o \in Open' : Address(o)' = Address(o)
      BY <1>3 DEF CloseClient, Open, objects, Address
    <2>3. Removes(P)
      BY <1>3, <2>1, <2>2 DEF CloseClient, RemovePorts, Drop, Removes
    <2> QED
      BY <2>3
  <1> QED
    BY <1>1, <1>2, <1>3

\* Making a port adds it and the object for it.
LEMMA CreateSafe ==
    ASSUME IInv, NEW a \in Addresses, NEW o \in Objects, NEW full \in BOOLEAN,
           create_port(a[1], a[2], o, full)
    PROVE  /\ o \notin Open /\ Open' = Open \union {o}
           /\ \A p \in Open : Address(p)' = Address(p)
           /\ ports' = ports \union {a} /\ a \notin ports /\ subs' = subs
           /\ ObjectForPort' /\ SubscribedAsMeant'
  <1>0. TypeOK /\ ObjectForPort /\ SubscribedAsMeant
    BY DEF IInv
  <1>1. a = <<a[1], a[2]>>
    OBVIOUS
  <1>2. o \notin Open
    BY <1>0, OpenObjects DEF create_port
  <1>3. Open' = Open \union {o}
    BY <1>0, <1>1 DEF create_port, Open, TypeOK
  <1>4. \A p \in Open : Address(p)' = Address(p)
    BY <1>0, <1>2, OpenObjects DEF create_port, Address, TypeOK
  <1>5. Address(o)' = a
    BY <1>0, <1>1 DEF create_port, returned, created, Address, TypeOK
  <1>6. ports' = ports \union {a} /\ a \notin ports /\ subs' = subs
    BY <1>1 DEF create_port
  <1>7. ObjectForPort'
    BY <1>0, <1>3, <1>4, <1>5, <1>6 DEF ObjectForPort
  <1>8. SubscribedAsMeant'
    BY <1>0, <1>3, <1>4, <1>6 DEF SubscribedAsMeant
  <1> QED
    BY <1>2, <1>3, <1>4, <1>6, <1>7, <1>8

\* A step that leaves ports and objects alone.
Steady == UNCHANGED <<open, ports, client, client_id, port_id>>

LEMMA SteadyObjects ==
    ASSUME IInv, Steady
    PROVE  ObjectForPort' /\ Open' = Open /\ \A o : Address(o)' = Address(o)
  <1>1. Open' = Open /\ \A o : Address(o)' = Address(o)
    BY DEF Steady, Open, Address
  <1> QED
    BY <1>1 DEF IInv, ObjectForPort, Steady

\* A new subscription is between the ports of the objects it is made with.
LEMMA SubscribeSafe ==
    ASSUME IInv, NEW f, NEW t, NEW o \in Objects, NEW p \in Objects,
           snd_seq_subscribe_port(f, t, o, p), UNCHANGED <<open, objects, call>>,
           o \in Open => f = Address(o), p \in Open => t = Address(p)
    PROVE  ObjectForPort' /\ SubscribedAsMeant'
  <1>1. Steady
    BY DEF snd_seq_subscribe_port, Steady, objects
  <1>2. InUse(o) # None => InUse(o) \in Open /\ f = Address(InUse(o))
    BY DEF InUse
  <1>3. InUse(p) # None => InUse(p) \in Open /\ t = Address(InUse(p))
    BY DEF InUse
  <1> QED
    BY <1>1, <1>2, <1>3, SteadyObjects DEF IInv, SubscribedAsMeant, snd_seq_subscribe_port, Steady

\* A step that makes no subscription and leaves ports and objects alone.
LEMMA SteadySafe ==
    ASSUME IInv, Steady, subs' \subseteq subs
    PROVE  ObjectForPort' /\ SubscribedAsMeant'
  BY SteadyObjects DEF IInv, SubscribedAsMeant, Steady

\* What the six calls about subscriptions do, through the kernel's two.
LEMMA SubscriptionCalls ==
    ASSUME IInv, NEW o \in Objects, NEW p \in Objects
    PROVE  /\ \/ connect_to(o, p) \/ connect_from(o, p) \/ subscribe_port(o, p)
              => \E q, r \in Objects : \E f, t :
                    /\ snd_seq_subscribe_port(f, t, q, r) /\ UNCHANGED <<open, objects, call>>
                    /\ q \in Open => f = Address(q)
                    /\ r \in Open => t = Address(r)
           /\ \/ disconnect_to(o, p) \/ disconnect_from(o, p) \/ unsubscribe_port(o, p)
              => \E f, t : snd_seq_unsubscribe_port(f, t) /\ UNCHANGED <<open, objects, call>>
  <1>1. o \in Open => <<client[o], port_id[o]>> = Address(o)
    BY OpenObjects DEF IInv
  <1>2. ASSUME connect_to(o, p)
        PROVE  /\ snd_seq_subscribe_port(Address(o), Address(p), o, p)
               /\ UNCHANGED <<open, objects, call>>
    BY <1>1, <1>2 DEF connect_to
  <1>3. ASSUME connect_from(o, p)
        PROVE  /\ snd_seq_subscribe_port(Address(p), Address(o), p, o)
               /\ UNCHANGED <<open, objects, call>>
    BY <1>1, <1>3 DEF connect_from
  <1>4. ASSUME subscribe_port(o, p)
        PROVE  /\ snd_seq_subscribe_port(Address(o), Address(p), o, p)
               /\ UNCHANGED <<open, objects, call>>
    BY <1>4 DEF subscribe_port
  <1> QED
    BY <1>2, <1>3, <1>4 DEF disconnect_to, disconnect_from, unsubscribe_port

\* Listing changes nothing but its own variables.
LEMMA ListingSteady ==
    ASSUME \/ \E o \in Objects, list \in TypeLists : list_port_subscribers(o, list)
           \/ query_port_subscribers \/ query_fails \/ UNCHANGED vars
    PROVE  Steady /\ subs' = subs
  BY DEF list_port_subscribers, query_port_subscribers, query_fails, vars, objects, Steady

\* Every step preserves the invariant.
LEMMA Inductive == IInv /\ [Next]_vars => IInv'
  <1> SUFFICES ASSUME IInv, [Next]_vars
               PROVE  ObjectForPort' /\ SubscribedAsMeant'
    BY StepTypes DEF IInv
  <1>1. CASE \E a \in Addresses, o \in Objects, full \in BOOLEAN : create_port(a[1], a[2], o, full)
    BY <1>1, CreateSafe
  <1>2. CASE \/ \E o \in Objects : Close(o) \/ __del__(o)
             \/ \E c \in Clients : CloseClient(c)
    BY <1>2, EndingsRemove, RemovesSafe
  <1>3. ASSUME NEW o \in Objects, NEW p \in Objects,
               connect_to(o, p) \/ connect_from(o, p) \/ subscribe_port(o, p)
        PROVE  ObjectForPort' /\ SubscribedAsMeant'
    BY <1>3, SubscriptionCalls, SubscribeSafe
  <1>4. ASSUME NEW o \in Objects, NEW p \in Objects,
               disconnect_to(o, p) \/ disconnect_from(o, p) \/ unsubscribe_port(o, p)
        PROVE  ObjectForPort' /\ SubscribedAsMeant'
    <2>1. PICK f, t : snd_seq_unsubscribe_port(f, t) /\ UNCHANGED <<open, objects, call>>
      BY <1>4, SubscriptionCalls
    <2>2. Steady /\ subs' \subseteq subs
      BY <2>1 DEF snd_seq_unsubscribe_port, Drop, Steady, objects
    <2> QED
      BY <2>2, SteadySafe
  <1>5. CASE \/ \E o \in Objects, list \in TypeLists : list_port_subscribers(o, list)
             \/ query_port_subscribers \/ query_fails \/ UNCHANGED vars
    BY <1>5, ListingSteady, SteadySafe
  <1> QED
    BY <1>1, <1>2, <1>3, <1>4, <1>5 DEF Next

\* The inductive invariant holds in every reachable state.
THEOREM Invariant == Spec => []IInv
  BY InitIInv, Inductive, PTL DEF Spec

\* Types are right, and an object in use has the address of its client.
THEOREM TypeCorrect == Spec => []TypeOK
  BY Invariant, PTL DEF IInv

\* Objects in use and the kernel's ports are one to one.
THEOREM ObjectsForPorts == Spec => []ObjectForPort
  BY Invariant, PTL DEF IInv

\* A subscription connects the ports of the objects it was made with, and ends with them.
THEOREM AlwaysSubscribedAsMeant == Spec => []SubscribedAsMeant
  BY Invariant, PTL DEF IInv

-----------------------------------------------------------------------------
(* The graph.                                                              *)

Edges == {<<ObjectOf(s.from), ObjectOf(s.to)>> : s \in subs}

\* The object for a port is open and has its address, and is the only one.
LEMMA ObjectAt ==
    ASSUME ObjectForPort
    PROVE  /\ \A a \in ports : ObjectOf(a) \in Open /\ Address(ObjectOf(a)) = a
           /\ \A o \in Open : ObjectOf(Address(o)) = o
  BY DEF ObjectForPort, ObjectOf

\* An object that keeps its address is the object for it before and after.
LEMMA SameObject ==
    ASSUME ObjectForPort, ObjectForPort', NEW o \in Open, o \in Open', Address(o)' = Address(o),
           NEW a, a = Address(o)
    PROVE  ObjectOf(a) = o /\ ObjectOf(a)' = o
  BY DEF ObjectForPort, ObjectOf

\* A new port is added to the graph.
LEMMA CreateAdds ==
    ASSUME IInv, IInv', NEW a \in Addresses, NEW o \in Objects, NEW full \in BOOLEAN,
           create_port(a[1], a[2], o, full)
    PROVE  Open' = Open \union {o} /\ o \notin Open /\ Edges' = Edges
  <1>0. ObjectForPort /\ ObjectForPort' /\ SubscribedAsMeant
    BY DEF IInv
  <1>1. /\ o \notin Open /\ Open' = Open \union {o} /\ subs' = subs
        /\ \A p \in Open : Address(p)' = Address(p)
    BY CreateSafe
  <1>2. ASSUME NEW b \in ports
        PROVE  ObjectOf(b)' = ObjectOf(b)
    <2>1. PICK p \in Open : Address(p) = b
      BY <1>0 DEF ObjectForPort
    <2> QED
      BY <1>0, <1>1, <2>1, SameObject
  <1>3. \A s \in subs : s.from \in ports /\ s.to \in ports
    BY <1>0 DEF SubscribedAsMeant
  <1> QED
    BY <1>1, <1>2, <1>3 DEF Edges

\* Ports that go take their edges with them, and no others.
LEMMA RemovesEdges ==
    ASSUME IInv, IInv', NEW P, Removes(P)
    PROVE  /\ Open' \in SUBSET Open
           /\ Edges' = {e \in Edges : {e[1], e[2]} \subseteq Open'}
  <1>0. ObjectForPort /\ ObjectForPort' /\ SubscribedAsMeant
    BY DEF IInv
  <1>1. ASSUME NEW b \in ports
        PROVE  /\ ObjectOf(b) \in Open' <=> b \notin P
               /\ b \notin P => ObjectOf(b)' = ObjectOf(b)
    <2>1. ObjectOf(b) \in Open /\ Address(ObjectOf(b)) = b
      BY <1>0, ObjectAt
    <2>2. ObjectOf(b) \in Open' <=> b \notin P
      BY <2>1 DEF Removes
    <2>3. ASSUME b \notin P
          PROVE  ObjectOf(b)' = ObjectOf(b)
      <3>1. PICK p \in Open : p = ObjectOf(b)
        BY <2>1
      <3>2. p \in Open' /\ Address(p) = b /\ Address(p)' = Address(p)
        BY <2>1, <2>2, <2>3, <3>1 DEF Removes
      <3> QED
        BY <1>0, <3>1, <3>2, SameObject
    <2> QED
      BY <2>2, <2>3
  <1>2. \A s \in subs : s.from \in ports /\ s.to \in ports
    BY <1>0 DEF SubscribedAsMeant
  <1>3. subs' = {s \in subs : s.from \notin P /\ s.to \notin P}
    BY DEF Removes
  <1>4. \A s \in subs' : /\ s \in subs
                         /\ ObjectOf(s.from)' = ObjectOf(s.from) /\ ObjectOf(s.from) \in Open'
                         /\ ObjectOf(s.to)' = ObjectOf(s.to) /\ ObjectOf(s.to) \in Open'
    BY <1>1, <1>2, <1>3
  <1>5. \A s \in subs : ObjectOf(s.from) \in Open' /\ ObjectOf(s.to) \in Open' => s \in subs'
    BY <1>1, <1>2, <1>3
  <1>6. Edges' = {<<ObjectOf(s.from), ObjectOf(s.to)>> : s \in subs'}
    BY <1>4 DEF Edges
  <1>7. ASSUME NEW e \in Edges'
        PROVE  e \in Edges /\ {e[1], e[2]} \subseteq Open'
    BY <1>4, <1>6 DEF Edges
  <1>8. ASSUME NEW e \in Edges, {e[1], e[2]} \subseteq Open'
        PROVE  e \in Edges'
    BY <1>5, <1>6, <1>8 DEF Edges
  <1>9. Open' \in SUBSET Open
    BY DEF Removes
  <1> QED
    BY <1>7, <1>8, <1>9

\* A step that leaves ports and objects alone leaves names alone.
LEMMA SteadyNames ==
    ASSUME IInv, Steady
    PROVE  Open' = Open /\ Edges' = {<<ObjectOf(s.from), ObjectOf(s.to)>> : s \in subs'}
  BY SteadyObjects DEF ObjectOf, Edges

\* A subscription is an edge between the objects of its ports.
LEMMA SubscribeConnects ==
    ASSUME IInv, NEW f, NEW t, NEW o \in Objects, NEW p \in Objects,
           snd_seq_subscribe_port(f, t, o, p), UNCHANGED <<open, objects, call>>
    PROVE  /\ Open' = Open /\ {ObjectOf(f), ObjectOf(t)} \subseteq Open
           /\ Edges' = Edges \union {<<ObjectOf(f), ObjectOf(t)>>}
  <1>1. Steady
    BY DEF snd_seq_subscribe_port, Steady, objects
  <1> DEFINE new == [from |-> f, to |-> t, n |-> serial + 1, by |-> <<InUse(o), InUse(p)>>]
  <1>2. subs' = subs \union {new} /\ new.from = f /\ new.to = t
    BY DEF snd_seq_subscribe_port
  <1> HIDE DEF new
  <1>3. f \in ports /\ t \in ports
    BY DEF snd_seq_subscribe_port
  <1>4. {ObjectOf(f), ObjectOf(t)} \subseteq Open
    BY <1>3, ObjectAt DEF IInv
  <1>5. Edges' = Edges \union {<<ObjectOf(f), ObjectOf(t)>>}
    BY <1>1, <1>2, SteadyNames DEF Edges
  <1> QED
    BY <1>1, <1>4, <1>5, SteadyNames

\* One that goes is the only one for its edge.
LEMMA UnsubscribeDisconnects ==
    ASSUME IInv, NEW f, NEW t, snd_seq_unsubscribe_port(f, t), UNCHANGED <<open, objects, call>>
    PROVE  /\ Open' = Open /\ <<ObjectOf(f), ObjectOf(t)>> \in Edges
           /\ Edges' = Edges \ {<<ObjectOf(f), ObjectOf(t)>>}
  <1>1. Steady
    BY DEF snd_seq_unsubscribe_port, Drop, Steady, objects
  <1>2. subs' = {s \in subs : ~(s.from = f /\ s.to = t)}
    BY DEF snd_seq_unsubscribe_port, Drop, From, To
  <1>3. PICK old \in subs : old.from = f /\ old.to = t
    BY DEF snd_seq_unsubscribe_port, From, To
  <1>4. \A s \in subs : s.from \in ports /\ s.to \in ports
    BY DEF IInv, SubscribedAsMeant
  <1>5. \A s \in subs : /\ ObjectOf(s.from) = ObjectOf(f) <=> s.from = f
                        /\ ObjectOf(s.to) = ObjectOf(t) <=> s.to = t
    BY <1>3, <1>4, ObjectAt DEF IInv
  <1>6. Edges' = {<<ObjectOf(s.from), ObjectOf(s.to)>> : s \in subs'}
    BY <1>1, SteadyNames
  <1>7. ASSUME NEW e \in Edges'
        PROVE  e \in Edges \ {<<ObjectOf(f), ObjectOf(t)>>}
    BY <1>2, <1>5, <1>6 DEF Edges
  <1>8. ASSUME NEW e \in Edges, e # <<ObjectOf(f), ObjectOf(t)>>
        PROVE  e \in Edges'
    BY <1>2, <1>5, <1>6, <1>8 DEF Edges
  <1> QED
    BY <1>1, <1>3, <1>7, <1>8, SteadyNames DEF Edges

\* Every step is a step of the graph, or leaves it alone.
LEMMA GraphStep ==
    ASSUME IInv, IInv', [Next]_vars
    PROVE  [Graph!Next]_<<Open, Edges>>
  <1>1. CASE \E a \in Addresses, o \in Objects, full \in BOOLEAN : create_port(a[1], a[2], o, full)
    BY <1>1, CreateAdds DEF Graph!Next, Graph!Add, Edges
  <1>2. CASE \E P : Removes(P)
    BY <1>2, RemovesEdges DEF Graph!Next, Graph!Remove, Edges
  <1>3. ASSUME NEW o \in Objects, NEW p \in Objects,
               connect_to(o, p) \/ connect_from(o, p) \/ subscribe_port(o, p)
        PROVE  [Graph!Next]_<<Open, Edges>>
    <2>a. PICK q \in Objects, r \in Objects :
              \E f, t : snd_seq_subscribe_port(f, t, q, r) /\ UNCHANGED <<open, objects, call>>
      BY <1>3, SubscriptionCalls
    <2>0. PICK f, t : snd_seq_subscribe_port(f, t, q, r) /\ UNCHANGED <<open, objects, call>>
      BY <2>a
    <2> DEFINE e == <<ObjectOf(f), ObjectOf(t)>>
    <2>1. /\ Open' = Open /\ {e[1], e[2]} \subseteq Open /\ Edges' = Edges \union {e}
          /\ e = <<e[1], e[2]>>
      BY <2>0, SubscribeConnects
    <2> HIDE DEF e
    <2>2. CASE e \in Edges
      BY <2>1, <2>2
    <2>3. CASE e \notin Edges
      <3>1. e \in Edges' \ Edges
        BY <2>1, <2>3
      <3> QED
        BY <2>1, <3>1 DEF Graph!Next, Graph!Connect, Edges
    <2> QED
      BY <2>2, <2>3
  <1>4. ASSUME NEW o \in Objects, NEW p \in Objects,
               disconnect_to(o, p) \/ disconnect_from(o, p) \/ unsubscribe_port(o, p)
        PROVE  [Graph!Next]_<<Open, Edges>>
    <2>0. PICK f, t : snd_seq_unsubscribe_port(f, t) /\ UNCHANGED <<open, objects, call>>
      BY <1>4, SubscriptionCalls
    <2> DEFINE e == <<ObjectOf(f), ObjectOf(t)>>
    <2>1. Open' = Open /\ e \in Edges /\ Edges' = Edges \ {e} /\ e = <<e[1], e[2]>>
      BY <2>0, UnsubscribeDisconnects
    <2> HIDE DEF e
    <2>2. e \in Edges \ Edges'
      BY <2>1
    <2> QED
      BY <2>1, <2>2 DEF Graph!Next, Graph!Disconnect, Edges
  <1>5. CASE \/ \E o \in Objects, list \in TypeLists : list_port_subscribers(o, list)
             \/ query_port_subscribers \/ query_fails \/ UNCHANGED vars
    BY <1>5, ListingSteady, SteadyNames DEF Edges
  <1> QED
    BY <1>1, <1>2, <1>3, <1>4, <1>5, EndingsRemove DEF Next

\* Ports and subscriptions implement the graph their users see.
THEOREM PortsImplementGraph == Spec => ImplementsGraph
  <1>1. Init => Graph!Init
    BY DEF Init, Graph!Init, Open
  <1>2. IInv /\ IInv' /\ [Next]_vars => [Graph!Next]_<<Open, Edges>>
    BY GraphStep
  <1> QED
    BY <1>1, <1>2, Invariant, PTL DEF Spec, ImplementsGraph, Graph!Spec, Edges

-----------------------------------------------------------------------------
(* Listing subscribers.  First, sets of numbers and how many of one come   *)
(* before a number.                                                        *)

Place(T, n) == Cardinality({m \in T : m < n})

LEMMA PlaceIs ==
    ASSUME NEW T \in SUBSET Nat, IsFiniteSet(T)
    PROVE  /\ \A n : Place(T, n) \in Nat
           /\ \A m \in T, n \in Nat : m < n => Place(T, m) < Place(T, n)
  <1>1. ASSUME NEW n
        PROVE  IsFiniteSet({m \in T : m < n}) /\ Place(T, n) \in Nat
    <2>1. IsFiniteSet({m \in T : m < n})
      BY FS_Subset
    <2> QED
      BY <2>1, FS_CardinalityType DEF Place
  <1>2. ASSUME NEW m \in T, NEW n \in Nat, m < n
        PROVE  Place(T, m) < Place(T, n)
    <2> DEFINE M == {k \in T : k < m}
               N == {k \in T : k < n}
    <2>1. M \in SUBSET T /\ N \in SUBSET T
      OBVIOUS
    <2>2. M \union {m} \subseteq N /\ m \notin M
      <3>1. m \in Nat /\ \A k \in T : k \in Nat
        OBVIOUS
      <3>2. ~ (m < m) /\ \A k \in T : k < m => k < n
        BY <1>2, <3>1
      <3> QED
        BY <1>2, <3>2
    <2> HIDE DEF M, N
    <2>3. /\ IsFiniteSet(M) /\ Cardinality(M) \in Nat
          /\ IsFiniteSet(N) /\ Cardinality(N) \in Nat
      BY <2>1, FS_Subset, FS_CardinalityType
    <2>4. Cardinality(M \union {m}) = Cardinality(M) + 1
      BY <2>2, <2>3, FS_AddElement
    <2>5. Cardinality(M \union {m}) <= Cardinality(N)
      BY <2>2, <2>3, FS_Subset
    <2>6. Cardinality(M) < Cardinality(N)
      BY <2>3, <2>4, <2>5
    <2> QED
      BY <2>6 DEF M, N, Place
  <1> QED
    BY <1>1, <1>2

\* No more than i numbers have a place below i.
LEMMA FewBefore ==
    ASSUME NEW T \in SUBSET Nat, IsFiniteSet(T), NEW i \in Nat
    PROVE  LET U == {n \in T : Place(T, n) < i} IN IsFiniteSet(U) /\ Cardinality(U) <= i
  <1> DEFINE U == {n \in T : Place(T, n) < i}
             f == [n \in U |-> Place(T, n) + 1]
  <1>1. f \in [U -> 1..i]
    BY PlaceIs
  <1>2. ASSUME NEW m \in U, NEW n \in U, f[m] = f[n]
        PROVE  m = n
    <2>1. m \in T /\ n \in T /\ m \in Nat /\ n \in Nat
      OBVIOUS
    <2>2. Place(T, m) \in Nat /\ Place(T, n) \in Nat
      BY PlaceIs
    <2>3. Place(T, m) = Place(T, n)
      BY <1>2, <2>2
    <2>4. ~ (Place(T, m) < Place(T, n)) /\ ~ (Place(T, n) < Place(T, m))
      BY <2>2, <2>3
    <2>5. ~ (m < n) /\ ~ (n < m)
      BY <2>1, <2>4, PlaceIs
    <2> QED
      BY <2>1, <2>5
  <1>3. f \in Injection(U, 1..i)
    BY <1>1, <1>2 DEF Injection, IsInjective
  <1>4. IsFiniteSet(1..i) /\ Cardinality(1..i) = i
    BY FS_Interval
  <1> HIDE DEF f, U
  <1>5. IsFiniteSet(U) /\ Cardinality(U) <= Cardinality(1..i)
    BY <1>3, <1>4, FS_Injection
  <1> QED
    BY <1>4, <1>5 DEF U

\* If none has the place i, all are before it.
LEMMA AllBefore ==
    ASSUME NEW T \in SUBSET Nat, IsFiniteSet(T), NEW i \in Nat, \A n \in T : Place(T, n) # i
    PROVE  \A n \in T : Place(T, n) < i
  <1> DEFINE R == OpToRel(<, Nat)
             L == {n \in T : ~ (Place(T, n) < i)}
  <1> SUFFICES ASSUME L # {}
               PROVE  FALSE
    OBVIOUS
  <1>1. \A x, y \in Nat : <<y, x>> \in R <=> y < x
    BY DEF OpToRel
  <1>2. IsWellFoundedOn(R, Nat)
    BY NatLessThanWellFounded
  <1> HIDE DEF R
  <1>3. PICK x \in L : \A y \in L : ~ (<<y, x>> \in R)
    <2>1. L \subseteq Nat
      OBVIOUS
    <2> HIDE DEF L
    <2> QED
      BY <1>2, <2>1, WFMin, Zenon
  <1>4. x \in T /\ x \in Nat /\ ~ (Place(T, x) < i) /\ Place(T, x) # i /\ Place(T, x) \in Nat
    BY PlaceIs
  <1>5. \A y \in T : y < x => Place(T, y) < i
    BY <1>1, <1>3, <1>4
  <1> DEFINE B == {m \in T : m < x}
             U == {n \in T : Place(T, n) < i}
  <1>6. B \subseteq U
    BY <1>5
  <1>7. IsFiniteSet(U) /\ Cardinality(U) <= i
    BY FewBefore
  <1>8. Place(T, x) = Cardinality(B)
    BY DEF Place
  <1> HIDE DEF B, U, L
  <1>9. IsFiniteSet(B) /\ Cardinality(B) <= Cardinality(U)
    BY <1>6, <1>7, FS_Subset
  <1>10. Cardinality(U) \in Nat /\ Cardinality(B) \in Nat
    BY <1>7, <1>9, FS_CardinalityType
  <1> QED
    BY <1>4, <1>7, <1>8, <1>9, <1>10

\* When some go, a number keeps its place, or one before it went.
LEMMA FewerBefore ==
    ASSUME NEW T \in SUBSET Nat, IsFiniteSet(T), NEW U \in SUBSET T, NEW n
    PROVE  /\ IsFiniteSet(U) /\ Place(U, n) <= Place(T, n)
           /\ Place(U, n) = Place(T, n) \/ \E m \in T \ U : m < n
  <1> DEFINE B == {m \in T : m < n}
             C == {m \in U : m < n}
  <1>1. C \subseteq B
    OBVIOUS
  <1>2. B = C \/ \E m \in T \ U : m < n
    OBVIOUS
  <1>3. IsFiniteSet(B) /\ IsFiniteSet(U)
    BY FS_Subset
  <1>4. Place(T, n) = Cardinality(B) /\ Place(U, n) = Cardinality(C)
    BY DEF Place
  <1> HIDE DEF B, C
  <1>5. Cardinality(C) <= Cardinality(B)
    BY <1>1, <1>3, FS_Subset
  <1> QED
    BY <1>2, <1>3, <1>4, <1>5

-----------------------------------------------------------------------------
(* A query by index over the numbers W, in which those in G have been got  *)
(* and those in R have been removed; only those up to b are owed.          *)

Owed(W, G, b) == {n \in W : n <= b /\ n \notin G}

\* The i got are before index i or removed, those to come are after them; and what is
\* passed over is after one removed.
Gathered(W, G, R, b, i) ==
    /\ Cardinality(G) = i
    /\ \A n \in G : n \in R \/ (n \in W /\ Place(W, n) < i)
    /\ \A n \in G, m \in W : Place(W, m) >= i => n < m
    /\ \A n \in Owed(W, G, b) : Place(W, n) < i => \E m \in R : m < n

Excused(W, G, R, b) ==
    /\ Cardinality(Owed(W, G, b)) <= Cardinality(R)
    /\ \A n \in Owed(W, G, b) : \E m \in R : m < n

NumberSets(N, W, G, R) == W \subseteq 1..N /\ G \subseteq 1..N /\ R \subseteq 1..N

LEMMA SetsFinite ==
    ASSUME NEW N \in Nat, NEW T \in SUBSET (1..N)
    PROVE  T \in SUBSET Nat /\ IsFiniteSet(T) /\ Cardinality(T) \in Nat
  <1>1. IsFiniteSet(1..N)
    BY FS_Interval
  <1>2. IsFiniteSet(T)
    BY <1>1, FS_Subset
  <1> QED
    BY <1>2, FS_CardinalityType

\* Numbers are removed from W.
LEMMA RemovingKeeps ==
    ASSUME NEW N \in Nat, NEW W, NEW G, NEW R, NumberSets(N, W, G, R),
           NEW V \in SUBSET W, NEW Q \in SUBSET (1..N), R \subseteq Q, W \ V \subseteq Q,
           NEW b \in Nat, NEW i \in Nat
    PROVE  /\ Gathered(W, G, R, b, i) => Gathered(V, G, Q, b, i)
           /\ Excused(W, G, R, b) => Excused(V, G, Q, b)
  <1>1. /\ W \in SUBSET Nat /\ IsFiniteSet(W) /\ V \in SUBSET Nat /\ IsFiniteSet(V)
        /\ IsFiniteSet(Q) /\ Cardinality(Q) \in Nat
    BY SetsFinite DEF NumberSets
  <1>2. \A n \in Nat : /\ Place(W, n) \in Nat /\ Place(V, n) \in Nat /\ Place(V, n) <= Place(W, n)
                       /\ Place(V, n) = Place(W, n) \/ \E m \in W \ V : m < n
    BY <1>1, PlaceIs, FewerBefore
  <1>3. Owed(V, G, b) \subseteq Owed(W, G, b) /\ Owed(W, G, b) \subseteq W
    BY DEF Owed
  <1>4. ASSUME Gathered(W, G, R, b, i)
        PROVE  Gathered(V, G, Q, b, i)
    <2>1. ASSUME NEW n \in G
          PROVE  n \in Q \/ (n \in V /\ Place(V, n) < i)
      <3>1. CASE n \in R \/ n \in W \ V
        BY <3>1
      <3>2. CASE n \in V /\ n \notin R
        <4>1. Place(W, n) < i
          BY <1>4, <3>2 DEF Gathered
        <4>2. n \in Nat
          BY <1>1, <3>2
        <4> QED
          BY <1>2, <3>2, <4>1, <4>2
      <3> QED
        BY <1>4, <3>1, <3>2 DEF Gathered
    <2>2. ASSUME NEW n \in G, NEW m \in V, Place(V, m) >= i
          PROVE  n < m
      <3>1. m \in W /\ m \in Nat
        BY <1>1
      <3>2. Place(W, m) >= i
        BY <1>2, <2>2, <3>1
      <3> QED
        BY <1>4, <3>1, <3>2 DEF Gathered
    <2>3. ASSUME NEW n \in Owed(V, G, b), Place(V, n) < i
          PROVE  \E m \in Q : m < n
      <3>1. n \in Owed(W, G, b) /\ n \in Nat
        BY <1>1, <1>3
      <3>2. CASE Place(V, n) = Place(W, n)
        <4>1. \E m \in R : m < n
          BY <1>4, <2>3, <3>1, <3>2 DEF Gathered
        <4> QED
          BY <4>1
      <3>3. CASE \E m \in W \ V : m < n
        BY <3>3
      <3> QED
        BY <1>2, <3>1, <3>2, <3>3
    <2> QED
      BY <1>4, <2>1, <2>2, <2>3 DEF Gathered
  <1>5. ASSUME Excused(W, G, R, b)
        PROVE  Excused(V, G, Q, b)
    <2>1. \A n \in Owed(V, G, b) : \E m \in Q : m < n
      BY <1>3, <1>5 DEF Excused
    <2>2. IsFiniteSet(Owed(W, G, b))
      BY <1>1, <1>3, FS_Subset
    <2>3. /\ Cardinality(Owed(V, G, b)) <= Cardinality(Owed(W, G, b))
          /\ IsFiniteSet(Owed(V, G, b))
      BY <1>3, <2>2, FS_Subset
    <2>4. IsFiniteSet(R) /\ Cardinality(R) <= Cardinality(Q)
      BY <1>1, FS_Subset
    <2>5. /\ Cardinality(Owed(V, G, b)) \in Nat /\ Cardinality(Owed(W, G, b)) \in Nat
          /\ Cardinality(R) \in Nat
      BY <2>2, <2>3, <2>4, FS_CardinalityType
    <2>6. Cardinality(Owed(W, G, b)) <= Cardinality(R)
      BY <1>5 DEF Excused
    <2>7. Cardinality(Owed(V, G, b)) <= Cardinality(Q)
      BY <1>1, <2>3, <2>4, <2>5, <2>6
    <2> QED
      BY <2>1, <2>7 DEF Excused
  <1> QED
    BY <1>4, <1>5

\* A new number, after all others and not owed, joins W.
LEMMA AddingKeeps ==
    ASSUME NEW N \in Nat, NEW W, NEW G, NEW R, NumberSets(N, W, G, R),
           NEW V, V = W \union {N + 1}, NEW b \in 0..N, NEW i \in Nat
    PROVE  /\ Gathered(W, G, R, b, i) => Gathered(V, G, R, b, i)
           /\ Excused(W, G, R, b) => Excused(V, G, R, b)
  <1>1. \A n \in 1..N : n \in Nat /\ n < N + 1 /\ ~ (N + 1 < n) /\ ~ (N + 1 = n)
    OBVIOUS
  <1>2. ~ (N + 1 <= b)
    OBVIOUS
  <1>3. \A n \in W : n \in 1..N
    BY DEF NumberSets
  <1>4. ASSUME NEW n \in W
        PROVE  Place(V, n) = Place(W, n)
    <2>1. {m \in V : m < n} = {m \in W : m < n}
      BY <1>1, <1>3
    <2> QED
      BY <2>1 DEF Place
  <1>5. Owed(V, G, b) = Owed(W, G, b)
    BY <1>2 DEF Owed
  <1>6. \A n \in G : n < N + 1
    BY <1>1 DEF NumberSets
  <1>7. ASSUME Gathered(W, G, R, b, i)
        PROVE  Gathered(V, G, R, b, i)
    <2>1. \A n \in G : n \in R \/ (n \in V /\ Place(V, n) < i)
      BY <1>4, <1>7 DEF Gathered
    <2>2. \A n \in G, m \in V : Place(V, m) >= i => n < m
      BY <1>4, <1>6, <1>7 DEF Gathered
    <2>3. \A n \in Owed(V, G, b) : Place(V, n) < i => \E m \in R : m < n
      BY <1>4, <1>5, <1>7 DEF Gathered, Owed
    <2> QED
      BY <1>7, <2>1, <2>2, <2>3 DEF Gathered
  <1> QED
    BY <1>5, <1>7 DEF Excused

\* The query returns the number with index i, which is after all that it returned.
LEMMA GettingKeeps ==
    ASSUME NEW N \in Nat, NEW W, NEW G, NEW R, NumberSets(N, W, G, R),
           NEW b \in Nat, NEW i \in Nat, NEW a \in W, Place(W, a) = i,
           Gathered(W, G, R, b, i)
    PROVE  /\ \A n \in G : n < a
           /\ Gathered(W, G \union {a}, R, b, i + 1)
  <1>1. /\ W \in SUBSET Nat /\ IsFiniteSet(W) /\ G \in SUBSET Nat /\ IsFiniteSet(G)
    BY SetsFinite DEF NumberSets
  <1>2. /\ \A n \in W : n \in Nat /\ Place(W, n) \in Nat
        /\ \A m, n \in W : m < n => Place(W, m) < Place(W, n)
    BY <1>1, PlaceIs
  <1>3. i >= i /\ ~ (a < a)
    BY <1>2
  <1>4. \A n \in G : n < a
    BY <1>3 DEF Gathered
  <1>5. a \notin G
    BY <1>3, <1>4
  <1>6. Cardinality(G \union {a}) = i + 1
    BY <1>1, <1>5, FS_AddElement DEF Gathered
  <1>7. ASSUME NEW n \in G \union {a}
        PROVE  n \in R \/ (n \in W /\ Place(W, n) < i + 1)
    <2>1. CASE n \in G /\ n \notin R
      <3>1. n \in W /\ Place(W, n) < i
        BY <2>1 DEF Gathered
      <3> QED
        BY <1>2, <3>1
    <2>2. CASE n = a
      BY <2>2
    <2> QED
      BY <1>7, <2>1, <2>2
  <1>8. ASSUME NEW n \in G \union {a}, NEW m \in W, Place(W, m) >= i + 1
        PROVE  n < m
    <2>1. Place(W, m) >= i /\ ~ (Place(W, m) < i) /\ Place(W, m) # i
      BY <1>2, <1>8
    <2>2. CASE n \in G
      BY <2>1, <2>2 DEF Gathered
    <2>3. CASE n = a
      <3>1. ~ (m < a) /\ m # a
        BY <1>2, <2>1
      <3> QED
        BY <1>2, <2>3, <3>1
    <2> QED
      BY <1>8, <2>2, <2>3
  <1>9. ASSUME NEW n \in Owed(W, G \union {a}, b), Place(W, n) < i + 1
        PROVE  \E m \in R : m < n
    <2>1. n \in Owed(W, G, b) /\ n # a /\ n \in W
      BY DEF Owed
    <2>2. Place(W, n) # i
      <3>1. n < a \/ a < n
        BY <1>2, <2>1
      <3>2. Place(W, n) < i \/ i < Place(W, n)
        BY <1>2, <2>1, <3>1
      <3> QED
        BY <1>2, <2>1, <3>2
    <2>3. Place(W, n) < i
      BY <1>2, <1>9, <2>1, <2>2
    <2> QED
      BY <2>1, <2>3 DEF Gathered
  <1>10. Gathered(W, G \union {a}, R, b, i + 1)
    BY <1>6, <1>7, <1>8, <1>9 DEF Gathered
  <1> QED
    BY <1>4, <1>10

\* The query fails: what is owed is no more than what was removed.
LEMMA FailingExcuses ==
    ASSUME NEW N \in Nat, NEW W, NEW G, NEW R, NumberSets(N, W, G, R),
           NEW b \in Nat, NEW i \in Nat, \A n \in W : Place(W, n) # i,
           Gathered(W, G, R, b, i)
    PROVE  Excused(W, G, R, b)
  <1>1. /\ W \in SUBSET Nat /\ IsFiniteSet(W) /\ Cardinality(W) \in Nat
        /\ IsFiniteSet(G) /\ IsFiniteSet(R) /\ Cardinality(R) \in Nat
    BY SetsFinite DEF NumberSets
  <1>2. \A n \in W : Place(W, n) < i
    BY <1>1, AllBefore
  <1>3. \A n \in Owed(W, G, b) : \E m \in R : m < n
    BY <1>2 DEF Gathered, Owed
  <1>4. Cardinality(W) <= i
    <2>1. {n \in W : Place(W, n) < i} = W
      BY <1>2
    <2> QED
      BY <1>1, <2>1, FewBefore
  <1>5. Cardinality(G \ W) = Cardinality(G) - Cardinality(G \intersect W)
    BY <1>1, FS_Difference
  <1>6. W \intersect G = G \intersect W
    OBVIOUS
  <1>7. Cardinality(W \ G) = Cardinality(W) - Cardinality(G \intersect W)
    <2>1. Cardinality(W \ G) = Cardinality(W) - Cardinality(W \intersect G)
      BY <1>1, FS_Difference
    <2> QED
      BY <1>6, <2>1, Zenon
  <1>8. G \ W \subseteq R
    BY DEF Gathered
  <1>9. Cardinality(G \ W) <= Cardinality(R)
    BY <1>1, <1>8, FS_Subset
  <1>10. Owed(W, G, b) \subseteq W \ G
    BY DEF Owed
  <1>11. IsFiniteSet(W \ G) /\ IsFiniteSet(G \ W) /\ IsFiniteSet(G \intersect W)
    BY <1>1, FS_Difference, FS_Intersection
  <1>12. Cardinality(Owed(W, G, b)) <= Cardinality(W \ G) /\ IsFiniteSet(Owed(W, G, b))
    BY <1>10, <1>11, FS_Subset
  <1>13. Cardinality(G) = i
    BY DEF Gathered
  <1>14. /\ Cardinality(W \ G) \in Nat /\ Cardinality(G \ W) \in Nat
         /\ Cardinality(G \intersect W) \in Nat /\ Cardinality(Owed(W, G, b)) \in Nat
    BY <1>11, <1>12, FS_CardinalityType
  <1>15. Cardinality(Owed(W, G, b)) <= Cardinality(R)
    <2>1. Cardinality(W \ G) <= Cardinality(G \ W)
      BY <1>1, <1>4, <1>5, <1>7, <1>13, <1>14
    <2> QED
      BY <1>1, <1>9, <1>12, <1>14, <2>1
  <1> QED
    BY <1>3, <1>15 DEF Excused

\* Nothing is got yet.
LEMMA StartGathers ==
    ASSUME NEW N \in Nat, NEW W, NEW G, NEW R, NumberSets(N, W, G, R), G = {}, NEW b
    PROVE  Gathered(W, G, R, b, 0)
  <1>1. W \in SUBSET Nat /\ IsFiniteSet(W)
    BY SetsFinite DEF NumberSets
  <1>2. \A n \in W : ~ (Place(W, n) < 0)
    BY <1>1, PlaceIs
  <1>3. Cardinality(G) = 0
    BY FS_EmptySet
  <1> QED
    BY <1>2, <1>3 DEF Gathered, Owed

-----------------------------------------------------------------------------
(* The call under way.                                                     *)

\* Subscriptions are numbered as they are made.
Numbered ==
    /\ \A s \in subs : s.n \in 1..serial
    /\ \A r, s \in subs : r.n = s.n => r = s

Directions == {"READ", "WRITE"}

Waiting(t) == {s.n : s \in Group(asked[1], t)}
Got(t)     == {n \in 1..serial : <<t, n>> \in Range(result)}
Removed(t) == {n \in 1..serial : <<t, n>> \in gone}

InOrder ==
    \A k, m \in DOMAIN result :
        k < m /\ result[k][1] = result[m][1] => result[k][2] < result[m][2]

\* What has been listed of the types done, of the one under way and of those to come.
UnderWay ==
    pc = "query" =>
        /\ began <= serial
        /\ result \in Seq(Directions \X (1..serial)) /\ gone \subseteq Directions \X (1..serial)
        /\ InOrder
        /\ IsInjective(types) /\ Range(types) \subseteq Range(asked[2])
        /\ \A t \in Range(asked[2]) \ Range(types) :
              Excused(Waiting(t), Got(t), Removed(t), began)
        /\ \A t \in Range(types) :
              IF t = Head(types) THEN Gathered(Waiting(t), Got(t), Removed(t), began, index)
                                 ELSE Got(t) = {}

LInv == Numbered /\ UnderWay

LEMMA SetsOfNumbers ==
    ASSUME TypeOK, Numbered
    PROVE  \A t : NumberSets(serial, Waiting(t), Got(t), Removed(t))
  BY DEF NumberSets, Waiting, Got, Removed, Group, From, To, Numbered

LEMMA TypesAsked ==
    ASSUME TypeOK, pc = "query"
    PROVE  /\ asked[2] \in TypeLists /\ Range(asked[2]) \subseteq Directions
           /\ types \in Seq(Directions) /\ types # <<>> /\ Head(types) \in Range(types)
           /\ Range(types) \subseteq Directions
  <1>1. asked \in Addresses \X TypeLists /\ types \in Seq(Directions) /\ types # <<>>
    BY DEF TypeOK, Directions
  <1>2. asked[2] \in TypeLists
    BY <1>1
  <1>3. asked[2] \in Seq(Directions)
    BY <1>2 DEF Directions
  <1>4. ASSUME NEW q \in Seq(Directions)
        PROVE  Range(q) \subseteq Directions
    BY DEF Range
  <1>5. Head(types) = types[1] /\ 1 \in DOMAIN types
    <2>1. Len(types) \in Nat \ {0} /\ DOMAIN types = 1..Len(types)
      BY <1>1, EmptySeq, LenProperties
    <2> QED
      BY <1>1, <2>1
  <1>6. Head(types) \in Range(types)
    BY <1>5 DEF Range
  <1> QED
    BY <1>1, <1>2, <1>3, <1>4, <1>6

\* Subscriptions go during the call.
LEMMA DropKeeps ==
    ASSUME TypeOK, LInv, NEW S \in SUBSET subs, Drop(S), UNCHANGED call
    PROVE  LInv'
  <1>1. /\ subs' = subs \ S /\ serial' = serial /\ began' = began
        /\ UNCHANGED <<pc, asked, types, index, result>>
    BY DEF Drop, call
  <1>2. Numbered'
    BY <1>1 DEF LInv, Numbered
  <1>3. SUFFICES ASSUME pc = "query"
                 PROVE  UnderWay'
    BY <1>1, <1>2 DEF LInv, UnderWay
  <1>4. gone' = gone \union UNION {{<<t, s.n>> : s \in S \intersect Group(asked[1], t)} :
                                     t \in Range(asked[2])}
    BY <1>3 DEF Drop
  <1>5. Range(asked[2]) \subseteq Directions /\ \A s \in S : s.n \in 1..serial
    BY <1>3, TypesAsked DEF LInv, Numbered
  <1>6. gone \subseteq gone' /\ gone' \subseteq Directions \X (1..serial)
    <2>1. gone \subseteq Directions \X (1..serial)
      BY <1>3 DEF LInv, UnderWay
    <2>2. ASSUME NEW t \in Range(asked[2]), NEW s \in S
          PROVE  <<t, s.n>> \in Directions \X (1..serial)
      BY <1>5
    <2> QED
      BY <1>4, <2>1, <2>2
  <1>7. ASSUME NEW t \in Range(asked[2])
        PROVE  /\ Got(t)' = Got(t)
               /\ \A i \in Nat : Gathered(Waiting(t), Got(t), Removed(t), began, i)
                     => Gathered(Waiting(t)', Got(t), Removed(t)', began, i)
               /\ Excused(Waiting(t), Got(t), Removed(t), began)
                     => Excused(Waiting(t)', Got(t), Removed(t)', began)
    <2>1. Got(t)' = Got(t)
      BY <1>1 DEF Got
    <2>2. Waiting(t)' \subseteq Waiting(t)
      BY <1>1 DEF Waiting, Group, From, To
    <2>3. Removed(t) \subseteq Removed(t)' /\ Removed(t)' \subseteq 1..serial
      BY <1>1, <1>6 DEF Removed
    <2>4. Waiting(t) \ Waiting(t)' \subseteq Removed(t)'
      <3> SUFFICES ASSUME NEW s \in Group(asked[1], t), s.n \notin Waiting(t)'
                   PROVE  s.n \in Removed(t)'
        BY DEF Waiting
      <3>1. s \in subs
        BY DEF Group, From, To
      <3>2. s \in S
        BY <1>1, <3>1 DEF Waiting, Group, From, To
      <3>3. <<t, s.n>> \in gone'
        BY <1>4, <3>2
      <3> QED
        BY <1>1, <1>5, <3>2, <3>3 DEF Removed
    <2>5. NumberSets(serial, Waiting(t), Got(t), Removed(t))
      BY SetsOfNumbers DEF LInv
    <2>6. serial \in Nat /\ began \in Nat
      BY DEF TypeOK
    <2> QED
      BY <2>1, <2>2, <2>3, <2>4, <2>5, <2>6, RemovingKeeps
  <1>8. index \in Nat /\ Range(types) \subseteq Range(asked[2])
    BY <1>3 DEF TypeOK, LInv, UnderWay
  <1>9. \A t \in Range(asked[2]) \ Range(types) :
           Excused(Waiting(t), Got(t), Removed(t), began)'
    BY <1>1, <1>3, <1>7 DEF LInv, UnderWay
  <1>10. \A t \in Range(types) :
            IF t = Head(types) THEN Gathered(Waiting(t), Got(t), Removed(t), began, index)'
                               ELSE Got(t)' = {}
    BY <1>1, <1>3, <1>7, <1>8 DEF LInv, UnderWay
  <1> QED
    BY <1>1, <1>3, <1>6, <1>9, <1>10 DEF LInv, UnderWay, InOrder

\* A subscription is made during the call.
LEMMA SubscribeKeeps ==
    ASSUME TypeOK, LInv, NEW f, NEW d, NEW o, NEW p,
           snd_seq_subscribe_port(f, d, o, p), UNCHANGED call
    PROVE  LInv'
  <1>1. PICK s : /\ subs' = subs \union {s} /\ s.n = serial + 1
    <2> DEFINE new == [from |-> f, to |-> d, n |-> serial + 1, by |-> <<InUse(o), InUse(p)>>]
    <2>1. subs' = subs \union {new}
      BY DEF snd_seq_subscribe_port
    <2>2. new.n = serial + 1
      OBVIOUS
    <2> QED
      BY <2>1, <2>2
  <1>2. /\ serial' = serial + 1 /\ began' = began /\ gone' = gone
        /\ UNCHANGED <<pc, asked, types, index, result>>
    BY DEF snd_seq_subscribe_port, call
  <1>3. serial \in Nat /\ began \in Nat /\ index \in Nat
    BY DEF TypeOK
  <1>4. /\ \A n \in 1..serial : n \in 1..(serial + 1) /\ n # serial + 1
        /\ \A n \in 1..(serial + 1) : n = serial + 1 \/ n \in 1..serial
        /\ serial + 1 \in 1..(serial + 1)
    BY <1>3
  <1>5. Numbered'
    BY <1>1, <1>2, <1>4 DEF LInv, Numbered
  <1>6. SUFFICES ASSUME pc = "query"
                 PROVE  UnderWay'
    BY <1>2, <1>5 DEF LInv, UnderWay
  <1>7. /\ result \in Seq(Directions \X (1..serial)) /\ gone \subseteq Directions \X (1..serial)
        /\ began \in 0..serial
    BY <1>3, <1>6 DEF LInv, UnderWay
  <1>8. /\ Directions \X (1..serial) \subseteq Directions \X (1..(serial + 1))
        /\ result \in Seq(Directions \X (1..(serial + 1)))
    <2>1. Directions \X (1..serial) \subseteq Directions \X (1..(serial + 1))
      BY <1>4
    <2>2. /\ Len(result) \in Nat /\ result \in [1..Len(result) -> Directions \X (1..serial)]
      BY <1>7, LenProperties
    <2>3. result \in [1..Len(result) -> Directions \X (1..(serial + 1))]
      BY <2>1, <2>2
    <2> QED
      BY <2>1, <2>2, <2>3, SeqDef
  <1>9. \A t : <<t, serial + 1>> \notin gone /\ <<t, serial + 1>> \notin Range(result)
    <2>1. Range(result) \subseteq Directions \X (1..serial)
      BY <1>7, LenProperties, ElementOfSeq DEF Range
    <2>2. serial + 1 \notin 1..serial
      BY <1>4
    <2> QED
      BY <1>7, <2>1, <2>2
  <1>10. ASSUME NEW t
         PROVE  /\ Got(t)' = Got(t) /\ Removed(t)' = Removed(t)
                /\ \A i \in Nat : Gathered(Waiting(t), Got(t), Removed(t), began, i)
                      => Gathered(Waiting(t)', Got(t), Removed(t), began, i)
                /\ Excused(Waiting(t), Got(t), Removed(t), began)
                      => Excused(Waiting(t)', Got(t), Removed(t), began)
    <2>1. Got(t)' = Got(t)
      BY <1>2, <1>4, <1>9 DEF Got
    <2>2. Removed(t)' = Removed(t)
      BY <1>2, <1>4, <1>9 DEF Removed
    <2>3. Waiting(t)' = Waiting(t) \/ Waiting(t)' = Waiting(t) \union {serial + 1}
      <3>1. Group(asked[1], t)' = Group(asked[1], t)
            \/ Group(asked[1], t)' = Group(asked[1], t) \union {s}
        BY <1>1, <1>2 DEF Group, From, To
      <3>2. CASE Group(asked[1], t)' = Group(asked[1], t)
        BY <3>2 DEF Waiting
      <3>3. CASE Group(asked[1], t)' = Group(asked[1], t) \union {s}
        BY <1>1, <3>3 DEF Waiting
      <3> QED
        BY <3>1, <3>2, <3>3
    <2>4. NumberSets(serial, Waiting(t), Got(t), Removed(t))
      BY SetsOfNumbers DEF LInv
    <2>5. CASE Waiting(t)' = Waiting(t)
      BY <2>1, <2>2, <2>5
    <2>6. CASE Waiting(t)' = Waiting(t) \union {serial + 1}
      BY <1>3, <1>7, <2>1, <2>2, <2>4, <2>6, AddingKeeps
    <2> QED
      BY <2>3, <2>5, <2>6
  <1>11. \A t \in Range(asked[2]) \ Range(types) :
            Excused(Waiting(t), Got(t), Removed(t), began)'
    BY <1>2, <1>6, <1>10 DEF LInv, UnderWay
  <1>12. \A t \in Range(types) :
            IF t = Head(types) THEN Gathered(Waiting(t), Got(t), Removed(t), began, index)'
                               ELSE Got(t)' = {}
    BY <1>2, <1>3, <1>6, <1>10 DEF LInv, UnderWay
  <1>13. began <= serial + 1
    BY <1>3, <1>7
  <1> QED
    BY <1>2, <1>6, <1>7, <1>8, <1>11, <1>12, <1>13 DEF LInv, UnderWay, InOrder

\* Each type asked for once, the call begins with nothing.
LEMMA BeginKeeps ==
    ASSUME TypeOK, LInv, NEW o \in Objects, NEW list \in TypeLists, list_port_subscribers(o, list)
    PROVE  LInv'
  <1>1. /\ asked' = <<Address(o), list>> /\ types' = list /\ index' = 0 /\ result' = <<>>
        /\ began' = serial /\ gone' = {} /\ UNCHANGED <<subs, serial>>
    BY DEF list_port_subscribers
  <1>2. Numbered' /\ serial \in Nat
    BY <1>1 DEF LInv, Numbered, TypeOK
  <1>3. \A t : NumberSets(serial, Waiting(t), {}, {})'
    BY <1>1, <1>2 DEF NumberSets, Waiting, Group, From, To, Numbered
  <1>4. ASSUME NEW t
        PROVE  Got(t)' = {} /\ Removed(t)' = {} /\ Gathered(Waiting(t)', {}, {}, began', 0)
    <2>1. Got(t)' = {} /\ Removed(t)' = {}
      BY <1>1 DEF Got, Removed, Range
    <2>2. NumberSets(serial, Waiting(t)', {}, {})
      BY <1>1, <1>3 DEF NumberSets
    <2> QED
      BY <1>2, <2>1, <2>2, StartGathers
  <1>5. result' \in Seq(Directions \X (1..serial))
    BY <1>1
  <1>6. InOrder'
    BY <1>1 DEF InOrder
  <1>7. serial <= serial
    BY <1>2
  <1>8. IsInjective(types)' /\ Range(types)' \subseteq Range(asked[2])'
    BY <1>1
  <1>9. \A t \in Range(asked[2])' \ Range(types)' : FALSE
    BY <1>1
  <1> QED
    BY <1>1, <1>2, <1>4, <1>5, <1>6, <1>7, <1>8, <1>9 DEF LInv, UnderWay

\* A subscription has the place of its number.
LEMMA PlaceOfNumber ==
    ASSUME TypeOK, Numbered, NEW t, NEW s \in Group(asked[1], t)
    PROVE  Place(Waiting(t), s.n) = Cardinality({r \in Group(asked[1], t) : r.n < s.n})
  <1> DEFINE S == {r \in Group(asked[1], t) : r.n < s.n}
             M == {m \in Waiting(t) : m < s.n}
             f == [r \in S |-> r.n]
  <1>1. \A r \in Group(asked[1], t) : r \in subs
    BY DEF Group, From, To
  <1>2. f \in Bijection(S, M)
    <2>1. f \in [S -> M]
      BY DEF Waiting
    <2>2. \A q, r \in S : f[q] = f[r] => q = r
      BY <1>1 DEF Numbered
    <2>3. \A m \in M : \E r \in S : f[r] = m
      BY DEF Waiting
    <2> QED
      BY <2>1, <2>2, <2>3 DEF Bijection, Injection, Surjection, IsInjective
  <1>3. M \subseteq 1..serial
    BY <1>1 DEF Waiting, Numbered
  <1> HIDE DEF f, S, M
  <1>4. IsFiniteSet(M)
    BY <1>3, SetsFinite DEF TypeOK
  <1>5. f \in Injection(S, M) /\ f \in Surjection(S, M)
    BY <1>2 DEF Bijection
  <1>6. Cardinality(S) = Cardinality(M)
    BY <1>4, <1>5, FS_Injection
  <1> QED
    BY <1>6 DEF Place, S, M

\* The query returns the next subscription, after all of the type listed before.
LEMMA QueryKeeps ==
    ASSUME TypeOK, LInv, query_port_subscribers
    PROVE  LInv'
  <1> DEFINE h == Head(types)
             s == CHOOSE s \in Answer : TRUE
  <1>1. /\ pc = "query" /\ Answer # {}
        /\ result' = Append(result, <<h, s.n>>) /\ index' = index + 1
        /\ UNCHANGED <<subs, serial, pc, asked, types, began, gone>>
    BY DEF query_port_subscribers
  <1>2. s \in Answer
    BY <1>1
  <1> HIDE DEF s
  <1>3. /\ s \in Group(asked[1], h)
        /\ Cardinality({r \in Group(asked[1], h) : r.n < s.n}) = index
    BY <1>2 DEF Answer, Indexed
  <1>4. Place(Waiting(h), s.n) = index /\ s.n \in Waiting(h) /\ s.n \in 1..serial
    <2>1. s.n \in Waiting(h) /\ s \in subs
      BY <1>3 DEF Waiting, Group, From, To
    <2> QED
      BY <1>3, <2>1, PlaceOfNumber DEF LInv, Numbered
  <1>5. h \in Range(types) /\ h \in Directions /\ Range(types) \subseteq Directions
    BY <1>1, TypesAsked
  <1> HIDE DEF h
  <1>6. result \in Seq(Directions \X (1..serial)) /\ Len(result) \in Nat
    BY <1>1, LenProperties DEF LInv, UnderWay
  <1>7. /\ result' \in Seq(Directions \X (1..serial))
        /\ DOMAIN result' = DOMAIN result \union {Len(result) + 1}
        /\ \A k \in DOMAIN result : result'[k] = result[k] /\ k \in Nat /\ k < Len(result) + 1
        /\ result'[Len(result) + 1] = <<h, s.n>>
    <2>1. <<h, s.n>> \in Directions \X (1..serial)
      BY <1>4, <1>5
    <2>2. /\ result' \in Seq(Directions \X (1..serial)) /\ Len(result') = Len(result) + 1
          /\ \A k \in 1..Len(result) : result'[k] = result[k]
          /\ result'[Len(result) + 1] = <<h, s.n>>
      BY <1>1, <1>6, <2>1, AppendProperties
    <2>3. DOMAIN result = 1..Len(result) /\ DOMAIN result' = 1..(Len(result) + 1)
      BY <1>6, <2>2, LenProperties
    <2>4. /\ 1..(Len(result) + 1) = (1..Len(result)) \union {Len(result) + 1}
          /\ \A k \in 1..Len(result) : k \in Nat /\ k < Len(result) + 1
      BY <1>6
    <2>5. DOMAIN result' = DOMAIN result \union {Len(result) + 1}
      BY <2>3, <2>4, Zenon
    <2>6. \A k \in DOMAIN result : result'[k] = result[k] /\ k \in Nat /\ k < Len(result) + 1
      BY <2>2, <2>3, <2>4, Zenon
    <2> QED
      BY <2>2, <2>5, <2>6
  <1>8. Range(result') = Range(result) \union {<<h, s.n>>}
    <2>1. Range(result') = {result'[k] : k \in DOMAIN result'}
      BY DEF Range
    <2>2. Range(result) = {result[k] : k \in DOMAIN result}
      BY DEF Range
    <2>3. ASSUME NEW k \in DOMAIN result'
          PROVE  result'[k] \in Range(result) \union {<<h, s.n>>}
      <3>1. CASE k \in DOMAIN result
        BY <1>7, <2>2, <3>1
      <3>2. CASE k = Len(result) + 1
        BY <1>7, <3>2
      <3> QED
        BY <1>7, <3>1, <3>2
    <2>4. ASSUME NEW k \in DOMAIN result
          PROVE  result[k] \in Range(result')
      <3>1. k \in DOMAIN result' /\ result'[k] = result[k]
        BY <1>7
      <3> QED
        BY <2>1, <3>1
    <2>5. <<h, s.n>> \in Range(result')
      <3>1. Len(result) + 1 \in DOMAIN result' /\ result'[Len(result) + 1] = <<h, s.n>>
        BY <1>7
      <3> QED
        BY <2>1, <3>1
    <2> QED
      BY <2>1, <2>2, <2>3, <2>4, <2>5
  <1>9. /\ \A t : t = h => Got(t)' = Got(t) \union {s.n}
        /\ \A t : t # h => Got(t)' = Got(t)
        /\ \A t : Waiting(t)' = Waiting(t) /\ Removed(t)' = Removed(t)
    <2>1. \A t, n : <<t, n>> \in Range(result') <=>
                       <<t, n>> \in Range(result) \/ (t = h /\ n = s.n)
      BY <1>8
    <2>2. ASSUME NEW t, t = h
          PROVE  Got(t)' = Got(t) \union {s.n}
      BY <1>1, <1>4, <2>1, <2>2 DEF Got
    <2>3. \A t : t # h => Got(t)' = Got(t)
      BY <1>1, <2>1 DEF Got
    <2>4. \A t : Waiting(t)' = Waiting(t) /\ Removed(t)' = Removed(t)
      BY <1>1 DEF Waiting, Removed, Group, From, To
    <2> QED
      BY <2>2, <2>3, <2>4
  <1>10. /\ \A n \in Got(h) : n < s.n
         /\ Gathered(Waiting(h), Got(h) \union {s.n}, Removed(h), began, index + 1)
    <2>1. Gathered(Waiting(h), Got(h), Removed(h), began, index)
      BY <1>1, <1>5 DEF LInv, UnderWay, h
    <2>2. /\ NumberSets(serial, Waiting(h), Got(h), Removed(h))
          /\ serial \in Nat /\ began \in Nat /\ index \in Nat
      BY SetsOfNumbers DEF LInv, TypeOK
    <2> QED
      BY <1>4, <2>1, <2>2, GettingKeeps
  <1>11. InOrder'
    <2>1. \A k \in DOMAIN result : result[k][1] = h => result[k][2] < s.n
      <3> SUFFICES ASSUME NEW k \in DOMAIN result, result[k][1] = h
                   PROVE  result[k][2] \in Got(h)
        BY <1>10
      <3>1. result[k] \in Directions \X (1..serial)
        BY <1>6, LenProperties, ElementOfSeq
      <3>2. result[k] = <<h, result[k][2]>> /\ result[k][2] \in 1..serial
        BY <3>1
      <3> QED
        BY <3>2 DEF Got, Range
    <2> SUFFICES ASSUME NEW k \in DOMAIN result', NEW m \in DOMAIN result', k < m,
                        result'[k][1] = result'[m][1]
                 PROVE  result'[k][2] < result'[m][2]
      BY DEF InOrder
    <2>2. CASE k \in DOMAIN result /\ m \in DOMAIN result
      BY <1>1, <1>7, <2>2 DEF LInv, UnderWay, InOrder
    <2>3. CASE k \in DOMAIN result /\ m = Len(result) + 1
      BY <1>7, <2>1, <2>3
    <2>4. k # Len(result) + 1
      <3> SUFFICES ASSUME k = Len(result) + 1
                   PROVE  FALSE
        OBVIOUS
      <3>1. m \in Nat /\ m <= Len(result) + 1
        BY <1>6, <1>7
      <3> QED
        BY <1>6, <3>1
    <2> QED
      BY <1>7, <2>2, <2>3, <2>4
  <1>12. \A t \in Range(asked[2]) \ Range(types) :
            Excused(Waiting(t), Got(t), Removed(t), began)'
    BY <1>1, <1>5, <1>9 DEF LInv, UnderWay
  <1>13. \A t \in Range(types) :
            IF t = h THEN Gathered(Waiting(t), Got(t), Removed(t), began, index)'
                     ELSE Got(t)' = {}
    <2> SUFFICES ASSUME NEW t \in Range(types)
                 PROVE  IF t = h THEN Gathered(Waiting(t), Got(t), Removed(t), began, index)'
                                 ELSE Got(t)' = {}
      OBVIOUS
    <2>1. CASE t = h
      <3>1. Got(t)' = Got(t) \union {s.n} /\ Waiting(t)' = Waiting(t) /\ Removed(t)' = Removed(t)
        BY <1>9, <2>1
      <3>2. Gathered(Waiting(t), Got(t) \union {s.n}, Removed(t), began, index + 1)
        BY <1>10, <2>1
      <3> QED
        BY <1>1, <2>1, <3>1, <3>2
    <2>2. CASE t # h
      BY <1>1, <1>9, <2>2 DEF LInv, UnderWay, h
    <2> QED
      BY <2>1, <2>2
  <1>14. h' = h
    BY <1>1 DEF h
  <1>15. Numbered'
    BY <1>1 DEF LInv, Numbered
  <1> QED
    BY <1>1, <1>7, <1>11, <1>12, <1>13, <1>15 DEF LInv, UnderWay, h

\* The first of a list without repetitions, and the rest.
LEMMA TailTypes ==
    ASSUME NEW q \in Seq(Directions), q # <<>>, IsInjective(q)
    PROVE  /\ IsInjective(Tail(q)) /\ Range(q) = Range(Tail(q)) \union {Head(q)}
           /\ Head(q) \notin Range(Tail(q))
           /\ Len(q) = 1 => Range(q) = {Head(q)}
  <1>1. /\ Len(q) \in Nat \ {0} /\ DOMAIN q = 1..Len(q)
        /\ Tail(q) \in Seq(Directions) /\ Len(Tail(q)) = Len(q) - 1
        /\ \A i \in 1..(Len(q) - 1) : Tail(q)[i] = q[i + 1]
        /\ Head(q) = q[1]
    BY EmptySeq, LenProperties, HeadTailProperties
  <1>2. DOMAIN Tail(q) = 1..(Len(q) - 1)
    BY <1>1, LenProperties
  <1>3. /\ \A i \in 1..(Len(q) - 1) : i + 1 \in 1..Len(q) /\ i + 1 # 1
        /\ \A i \in 1..Len(q) : i = 1 \/ (i - 1 \in 1..(Len(q) - 1) /\ (i - 1) + 1 = i)
        /\ \A i, j \in 1..(Len(q) - 1) : i + 1 = j + 1 => i = j
        /\ 1 \in 1..Len(q)
    BY <1>1
  <1>4. IsInjective(Tail(q))
    BY <1>1, <1>2, <1>3 DEF IsInjective
  <1>5. Head(q) \notin Range(Tail(q))
    BY <1>1, <1>2, <1>3 DEF IsInjective, Range
  <1>6. Range(Tail(q)) \subseteq Range(q) /\ Head(q) \in Range(q)
    BY <1>1, <1>2, <1>3 DEF Range
  <1>7. ASSUME NEW t \in Range(q)
        PROVE  t \in Range(Tail(q)) \/ t = Head(q)
    <2>1. PICK i \in 1..Len(q) : t = q[i]
      BY <1>1 DEF Range
    <2>2. CASE i # 1
      <3>1. i - 1 \in DOMAIN Tail(q) /\ (i - 1) + 1 = i
        BY <1>2, <1>3, <2>2
      <3>2. Tail(q)[i - 1] = q[i]
        BY <1>1, <1>2, <3>1
      <3> QED
        BY <2>1, <3>1, <3>2 DEF Range
    <2> QED
      BY <1>1, <2>1, <2>2
  <1>8. ASSUME Len(q) = 1, NEW t \in Range(q)
        PROVE  t = Head(q)
    BY <1>1, <1>8 DEF Range
  <1> QED
    BY <1>4, <1>5, <1>6, <1>7, <1>8

\* When the query fails, the type under way is done right.
LEMMA FailExcuses ==
    ASSUME TypeOK, LInv, pc = "query", Answer = {}
    PROVE  \A t : t = Head(types) => Excused(Waiting(t), Got(t), Removed(t), began)
  <1> SUFFICES ASSUME NEW t, t = Head(types)
               PROVE  Excused(Waiting(t), Got(t), Removed(t), began)
    OBVIOUS
  <1>1. t \in Range(types)
    BY TypesAsked
  <1>2. Gathered(Waiting(t), Got(t), Removed(t), began, index)
    BY <1>1 DEF LInv, UnderWay
  <1>3. ASSUME NEW n \in Waiting(t)
        PROVE  Place(Waiting(t), n) # index
    <2>1. PICK s \in Group(asked[1], t) : s.n = n
      BY DEF Waiting
    <2>2. Place(Waiting(t), s.n) = Cardinality({r \in Group(asked[1], t) : r.n < s.n})
      BY PlaceOfNumber DEF LInv
    <2>3. s \notin Indexed(Group(asked[1], t), index)
      BY DEF Answer
    <2> QED
      BY <2>1, <2>2, <2>3 DEF Indexed
  <1>4. /\ NumberSets(serial, Waiting(t), Got(t), Removed(t))
        /\ serial \in Nat /\ began \in Nat /\ index \in Nat
    BY SetsOfNumbers DEF LInv, TypeOK
  <1> QED
    BY <1>2, <1>3, <1>4, FailingExcuses

\* The query fails: the next type starts with nothing got, or the call is over.
LEMMA FailKeeps ==
    ASSUME TypeOK, LInv, query_fails
    PROVE  LInv'
  <1>1. /\ pc = "query" /\ Answer = {} /\ UNCHANGED <<subs, serial>>
    BY DEF query_fails
  <1>2. Numbered'
    BY <1>1 DEF LInv, Numbered
  <1>3. CASE Len(types) = 1
    <2>1. pc' = "idle"
      BY <1>3 DEF query_fails, Return
    <2> QED
      BY <1>2, <2>1 DEF LInv, UnderWay
  <1>4. CASE Len(types) # 1
    <2>1. types' = Tail(types) /\ index' = 0 /\ UNCHANGED <<pc, asked, result, began, gone>>
      BY <1>4 DEF query_fails
    <2>2. /\ IsInjective(Tail(types)) /\ Range(types) = Range(Tail(types)) \union {Head(types)}
          /\ Head(types) \notin Range(Tail(types))
      BY <1>1, TypesAsked, TailTypes DEF LInv, UnderWay
    <2>3. \A t : /\ Waiting(t)' = Waiting(t) /\ Got(t)' = Got(t) /\ Removed(t)' = Removed(t)
      BY <1>1, <2>1 DEF Waiting, Got, Removed, Group, From, To
    <2>4. \A t \in Range(asked[2]) \ Range(Tail(types)) :
             Excused(Waiting(t), Got(t), Removed(t), began)
      BY <1>1, <2>2, FailExcuses DEF LInv, UnderWay
    <2>5. \A t \in Range(Tail(types)) : Got(t) = {}
      BY <1>1, <2>2 DEF LInv, UnderWay
    <2>6. \A t \in Range(Tail(types)) : Gathered(Waiting(t), Got(t), Removed(t), began, 0)
      <3>1. serial \in Nat /\ \A t : NumberSets(serial, Waiting(t), Got(t), Removed(t))
        BY SetsOfNumbers DEF LInv, TypeOK
      <3> QED
        BY <2>5, <3>1, StartGathers
    <2>7. \A t \in Range(asked[2]) \ Range(Tail(types)) :
             Excused(Waiting(t), Got(t), Removed(t), began)'
      BY <2>1, <2>3, <2>4
    <2>8. \A t \in Range(Tail(types)) :
             /\ Gathered(Waiting(t), Got(t), Removed(t), began, index)'
             /\ Got(t)' = {}
      BY <2>1, <2>3, <2>5, <2>6
    <2>9. /\ began <= serial
          /\ result \in Seq(Directions \X (1..serial)) /\ gone \subseteq Directions \X (1..serial)
          /\ InOrder' /\ Range(Tail(types)) \subseteq Range(asked[2])
      BY <1>1, <2>1, <2>2 DEF LInv, UnderWay, InOrder
    <2> QED
      BY <1>1, <1>2, <2>1, <2>2, <2>7, <2>8, <2>9 DEF LInv, UnderWay
  <1> QED
    BY <1>3, <1>4

\* Nothing of the call changes, nor what it runs over.
LEMMA SameKeeps ==
    ASSUME LInv, UNCHANGED <<subs, serial, call, began, gone>>
    PROVE  LInv'
  <1>1. UNCHANGED <<subs, serial, pc, asked, types, index, result, began, gone>>
    BY DEF call
  <1>2. \A t : /\ Waiting(t)' = Waiting(t) /\ Got(t)' = Got(t) /\ Removed(t)' = Removed(t)
    BY <1>1 DEF Waiting, Got, Removed, Group, From, To
  <1>3. Numbered' /\ (InOrder => InOrder')
    BY <1>1 DEF LInv, Numbered, InOrder
  <1> QED
    BY <1>1, <1>2, <1>3 DEF LInv, UnderWay

\* What takes subscriptions away leaves the call alone.
Endings ==
    \/ \E o \in Objects : Close(o) \/ __del__(o)
    \/ \E c \in Clients : CloseClient(c)
    \/ \E f, t : snd_seq_unsubscribe_port(f, t) /\ UNCHANGED <<open, objects, call>>

LEMMA EndingsDrop ==
    ASSUME Endings
    PROVE  /\ UNCHANGED call
           /\ UNCHANGED <<subs, serial, began, gone>> \/ \E S \in SUBSET subs : Drop(S)
  <1>1. \A P : RemovePorts(P) => \E S \in SUBSET subs : Drop(S)
    BY DEF RemovePorts
  <1>2. ASSUME NEW o, close(o)
        PROVE  UNCHANGED <<subs, serial, began, gone>> \/ \E S \in SUBSET subs : Drop(S)
    BY <1>1, <1>2 DEF close
  <1>3. ASSUME NEW o \in Objects, Close(o)
        PROVE  /\ UNCHANGED call
               /\ UNCHANGED <<subs, serial, began, gone>> \/ \E S \in SUBSET subs : Drop(S)
    BY <1>2, <1>3 DEF Close
  <1>4. ASSUME NEW o \in Objects, __del__(o)
        PROVE  /\ UNCHANGED call
               /\ UNCHANGED <<subs, serial, began, gone>> \/ \E S \in SUBSET subs : Drop(S)
    BY <1>2, <1>4 DEF __del__
  <1>5. ASSUME NEW c \in Clients, CloseClient(c)
        PROVE  UNCHANGED call /\ \E S \in SUBSET subs : Drop(S)
    BY <1>1, <1>5 DEF CloseClient
  <1>6. ASSUME NEW f, NEW t, snd_seq_unsubscribe_port(f, t), UNCHANGED call
        PROVE  \E S \in SUBSET subs : Drop(S)
    BY <1>6 DEF snd_seq_unsubscribe_port, From
  <1> QED
    BY <1>3, <1>4, <1>5, <1>6 DEF Endings

\* What a call has listed stays right, whatever goes on meanwhile.
LEMMA ListingInductive ==
    ASSUME IInv, LInv, [Next]_vars
    PROVE  LInv'
  <1>0. TypeOK
    BY DEF IInv
  <1>1. ASSUME NEW a \in Addresses, NEW o \in Objects, NEW full \in BOOLEAN,
               create_port(a[1], a[2], o, full)
        PROVE  LInv'
    BY <1>1, SameKeeps DEF create_port
  <1>2. CASE Endings
    <2>1. /\ UNCHANGED call
          /\ UNCHANGED <<subs, serial, began, gone>> \/ \E S \in SUBSET subs : Drop(S)
      BY <1>2, EndingsDrop
    <2>2. CASE UNCHANGED <<subs, serial, began, gone>>
      BY <2>1, <2>2, SameKeeps
    <2>3. CASE \E S \in SUBSET subs : Drop(S)
      BY <1>0, <2>1, <2>3, DropKeeps
    <2> QED
      BY <2>1, <2>2, <2>3
  <1>3. ASSUME NEW o \in Objects, NEW p \in Objects,
               connect_to(o, p) \/ connect_from(o, p) \/ subscribe_port(o, p)
        PROVE  LInv'
    <2>1. PICK f, t, q, r : snd_seq_subscribe_port(f, t, q, r) /\ UNCHANGED call
      BY <1>3 DEF connect_to, connect_from, subscribe_port
    <2> QED
      BY <1>0, <2>1, SubscribeKeeps
  <1>4. ASSUME NEW o \in Objects, NEW p \in Objects,
               disconnect_to(o, p) \/ disconnect_from(o, p) \/ unsubscribe_port(o, p)
        PROVE  LInv'
    BY <1>2, <1>4 DEF Endings, disconnect_to, disconnect_from, unsubscribe_port
  <1>5. ASSUME NEW o \in Objects, NEW list \in TypeLists, list_port_subscribers(o, list)
        PROVE  LInv'
    BY <1>0, <1>5, BeginKeeps
  <1>6. CASE query_port_subscribers
    BY <1>0, <1>6, QueryKeeps
  <1>7. CASE query_fails
    BY <1>0, <1>7, FailKeeps
  <1>8. CASE UNCHANGED vars
    BY <1>8, SameKeeps DEF vars
  <1> QED
    BY <1>1, <1>2, <1>3, <1>4, <1>5, <1>6, <1>7, <1>8 DEF Next, Endings

\* The call that returns has listed all types, each right.
LEMMA ReturnsRight ==
    ASSUME TypeOK, LInv, [Next]_vars, pc = "query", pc' = "idle"
    PROVE  /\ InOrder
           /\ \A t \in Range(asked[2]) : Excused(Waiting(t), Got(t), Removed(t), began)
  <1>1. query_fails /\ Len(types) = 1
    BY DEF Next, vars, call, create_port, Close, __del__, CloseClient, connect_to, connect_from,
           disconnect_to, disconnect_from, subscribe_port, unsubscribe_port,
           list_port_subscribers, query_port_subscribers, query_fails
  <1>2. Answer = {}
    BY <1>1 DEF query_fails
  <1>3. Range(types) = {Head(types)}
    BY <1>1, TypesAsked, TailTypes DEF LInv, UnderWay
  <1>4. \A t \in Range(asked[2]) : t \notin Range(types) \/ t = Head(types)
    BY <1>3
  <1>5. \A t \in Range(asked[2]) \ Range(types) :
           Excused(Waiting(t), Got(t), Removed(t), began)
    BY DEF LInv, UnderWay
  <1>6. InOrder
    BY DEF LInv, UnderWay
  <1> QED
    BY <1>2, <1>4, <1>5, <1>6, FailExcuses

\* list_port_subscribers lists the subscriptions of each type in order and none twice;
\* it passes over one that is there all the time only if one made before it is removed
\* meanwhile, and over no more than are removed.
THEOREM AlwaysListedRight == Spec => ListedRight
  <1>1. Init => LInv
    BY DEF Init, LInv, Numbered, UnderWay
  <1>2. IInv /\ LInv /\ [Next]_vars => LInv'
    BY ListingInductive
  <1>3. ASSUME IInv, LInv, [Next]_vars, pc = "query", pc' = "idle", NEW t \in Range(asked[2])
        PROVE  LET missed  == {n \in {s.n : s \in Group(asked[1], t)} \intersect 1..began :
                                  <<t, n>> \notin Range(result)}
                   removed == {n \in 1..serial : <<t, n>> \in gone}
               IN  /\ Cardinality(missed) <= Cardinality(removed)
                   /\ \A n \in missed : \E m \in removed : m < n
    <2> DEFINE missed == {n \in {s.n : s \in Group(asked[1], t)} \intersect 1..began :
                             <<t, n>> \notin Range(result)}
    <2>1. Excused(Waiting(t), Got(t), Removed(t), began)
      BY <1>3, ReturnsRight DEF IInv
    <2>2. \A n \in Waiting(t) : n \in 1..serial
      BY <1>3, SetsOfNumbers DEF IInv, LInv, NumberSets
    <2>3. began \in Nat /\ serial \in Nat
      BY <1>3 DEF IInv, TypeOK
    <2>4. \A n \in 1..serial : n \in 1..began <=> n <= began
      BY <2>3
    <2>5. missed = Owed(Waiting(t), Got(t), began)
      BY <2>2, <2>4 DEF Owed, Waiting, Got
    <2> QED
      BY <2>1, <2>5 DEF Excused, Removed
  <1>4. IInv /\ LInv /\ [Next]_vars =>
           (pc = "query" /\ pc' = "idle" =>
              /\ \A k, m \in DOMAIN result :
                    k < m /\ result[k][1] = result[m][1] => result[k][2] < result[m][2]
              /\ \A t \in Range(asked[2]) :
                    LET missed  == {n \in {s.n : s \in Group(asked[1], t)} \intersect 1..began :
                                       <<t, n>> \notin Range(result)}
                        removed == {n \in 1..serial : <<t, n>> \in gone}
                    IN  /\ Cardinality(missed) <= Cardinality(removed)
                        /\ \A n \in missed : \E m \in removed : m < n)
    BY <1>3, ReturnsRight DEF InOrder, IInv
  <1> QED
    BY <1>1, <1>2, <1>4, Invariant, PTL DEF Spec, ListedRight
=============================================================================
