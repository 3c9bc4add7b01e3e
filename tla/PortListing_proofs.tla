-------------------------- MODULE PortListing_proofs --------------------------
(***************************************************************************)
(* For any clients and ports, and however they come and go during a call:  *)
(* what list_ports says of the ports that stay, how it is sorted, and that *)
(* a name shown for a port opens it.                                       *)
(***************************************************************************)
EXTENDS PortListing, FiniteSetTheorems, SequenceTheorems, TLAPS

-----------------------------------------------------------------------------
(* The smallest of a set of numbers, and a set of numbers put in order.    *)

LEMMA SmallestIs ==
    ASSUME NEW T \in SUBSET Nat, T # {}
    PROVE  Smallest(T) \in T /\ \A n \in T : Smallest(T) <= n
  <1> DEFINE R == OpToRel(<, Nat)
  <1>1. \A x, y \in Nat : <<y, x>> \in R <=> y < x
    BY DEF OpToRel
  <1>2. IsWellFoundedOn(R, Nat)
    BY NatLessThanWellFounded
  <1> HIDE DEF R
  <1>3. PICK x \in T : \A y \in T : ~ (<<y, x>> \in R)
    <2>1. T \subseteq Nat
      OBVIOUS
    <2> QED
      BY <1>2, <2>1, WFMin, Zenon
  <1>4. \A y \in T : x <= y
    <2> TAKE y \in T
    <2>1. x \in Nat /\ y \in Nat
      OBVIOUS
    <2>2. ~ (y < x)
      BY <1>1, <1>3, <2>1, Zenon
    <2> QED
      BY <2>1, <2>2
  <1> QED
    BY <1>4 DEF Smallest

\* A strict total order on the numbers up to N.
Orders(R, N) ==
    /\ \A i \in 1..N : <<i, i>> \notin R
    /\ \A i, j \in 1..N : i # j => <<i, j>> \in R \/ <<j, i>> \in R
    /\ \A i, j, k \in 1..N : <<i, j>> \in R /\ <<j, k>> \in R => <<i, k>> \in R

Below(R, N, k) == {j \in 1..N : <<j, k>> \in R}

\* Each place is that of exactly one number.
LEMMA PlacesOf ==
    ASSUME NEW N \in Nat, NEW R, Orders(R, N)
    PROVE  /\ \A k \in 1..N : Cardinality(Below(R, N, k)) \in 0..(N - 1)
           /\ \A j, k \in 1..N :
                 <<j, k>> \in R => Cardinality(Below(R, N, j)) < Cardinality(Below(R, N, k))
           /\ \A i \in 1..N : \E k \in 1..N : Cardinality(Below(R, N, k)) = i - 1
  <1>1. IsFiniteSet(1..N) /\ Cardinality(1..N) = N
    BY FS_Interval
  <1>2. ASSUME NEW k \in 1..N
        PROVE  /\ IsFiniteSet(Below(R, N, k)) /\ Cardinality(Below(R, N, k)) \in 0..(N - 1)
    <2>1. Below(R, N, k) \subseteq (1..N) \ {k}
      BY DEF Below, Orders
    <2>2. IsFiniteSet((1..N) \ {k}) /\ Cardinality((1..N) \ {k}) = N - 1
      BY <1>1, FS_RemoveElement
    <2>3. IsFiniteSet(Below(R, N, k)) /\ Cardinality(Below(R, N, k)) <= N - 1
      BY <2>1, <2>2, FS_Subset
    <2> QED
      BY <2>3, FS_CardinalityType
  <1>3. ASSUME NEW j \in 1..N, NEW k \in 1..N, <<j, k>> \in R
        PROVE  Cardinality(Below(R, N, j)) < Cardinality(Below(R, N, k))
    <2>1. Below(R, N, j) \union {j} \subseteq Below(R, N, k) /\ j \notin Below(R, N, j)
      BY <1>3 DEF Below, Orders
    <2>2. Cardinality(Below(R, N, j) \union {j}) = Cardinality(Below(R, N, j)) + 1
      BY <1>2, <2>1, FS_AddElement
    <2>3. Cardinality(Below(R, N, j) \union {j}) <= Cardinality(Below(R, N, k))
      BY <1>2, <2>1, FS_Subset
    <2>4. Cardinality(Below(R, N, j)) \in Nat /\ Cardinality(Below(R, N, k)) \in Nat
      BY <1>2
    <2> QED
      BY <2>2, <2>3, <2>4
  <1> DEFINE r == [k \in 1..N |-> Cardinality(Below(R, N, k)) + 1]
  <1>4. r \in Injection(1..N, 1..N)
    <2>1. r \in [1..N -> 1..N]
      BY <1>2
    <2>2. ASSUME NEW j \in 1..N, NEW k \in 1..N, j # k
          PROVE  r[j] # r[k]
      <3>1. <<j, k>> \in R \/ <<k, j>> \in R
        BY <2>2 DEF Orders
      <3>2. Cardinality(Below(R, N, j)) # Cardinality(Below(R, N, k))
        BY <1>2, <1>3, <3>1
      <3> QED
        BY <1>2, <3>2
    <2> QED
      BY <2>1, <2>2 DEF Injection, IsInjective
  <1>5. r \in Surjection(1..N, 1..N)
    BY <1>1, <1>4, FS_Injection
  <1>6. ASSUME NEW i \in 1..N
        PROVE  \E k \in 1..N : Cardinality(Below(R, N, k)) = i - 1
    <2>1. PICK k \in 1..N : r[k] = i
      BY <1>5 DEF Surjection
    <2>2. Cardinality(Below(R, N, k)) + 1 = i
      BY <2>1
    <2> QED
      BY <1>2, <2>2
  <1> QED
    BY <1>2, <1>3, <1>6

-----------------------------------------------------------------------------
(* Keys, and lists in their order.                                         *)

Keys == Int \X Int \X Int \X Int

LEMMA LexLessIs ==
    ASSUME NEW a \in Keys, NEW b \in Keys
    PROVE  LexLess(a, b) <=> \/ a[1] < b[1]
                             \/ a[1] = b[1] /\ a[2] < b[2]
                             \/ a[1] = b[1] /\ a[2] = b[2] /\ a[3] < b[3]
                             \/ a[1] = b[1] /\ a[2] = b[2] /\ a[3] = b[3] /\ a[4] < b[4]
  <1>1. DOMAIN a = 1..4
    BY DEF Keys
  <1>2. \A i \in 1..4 : i = 1 \/ i = 2 \/ i = 3 \/ i = 4
    OBVIOUS
  <1>3. /\ 1..(1 - 1) = {} /\ 1..(2 - 1) = {1} /\ 1..(3 - 1) = {1, 2} /\ 1..(4 - 1) = {1, 2, 3}
        /\ 1 \in 1..4 /\ 2 \in 1..4 /\ 3 \in 1..4 /\ 4 \in 1..4
    OBVIOUS
  <1> QED
    BY <1>1, <1>2, <1>3 DEF LexLess

LEMMA LexLessOrders ==
    ASSUME NEW a \in Keys, NEW b \in Keys, NEW c \in Keys
    PROVE  /\ ~LexLess(a, a)
           /\ LexLess(a, b) => ~LexLess(b, a)
           /\ LexLess(a, b) /\ ~LexLess(c, b) => LexLess(a, c)
           /\ ~LexLess(b, a) /\ LexLess(b, c) => LexLess(a, c)
           /\ ~LexLess(b, a) /\ ~LexLess(c, b) => ~LexLess(c, a)
  <1>1. /\ \A i \in 1..4 : a[i] \in Int /\ b[i] \in Int /\ c[i] \in Int
        /\ 1 \in 1..4 /\ 2 \in 1..4 /\ 3 \in 1..4 /\ 4 \in 1..4
    BY DEF Keys
  <1> QED
    BY <1>1, LexLessIs

Infos == [client_id : ClientIds, port_id : PortIds, caps : {k.caps : k \in Kinds},
          type : {k.type : k \in Kinds}, name : {k.name : k \in Kinds},
          client_name : Names \union {"System"}]

LEMMA Numbers == ClientIds \subseteq Nat /\ PortIds \subseteq Nat
  BY ListingAssumption DEF ClientIds

LEMMA KeyIs ==
    ASSUME NEW x \in Infos
    PROVE  /\ key(x) \in Keys /\ preference(x) \in Nat
           /\ key(x)[1] = (IF x.client_name = "Midi Through" THEN 1 ELSE 0)
           /\ key(x)[2] = preference(x)
  <1> DEFINE best == {j \in DOMAIN preferred_types : preferred_types[j] \subseteq x.type}
             T == {i - 1 : i \in best} \union {Len(preferred_types)}
  <1>1. DOMAIN preferred_types \subseteq Nat \ {0} /\ Len(preferred_types) \in Nat
    <2>1. CASE preferred_types = WRITE_PORT_PREFERRED_TYPES
      BY <2>1 DEF WRITE_PORT_PREFERRED_TYPES
    <2>2. CASE preferred_types = RW_PORT_PREFERRED_TYPES
      BY <2>2 DEF RW_PORT_PREFERRED_TYPES
    <2> QED
      BY <2>1, <2>2 DEF preferred_types
  <1>2. T \in SUBSET Nat /\ T # {}
    BY <1>1
  <1> HIDE DEF T
  <1>3. Smallest(T) \in Nat
    BY <1>2, SmallestIs
  <1>4. preference(x) \in Nat
    BY <1>3, Zenon DEF preference, T
  <1> HIDE DEF best
  <1>5. x.client_id \in Int /\ x.port_id \in Int
    <2>1. x.client_id \in ClientIds /\ x.port_id \in PortIds
      BY DEF Infos
    <2>2. x.client_id \in Nat /\ x.port_id \in Nat
      BY <2>1, Numbers, Zenon
    <2> QED
      BY <2>2
  <1> DEFINE d == IF x.client_name = "Midi Through" THEN 1 ELSE 0
  <1>6. d \in Int
    OBVIOUS
  <1>7. key(x) = <<d, preference(x), x.client_id, x.port_id>>
    BY DEF key
  <1> HIDE DEF d
  <1>8. key(x)[1] = d
    BY <1>7
  <1>9. key(x) \in Keys /\ key(x)[2] = preference(x)
    BY <1>4, <1>5, <1>6, <1>7 DEF Keys
  <1> QED
    BY <1>4, <1>8, <1>9 DEF d

\* One list holds what another does, in some order.
Rearranged(t, s) ==
    \E f \in Bijection(1..Len(s), 1..Len(s)) :
        /\ t = [i \in 1..Len(s) |-> s[f[i]]]

InKeyOrder(t) == \A i, j \in DOMAIN t : i < j => ~LexLess(key(t[j]), key(t[i]))

LEMMA SortedIs ==
    ASSUME NEW s \in Seq(Infos), args.sort
    PROVE  Rearranged(Sorted(s), s) /\ InKeyOrder(Sorted(s))
  <1> DEFINE N == Len(s)
             Before(j, k) == \/ LexLess(key(s[j]), key(s[k]))
                             \/ j < k /\ ~LexLess(key(s[k]), key(s[j]))
             R == {p \in (1..N) \X (1..N) : Before(p[1], p[2])}
             place(i) == CHOOSE k \in DOMAIN s : Cardinality(Precede(s, k)) = i - 1
  <1>1. N \in Nat /\ DOMAIN s = 1..N /\ \A i \in 1..N : s[i] \in Infos /\ key(s[i]) \in Keys
    BY LenProperties, ElementOfSeq, KeyIs
  <1>2. \A j, k \in 1..N : <<j, k>> \in R <=> Before(j, k)
    OBVIOUS
  <1>3. Orders(R, N)
    <2>1. ASSUME NEW i \in 1..N
          PROVE  <<i, i>> \notin R
      <3>1. ~LexLess(key(s[i]), key(s[i])) /\ ~(i < i)
        BY <1>1, LexLessOrders
      <3> QED
        BY <1>2, <3>1
    <2>2. ASSUME NEW i \in 1..N, NEW j \in 1..N, i # j
          PROVE  <<i, j>> \in R \/ <<j, i>> \in R
      <3>1. i < j \/ j < i
        BY <1>1, <2>2
      <3>2. Before(i, j) \/ Before(j, i)
        BY <3>1
      <3> QED
        BY <1>2, <3>2
    <2>3. ASSUME NEW i \in 1..N, NEW j \in 1..N, NEW k \in 1..N,
                 <<i, j>> \in R, <<j, k>> \in R
          PROVE  <<i, k>> \in R
      <3> DEFINE a == key(s[i])
                 b == key(s[j])
                 c == key(s[k])
      <3>1. a \in Keys /\ b \in Keys /\ c \in Keys
        BY <1>1
      <3>2. /\ LexLess(a, b) \/ (i < j /\ ~LexLess(b, a))
            /\ LexLess(b, c) \/ (j < k /\ ~LexLess(c, b))
        BY <1>2, <2>3
      <3> HIDE DEF a, b, c, R
      <3>3. LexLess(a, c) \/ (i < k /\ ~LexLess(c, a))
        <4>1. CASE LexLess(a, b) /\ LexLess(b, c)
          BY <3>1, <4>1, LexLessOrders
        <4>2. CASE LexLess(a, b) /\ ~LexLess(c, b)
          BY <3>1, <4>2, LexLessOrders
        <4>3. CASE ~LexLess(b, a) /\ LexLess(b, c)
          BY <3>1, <4>3, LexLessOrders
        <4>4. CASE i < j /\ ~LexLess(b, a) /\ j < k /\ ~LexLess(c, b)
          <5>1. ~LexLess(c, a)
            BY <3>1, <4>4, LexLessOrders
          <5>2. i < k
            BY <1>1, <4>4
          <5> QED
            BY <5>1, <5>2
        <4> QED
          BY <3>2, <4>1, <4>2, <4>3, <4>4
      <3>4. Before(i, k)
        BY <3>3, Zenon DEF a, c
      <3> QED
        BY <1>2, <3>4, Zenon
    <2> QED
      BY <2>1, <2>2, <2>3, Zenon DEF Orders
  <1>4. \A k \in 1..N : Precede(s, k) = Below(R, N, k)
    <2> SUFFICES ASSUME NEW k \in 1..N
                 PROVE  Precede(s, k) = Below(R, N, k)
      OBVIOUS
    <2>1. Precede(s, k) = {j \in 1..N : Before(j, k)}
      BY <1>1, Zenon DEF Precede
    <2>2. Below(R, N, k) = {j \in 1..N : Before(j, k)}
      BY <1>2 DEF Below
    <2> QED
      BY <2>1, <2>2
  <1> HIDE DEF R, Before
  <1>5. /\ \A i \in 1..N : \E k \in 1..N : Cardinality(Precede(s, k)) = i - 1
        /\ \A j, k \in 1..N : <<j, k>> \in R =>
              Cardinality(Precede(s, j)) < Cardinality(Precede(s, k))
        /\ \A k \in 1..N : Cardinality(Precede(s, k)) \in 0..(N - 1)
    <2>1. /\ \A i \in 1..N : \E k \in 1..N : Cardinality(Below(R, N, k)) = i - 1
          /\ \A j, k \in 1..N : <<j, k>> \in R =>
                Cardinality(Below(R, N, j)) < Cardinality(Below(R, N, k))
          /\ \A k \in 1..N : Cardinality(Below(R, N, k)) \in 0..(N - 1)
      BY <1>1, <1>3, PlacesOf, Zenon
    <2> QED
      BY <1>4, <2>1
  <1>6. \A i \in 1..N : place(i) \in 1..N /\ Cardinality(Precede(s, place(i))) = i - 1
    BY <1>1, <1>5
  <1> HIDE DEF place
  <1> DEFINE f == [i \in 1..N |-> place(i)]
  <1>7. f \in Bijection(1..N, 1..N)
    <2>1. f \in [1..N -> 1..N]
      BY <1>6
    <2>2. ASSUME NEW i \in 1..N, NEW j \in 1..N, f[i] = f[j]
          PROVE  i = j
      <3>1. place(i) = place(j)
        BY <2>2
      <3>2. i - 1 = j - 1
        BY <1>6, <3>1
      <3> QED
        BY <3>2
    <2>3. f \in Injection(1..N, 1..N)
      BY <2>1, <2>2 DEF Injection, IsInjective
    <2>4. IsFiniteSet(1..N)
      BY <1>1, FS_Interval
    <2>5. f \in Surjection(1..N, 1..N)
      BY <2>3, <2>4, FS_Injection
    <2> QED
      BY <2>3, <2>5 DEF Bijection
  <1>8. Sorted(s) = [i \in 1..N |-> s[f[i]]]
    <2>1. Sorted(s) = [i \in DOMAIN s |-> s[place(i)]]
      BY Zenon DEF Sorted, place
    <2>2. \A i \in 1..N : f[i] = place(i)
      OBVIOUS
    <2> QED
      BY <1>1, <2>1, <2>2
  <1>9. InKeyOrder(Sorted(s))
    <2> SUFFICES ASSUME NEW i \in 1..N, NEW j \in 1..N, i < j,
                        LexLess(key(s[f[j]]), key(s[f[i]]))
                 PROVE  FALSE
      BY <1>8 DEF InKeyOrder
    <2>1. <<place(j), place(i)>> \in R
      <3>1. Before(place(j), place(i))
        BY DEF Before
      <3> QED
        BY <1>2, <1>6, <3>1
    <2>2. Cardinality(Precede(s, place(j))) < Cardinality(Precede(s, place(i)))
      BY <1>5, <1>6, <2>1
    <2>3. j - 1 < i - 1
      BY <1>6, <2>2
    <2> QED
      BY <2>3
  <1>10. Rearranged(Sorted(s), s)
    BY <1>7, <1>8 DEF Rearranged
  <1> QED
    BY <1>9, <1>10

-----------------------------------------------------------------------------
(* The inductive invariant.                                                *)

Typed ==
    /\ clients \in [ClientIds -> Clients \union {None}]
    /\ pc \in {"idle", "clients", "ports", "done", "raised"}
    /\ args \in Arguments
    /\ client_id \in ClientIds \union {-1} /\ port_id \in PortIds \union {-1}
    /\ pc = "ports" => client_id \in ClientIds /\ client_name \in Names \union {"System"}
    /\ result \in Seq(Infos)
    /\ steady \subseteq Addresses

\* The query has come past the address <<c, p>>.
Visited(c, p) == c < client_id \/ (c = client_id /\ (pc = "ports" => p <= port_id))

Spot(info) == <<info.client_id, info.port_id>>

\* Only what the query has come past is in the list, and that once.
Collected ==
    /\ Running => \A i \in DOMAIN result : Visited(result[i].client_id, result[i].port_id)
    /\ \A i, j \in DOMAIN result : Spot(result[i]) = Spot(result[j]) => i = j

\* Of what has stayed, all that the query has come past is listed if it should be.
Judged ==
    \A a \in steady : pc = "done" \/ (Running /\ Visited(a[1], a[2])) =>
        (a \in Listed <=> /\ Wanted(clients[a[1]].ports[a[2]])
                          /\ ~SkippedClient(a[1], clients[a[1]].name))

\* The name queried is still that of the client, if any of its ports has stayed.
Named ==
    /\ \A a \in steady, i \in DOMAIN result :
          Spot(result[i]) = a => result[i].client_name = clients[a[1]].name
    /\ pc = "ports" =>
          /\ ~SkippedClient(client_id, client_name)
          /\ \A a \in steady : a[1] = client_id => client_name = clients[client_id].name

\* A sorted list is returned in the order of the keys.
Ranked == pc = "done" /\ args.sort => InKeyOrder(result)

IInv == Typed /\ Collected /\ Judged /\ Named /\ Ranked

LEMMA AddressIs ==
    /\ \A a \in Addresses : /\ a = <<a[1], a[2]>> /\ a[1] \in ClientIds /\ a[2] \in PortIds
                            /\ Present(a[1]) /\ a[2] \in PortsOf(a[1])
    /\ \A c \in ClientIds, p \in PortIds :
          Present(c) /\ p \in PortsOf(c) => <<c, p>> \in Addresses
  BY DEF Addresses

LEMMA InitIInv == Init => IInv
  <1> SUFFICES ASSUME Init
               PROVE  IInv
    OBVIOUS
  <1>1. clients \in Systems /\ Systems \subseteq [ClientIds -> Clients \union {None}]
    BY ListingAssumption DEF Init
  <1>2. /\ clients \in [ClientIds -> Clients \union {None}]
        /\ pc = "idle" /\ args \in Arguments /\ client_id = -1 /\ port_id = -1
        /\ result = <<>> /\ steady = {}
    BY <1>1 DEF Init
  <1>3. Typed
    <2>1. result \in Seq(Infos)
      BY <1>2
    <2> QED
      BY <1>2, <2>1 DEF Typed
  <1>4. Collected
    BY <1>2 DEF Collected, Running
  <1>5. Judged /\ Named /\ Ranked
    BY <1>2 DEF Judged, Named, Ranked
  <1> QED
    BY <1>3, <1>4, <1>5 DEF IInv

\* Other programs change clients in which nothing has stayed, or nothing of what has
\* stayed in one.
LEMMA ChangeKeeps ==
    ASSUME IInv, NEW c \in Users, NEW new \in Clients \union {None}, Change(c, new),
           steady' \subseteq steady,
           \A a \in steady' : a[1] = c =>
              /\ new # None /\ new.name = clients[c].name
              /\ new.ports[a[2]] = clients[c].ports[a[2]]
    PROVE  IInv'
  <1>1. /\ Running /\ clients' = [clients EXCEPT ![c] = new]
        /\ UNCHANGED <<pc, args, client_id, client_name, port_id, result>>
    BY DEF Change, call
  <1>2. clients \in [ClientIds -> Clients \union {None}] /\ c \in ClientIds
    BY DEF IInv, Typed, ClientIds
  <1>3. /\ \A d \in ClientIds : clients'[d] = IF d = c THEN new ELSE clients[d]
        /\ clients' \in [ClientIds -> Clients \union {None}]
    BY <1>1, <1>2
  <1>4. ASSUME NEW a \in steady'
        PROVE  /\ a \in steady /\ a[1] \in ClientIds /\ a[2] \in PortIds /\ a = <<a[1], a[2]>>
               /\ clients'[a[1]] # None /\ clients'[a[1]].name = clients[a[1]].name
               /\ clients'[a[1]].ports[a[2]] = clients[a[1]].ports[a[2]]
               /\ clients[a[1]].ports[a[2]] # None
    <2>1. a \in steady /\ a \in Addresses
      BY DEF IInv, Typed
    <2>2. a[1] \in ClientIds /\ a[2] \in PortIds /\ a = <<a[1], a[2]>>
          /\ clients[a[1]] # None /\ clients[a[1]].ports[a[2]] # None
      BY <2>1, AddressIs DEF Present, PortsOf
    <2>3. CASE a[1] = c
      BY <1>3, <2>1, <2>2, <2>3
    <2>4. CASE a[1] # c
      BY <1>3, <2>1, <2>2, <2>4
    <2> QED
      BY <2>3, <2>4
  <1>5. Typed'
    <2>1. steady' \subseteq Addresses'
      <3> SUFFICES ASSUME NEW a \in steady'
                   PROVE  a \in Addresses'
        OBVIOUS
      <3>1. /\ a = <<a[1], a[2]>> /\ a[1] \in ClientIds /\ a[2] \in PortIds
            /\ Present(a[1])' /\ a[2] \in PortsOf(a[1])'
        BY <1>4 DEF Present, PortsOf
      <3> QED
        BY <3>1 DEF Addresses
    <2> QED
      BY <1>1, <1>3, <2>1 DEF IInv, Typed
  <1>6. Collected'
    BY <1>1 DEF IInv, Collected, Running, Visited, Spot
  <1>7. Judged'
    <2> SUFFICES ASSUME NEW a \in steady', Running', Visited(a[1], a[2])'
                 PROVE  a \in Listed' <=> /\ Wanted(clients[a[1]].ports[a[2]])'
                                          /\ ~SkippedClient(a[1], clients[a[1]].name)'
      BY <1>1 DEF Judged, Running
    <2>1. Visited(a[1], a[2]) /\ Listed' = Listed
      BY <1>1 DEF Visited, Listed
    <2>2. a \in Listed <=> /\ Wanted(clients[a[1]].ports[a[2]])
                           /\ ~SkippedClient(a[1], clients[a[1]].name)
      BY <1>1, <1>4, <2>1 DEF IInv, Judged
    <2>3. /\ Wanted(clients[a[1]].ports[a[2]])' <=> Wanted(clients[a[1]].ports[a[2]])
          /\ SkippedClient(a[1], clients[a[1]].name)' <=> SkippedClient(a[1], clients[a[1]].name)
      BY <1>1, <1>4 DEF Wanted, Usable, SkippedClient
    <2> QED
      BY <2>1, <2>2, <2>3
  <1>8. Named'
    BY <1>1, <1>4 DEF IInv, Named, Spot, SkippedClient
  <1>9. Ranked'
    BY <1>1 DEF Ranked, Running
  <1> QED
    BY <1>5, <1>6, <1>7, <1>8, <1>9 DEF IInv

LEMMA OthersKeep ==
    ASSUME IInv,
           \/ \E name \in Names : ClientEnters(name)
           \/ \E c \in Users : ClientExits(c) \/ \E p \in PortIds : PortRemoved(c, p)
           \/ \E c \in Users, kind \in Kinds : PortAdded(c, kind)
    PROVE  IInv'
  <1>1. /\ clients \in [ClientIds -> Clients \union {None}] /\ Users \subseteq ClientIds
        /\ Users \subseteq Nat /\ PortIds \subseteq Nat
        /\ None \notin Clients /\ None \notin Kinds
    BY Numbers, ListingAssumption DEF IInv, Typed, ClientIds
  <1>2. \A a \in steady : /\ a = <<a[1], a[2]>> /\ Present(a[1]) /\ a[2] \in PortsOf(a[1])
    BY AddressIs DEF IInv, Typed
  <1>3. ASSUME NEW c \in Users, Present(c)
        PROVE  /\ clients[c] \in Clients
               /\ clients[c].ports \in [PortIds -> Kinds \union {None}]
               /\ clients[c] = [name |-> clients[c].name, ports |-> clients[c].ports]
               /\ clients[c].name \in Names \union {"System"}
    <2>1. clients[c] \in Clients
      BY <1>1, <1>3 DEF Present
    <2> QED
      BY <2>1 DEF Clients
  <1>4. ASSUME NEW name \in Names, ClientEnters(name)
        PROVE  IInv'
    <2> DEFINE free == {c \in Users : ~Present(c)}
               c == Smallest(free)
               new == [name |-> name, ports |-> [p \in PortIds |-> None]]
    <2>1. free # {} /\ Change(c, new) /\ steady' = steady
      BY <1>4 DEF ClientEnters
    <2>2. free \in SUBSET Nat
      BY <1>1
    <2> HIDE DEF free
    <2>3. c \in free
      BY <2>1, <2>2, SmallestIs
    <2>4. c \in Users /\ ~Present(c)
      BY <2>3 DEF free
    <2>5. new \in Clients
      BY DEF Clients
    <2> HIDE DEF c, new
    <2>6. \A a \in steady' : a[1] # c
      BY <1>2, <2>1, <2>4
    <2> QED
      BY <2>1, <2>4, <2>5, <2>6, ChangeKeeps
  <1>5. ASSUME NEW c \in Users, ClientExits(c)
        PROVE  IInv'
    <2>1. Change(c, None) /\ steady' \subseteq steady /\ \A a \in steady' : a[1] # c
      BY <1>5 DEF ClientExits
    <2> QED
      BY <2>1, ChangeKeeps
  <1>6. ASSUME NEW c \in Users, NEW p \in PortIds, PortRemoved(c, p)
        PROVE  IInv'
    <2> DEFINE new == [clients[c] EXCEPT !.ports[p] = None]
    <2>1. /\ Present(c) /\ Change(c, new) /\ steady' = steady \ {<<c, p>>}
      BY <1>6 DEF PortRemoved
    <2>2. /\ new \in Clients /\ new.name = clients[c].name
          /\ \A q \in PortIds : q # p => new.ports[q] = clients[c].ports[q]
      BY <1>3, <2>1 DEF Clients
    <2> HIDE DEF new
    <2>3. ASSUME NEW a \in steady', a[1] = c
          PROVE  a[2] \in PortIds /\ a[2] # p
      BY <1>2, <2>1, <2>3 DEF PortsOf
    <2>4. new # None
      BY <1>1, <2>2
    <2> QED
      BY <2>1, <2>2, <2>3, <2>4, ChangeKeeps
  <1>7. ASSUME NEW c \in Users, NEW kind \in Kinds, PortAdded(c, kind)
        PROVE  IInv'
    <2> DEFINE free == PortIds \ PortsOf(c)
               p == Smallest(free)
               new == [clients[c] EXCEPT !.ports[p] = kind]
    <2>1. Present(c) /\ free # {} /\ Change(c, new) /\ steady' = steady
      BY <1>7 DEF PortAdded
    <2>2. free \in SUBSET Nat
      BY <1>1
    <2> HIDE DEF free
    <2>3. p \in free
      BY <2>1, <2>2, SmallestIs
    <2>4. p \in PortIds /\ p \notin PortsOf(c)
      BY <2>3 DEF free
    <2> HIDE DEF p
    <2>5. /\ new \in Clients /\ new.name = clients[c].name
          /\ \A q \in PortIds : q # p => new.ports[q] = clients[c].ports[q]
      BY <1>3, <2>1, <2>4 DEF Clients
    <2> HIDE DEF new
    <2>6. ASSUME NEW a \in steady', a[1] = c
          PROVE  a[2] \in PortIds /\ a[2] # p
      BY <1>2, <2>1, <2>4, <2>6 DEF PortsOf
    <2>7. new # None
      BY <1>1, <2>5
    <2> QED
      BY <2>1, <2>5, <2>6, <2>7, ChangeKeeps
  <1> QED
    BY <1>4, <1>5, <1>6, <1>7

LEMMA BeginKeeps == ASSUME IInv, NEW a \in Arguments, Begin(a) PROVE IInv'
  <1>1. /\ pc' = "clients" /\ args' = a /\ client_id' = -1 /\ result' = <<>>
        /\ steady' = Addresses /\ clients' = clients /\ port_id' = port_id
    BY DEF Begin
  <1>2. Typed'
    <2>1. Addresses' = Addresses
      BY <1>1 DEF Addresses, Present, PortsOf
    <2>2. result' \in Seq(Infos)
      BY <1>1
    <2> QED
      BY <1>1, <2>1, <2>2 DEF IInv, Typed
  <1>3. \A b \in steady' : b[1] \in Nat
    BY <1>1, AddressIs, Numbers
  <1>4. Judged'
    <2>1. ASSUME NEW b \in steady'
          PROVE  ~ Visited(b[1], b[2])'
      BY <1>1, <1>3 DEF Visited
    <2> QED
      BY <1>1, <2>1 DEF Judged
  <1>5. Collected' /\ Named' /\ Ranked'
    BY <1>1 DEF Collected, Named, Ranked
  <1> QED
    BY <1>2, <1>4, <1>5 DEF IInv

LEMMA WantedStays ==
    ASSUME args' = args, clients' = clients
    PROVE  \A a \in steady : /\ Wanted(clients[a[1]].ports[a[2]])' <=> Wanted(clients[a[1]].ports[a[2]])
                             /\ SkippedClient(a[1], clients[a[1]].name)'
                                  <=> SkippedClient(a[1], clients[a[1]].name)
  BY DEF Wanted, Usable, SkippedClient

\* The query goes on to the next client and finds nothing of what has stayed on its
\* way.
LEMMA NextClientKeeps == ASSUME IInv, next_client PROVE IInv'
  <1> DEFINE later == {c \in ClientIds : Present(c) /\ c > client_id}
             c == Smallest(later)
  <1>1. /\ pc = "clients" /\ later # {}
        /\ client_id' = c /\ client_name' = clients[c].name
        /\ UNCHANGED <<args, result, clients, steady>>
    BY DEF next_client, others
  <1>2. \/ SkippedClient(c, clients[c].name) /\ pc' = pc /\ port_id' = port_id
        \/ ~SkippedClient(c, clients[c].name) /\ pc' = "ports" /\ port_id' = -1
    BY DEF next_client
  <1>3. later \in SUBSET Nat
    BY Numbers
  <1>4. c \in later /\ \A d \in later : c <= d
    BY <1>1, <1>3, SmallestIs
  <1>5. c \in ClientIds /\ Present(c) /\ c > client_id /\ c \in Nat
    BY <1>3, <1>4
  <1>6. \A d \in ClientIds : Present(d) /\ d > client_id => c <= d
    BY <1>4
  <1> HIDE DEF later, c
  <1>7. /\ client_id \in ClientIds \union {-1} /\ client_id \in Int /\ client_id >= -1
        /\ \A d \in ClientIds : d \in Nat
    BY Numbers DEF IInv, Typed
  <1>8. clients[c] \in Clients /\ clients[c].name \in Names \union {"System"}
    <2>1. clients[c] \in Clients
      BY <1>5 DEF IInv, Typed, Present
    <2> QED
      BY <2>1 DEF Clients
  <1>9. Typed'
    <2>1. Addresses' = Addresses
      BY <1>1 DEF Addresses, Present, PortsOf
    <2> QED
      BY <1>1, <1>2, <1>5, <1>8, <2>1 DEF IInv, Typed
  <1>10. ASSUME NEW a \in steady
         PROVE  /\ a[1] \in ClientIds /\ a[2] \in PortIds /\ a[1] \in Nat /\ a[2] \in Nat
                /\ Present(a[1])
    BY AddressIs, Numbers DEF IInv, Typed
  <1>11. ASSUME NEW d \in Nat, NEW p \in Nat, Visited(d, p)
         PROVE  Visited(d, p)'
    BY <1>1, <1>5, <1>7, <1>11 DEF Visited
  <1>12. Collected'
    <2>1. \A i \in DOMAIN result : result[i].client_id \in Nat /\ result[i].port_id \in Nat
      <3> SUFFICES ASSUME NEW i \in DOMAIN result
                   PROVE  result[i].client_id \in Nat /\ result[i].port_id \in Nat
        OBVIOUS
      <3>1. result[i] \in Infos
        BY ElementOfSeq, LenProperties DEF IInv, Typed
      <3> QED
        BY <3>1, Numbers DEF Infos
    <2>2. \A i \in DOMAIN result : Visited(result[i].client_id, result[i].port_id)
      BY <1>1 DEF IInv, Collected, Running
    <2>3. \A i \in DOMAIN result : Visited(result[i].client_id, result[i].port_id)'
      BY <1>1, <1>11, <2>1, <2>2
    <2> QED
      BY <1>1, <2>3 DEF IInv, Collected, Spot
  <1>13. Named'
    <2>1. \A a \in steady', i \in DOMAIN result' :
             Spot(result[i])' = a => result'[i].client_name = clients'[a[1]].name
      BY <1>1 DEF IInv, Named, Spot
    <2>2. pc' = "ports" => ~SkippedClient(client_id, client_name)'
      BY <1>1, <1>2 DEF SkippedClient
    <2> QED
      BY <1>1, <2>1, <2>2 DEF Named
  <1>14. ASSUME NEW a \in steady, Visited(a[1], a[2])'
         PROVE  \/ Visited(a[1], a[2])
                \/ SkippedClient(a[1], clients[a[1]].name) /\ a[1] = c
    <2>1. CASE a[1] < c
      BY <1>1, <1>5, <1>6, <1>7, <1>10, <2>1 DEF Visited
    <2>2. CASE a[1] = c
      <3>1. pc' # "ports"
        BY <1>1, <1>2, <1>5, <1>10, <1>14, <2>2 DEF Visited
      <3> QED
        BY <1>1, <1>2, <2>2, <3>1
    <2> QED
      BY <1>1, <1>14, <2>1, <2>2 DEF Visited
  <1>15. Judged'
    <2> SUFFICES ASSUME NEW a \in steady, Visited(a[1], a[2])'
                 PROVE  a \in Listed <=> /\ Wanted(clients[a[1]].ports[a[2]])
                                         /\ ~SkippedClient(a[1], clients[a[1]].name)
      <3>1. \A a \in steady : /\ Wanted(clients[a[1]].ports[a[2]])' <=> Wanted(clients[a[1]].ports[a[2]])
                              /\ SkippedClient(a[1], clients[a[1]].name)'
                                   <=> SkippedClient(a[1], clients[a[1]].name)
        BY <1>1, WantedStays
      <3>2. Listed' = Listed
        BY <1>1 DEF Listed
      <3>3. pc' # "done" /\ steady' = steady
        BY <1>1, <1>2
      <3> QED
        BY <3>1, <3>2, <3>3 DEF Judged
    <2>1. CASE Visited(a[1], a[2])
      BY <1>1, <2>1 DEF IInv, Judged, Running
    <2>2. CASE SkippedClient(a[1], clients[a[1]].name) /\ a[1] = c
      <3> SUFFICES a \notin Listed
        BY <2>2
      <3> SUFFICES ASSUME NEW i \in DOMAIN result, a = Spot(result[i])
                   PROVE  FALSE
        BY DEF Listed, Spot
      <3>1. Visited(result[i].client_id, result[i].port_id)
        BY <1>1 DEF IInv, Collected, Running
      <3>2. result[i].client_id = c
        BY <2>2 DEF Spot
      <3> QED
        BY <1>5, <1>7, <3>1, <3>2 DEF Visited
    <2> QED
      BY <1>14, <2>1, <2>2
  <1>16. Ranked'
    BY <1>1, <1>2 DEF Ranked
  <1> QED
    BY <1>9, <1>12, <1>13, <1>15, <1>16 DEF IInv

\* What is tried of a port is what is asked of it.
LEMMA PassesIsWanted ==
    ASSUME args \in Arguments, NEW info, NEW port, info.caps = port.caps, info.type = port.type
    PROVE  Passes(info) <=> Wanted(port)
  <1>1. /\ args.input \in BOOLEAN /\ args.output \in BOOLEAN
        /\ args.only_connectable \in BOOLEAN /\ args.include_no_export \in BOOLEAN
    BY ListingAssumption
  <1> QED
    BY <1>1 DEF Passes, Wanted, Connectable, Usable

\* The next port is listed if it should be, and all before it in its client have been
\* come past.
LEMMA NextPortKeeps == ASSUME IInv, next_port PROVE IInv'
  <1> DEFINE p == Smallest(Later)
             info == PortInfo(p)
             port == clients[client_id].ports[p]
  <1>1. /\ pc = "ports" /\ Later # {} /\ port_id' = p
        /\ UNCHANGED <<pc, args, client_id, client_name, clients, steady>>
    BY DEF next_port, others
  <1>2. result' = IF Passes(info) THEN Append(result, info) ELSE result
    BY DEF next_port
  <1>3. /\ Present(client_id) /\ Later = {q \in PortsOf(client_id) : q > port_id}
    BY <1>1 DEF Later
  <1>4. Later \in SUBSET Nat
    BY <1>3, Numbers DEF PortsOf
  <1>5. p \in Later /\ \A q \in Later : p <= q
    BY <1>1, <1>4, SmallestIs
  <1>6. p \in PortIds /\ p \in Nat /\ port # None /\ p > port_id
    BY <1>3, <1>4, <1>5 DEF PortsOf
  <1>7. \A q \in PortIds : clients[client_id].ports[q] # None /\ q > port_id => p <= q
    BY <1>3, <1>5 DEF PortsOf
  <1> HIDE DEF p
  <1>8. /\ client_id \in ClientIds /\ client_id \in Nat /\ client_name \in Names \union {"System"}
        /\ port_id \in Int
    BY <1>1, Numbers DEF IInv, Typed
  <1>9. port \in Kinds
    <2>1. clients[client_id] \in Clients
      BY <1>3, <1>8 DEF IInv, Typed, Present
    <2>2. clients[client_id].ports \in [PortIds -> Kinds \union {None}]
      BY <2>1 DEF Clients
    <2> QED
      BY <1>6, <2>2
  <1>10. /\ info.client_id = client_id /\ info.port_id = p /\ info.client_name = client_name
         /\ info.caps = port.caps /\ info.type = port.type
    BY DEF PortInfo
  <1>11. info \in Infos
    BY <1>6, <1>8, <1>9 DEF PortInfo, Infos
  <1> HIDE DEF info, port
  <1>12. result \in Seq(Infos) /\ Len(result) \in Nat
    BY LenProperties DEF IInv, Typed
  <1>13. \A i \in DOMAIN result : result[i].client_id \in Nat /\ result[i].port_id \in Nat
    <2> SUFFICES ASSUME NEW i \in DOMAIN result
                 PROVE  result[i].client_id \in Nat /\ result[i].port_id \in Nat
      OBVIOUS
    <2>1. result[i] \in Infos
      BY <1>12, ElementOfSeq, LenProperties
    <2> QED
      BY <2>1, Numbers DEF Infos
  <1>14. /\ \A d, q \in Nat : Visited(d, q) => Visited(d, q)'
         /\ \A d, q \in Nat : d = client_id /\ q = p => ~Visited(d, q) /\ Visited(d, q)'
    <2> SUFFICES ASSUME NEW d \in Nat, NEW q \in Nat
                 PROVE  /\ Visited(d, q) => Visited(d, q)'
                        /\ d = client_id /\ q = p => ~Visited(d, q) /\ Visited(d, q)'
      OBVIOUS
    <2> QED
      BY <1>1, <1>6, <1>8 DEF Visited
  <1>15. \A i \in DOMAIN result : Visited(result[i].client_id, result[i].port_id)
    BY <1>1 DEF IInv, Collected, Running
  <1>16. \A i \in DOMAIN result : Spot(result[i]) # <<client_id, p>>
    <2> SUFFICES ASSUME NEW i \in DOMAIN result, Spot(result[i]) = <<client_id, p>>
                 PROVE  FALSE
      OBVIOUS
    <2>1. result[i].client_id = client_id /\ result[i].port_id = p
      BY DEF Spot
    <2> QED
      BY <1>6, <1>8, <1>14, <1>15, <2>1
  <1>17. ASSUME Passes(info)
         PROVE  /\ result' = Append(result, info) /\ result' \in Seq(Infos)
                /\ DOMAIN result' = DOMAIN result \union {Len(result) + 1}
                /\ Len(result) + 1 \notin DOMAIN result
                /\ \A i \in DOMAIN result : result'[i] = result[i]
                /\ result'[Len(result) + 1] = info
    BY <1>2, <1>11, <1>12, <1>17, AppendProperties
  <1>18. Typed'
    <2>1. Addresses' = Addresses
      BY <1>1 DEF Addresses, Present, PortsOf
    <2>2. result' \in Seq(Infos)
      BY <1>2, <1>12, <1>17
    <2> QED
      BY <1>1, <1>6, <2>1, <2>2 DEF IInv, Typed
  <1>19. Collected'
    <2>1. CASE ~Passes(info)
      <3>1. result' = result
        BY <1>2, <2>1
      <3> QED
        <4>1. \A i \in DOMAIN result : Visited(result[i].client_id, result[i].port_id)'
          <5> SUFFICES ASSUME NEW i \in DOMAIN result,
                              NEW d, NEW q, d = result[i].client_id, q = result[i].port_id
                       PROVE  Visited(d, q)'
            BY <1>1, <3>1 DEF Visited
          <5> QED
            BY <1>13, <1>14, <1>15
        <4> QED
          BY <1>1, <3>1, <4>1 DEF IInv, Collected, Spot
    <2>2. CASE Passes(info)
      <3>1. \A i \in DOMAIN result' : Visited(result[i].client_id, result[i].port_id)'
        <4> SUFFICES ASSUME NEW i \in DOMAIN result',
                            NEW d, NEW q, d = result'[i].client_id, q = result'[i].port_id
                     PROVE  Visited(d, q)'
          BY DEF Visited
        <4>1. CASE i \in DOMAIN result
          BY <1>13, <1>14, <1>15, <1>17, <2>2, <4>1
        <4>2. CASE i = Len(result) + 1
          BY <1>6, <1>8, <1>10, <1>14, <1>17, <2>2, <4>2
        <4> QED
          BY <1>17, <2>2, <4>1, <4>2
      <3>2. Spot(info) = <<client_id, p>>
        BY <1>10 DEF Spot
      <3>3. ASSUME NEW i \in DOMAIN result', NEW j \in DOMAIN result',
                   Spot(result'[i]) = Spot(result'[j])
            PROVE  i = j
        <4>1. CASE i \in DOMAIN result /\ j \in DOMAIN result
          BY <1>17, <2>2, <3>3, <4>1 DEF IInv, Collected
        <4>2. CASE i \in DOMAIN result /\ j = Len(result) + 1
          BY <1>16, <1>17, <2>2, <3>2, <3>3, <4>2
        <4>3. CASE i = Len(result) + 1 /\ j \in DOMAIN result
          BY <1>16, <1>17, <2>2, <3>2, <3>3, <4>3
        <4> QED
          BY <1>17, <2>2, <4>1, <4>2, <4>3
      <3> QED
        BY <1>1, <3>1, <3>3 DEF Collected, Spot
    <2> QED
      BY <2>1, <2>2
  <1>20. ASSUME NEW a \in steady
         PROVE  /\ a = <<a[1], a[2]>> /\ a[1] \in ClientIds /\ a[2] \in PortIds
                /\ a[1] \in Nat /\ a[2] \in Nat /\ clients[a[1]].ports[a[2]] # None
    BY AddressIs, Numbers DEF IInv, Typed, PortsOf
  <1>21. Named'
    <2>1. \A a \in steady : a = <<client_id, p>> => info.client_name = clients[a[1]].name
      BY <1>1, <1>10 DEF IInv, Named
    <2>2. Spot(info) = <<client_id, p>>
      BY <1>10 DEF Spot
    <2>3. \A a \in steady, i \in DOMAIN result' :
             Spot(result'[i]) = a => result'[i].client_name = clients[a[1]].name
      <3>1. CASE ~Passes(info)
        BY <1>2, <3>1 DEF IInv, Named
      <3>2. CASE Passes(info)
        BY <1>17, <2>1, <2>2, <3>2 DEF IInv, Named
      <3> QED
        BY <3>1, <3>2
    <2>4. ~SkippedClient(client_id, client_name)'
      BY <1>1 DEF IInv, Named, SkippedClient
    <2> QED
      BY <1>1, <2>3, <2>4 DEF IInv, Named, Spot
  <1>22. Judged'
    <2> SUFFICES ASSUME NEW a \in steady, Visited(a[1], a[2])'
                 PROVE  a \in Listed' <=> /\ Wanted(clients[a[1]].ports[a[2]])
                                          /\ ~SkippedClient(a[1], clients[a[1]].name)
      <3>1. \A a \in steady : /\ Wanted(clients[a[1]].ports[a[2]])' <=> Wanted(clients[a[1]].ports[a[2]])
                              /\ SkippedClient(a[1], clients[a[1]].name)'
                                   <=> SkippedClient(a[1], clients[a[1]].name)
        BY <1>1, WantedStays
      <3>2. pc' # "done" /\ steady' = steady
        BY <1>1
      <3> QED
        BY <3>1, <3>2 DEF Judged
    <2>1. Listed' = IF Passes(info) THEN Listed \union {<<client_id, p>>} ELSE Listed
      <3>1. CASE ~Passes(info)
        BY <1>2, <3>1 DEF Listed
      <3>2. CASE Passes(info)
        BY <1>10, <1>17, <3>2 DEF Listed
      <3> QED
        BY <3>1, <3>2
    <2>2. <<client_id, p>> \notin Listed
      BY <1>16 DEF Listed, Spot
    <2>3. CASE Visited(a[1], a[2])
      <3>1. a # <<client_id, p>>
        BY <1>6, <1>8, <1>14, <1>20, <2>3
      <3>2. a \in Listed <=> /\ Wanted(clients[a[1]].ports[a[2]])
                             /\ ~SkippedClient(a[1], clients[a[1]].name)
        BY <1>1, <2>3 DEF IInv, Judged, Running
      <3> QED
        BY <2>1, <3>1, <3>2
    <2>4. CASE ~Visited(a[1], a[2])
      <3>1. a[1] = client_id /\ a[2] <= p /\ a[2] > port_id
        BY <1>1, <1>6, <1>8, <1>20, <2>4 DEF Visited
      <3>2. a[2] = p
        BY <1>6, <1>7, <1>20, <3>1
      <3>3. a = <<client_id, p>> /\ clients[a[1]].ports[a[2]] = port
        BY <1>20, <3>1, <3>2 DEF port
      <3>4. ~SkippedClient(a[1], clients[a[1]].name)
        BY <1>1, <3>1 DEF IInv, Named
      <3>5. Passes(info) <=> Wanted(port)
        BY <1>10, PassesIsWanted DEF IInv, Typed
      <3> QED
        BY <2>1, <2>2, <3>3, <3>4, <3>5
    <2> QED
      BY <2>3, <2>4
  <1>23. Ranked'
    BY <1>1 DEF Ranked
  <1> QED
    BY <1>18, <1>19, <1>21, <1>22, <1>23 DEF IInv

\* The end of a client: all of its ports have been come past.
LEMMA NoMorePortsKeeps == ASSUME IInv, no_more_ports PROVE IInv'
  <1>1. /\ pc = "ports" /\ pc' = "clients" /\ Present(client_id) /\ Later = {}
        /\ UNCHANGED <<args, client_id, client_name, port_id, result, clients, steady>>
    BY DEF no_more_ports, others
  <1>2. \A q \in PortsOf(client_id) : ~ (q > port_id)
    BY <1>1 DEF Later
  <1>3. Typed'
    <2>1. Addresses' = Addresses
      BY <1>1 DEF Addresses, Present, PortsOf
    <2> QED
      BY <1>1, <2>1 DEF IInv, Typed
  <1>4. Collected'
    <2>1. \A d, q : Visited(d, q) => Visited(d, q)'
      BY <1>1 DEF Visited
    <2>2. \A i \in DOMAIN result : Visited(result[i].client_id, result[i].port_id)
      BY <1>1 DEF IInv, Collected, Running
    <2>3. ASSUME NEW i \in DOMAIN result,
                 NEW d, NEW q, d = result[i].client_id, q = result[i].port_id
          PROVE  Visited(d, q)'
      BY <2>1, <2>2, <2>3
    <2>4. \A i \in DOMAIN result' : Visited(result[i].client_id, result[i].port_id)'
      BY <1>1, <2>3 DEF Visited
    <2> QED
      BY <1>1, <2>4 DEF IInv, Collected, Spot
  <1>5. Named' /\ Ranked'
    BY <1>1 DEF IInv, Named, Ranked, Spot
  <1>6. Judged'
    <2> SUFFICES ASSUME NEW a \in steady, Visited(a[1], a[2])'
                 PROVE  Visited(a[1], a[2])
      <3>1. \A a \in steady : /\ Wanted(clients[a[1]].ports[a[2]])' <=> Wanted(clients[a[1]].ports[a[2]])
                              /\ SkippedClient(a[1], clients[a[1]].name)'
                                   <=> SkippedClient(a[1], clients[a[1]].name)
        BY <1>1, WantedStays
      <3>2. pc' # "done" /\ steady' = steady /\ Listed' = Listed /\ Running
        BY <1>1 DEF Listed, Running
      <3> QED
        BY <3>1, <3>2 DEF IInv, Judged
    <2>1. /\ a[1] \in Nat /\ a[2] \in Nat /\ a[2] \in PortsOf(a[1])
          /\ client_id \in Nat /\ port_id \in Int
      BY <1>1, AddressIs, Numbers DEF IInv, Typed
    <2>2. CASE a[1] = client_id
      <3>1. ~ (a[2] > port_id)
        BY <1>2, <2>1, <2>2
      <3> QED
        BY <2>1, <2>2, <3>1 DEF Visited
    <2> QED
      BY <1>1, <2>1, <2>2 DEF Visited
  <1> QED
    BY <1>3, <1>4, <1>5, <1>6 DEF IInv

LEMMA ClientGoneKeeps == ASSUME IInv, client_gone PROVE IInv'
  <1>1. /\ pc' = "raised"
        /\ UNCHANGED <<args, client_id, client_name, port_id, result, clients, steady>>
    BY DEF client_gone, others
  <1>2. Addresses' = Addresses
    BY <1>1 DEF Addresses, Present, PortsOf
  <1>3. Typed'
    BY <1>1, <1>2 DEF IInv, Typed
  <1>4. Collected' /\ Judged' /\ Named' /\ Ranked'
    BY <1>1 DEF IInv, Collected, Judged, Named, Ranked, Running, Spot
  <1> QED
    BY <1>3, <1>4 DEF IInv

LEMMA RearrangedIs ==
    ASSUME NEW s \in Seq(Infos), NEW t, Rearranged(t, s)
    PROVE  /\ t \in Seq(Infos) /\ Len(t) = Len(s)
           /\ \A i \in DOMAIN t : \E j \in DOMAIN s : t[i] = s[j]
           /\ \A j \in DOMAIN s : \E i \in DOMAIN t : t[i] = s[j]
           /\ (\A i, j \in DOMAIN s : Spot(s[i]) = Spot(s[j]) => i = j)
                 => \A i, j \in DOMAIN t : Spot(t[i]) = Spot(t[j]) => i = j
  <1> DEFINE N == Len(s)
  <1>1. N \in Nat /\ DOMAIN s = 1..N /\ \A i \in 1..N : s[i] \in Infos
    BY LenProperties, ElementOfSeq
  <1>2. PICK f \in Bijection(1..N, 1..N) : t = [i \in 1..N |-> s[f[i]]]
    BY DEF Rearranged
  <1>3. /\ f \in [1..N -> 1..N]
        /\ \A i, j \in 1..N : f[i] = f[j] => i = j
        /\ \A j \in 1..N : \E i \in 1..N : f[i] = j
    BY <1>2 DEF Bijection, Injection, Surjection, IsInjective
  <1> HIDE DEF N
  <1>4. /\ t \in Seq(Infos) /\ Len(t) = N /\ DOMAIN t = 1..N
        /\ \A i \in 1..N : f[i] \in 1..N /\ t[i] = s[f[i]]
    <2>1. t \in [1..N -> Infos]
      BY <1>1, <1>2, <1>3
    <2>2. t \in Seq(Infos)
      BY <1>1, <2>1, SeqDef
    <2> QED
      BY <1>1, <1>2, <1>3, <2>1, <2>2
  <1>5. ASSUME NEW j \in DOMAIN s
        PROVE  \E i \in DOMAIN t : t[i] = s[j]
    BY <1>1, <1>3, <1>4
  <1>6. ASSUME \A i, j \in DOMAIN s : Spot(s[i]) = Spot(s[j]) => i = j,
               NEW i \in DOMAIN t, NEW j \in DOMAIN t, Spot(t[i]) = Spot(t[j])
        PROVE  i = j
    <2>1. f[i] = f[j]
      BY <1>1, <1>4, <1>6
    <2> QED
      BY <1>3, <1>4, <2>1
  <1> QED
    BY <1>1, <1>4, <1>5, <1>6 DEF N

\* Sorting loses nothing and adds nothing.
LEMMA SortedKeeps ==
    ASSUME NEW s \in Seq(Infos)
    PROVE  /\ Sorted(s) \in Seq(Infos) /\ Len(Sorted(s)) = Len(s)
           /\ \A i \in DOMAIN Sorted(s) : \E j \in DOMAIN s : Sorted(s)[i] = s[j]
           /\ \A j \in DOMAIN s : \E i \in DOMAIN Sorted(s) : Sorted(s)[i] = s[j]
           /\ (\A i, j \in DOMAIN s : Spot(s[i]) = Spot(s[j]) => i = j)
                 => \A i, j \in DOMAIN Sorted(s) : Spot(Sorted(s)[i]) = Spot(Sorted(s)[j]) => i = j
           /\ args.sort => InKeyOrder(Sorted(s))
  <1>1. CASE args.sort
    BY <1>1, SortedIs, RearrangedIs
  <1>2. CASE ~args.sort
    <2>1. Sorted(s) = s
      BY <1>2 DEF Sorted
    <2> QED
      BY <1>2, <2>1
  <1> QED
    BY <1>1, <1>2

\* The arguments alone say what the order is.
LEMMA OrderStays ==
    ASSUME args' = args, NEW t, t = result', args.sort => InKeyOrder(t)
    PROVE  Ranked'
  <1>1. preferred_types' = preferred_types
    BY DEF preferred_types
  <1>2. \A x : preference(x)' = preference(x)
    <2> SUFFICES ASSUME NEW x
                 PROVE  preference(x)' = preference(x)
      OBVIOUS
    <2> QED
      BY <1>1, Zenon DEF preference
  <1>3. \A x : key(x)' = key(x)
    <2> SUFFICES ASSUME NEW x
                 PROVE  key(x)' = key(x)
      OBVIOUS
    <2>1. preference(x)' = preference(x)
      BY <1>2, Zenon
    <2> QED
      BY <2>1, Zenon DEF key
  <1>4. \A i, j : LexLess(key(t[j])', key(t[i])') <=> LexLess(key(t[j]), key(t[i]))
    <2> SUFFICES ASSUME NEW i, NEW j
                 PROVE  LexLess(key(t[j])', key(t[i])') <=> LexLess(key(t[j]), key(t[i]))
      OBVIOUS
    <2>1. key(t[j])' = key(t[j]) /\ key(t[i])' = key(t[i])
      BY <1>3, Zenon
    <2> QED
      BY <2>1, Zenon
  <1>5. args.sort => InKeyOrder(result)'
    <2> SUFFICES ASSUME args.sort, NEW i \in DOMAIN t, NEW j \in DOMAIN t, i < j,
                        LexLess(key(t[j]), key(t[i]))'
                 PROVE  FALSE
      BY DEF InKeyOrder
    <2> QED
      BY <1>4 DEF InKeyOrder
  <1> QED
    BY <1>5 DEF Ranked

\* The end of the call: the query has come past everything.
LEMMA NoMoreClientsKeeps == ASSUME IInv, no_more_clients PROVE IInv'
  <1> DEFINE t == Sorted(result)
  <1>1. /\ pc = "clients" /\ pc' = "done" /\ result' = t /\ args' = args
        /\ \A c \in ClientIds : Present(c) => c <= client_id
        /\ UNCHANGED <<args, client_id, client_name, port_id, clients, steady>>
    BY DEF no_more_clients, others
  <1>2. result \in Seq(Infos)
    BY DEF IInv, Typed
  <1>3. /\ t \in Seq(Infos)
        /\ \A i \in DOMAIN t : \E j \in DOMAIN result : t[i] = result[j]
        /\ \A j \in DOMAIN result : \E i \in DOMAIN t : t[i] = result[j]
        /\ \A i, j \in DOMAIN t : Spot(t[i]) = Spot(t[j]) => i = j
        /\ args.sort => InKeyOrder(t)
    BY <1>2, SortedKeeps DEF IInv, Collected
  <1> HIDE DEF t
  <1>4. Typed'
    <2>1. Addresses' = Addresses
      BY <1>1 DEF Addresses, Present, PortsOf
    <2> QED
      BY <1>1, <1>3, <2>1 DEF IInv, Typed
  <1>5. Collected'
    BY <1>1, <1>3 DEF Collected, Running, Spot
  <1>6. Named'
    BY <1>1, <1>3 DEF IInv, Named, Spot
  <1>7. Judged'
    <2> SUFFICES ASSUME NEW a \in steady
                 PROVE  Running /\ Visited(a[1], a[2])
      <3>1. \A a \in steady : /\ Wanted(clients[a[1]].ports[a[2]])' <=> Wanted(clients[a[1]].ports[a[2]])
                              /\ SkippedClient(a[1], clients[a[1]].name)'
                                   <=> SkippedClient(a[1], clients[a[1]].name)
        BY <1>1, WantedStays
      <3>2. Listed' = Listed
        BY <1>1, <1>3 DEF Listed
      <3>3. steady' = steady
        BY <1>1
      <3> QED
        BY <3>1, <3>2, <3>3 DEF IInv, Judged
    <2>1. a[1] \in ClientIds /\ Present(a[1]) /\ a[1] \in Nat /\ client_id \in Int
      BY AddressIs, Numbers DEF IInv, Typed
    <2> QED
      BY <1>1, <2>1 DEF Visited, Running
  <1>8. Ranked'
    BY <1>1, <1>3, OrderStays
  <1> QED
    BY <1>4, <1>5, <1>6, <1>7, <1>8 DEF IInv

LEMMA NextIInv == IInv /\ [Next]_vars => IInv'
  <1> SUFFICES ASSUME IInv, [Next]_vars
               PROVE  IInv'
    OBVIOUS
  <1>1. CASE \/ \E name \in Names : ClientEnters(name)
             \/ \E c \in Users : ClientExits(c) \/ \E p \in PortIds : PortRemoved(c, p)
             \/ \E c \in Users, kind \in Kinds : PortAdded(c, kind)
    BY <1>1, OthersKeep
  <1>2. CASE Begin(args)
    <2>1. args \in Arguments
      BY DEF IInv, Typed
    <2>2. ASSUME NEW a \in Arguments, a = args
          PROVE  IInv'
      <3>1. Begin(a)
        BY <1>2, <2>2
      <3> QED
        BY <3>1, BeginKeeps
    <2> QED
      BY <2>1, <2>2
  <1>3. CASE next_client
    BY <1>3, NextClientKeeps
  <1>4. CASE no_more_clients
    BY <1>4, NoMoreClientsKeeps
  <1>5. CASE next_port
    BY <1>5, NextPortKeeps
  <1>6. CASE no_more_ports
    BY <1>6, NoMorePortsKeeps
  <1>7. CASE client_gone
    BY <1>7, ClientGoneKeeps
  <1>8. CASE UNCHANGED vars
    <2>1. UNCHANGED <<clients, changes, pc, args, client_id, client_name, port_id, result, steady>>
      BY <1>8 DEF vars
    <2>2. Typed'
      <3>1. Addresses' = Addresses
        BY <2>1 DEF Addresses, Present, PortsOf
      <3> QED
        BY <2>1, <3>1 DEF IInv, Typed
    <2>3. Collected' /\ Named'
      BY <2>1 DEF IInv, Collected, Named, Running, Visited, Spot, SkippedClient
    <2>4. Judged'
      <3>1. \A a \in steady : /\ Wanted(clients[a[1]].ports[a[2]])' <=> Wanted(clients[a[1]].ports[a[2]])
                              /\ SkippedClient(a[1], clients[a[1]].name)'
                                   <=> SkippedClient(a[1], clients[a[1]].name)
        BY <2>1, WantedStays
      <3>2. /\ pc' = pc /\ steady' = steady /\ Listed' = Listed
        BY <2>1 DEF Listed
      <3>3. Judged
        BY DEF IInv
      <3> SUFFICES ASSUME NEW a \in steady', pc' = "done" \/ (Running' /\ Visited(a[1], a[2])')
                   PROVE  a \in Listed' <=> /\ Wanted(clients[a[1]].ports[a[2]])'
                                            /\ ~SkippedClient(a[1], clients[a[1]].name)'
        BY DEF Judged
      <3>4. a \in steady /\ (pc = "done" \/ (Running /\ Visited(a[1], a[2])))
        BY <2>1 DEF Running, Visited
      <3>5. a \in Listed <=> /\ Wanted(clients[a[1]].ports[a[2]])
                             /\ ~SkippedClient(a[1], clients[a[1]].name)
        BY <3>3, <3>4 DEF Judged
      <3> QED
        BY <3>1, <3>2, <3>4, <3>5
    <2>5. Ranked'
      <3>1. CASE pc = "done"
        BY <2>1, <3>1, OrderStays DEF IInv, Ranked
      <3> QED
        BY <2>1, <3>1 DEF Ranked
    <2> QED
      BY <2>2, <2>3, <2>4, <2>5 DEF IInv
  <1> QED
    BY <1>1, <1>2, <1>3, <1>4, <1>5, <1>6, <1>7, <1>8 DEF Next

LEMMA AlwaysIInv == Spec => []IInv
  BY InitIInv, NextIInv, PTL DEF Spec

-----------------------------------------------------------------------------
(* What the call returns.                                                  *)

\* A list names as many addresses as it has members.
LEMMA ListedOnce ==
    ASSUME result \in Seq(Infos),
           \A i, j \in DOMAIN result : Spot(result[i]) = Spot(result[j]) => i = j
    PROVE  Cardinality(Listed) = Len(result)
  <1> DEFINE N == Len(result)
             f == [i \in 1..N |-> Spot(result[i])]
  <1>1. N \in Nat /\ DOMAIN result = 1..N
    BY LenProperties
  <1>2. Listed = {Spot(result[i]) : i \in 1..N}
    BY <1>1, Zenon DEF Listed, Spot
  <1>3. f \in Bijection(1..N, Listed)
    <2>1. f \in [1..N -> Listed]
      BY <1>2
    <2>2. \A i, j \in 1..N : f[i] = f[j] => i = j
      BY <1>1
    <2>3. \A a \in Listed : \E i \in 1..N : f[i] = a
      BY <1>2
    <2> QED
      BY <2>1, <2>2, <2>3 DEF Bijection, Injection, Surjection, IsInjective
  <1>4. IsFiniteSet(1..N) /\ Cardinality(1..N) = N
    BY <1>1, FS_Interval
  <1>5. ExistsBijection(1..N, Listed)
    BY <1>3, Zenon DEF ExistsBijection
  <1> QED
    BY <1>4, <1>5, FS_Bijection

\* A port that is there all the time of the call is in the list exactly if it is
\* wanted, once, and under the name of its own client.
THEOREM ListingSteadyListedRight == Spec => []SteadyListedRight
  <1>1. IInv => SteadyListedRight
    <2> SUFFICES ASSUME IInv, pc = "done"
                 PROVE  SteadyListedRight
      BY DEF SteadyListedRight
    <2>1. Cardinality(Listed) = Len(result)
      BY ListedOnce DEF IInv, Typed, Collected
    <2>2. ASSUME NEW a \in steady
          PROVE  /\ a \in Listed <=> /\ Wanted(clients[a[1]].ports[a[2]])
                                     /\ ~SkippedClient(a[1], clients[a[1]].name)
                 /\ \A i \in DOMAIN result : Spot(result[i]) = a
                       => result[i].client_name = clients[a[1]].name
      BY DEF IInv, Judged, Named
    <2> QED
      BY <2>1, <2>2, Zenon DEF SteadyListedRight, Spot
  <1> QED
    BY <1>1, AlwaysIInv, PTL

LEMMA KeysInOrder ==
    ASSUME NEW a \in Keys, NEW b \in Keys, ~LexLess(b, a), b[1] = 0, a[1] = 0 \/ a[1] = 1
    PROVE  a[1] = 0 /\ a[1] # 1 /\ a[2] <= b[2]
  <1>1. ~ (b[1] < a[1]) /\ ~ (b[1] = a[1] /\ b[2] < a[2])
    BY LexLessIs
  <1>2. a[2] \in Int /\ b[2] \in Int
    BY DEF Keys
  <1> QED
    BY <1>1, <1>2

LEMMA BetterFirst ==
    ASSUME NEW x \in Infos, NEW y \in Infos, ~LexLess(key(y), key(x)),
           y.client_name # "Midi Through"
    PROVE  x.client_name # "Midi Through" /\ preference(x) <= preference(y)
  <1>1. /\ key(x) \in Keys /\ key(x)[2] = preference(x)
        /\ key(y) \in Keys /\ key(y)[2] = preference(y)
    BY KeyIs
  <1>2. /\ key(x)[1] = 0 \/ key(x)[1] = 1
        /\ x.client_name = "Midi Through" => key(x)[1] = 1
        /\ key(y)[1] = 0
    BY KeyIs
  <1>3. key(x)[1] # 1 /\ key(x)[2] <= key(y)[2]
    BY <1>1, <1>2, KeysInOrder, Zenon
  <1> QED
    BY <1>1, <1>2, <1>3, Zenon

LEMMA FromFirst == ASSUME NEW n \in Nat, NEW i \in 1..n PROVE 1 \in 1..n /\ (i = 1 \/ 1 < i)
  OBVIOUS

\* No member of a list in key order is better than the first.
LEMMA FirstIsBest ==
    ASSUME NEW s \in Seq(Infos), InKeyOrder(s), NEW i \in DOMAIN s,
           s[i].client_name # "Midi Through"
    PROVE  s[1].client_name # "Midi Through" /\ preference(s[1]) <= preference(s[i])
  <1>1. /\ Len(s) \in Nat /\ DOMAIN s = 1..Len(s)
        /\ \A k \in DOMAIN s : s[k] \in Infos
    BY LenProperties, ElementOfSeq
  <1>2. i \in 1..Len(s)
    BY <1>1, Zenon
  <1>3. 1 \in 1..Len(s) /\ (i = 1 \/ 1 < i)
    BY <1>1, <1>2, FromFirst, Zenon
  <1>4. 1 \in DOMAIN s /\ s[1] \in Infos /\ s[i] \in Infos
    BY <1>1, <1>3, Zenon
  <1>5. ~LexLess(key(s[i]), key(s[1]))
    <2>1. CASE i = 1
      <3>1. key(s[i]) \in Keys
        BY <1>4, KeyIs, Zenon
      <3> QED
        BY <2>1, <3>1, LexLessOrders, Zenon
    <2>2. CASE 1 < i
      BY <1>4, <2>2, Zenon DEF InKeyOrder
    <2> QED
      BY <1>3, <2>1, <2>2
  <1> QED
    BY <1>4, <1>5, BetterFirst, Zenon

\* A sorted list begins with a port of another client than "Midi Through", if it has
\* one, and none of those is of a type preferred to the first's.
THEOREM ListingBestFirst == Spec => []BestFirst
  <1>1. IInv => BestFirst
    <2> SUFFICES ASSUME IInv, pc = "done", args.sort, NEW i \in DOMAIN result,
                        result[i].client_name # "Midi Through"
                 PROVE  /\ result[1].client_name # "Midi Through"
                        /\ preference(result[1]) <= preference(result[i])
      BY DEF BestFirst
    <2>1. result \in Seq(Infos) /\ InKeyOrder(result)
      BY DEF IInv, Typed, Ranked
    <2> QED
      BY <2>1, FirstIsBest
  <1> QED
    BY <1>1, AlwaysIInv, PTL

\* The name shown for a port opens it, whatever else is listed: the address in it is
\* that of no other, and it is compared before any shorter name.
THEOREM ListingDeviceFound == Spec => []DeviceFound
  <1>1. IInv => DeviceFound
    <2> SUFFICES ASSUME IInv, NEW i \in DOMAIN result, result[i].client_name \notin Digits,
                        NEW asked,
                        asked = <<"device", result[i].client_name, result[i].name,
                                  result[i].client_id, result[i].port_id>>
                 PROVE  _find_port(result, asked) = i
      BY DEF DeviceFound
    <2> DEFINE found(k) == {j \in DOMAIN result : Matches(asked, result[j])[k]}
               stage    == First({k \in 1..4 : found(k) # {}})
    <2>1. Address(asked) = {}
      <3>1. asked[1] = "device" /\ asked[2] = result[i].client_name
        OBVIOUS
      <3> QED
        BY <3>1 DEF Address
    <2>2. found(1) = {i}
      <3>1. \A j \in DOMAIN result : Matches(asked, result[j])[1] <=>
               asked = <<"device", result[j].client_name, result[j].name,
                         result[j].client_id, result[j].port_id>>
        BY DEF Matches
      <3>2. \A j \in DOMAIN result : Matches(asked, result[j])[1] => Spot(result[j]) = Spot(result[i])
        BY <3>1 DEF Spot
      <3>3. \A j \in DOMAIN result : Spot(result[j]) = Spot(result[i]) => j = i
        BY DEF IInv, Collected
      <3> QED
        BY <3>1, <3>2, <3>3
    <2>3. DOMAIN result \subseteq Nat
      BY LenProperties DEF IInv, Typed
    <2> HIDE DEF found
    <2>4. stage = 1
      <3> DEFINE T == {k \in 1..4 : found(k) # {}}
      <3>1. T \in SUBSET Nat /\ 1 \in T /\ \A k \in T : 1 <= k
        BY <2>2
      <3> HIDE DEF T
      <3>2. T # {} /\ Smallest(T) \in T /\ Smallest(T) <= 1
        BY <3>1, SmallestIs
      <3>3. Smallest(T) = 1
        <4>1. Smallest(T) \in Nat /\ 1 <= Smallest(T)
          BY <3>1, <3>2
        <4> QED
          BY <3>2, <4>1
      <3>4. First(T) = 1
        BY <3>2, <3>3, Zenon DEF First
      <3> QED
        BY <3>4 DEF T
    <2>5. Smallest({i}) = i
      <3>1. {i} \in SUBSET Nat /\ {i} # {}
        BY <2>3
      <3> QED
        BY <3>1, SmallestIs
    <2>6. _find_port(result, asked) = IF stage = 0 THEN 0 ELSE Smallest(found(stage))
      BY <2>1, Zenon DEF _find_port, found
    <2> HIDE DEF stage
    <2> QED
      BY <2>2, <2>4, <2>5, <2>6
  <1> QED
    BY <1>1, AlwaysIInv, PTL
=============================================================================
