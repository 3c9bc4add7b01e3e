----------------------- MODULE QueueLifecycle_proofs -----------------------
(***************************************************************************)
(* For any number of clients, objects and queue ids: an object that takes  *)
(* a queue for its own is right about it as long as nobody took the queue  *)
(* over, and queues are freed by their owner only.                         *)
(*                                                                         *)
(* The second part is about what a queue, and a client or a port, lets the *)
(* application set (module Settings): whatever the names, types and        *)
(* numbers, a record that is written back changes what was assigned, and   *)
(* set_tempo sets what it was asked for.                                   *)
(***************************************************************************)
EXTENDS QueueLifecycle, Settings, TLAPS

\* What the step of any action needs besides the properties: an object whose
\* queue is the one it was made for is open and the queue is there, one whose queue
\* was taken over is open, and a queue belongs to an open client.
QueuesBelong ==
    /\ \A q \in QueueIds : owner[q] # None => owner[q] \in open
    /\ \A o \in current : IsOpen(o) /\ owner[queue_id[o]] # None
    /\ \A o \in robbed : IsOpen(o)

IInv == TypeOK /\ OwnersOwn /\ OwnersCached /\ QueueHasObject /\ QueuesBelong

USE QueueAssumption

\* Initially there is nothing to be wrong about.
LEMMA InitIInv == Init => IInv
  BY DEF Init, IInv, TypeOK, OwnersOwn, OwnersCached, QueueHasObject, QueuesBelong, IsOpen, Owning

\* Closing an object preserves the types, whoever calls close.
LEMMA CloseTypes ==
    ASSUME TypeOK, NEW o \in Objects, close(o)
    PROVE  /\ owner' \in [QueueIds -> Clients \union {None}]
           /\ usage' \subseteq Clients \X QueueIds
           /\ client' \in [Objects -> Clients \union {None}]
           /\ queue_id' \in [Objects -> QueueIds \union {None}]
           /\ own' \in [Objects -> {"own", "other", "unmanaged"}]
           /\ current' \subseteq current \ {o}
           /\ leaked' \subseteq QueueIds /\ taken' \subseteq QueueIds /\ locked' \subseteq QueueIds
           /\ robbed' = robbed \ {o}
           /\ \A p \in Objects : client'[p] # None => p # o /\ IsOpen(p) /\ queue_id'[p] = queue_id[p]
  BY DEF TypeOK, close, snd_seq_free_queue, Free, StillCurrent, Forget, IsOpen, queues

\* What closing an object does to the ownership of queues: the owning objects
\* that remain are those there were, less the one closed, and only the queue of
\* an owning object that is closed can go, if it is still its client's.
LEMMA CloseOwnership ==
    ASSUME IInv, NEW o \in Objects, close(o), open' = open
    PROVE  /\ \A p \in Objects : Owning(p)' <=> Owning(p) /\ p # o
           /\ \A p \in Objects : p # o => client'[p] = client[p] /\ queue_id'[p] = queue_id[p]
           /\ \A q \in QueueIds : IF Owning(o) /\ q = queue_id[o] /\ owner[q] = client[o]
                                THEN owner'[q] = None ELSE owner'[q] = owner[q]
           /\ current' = StillCurrent(current \ {o})
           /\ robbed' = robbed \ {o}
           /\ \A q \in QueueIds \ (leaked' \union taken') :
                 owner'[q] # None => q \notin leaked \union taken
  <1>1. client[o] # None /\ queue_id[o] \in QueueIds
    BY DEF IInv, TypeOK, close, IsOpen
  <1>2. client[o] \in open /\ own[o] = "own" <=> Owning(o)
    BY <1>1 DEF Owning, IsOpen
  <1>3. CASE Owning(o) /\ owner[queue_id[o]] = client[o]
    <2>2. Free({queue_id[o]}, usage)
      BY <1>1, <1>2, <1>3 DEF close, snd_seq_free_queue
    <2> QED
      BY <1>1, <1>3, <2>2 DEF close, Forget, Free, Owning, IsOpen, IInv, TypeOK, StillCurrent
  <1>4. CASE ~(Owning(o) /\ owner[queue_id[o]] = client[o])
    <2>1. UNCHANGED <<owner, locked, leaked, taken>>
      BY <1>1, <1>2, <1>4 DEF close, snd_seq_free_queue, queues
    <2> QED
      BY <1>1, <1>4, <2>1 DEF close, Forget, Owning, IsOpen, IInv, TypeOK, StillCurrent
  <1> QED
    BY <1>3, <1>4

\* Of the objects that take the queue for their own, a client has one.
LEMMA UniqueFromCached ==
    ASSUME IInv, NEW o \in Objects, NEW p \in Objects, Owning(o), Owning(p),
           queue_id[o] = queue_id[p], client[o] = client[p]
    PROVE  o = p
  BY DEF IInv, OwnersCached

\* Closing an object keeps every part of the invariant that does not mention who
\* refers to objects.
LEMMA CloseInvariant ==
    ASSUME IInv, NEW o \in Objects, close(o), open' = open
    PROVE  OwnersOwn' /\ QueueHasObject' /\ QueuesBelong'
  <1>1. OwnersOwn'
    <2> SUFFICES ASSUME NEW p \in Objects, p \notin robbed', Owning(p)'
                 PROVE  p \in current' /\ owner'[queue_id'[p]] = client'[p]
      BY DEF OwnersOwn
    <2>1. /\ Owning(p) /\ p # o /\ client'[p] = client[p] /\ queue_id'[p] = queue_id[p]
          /\ p \notin robbed
      BY CloseOwnership
    <2>2. p \in current /\ owner[queue_id[p]] = client[p] /\ queue_id[p] \in QueueIds
      BY <2>1 DEF IInv, OwnersOwn, TypeOK, Owning
    <2>3. ~(Owning(o) /\ queue_id[p] = queue_id[o] /\ owner[queue_id[p]] = client[o])
      BY <2>1, <2>2, UniqueFromCached
    <2>4. owner'[queue_id[p]] = client[p]
      BY <2>2, <2>3, CloseOwnership
    <2>5. client[p] # None
      BY <2>1 DEF Owning, IsOpen
    <2> QED
      BY <2>1, <2>2, <2>4, <2>5, CloseOwnership DEF StillCurrent
  <1>2. QueueHasObject'
    <2> SUFFICES ASSUME NEW q \in QueueIds \ (leaked' \union taken'), owner'[q] # None
                 PROVE  \E p \in Objects : Owning(p)' /\ queue_id'[p] = q /\ client'[p] = owner'[q]
      BY DEF QueueHasObject
    <2>1. /\ q \notin leaked \union taken /\ owner'[q] = owner[q]
          /\ ~(Owning(o) /\ q = queue_id[o] /\ owner[q] = client[o])
      BY CloseOwnership
    <2>2. PICK p \in Objects : Owning(p) /\ queue_id[p] = q /\ client[p] = owner[q]
      BY <2>1 DEF IInv, QueueHasObject
    <2> QED
      BY <2>1, <2>2, CloseOwnership
  <1>3. QueuesBelong'
    <2>1. \A q \in QueueIds : owner'[q] # None => owner'[q] \in open'
      BY CloseOwnership DEF IInv, QueuesBelong
    <2>2. \A p \in current' : p \in Objects /\ p \in current /\ p # o /\ owner'[queue_id[p]] # None
      BY CloseOwnership DEF IInv, TypeOK, StillCurrent
    <2>3. \A p \in robbed' : p \in Objects /\ p \in robbed /\ p # o
      <3>1. robbed' = robbed \ {o}
        BY CloseOwnership
      <3> QED
        BY <3>1 DEF IInv, TypeOK
    <2> QED
      BY <2>1, <2>2, <2>3, CloseOwnership DEF IInv, QueuesBelong, IsOpen
  <1> QED
    BY <1>1, <1>2, <1>3

\* What making an object of a kind does to the objects.
Made(o, c, q, how) ==
    /\ o \notin live /\ ~IsOpen(o) /\ ~Owning(o) /\ o \notin current /\ o \notin robbed
    /\ \A p \in Objects : p # o => /\ client'[p] = client[p]
                                /\ queue_id'[p] = queue_id[p]
                                /\ (IsOpen(p)' <=> IsOpen(p))
                                /\ (Owning(p)' <=> Owning(p))
    /\ client'[o] = c /\ queue_id'[o] = q
    /\ IsOpen(o)'
    /\ Owning(o)' <=> how = "own" /\ c \in open

\* Making an object changes no other object.
LEMMA MakeOwnership ==
    ASSUME IInv, NEW o \in Objects, NEW c \in Clients, NEW q \in QueueIds,
           NEW how \in {"own", "other", "unmanaged"},
           Make(o, c, q, how), open' = open
    PROVE  Made(o, c, q, how)
  <1>1. o \notin live /\ ~IsOpen(o) /\ ~Owning(o) /\ o \notin current /\ o \notin robbed
    BY DEF Make, IInv, TypeOK, Owning
  <1>2. client'[o] = c /\ queue_id'[o] = q /\ own'[o] = how
    BY DEF Make, IInv, TypeOK
  <1>3. \A p \in Objects : p # o => client'[p] = client[p] /\ queue_id'[p] = queue_id[p]
                                 /\ own'[p] = own[p]
    BY DEF Make, IInv, TypeOK
  <1> QED
    BY <1>1, <1>2, <1>3 DEF Made, IsOpen, Owning

\* The invariant is inductive: one step per action.
THEOREM Inductive == IInv /\ [Next]_vars => IInv'
  <1> SUFFICES ASSUME IInv, [Next]_vars PROVE IInv'
    OBVIOUS
  <1>1. ASSUME NEW c \in Clients, NEW q \in QueueIds, NEW lock \in Locks,
               create_queue_fails(c, q, lock)
        PROVE  IInv'
    <2>1. TypeOK'
      BY <1>1 DEF IInv, TypeOK, create_queue_fails, Allocate, fields, IsOpen
    <2>2. OwnersOwn' /\ OwnersCached'
      BY <1>1 DEF IInv, TypeOK, OwnersOwn, OwnersCached, create_queue_fails, Allocate, fields,
                  Owning, IsOpen
    <2>3. QueueHasObject' /\ QueuesBelong'
      BY <1>1 DEF IInv, TypeOK, QueueHasObject, QueuesBelong, create_queue_fails, Allocate, fields,
                  Owning, IsOpen
    <2> QED
      BY <2>1, <2>2, <2>3 DEF IInv
  <1>2. ASSUME NEW c \in Clients, NEW q \in QueueIds, NEW o \in Objects, NEW lock \in Locks,
               create_queue(c, q, o, lock)
        PROVE  IInv'
    <2>1. Made(o, c, q, "own") /\ open' = open
      BY <1>2, MakeOwnership DEF create_queue
    <2>2. /\ owner[q] = None /\ taken' = taken
          /\ \A r \in QueueIds : owner'[r] = IF r = q THEN c ELSE owner[r]
      BY <1>2 DEF create_queue, Allocate, IInv, TypeOK
    <2>3. \A p \in Objects \ robbed : Owning(p) => queue_id[p] # q
      BY <2>2 DEF IInv, OwnersOwn, Owning, IsOpen
    <2>4. TypeOK'
      BY <1>2 DEF IInv, TypeOK, create_queue, Allocate, Make, IsOpen
    <2>5. OwnersOwn'
      BY <1>2, <2>1, <2>2, <2>3
         DEF Made, IInv, TypeOK, OwnersOwn, create_queue, Owning, IsOpen
    <2>6. OwnersCached'
      <3>1. \A d \in Clients, r \in QueueIds :
               _queues'[d][r] = IF d = c /\ r = q THEN o ELSE _queues[d][r]
        BY <1>2 DEF create_queue, IInv, TypeOK
      <3> QED
        <4>1. \A p \in Objects : Owning(p) => ~(client[p] = c /\ queue_id[p] = q)
          BY <1>2 DEF create_queue, IInv, OwnersCached
        <4> QED
          BY <2>1, <3>1, <4>1 DEF Made, IInv, TypeOK, OwnersCached, Owning, IsOpen
    <2>7. QueueHasObject'
      BY <1>2, <2>1, <2>2 DEF Made, IInv, QueueHasObject, create_queue, Owning, IsOpen
    <2>8. QueuesBelong'
      BY <1>2, <2>1, <2>2 DEF Made, IInv, TypeOK, QueuesBelong, create_queue, IsOpen
    <2> QED
      BY <2>4, <2>5, <2>6, <2>7, <2>8 DEF IInv
  <1>3. ASSUME NEW c \in Clients, NEW q \in QueueIds, NEW o \in Objects,
               get_queue(c, q, o) \/ Unmanaged(c, q, o)
        PROVE  IInv'
    <2>1. PICK how \in {"other", "unmanaged"} : Make(o, c, q, how)
      BY <1>3 DEF get_queue, Unmanaged
    <2>made. Made(o, c, q, how)
      BY <1>3, <2>1, MakeOwnership DEF get_queue, Unmanaged
    <2>2. /\ open' = open /\ owner' = owner /\ _queues' = _queues /\ leaked' = leaked
          /\ taken' = taken /\ robbed' = robbed /\ locked' = locked
          /\ current' = IF owner[q] # None THEN current \union {o} ELSE current
      BY <1>3 DEF get_queue, Unmanaged, queues
    <2>3. TypeOK'
      BY <1>3, <2>1, <2>2 DEF IInv, TypeOK, get_queue, Unmanaged, Make, IsOpen, queues
    <2>4. \A p \in Objects : Owning(p)' <=> Owning(p) /\ p # o
      BY <2>1, <2>2, <2>made DEF Made, Owning
    <2>5. ~Owning(o)
      BY <2>1, <2>2, <2>made DEF Made, Owning
    <2>6. OwnersOwn' /\ OwnersCached'
      BY <2>1, <2>2, <2>4, <2>made DEF Made, IInv, OwnersOwn, OwnersCached
    <2>7. QueueHasObject'
      BY <2>1, <2>2, <2>4, <2>5, <2>made DEF Made, IInv, QueueHasObject
    <2>8. QueuesBelong'
      BY <2>1, <2>2, <2>made DEF Made, IInv, TypeOK, QueuesBelong
    <2> QED
      BY <2>3, <2>6, <2>7, <2>8 DEF IInv
  <1>4. ASSUME NEW o \in Objects, Close(o)
        PROVE  IInv'
    <2>1. close(o) /\ UNCHANGED <<open, live, _queues>>
      BY <1>4 DEF Close
    <2>2. TypeOK'
      BY <2>1, CloseTypes DEF IInv, TypeOK, IsOpen
    <2>3. OwnersCached'
      BY <2>1, CloseOwnership DEF IInv, OwnersCached
    <2> QED
      BY <2>1, <2>2, <2>3, CloseInvariant DEF IInv
  <1>5. ASSUME NEW o \in Objects, __del__(o)
        PROVE  IInv'
    <2>1. /\ live' = live \ {o} /\ open' = open /\ o \in live
          /\ \A c \in Clients, q \in QueueIds :
                _queues'[c][q] = IF _queues[c][q] = o THEN None ELSE _queues[c][q]
      BY <1>5 DEF __del__
    <2>2. _queues' \in [Clients -> [QueueIds -> Objects \union {None}]]
      BY <1>5 DEF __del__, IInv, TypeOK
    <2>3. CASE client[o] # None
      <3>1. close(o)
        BY <1>5, <2>3 DEF __del__
      <3>2. TypeOK'
        BY <2>1, <2>2, <3>1, CloseTypes DEF IInv, TypeOK, IsOpen
      <3>3. OwnersCached'
        <4> SUFFICES ASSUME NEW p \in Objects, Owning(p)'
                     PROVE  _queues'[client'[p]][queue_id'[p]] = p
          BY DEF OwnersCached
        <4>1. Owning(p) /\ p # o /\ client'[p] = client[p] /\ queue_id'[p] = queue_id[p]
          BY <2>1, <3>1, CloseOwnership
        <4>2. client[p] \in Clients /\ queue_id[p] \in QueueIds
          BY <4>1 DEF IInv, TypeOK, Owning, IsOpen
        <4> QED
          BY <2>1, <4>1, <4>2 DEF IInv, OwnersCached
      <3> QED
        BY <2>1, <3>1, <3>2, <3>3, CloseInvariant DEF IInv
    <2>4. CASE client[o] = None
      <3>1. UNCHANGED <<owner, locked, usage, leaked, taken, current, robbed, fields>>
        BY <1>5, <2>4 DEF __del__, queues
      <3>2. \A p \in Objects : Owning(p)' <=> Owning(p) /\ p # o
        BY <2>1, <2>4, <3>1 DEF Owning, IsOpen, fields
      <3>3. ~Owning(o) /\ o \notin current /\ o \notin robbed
        BY <2>4 DEF Owning, IsOpen, IInv, QueuesBelong
      <3>4. TypeOK'
        BY <2>1, <2>2, <2>4, <3>1, <3>3 DEF IInv, TypeOK, IsOpen, fields
      <3>5. OwnersOwn' /\ QueueHasObject' /\ QueuesBelong'
        BY <2>1, <3>1, <3>2, <3>3
           DEF IInv, TypeOK, OwnersOwn, QueueHasObject, QueuesBelong, IsOpen, fields
      <3>6. OwnersCached'
        BY <2>1, <3>1, <3>2 DEF IInv, TypeOK, OwnersCached, Owning, IsOpen, fields
      <3> QED
        BY <3>4, <3>5, <3>6 DEF IInv
    <2> QED
      BY <2>3, <2>4
  <1>6. ASSUME NEW o \in Objects, NEW b \in UsageCalls, set_usage(o, b)
        PROVE  IInv'
    <2>1. /\ UNCHANGED <<open, owner, locked, live, fields, _queues, current, leaked, taken, robbed>>
          /\ client[o] \in Clients /\ queue_id[o] \in QueueIds
      BY <1>6 DEF set_usage, IInv, TypeOK, IsOpen
    <2>2. usage' \subseteq Clients \X QueueIds
      BY <1>6, <2>1 DEF set_usage, IInv, TypeOK
    <2> QED
      BY <2>1, <2>2 DEF IInv, TypeOK, OwnersOwn, OwnersCached, QueueHasObject, QueuesBelong,
                        Owning, IsOpen, fields
  <1>9. ASSUME NEW c \in Clients, NEW q \in QueueIds, NEW lock \in Locks, set_queue_info(c, q, lock)
        PROVE  IInv'
    <2>1. /\ UNCHANGED <<open, live, fields, _queues, current, leaked>>
          /\ c \in open /\ owner[q] # None
          /\ \A r \in QueueIds : owner'[r] = IF r = q THEN c ELSE owner[r]
      BY <1>9 DEF set_queue_info, MayChange, IInv, TypeOK
    <2>2. /\ owner[q] = c => taken' = taken /\ robbed' = robbed
          /\ owner[q] # c =>
               /\ taken' = taken \union {q}
               /\ robbed' = robbed \union {o \in live : /\ client[o] = owner[q] /\ queue_id[o] = q
                                                        /\ own[o] = "own"}
      BY <1>9 DEF set_queue_info
    <2>3. \A o \in Objects : Owning(o)' <=> Owning(o)
      BY <2>1 DEF Owning, IsOpen, fields
    <2>4. TypeOK'
      <3>1. owner' \in [QueueIds -> Clients \union {None}]
        BY <1>9 DEF set_queue_info, IInv, TypeOK
      <3>2. usage' \subseteq Clients \X QueueIds /\ locked' \subseteq QueueIds
        BY <1>9 DEF set_queue_info, IInv, TypeOK
      <3>3. taken' \subseteq QueueIds /\ robbed' \subseteq live
        BY <2>2 DEF IInv, TypeOK
      <3> QED
        BY <2>1, <3>1, <3>2, <3>3 DEF IInv, TypeOK, IsOpen, fields
    <2>5. OwnersOwn'
      <3> SUFFICES ASSUME NEW o \in Objects, o \notin robbed', Owning(o)'
                   PROVE  o \in current' /\ owner'[queue_id'[o]] = client'[o]
        BY DEF OwnersOwn
      <3>1. o \notin robbed /\ Owning(o)
        BY <2>2, <2>3
      <3>2. o \in current /\ owner[queue_id[o]] = client[o] /\ o \in live /\ queue_id[o] \in QueueIds
        BY <3>1 DEF IInv, OwnersOwn, TypeOK, Owning, IsOpen
      <3>3. queue_id[o] = q => owner[q] = c
        BY <2>2, <3>1, <3>2 DEF Owning
      <3> QED
        BY <2>1, <3>2, <3>3 DEF fields
    <2>6. OwnersCached'
      BY <2>1, <2>3 DEF IInv, OwnersCached, fields
    <2>7. QueueHasObject'
      <3> SUFFICES ASSUME NEW r \in QueueIds \ (leaked' \union taken'), owner'[r] # None
                   PROVE  \E o \in Objects : Owning(o)' /\ queue_id'[o] = r /\ client'[o] = owner'[r]
        BY DEF QueueHasObject
      <3>1. r \notin leaked \union taken /\ owner'[r] = owner[r]
        BY <2>1, <2>2
      <3> QED
        BY <2>1, <2>3, <3>1 DEF IInv, QueueHasObject, fields
    <2>8. QueuesBelong'
      <3>1. \A o \in current : queue_id[o] \in QueueIds
        BY DEF IInv, TypeOK, QueuesBelong
      <3>2. c # None
        BY DEF IInv
      <3>3. \A o \in robbed' : IsOpen(o)
        BY <2>1, <2>2 DEF IInv, QueuesBelong, IsOpen
      <3> QED
        BY <2>1, <3>1, <3>2, <3>3 DEF IInv, QueuesBelong, IsOpen, fields
    <2> QED
      BY <2>4, <2>5, <2>6, <2>7, <2>8 DEF IInv
  <1>7. ASSUME NEW c \in Clients, CloseClient(c)
        PROVE  IInv'
    <2>1. /\ open' = open \ {c} /\ UNCHANGED <<live, fields, _queues, robbed>>
          /\ \A q \in QueueIds : owner'[q] = IF owner[q] = c THEN None ELSE owner[q]
          /\ current' = StillCurrent(current)
          /\ leaked' = leaked \ {q \in QueueIds : owner[q] = c}
          /\ taken' = taken \ {q \in QueueIds : owner[q] = c}
      BY <1>7 DEF CloseClient, Free
    <2>2. TypeOK'
      BY <1>7, <2>1 DEF IInv, TypeOK, CloseClient, Free, StillCurrent, fields, IsOpen
    <2>3. \A p \in Objects : Owning(p)' <=> Owning(p) /\ client[p] # c
      BY <2>1 DEF Owning, IsOpen, fields
    <2>4. OwnersOwn' /\ OwnersCached'
      BY <2>1, <2>3 DEF IInv, TypeOK, OwnersOwn, OwnersCached, StillCurrent, Owning, IsOpen, fields
    <2>5. QueueHasObject'
      BY <2>1, <2>3 DEF IInv, QueueHasObject, fields
    <2>6. QueuesBelong'
      BY <2>1 DEF IInv, TypeOK, QueuesBelong, StillCurrent, IsOpen, fields
    <2> QED
      BY <2>2, <2>4, <2>5, <2>6 DEF IInv
  <1>8. CASE UNCHANGED vars
    BY <1>8 DEF IInv, TypeOK, OwnersOwn, OwnersCached, QueueHasObject, QueuesBelong, Owning, IsOpen,
                vars, queues
  <1> QED
    BY <1>1, <1>2, <1>3, <1>4, <1>5, <1>6, <1>7, <1>8, <1>9 DEF Next

\* The inductive invariant holds throughout.
THEOREM Invariant == Spec => []IInv
  BY InitIInv, Inductive, PTL DEF Spec

\* Every variable keeps its type, and an open object its id.
THEOREM TypeCorrect == Spec => []TypeOK
  BY Invariant, PTL DEF IInv

\* An object never takes another client's queue, or a later one with the same
\* id, for its own, unless a client took its queue over.
THEOREM OwnersAlwaysOwn == Spec => []OwnersOwn
  BY Invariant, PTL DEF IInv

\* The client that created a queue finds the owning object in _queues.
THEOREM OwnersAlwaysCached == Spec => []OwnersCached
  BY Invariant, PTL DEF IInv

\* No queue is left without an owning object but by the failing assertion and by
\* being taken over.
THEOREM QueuesAlwaysHaveObject == Spec => []QueueHasObject
  BY Invariant, PTL DEF IInv

\* A step frees a queue only for its owner.
LEMMA StepFreesOwn ==
    ASSUME IInv, [Next]_vars, NEW q \in QueueIds, owner[q] # None, owner'[q] = None
    PROVE  \/ owner[q] \notin open'
           \/ \E o \in Objects : /\ Owning(o) /\ queue_id[o] = q /\ client[o] = owner[q]
                                 /\ o \in current \union robbed /\ client'[o] = None
  <1>1. ASSUME NEW o \in Objects, close(o), open' = open
        PROVE  \E p \in Objects : /\ Owning(p) /\ queue_id[p] = q /\ client[p] = owner[q]
                                  /\ p \in current \union robbed /\ client'[p] = None
    <2>1. Owning(o) /\ q = queue_id[o] /\ owner[q] = client[o]
      BY <1>1, CloseOwnership
    <2>2. client'[o] = None
      BY <1>1 DEF close, Forget, IInv, TypeOK
    <2> QED
      BY <2>1, <2>2 DEF IInv, OwnersOwn
  <1>2. CASE \E o \in Objects : Close(o) \/ __del__(o)
    BY <1>1, <1>2 DEF Close, __del__, queues
  <1>3. CASE \E c \in Clients : CloseClient(c)
    BY <1>3 DEF CloseClient, Free
  <1>4. ASSUME NEW c \in Clients, NEW r \in QueueIds, NEW o \in Objects
        PROVE  /\ ~get_queue(c, r, o) /\ ~Unmanaged(c, r, o)
               /\ \A lock \in Locks : ~create_queue(c, r, o, lock)
    BY DEF create_queue, get_queue, Unmanaged, Allocate, IInv, TypeOK, queues
  <1>5. ASSUME NEW c \in Clients, NEW r \in QueueIds, NEW lock \in Locks
        PROVE  ~create_queue_fails(c, r, lock) /\ ~set_queue_info(c, r, lock)
    BY DEF create_queue_fails, set_queue_info, Allocate, IInv, TypeOK
  <1>6. ASSUME NEW o \in Objects, NEW b \in UsageCalls, set_usage(o, b)
        PROVE  FALSE
    BY <1>6 DEF set_usage
  <1>7. CASE UNCHANGED vars
    BY <1>7 DEF vars, queues
  <1> QED
    BY <1>2, <1>3, <1>4, <1>5, <1>6, <1>7 DEF Next

\* Whatever ids the kernel hands out again, a queue goes only with its client or
\* with an object that owns it, or did until it was taken over.
THEOREM AlwaysFreedByOwner == Spec => FreedByOwner
  <1>1. IInv /\ [Next]_vars
          => [\A q \in QueueIds :
                owner[q] # None /\ owner'[q] = None =>
                    \/ owner[q] \notin open'
                    \/ \E o \in Objects : /\ Owning(o) /\ queue_id[o] = q /\ client[o] = owner[q]
                                          /\ o \in current \union robbed /\ client'[o] = None]_vars
    BY StepFreesOwn
  <1> QED
    BY <1>1, Invariant, PTL DEF Spec, FreedByOwner

\* A step takes the use of a queue from a client only in one of the four ways.
LEMMA StepGivesUp ==
    ASSUME IInv, [Next]_vars, NEW u \in usage \ usage'
    PROVE  \/ owner'[u[2]] = None
           \/ u[1] \notin open'
           \/ \E o \in Objects : /\ <<client[o], queue_id[o]>> = u
                                 /\ \/ own[o] = "other" /\ client'[o] = None
                                    \/ UNCHANGED <<live, fields>>
  <1>1. ASSUME NEW o \in Objects, close(o)
        PROVE  \/ owner'[u[2]] = None
               \/ <<client[o], queue_id[o]>> = u /\ own[o] = "other" /\ client'[o] = None
    <2>1. client'[o] = None /\ queue_id[o] \in QueueIds
      BY <1>1 DEF close, Forget, IInv, TypeOK, IsOpen
    <2>2. CASE client[o] \in open /\ own[o] = "own"
      BY <1>1, <2>1, <2>2 DEF close, snd_seq_free_queue, Free, IInv, TypeOK, queues
    <2>3. CASE ~(client[o] \in open /\ own[o] = "own")
      BY <1>1, <2>1, <2>3 DEF close
    <2> QED
      BY <2>2, <2>3
  <1>2. CASE \E o \in Objects : Close(o) \/ __del__(o)
    BY <1>1, <1>2 DEF Close, __del__, queues
  <1>3. ASSUME NEW c \in Clients, CloseClient(c)
        PROVE  owner'[u[2]] = None \/ u[1] \notin open'
    BY <1>3 DEF CloseClient, Free, IInv, TypeOK
  <1>4. ASSUME NEW c \in Clients, NEW q \in QueueIds
        PROVE  /\ \A lock \in Locks : /\ ~create_queue_fails(c, q, lock) /\ ~set_queue_info(c, q, lock)
                                      /\ \A o \in Objects : ~create_queue(c, q, o, lock)
               /\ \A o \in Objects : ~get_queue(c, q, o) /\ ~Unmanaged(c, q, o)
    BY DEF create_queue_fails, create_queue, get_queue, Unmanaged, set_queue_info, Allocate, queues
  <1>5. ASSUME NEW o \in Objects, NEW b \in UsageCalls, set_usage(o, b)
        PROVE  <<client[o], queue_id[o]>> = u /\ UNCHANGED <<live, fields>>
    BY <1>5 DEF set_usage
  <1>6. CASE UNCHANGED vars
    BY <1>6 DEF vars, queues
  <1> QED
    BY <1>2, <1>3, <1>4, <1>5, <1>6 DEF Next

\* The use of a queue is never lost to another object or another client.
THEOREM AlwaysUsageGivenUp == Spec => UsageGivenUp
  <1>1. IInv /\ [Next]_vars
          => [\A u \in usage \ usage' :
                \/ owner'[u[2]] = None
                \/ u[1] \notin open'
                \/ \E o \in Objects : /\ <<client[o], queue_id[o]>> = u
                                      /\ \/ own[o] = "other" /\ client'[o] = None
                                         \/ UNCHANGED <<live, fields>>]_vars
    BY StepGivesUp
  <1> QED
    BY <1>1, Invariant, PTL DEF Spec, UsageGivenUp

-----------------------------------------------------------------------------
(* The second part: Settings.                                              *)

HIDE QueueAssumption

\* What the kernel has, by kind.
ClientWire == [name : Names, filter : SUBSET {"BROADCAST", "BOUNCE", "USE_EVENT"},
               events : SUBSET (Types \union {"NONE"})]
PortWire   == [name : Names, capability : 0..1, flags : SUBSET {"TIMESTAMP", "TIME_REAL"}]
QueueWire  == [name : Names \union {NoName}, locked : 0..1]
TempoWire  == [tempo : Nat, ppq : Nat, skew : Nat, skew_base : {SkewBase}]

IsWire(s) ==
    /\ kind = "client" => s \in ClientWire
    /\ kind = "port"   => s \in PortWire
    /\ kind = "queue"  => s \in QueueWire
    /\ kind = "pool"   => s \in ClientPool
    /\ kind = "timer"  => s \in QueueTimer
    /\ kind = "tempo"  => s \in TempoWire

\* What the application has.
IsRecord(i) ==
    /\ kind = "client" => i \in ClientInfo
    /\ kind = "port"   => i \in PortInfo
    /\ kind = "queue"  => i \in QueueInfo
    /\ kind = "pool"   => i \in ClientPool
    /\ kind = "timer"  => i \in QueueTimer
    /\ kind = "tempo"  => i \in QueueTempo

\* Nothing but what was assigned or changed behind its back differs from the kernel's;
\* error_bounce is what the broadcast filter was.
KeptIn(f, i, s, changed) ==
    IF f = "error_bounce"
    THEN "broadcast_filter" \in changed \/ i.error_bounce = from_alsa(s).broadcast_filter
    ELSE f \in changed \/ i[f] = from_alsa(s)[f]

Held ==
    info # None =>
        /\ IsRecord(info)
        /\ \A f \in Attributes \ assigned : KeptIn(f, info, kernel, stale)

SettingsInv == kind \in Kinds /\ IsWire(kernel) /\ Held

\* The kinds there are.
LEMMA SixKinds ==
    ASSUME kind \in Kinds
    PROVE  kind \in {"client", "port", "queue", "pool", "timer", "tempo"}
  BY SettingsAssumption

\* Numbers are numbers.
LEMMA TemposTyped ==
    /\ Tempi \subseteq Nat /\ Ppqs \subseteq Nat /\ Skews \subseteq Nat
    /\ SkewBase \in Nat \ {0} /\ None \notin Nat
  BY SettingsAssumption DEF SkewBase

LEMMA InitSettingsInv == SettingsInit => SettingsInv
  <1> SUFFICES ASSUME SettingsInit
               PROVE  SettingsInv
    OBVIOUS
  <1>1. kind \in Kinds /\ kernel \in New[kind]
    BY DEF SettingsInit
  <1>2. ASSUME kind = "client"
        PROVE  IsWire(kernel)
    <2>1. kernel \in New.client
      BY <1>1, <1>2, Zenon
    <2>2. New.client =
             [name : Names, filter : {{}}, events : {{}}]
      BY DEF New
    <2>3. kernel \in ClientWire
      BY <2>1, <2>2 DEF ClientWire
    <2> QED
      BY <1>2, <2>3 DEF IsWire
  <1>3. ASSUME kind = "port"
        PROVE  IsWire(kernel)
    <2>1. kernel \in New.port
      BY <1>1, <1>3, Zenon
    <2>2. New.port =
             [name : Names, capability : 0..1, flags : {{}, {"TIMESTAMP", "TIME_REAL"}}]
      BY DEF New
    <2>3. kernel \in PortWire
      BY <2>1, <2>2 DEF PortWire
    <2> QED
      BY <1>3, <2>3 DEF IsWire
  <1>4. ASSUME kind = "queue"
        PROVE  IsWire(kernel)
    <2>1. kernel \in New.queue
      BY <1>1, <1>4, Zenon
    <2>2. New.queue =
             [name : Names, locked : 0..1]
      BY DEF New
    <2>3. kernel \in QueueWire
      BY <2>1, <2>2 DEF QueueWire
    <2> QED
      BY <1>4, <2>3 DEF IsWire
  <1>5. ASSUME kind = "pool"
        PROVE  IsWire(kernel)
    <2>1. kernel \in New.pool
      BY <1>1, <1>5, Zenon
    <2>2. New.pool =
             [output_pool : {1}, input_pool : {1}, output_room : 0..1]
      BY DEF New
    <2>3. kernel \in ClientPool
      BY <2>1, <2>2 DEF ClientPool
    <2> QED
      BY <1>5, <2>3 DEF IsWire
  <1>6. ASSUME kind = "timer"
        PROVE  IsWire(kernel)
    <2>1. kernel \in New.timer
      BY <1>1, <1>6, Zenon
    <2>2. New.timer =
             [id : {0}, type : {0}, resolution : 0..1]
      BY DEF New
    <2>3. kernel \in QueueTimer
      BY <2>1, <2>2 DEF QueueTimer
    <2> QED
      BY <1>6, <2>3 DEF IsWire
  <1>7. ASSUME kind = "tempo"
        PROVE  IsWire(kernel)
    <2>1. kernel \in New.tempo
      BY <1>1, <1>7, Zenon
    <2>2. New.tempo =
             [tempo : Tempi, ppq : {96}, skew : {SkewBase}, skew_base : {SkewBase}]
      BY DEF New
    <2>3. Tempi \subseteq Nat /\ 96 \in Nat /\ SkewBase \in Nat
      BY TemposTyped
    <2>4. PICK tempo \in Tempi : kernel = [tempo |-> tempo, ppq |-> 96, skew |-> SkewBase,
                                          skew_base |-> SkewBase]
      BY <2>1, <2>2
    <2>5. kernel \in TempoWire
      BY <2>3, <2>4 DEF TempoWire
    <2> QED
      BY <1>7, <2>5 DEF IsWire
  <1>8. IsWire(kernel)
    BY <1>1, <1>2, <1>3, <1>4, <1>5, <1>6, <1>7, SixKinds
  <1>9. Held
    BY DEF SettingsInit, Held
  <1> QED
    BY <1>1, <1>8, <1>9 DEF SettingsInv

\* What is read is a record, with the same attributes whatever is read.
LEMMA ReadTyped ==
    ASSUME kind \in Kinds, NEW s, IsWire(s)
    PROVE  IsRecord(from_alsa(s))
  <1>1. CASE kind = "client"
    <2>1. from_alsa(s) = client_from_alsa(s) /\ s \in ClientWire
      BY <1>1 DEF from_alsa, IsWire
    <2> DEFINE b == "BROADCAST" \in s.filter
               t == IF "USE_EVENT" \in s.filter THEN s.events \ {"NONE"} ELSE None
    <2>2. s.name \in Names \union {NoName} /\ s.events \in SUBSET (Types \union {"NONE"})
      BY <2>1 DEF ClientWire
    <2>3. b \in BOOLEAN /\ t \in {None} \union SUBSET (Types \union {"NONE"})
      BY <2>2
    <2>4. client_from_alsa(s) =
             [name |-> s.name, broadcast_filter |-> b, error_bounce |-> b, event_filter |-> t]
      BY Zenon DEF client_from_alsa
    <2> HIDE DEF b, t
    <2>5. client_from_alsa(s) \in ClientInfo
      BY <2>2, <2>3, <2>4 DEF ClientInfo
    <2> QED
      BY <1>1, <2>1, <2>5 DEF IsRecord
  <1>2. CASE kind = "port"
    <2>1. from_alsa(s) = port_from_alsa(s) /\ s \in PortWire
      BY <1>2 DEF from_alsa, IsWire
    <2> DEFINE t == "TIMESTAMP" \in s.flags
               r == "TIME_REAL" \in s.flags
    <2>2. s.name \in Names \union {NoName} /\ s.capability \in 0..1
      BY <2>1 DEF PortWire
    <2>3. t \in BOOLEAN /\ r \in BOOLEAN
      OBVIOUS
    <2>4. port_from_alsa(s) =
             [name |-> s.name, capability |-> s.capability, timestamping |-> t,
              timestamp_real |-> r]
      BY Zenon DEF port_from_alsa
    <2> HIDE DEF t, r
    <2>5. port_from_alsa(s) \in PortInfo
      BY <2>2, <2>3, <2>4 DEF PortInfo
    <2> QED
      BY <1>2, <2>1, <2>5 DEF IsRecord
  <1>3. CASE kind = "queue"
    <2>1. from_alsa(s) = queue_from_alsa(s) /\ s \in QueueWire
      BY <1>3 DEF from_alsa, IsWire
    <2>2. queue_from_alsa(s) \in QueueInfo
      BY <2>1 DEF queue_from_alsa, QueueWire, QueueInfo
    <2> QED
      BY <1>3, <2>1, <2>2 DEF IsRecord
  <1>4. CASE kind = "pool"
    <2>1. from_alsa(s) = pool_from_alsa(s) /\ s \in ClientPool
      BY <1>4 DEF from_alsa, IsWire
    <2>2. pool_from_alsa(s) \in ClientPool
      BY <2>1 DEF pool_from_alsa, ClientPool
    <2> QED
      BY <1>4, <2>1, <2>2 DEF IsRecord
  <1>5. CASE kind = "timer"
    <2>1. from_alsa(s) = timer_from_alsa(s) /\ s \in QueueTimer
      BY <1>5 DEF from_alsa, IsWire
    <2>2. timer_from_alsa(s) \in QueueTimer
      BY <2>1 DEF timer_from_alsa, QueueTimer
    <2> QED
      BY <1>5, <2>1, <2>2 DEF IsRecord
  <1>6. CASE kind = "tempo"
    <2>1. from_alsa(s) = tempo_from_alsa(s) /\ s \in TempoWire
      BY <1>6 DEF from_alsa, IsWire
    <2>2. tempo_from_alsa(s) \in QueueTempo
      BY <2>1 DEF tempo_from_alsa, TempoWire, QueueTempo
    <2> QED
      BY <1>6, <2>1, <2>2 DEF IsRecord
  <1> QED
    BY <1>1, <1>2, <1>3, <1>4, <1>5, <1>6, SixKinds

LEMMA Fields ==
    ASSUME kind \in Kinds, IsWire(kernel), NEW i, IsRecord(i)
    PROVE  /\ DOMAIN i = Attributes
           /\ kind = "client" =>
                Attributes = {"name", "broadcast_filter", "error_bounce", "event_filter"}
           /\ kind = "port" =>
                Attributes = {"name", "capability", "timestamping", "timestamp_real"}
           /\ kind = "queue" => Attributes = {"name", "locked"}
           /\ kind = "pool" => Attributes = {"output_pool", "input_pool", "output_room"}
           /\ kind = "timer" => Attributes = {"id", "type", "resolution"}
           /\ kind = "tempo" => Attributes = {"tempo", "ppq", "skew", "skew_base"}
  <1>0. IsRecord(from_alsa(kernel))
    BY ReadTyped
  <1>1. ASSUME kind = "client", NEW j, IsRecord(j)
        PROVE  DOMAIN j = {"name", "broadcast_filter", "error_bounce", "event_filter"}
    BY <1>1 DEF IsRecord, ClientInfo
  <1>2. ASSUME kind = "port", NEW j, IsRecord(j)
        PROVE  DOMAIN j = {"name", "capability", "timestamping", "timestamp_real"}
    BY <1>2 DEF IsRecord, PortInfo
  <1>3. ASSUME kind = "queue", NEW j, IsRecord(j)
        PROVE  DOMAIN j = {"name", "locked"}
    BY <1>3 DEF IsRecord, QueueInfo
  <1>4. ASSUME kind = "pool", NEW j, IsRecord(j)
        PROVE  DOMAIN j = {"output_pool", "input_pool", "output_room"}
    BY <1>4 DEF IsRecord, ClientPool
  <1>5. ASSUME kind = "timer", NEW j, IsRecord(j)
        PROVE  DOMAIN j = {"id", "type", "resolution"}
    BY <1>5 DEF IsRecord, QueueTimer
  <1>6. ASSUME kind = "tempo", NEW j, IsRecord(j)
        PROVE  DOMAIN j = {"tempo", "ppq", "skew", "skew_base"}
    BY <1>6 DEF IsRecord, QueueTempo
  <1> QED
    BY <1>0, <1>1, <1>2, <1>3, <1>4, <1>5, <1>6, SixKinds DEF Attributes

\* A record stays one when an attribute is assigned.
LEMMA ValuesAre ==
    ASSUME NEW f, NEW v \in Values(f)
    PROVE  /\ f = "name" => v \in Names \union {NoName}
           /\ f \in {"broadcast_filter", "error_bounce", "timestamping", "timestamp_real",
                     "locked"} => v \in BOOLEAN
           /\ f = "event_filter" => v \in {None} \union SUBSET (Types \union {"NONE"})
           /\ f \in {"tempo", "ppq"} => v \in Nat
           /\ f = "skew" => v \in Nat \union {None}
           /\ f = "skew_base" => v \in {SkewBase, None}
           /\ f \in {"capability", "output_pool", "input_pool", "output_room", "id", "type",
                     "resolution"} => v \in 0..1
  BY SettingsAssumption DEF Values

LEMMA AssignTyped ==
    ASSUME kind \in Kinds, IsWire(kernel), NEW i, IsRecord(i),
           NEW f \in Attributes, NEW v \in Values(f)
    PROVE  IsRecord([i EXCEPT ![f] = v])
  <1>1. CASE kind = "client"
    <2>1. i \in ClientInfo /\ f \in {"name", "broadcast_filter", "error_bounce", "event_filter"}
      BY <1>1, Fields DEF IsRecord
    <2>2. [i EXCEPT ![f] = v] \in ClientInfo
      BY <2>1, ValuesAre DEF ClientInfo
    <2> QED
      BY <1>1, <2>2 DEF IsRecord
  <1>2. CASE kind = "port"
    <2>1. i \in PortInfo /\ f \in {"name", "capability", "timestamping", "timestamp_real"}
      BY <1>2, Fields DEF IsRecord
    <2>2. [i EXCEPT ![f] = v] \in PortInfo
      BY <2>1, ValuesAre DEF PortInfo
    <2> QED
      BY <1>2, <2>2 DEF IsRecord
  <1>3. CASE kind = "queue"
    <2>1. i \in QueueInfo /\ f \in {"name", "locked"}
      BY <1>3, Fields DEF IsRecord
    <2>2. [i EXCEPT ![f] = v] \in QueueInfo
      BY <2>1, ValuesAre DEF QueueInfo
    <2> QED
      BY <1>3, <2>2 DEF IsRecord
  <1>4. CASE kind = "pool"
    <2>1. i \in ClientPool /\ f \in {"output_pool", "input_pool", "output_room"}
      BY <1>4, Fields DEF IsRecord
    <2>2. [i EXCEPT ![f] = v] \in ClientPool
      BY <2>1, ValuesAre DEF ClientPool
    <2> QED
      BY <1>4, <2>2 DEF IsRecord
  <1>5. CASE kind = "timer"
    <2>1. i \in QueueTimer /\ f \in {"id", "type", "resolution"}
      BY <1>5, Fields DEF IsRecord
    <2>2. [i EXCEPT ![f] = v] \in QueueTimer
      BY <2>1, ValuesAre DEF QueueTimer
    <2> QED
      BY <1>5, <2>2 DEF IsRecord
  <1>6. CASE kind = "tempo"
    <2>1. i \in QueueTempo /\ f \in {"tempo", "ppq", "skew", "skew_base"}
      BY <1>6, Fields DEF IsRecord
    <2>2. [i EXCEPT ![f] = v] \in QueueTempo
      BY <2>1, ValuesAre DEF QueueTempo
    <2> QED
      BY <1>6, <2>2 DEF IsRecord
  <1> QED
    BY <1>1, <1>2, <1>3, <1>4, <1>5, <1>6, SixKinds

LEMMA DefaultTyped ==
    ASSUME kind \in Kinds
    PROVE  IsRecord(Default)
  <1>1. CASE kind = "client"
    <2>1. Default = [name |-> NoName, broadcast_filter |-> FALSE, error_bounce |-> FALSE,
                     event_filter |-> None]
      BY <1>1 DEF Default
    <2>2. Default \in ClientInfo
      BY <2>1 DEF ClientInfo
    <2> QED
      BY <1>1, <2>2 DEF IsRecord
  <1>2. CASE kind = "port"
    <2>1. Default = [name |-> NoName, capability |-> 0, timestamping |-> FALSE,
                     timestamp_real |-> FALSE]
      BY <1>2 DEF Default
    <2>2. Default \in PortInfo
      BY <2>1 DEF PortInfo
    <2> QED
      BY <1>2, <2>2 DEF IsRecord
  <1>3. CASE kind = "queue"
    <2>1. Default = [name |-> NoName, locked |-> FALSE]
      BY <1>3 DEF Default
    <2>2. Default \in QueueInfo
      BY <2>1 DEF QueueInfo
    <2> QED
      BY <1>3, <2>2 DEF IsRecord
  <1>4. CASE kind = "pool"
    <2>1. Default = [output_pool |-> 0, input_pool |-> 0, output_room |-> 0]
      BY <1>4 DEF Default
    <2>2. Default \in ClientPool
      BY <2>1 DEF ClientPool
    <2> QED
      BY <1>4, <2>2 DEF IsRecord
  <1>5. CASE kind = "timer"
    <2>1. Default = [id |-> 0, type |-> 0, resolution |-> 0]
      BY <1>5 DEF Default
    <2>2. Default \in QueueTimer
      BY <2>1 DEF QueueTimer
    <2> QED
      BY <1>5, <2>2 DEF IsRecord
  <1>6. CASE kind = "tempo"
    <2>1. Default = [tempo |-> 500000, ppq |-> 96, skew |-> None, skew_base |-> None]
      BY <1>6 DEF Default
    <2>2. Default \in QueueTempo
      BY <2>1 DEF QueueTempo
    <2> QED
      BY <1>6, <2>2 DEF IsRecord
  <1> QED
    BY <1>1, <1>2, <1>3, <1>4, <1>5, <1>6, SixKinds

\* A call of set_tempo.
Call == [tempo : Nat \union {None}, record : QueueTempo \union {None}, ppq : Nat \union {None},
         skew : Nat \union {None}, skew_base : {SkewBase, None},
         bpm : (Nat \ {0}) \union {None}]

\* The structure it fills in.
TempoSent == [tempo : Nat, ppq : Nat, skew : Nat, skew_base : {0, SkewBase}]

LEMMA RecordIsNotNone ==
    None \notin QueueTempo /\ None \notin Nat
  BY SettingsAssumption

\* What a call takes from the record.
LEMMA OfRecordTyped ==
    ASSUME NEW args \in Call
    PROVE  /\ OfRecord(args, "tempo") \in Nat \union {None}
           /\ OfRecord(args, "ppq") \in Nat \union {None}
           /\ OfRecord(args, "skew") \in Nat \union {None}
           /\ OfRecord(args, "skew_base") \in {SkewBase, None}
           /\ args.record # None => OfRecord(args, "tempo") \in Nat
  <1>1. args.record \in QueueTempo \union {None}
    BY DEF Call
  <1>2. CASE args.record = None
    BY <1>2 DEF OfRecord
  <1>3. CASE args.record # None
    <2> DEFINE r == args.record
    <2>1. r \in QueueTempo
      BY <1>1, <1>3
    <2>2. /\ OfRecord(args, "tempo") = r.tempo /\ OfRecord(args, "ppq") = r.ppq
          /\ OfRecord(args, "skew") = r.skew /\ OfRecord(args, "skew_base") = r.skew_base
      BY <1>3 DEF OfRecord
    <2> HIDE DEF r
    <2>3. /\ r.tempo \in Nat /\ r.ppq \in Nat /\ r.skew \in Nat \union {None}
          /\ r.skew_base \in {SkewBase, None}
      BY <2>1 DEF QueueTempo
    <2> QED
      BY <2>2, <2>3
  <1> QED
    BY <1>2, <1>3

\* The first of two values that is given.
LEMMA FirstIsGiven ==
    ASSUME NEW T, NEW a \in T \union {None}, NEW b \in T \union {None}
    PROVE  /\ FirstGiven(a, b) \in T \union {None}
           /\ a # None \/ b # None => FirstGiven(a, b) \in T
  <1>1. CASE a = None
    BY <1>1 DEF FirstGiven
  <1>2. CASE a # None
    BY <1>2 DEF FirstGiven
  <1> QED
    BY <1>1, <1>2

\* A call that does not raise sends a tempo, a resolution, a skew and a base.
LEMMA CallSent ==
    ASSUME NEW args \in Call, ~BadArguments(args)
    PROVE  tempo_to_alsa(args) \in TempoSent
  <1> DEFINE rt == OfRecord(args, "tempo")
             rp == OfRecord(args, "ppq")
             rs == OfRecord(args, "skew")
             rb == OfRecord(args, "skew_base")
             skew == FirstGiven(args.skew, rs)
             base == FirstGiven(args.skew_base, rb)
             t == IF args.bpm # None THEN Minute \div args.bpm ELSE FirstGiven(args.tempo, rt)
             p == FirstGiven(FirstGiven(args.ppq, rp), 96)
             w == IF Unset(skew) THEN 0 ELSE skew
             b == IF ~Unset(base) THEN base ELSE IF Unset(skew) THEN 0 ELSE SkewBase
  <1>1. tempo_to_alsa(args) = [tempo |-> t, ppq |-> p, skew |-> w, skew_base |-> b]
    BY DEF tempo_to_alsa
  <1>2. /\ rt \in Nat \union {None} /\ rp \in Nat \union {None} /\ rs \in Nat \union {None}
        /\ rb \in {SkewBase, None}
        /\ args.record # None => rt \in Nat
    BY OfRecordTyped
  <1>3. /\ args.tempo \in Nat \union {None} /\ args.ppq \in Nat \union {None}
        /\ args.skew \in Nat \union {None} /\ args.skew_base \in {SkewBase, None}
        /\ args.bpm \in (Nat \ {0}) \union {None}
    BY DEF Call
  <1>4. args.bpm # None \/ args.tempo # None \/ args.record # None
    BY DEF BadArguments
  <1> HIDE DEF rt, rp, rs, rb
  <1>5. t \in Nat
    <2>1. CASE args.bpm # None
      <3> DEFINE n == args.bpm
      <3>1. n \in Nat \ {0}
        BY <1>3, <2>1
      <3> HIDE DEF n
      <3>2. Minute \div n \in Nat
        BY <3>1 DEF Minute
      <3> QED
        BY <2>1, <3>2 DEF n
    <2>2. CASE args.bpm = None
      <3>1. FirstGiven(args.tempo, rt) \in Nat
        <4>1. args.tempo # None \/ rt # None
          BY <1>2, <1>4, <2>2, RecordIsNotNone
        <4> QED
          BY <1>2, <1>3, <4>1, FirstIsGiven, Zenon
      <3> QED
        BY <2>2, <3>1
    <2> QED
      BY <2>1, <2>2
  <1>6. p \in Nat
    <2> DEFINE q == FirstGiven(args.ppq, rp)
    <2>1. q \in Nat \union {None}
      BY <1>2, <1>3, FirstIsGiven, Zenon
    <2> HIDE DEF q
    <2>2. FirstGiven(q, 96) \in Nat
      BY <2>1 DEF FirstGiven
    <2> QED
      BY <2>2 DEF q
  <1>7. skew \in Nat \union {None} /\ base \in {SkewBase, None}
    <2>1. args.skew_base \in {SkewBase} \union {None} /\ rb \in {SkewBase} \union {None}
      BY <1>2, <1>3
    <2>2. skew \in Nat \union {None}
      BY <1>2, <1>3, FirstIsGiven, Zenon
    <2>3. base \in {SkewBase} \union {None}
      BY <2>1, FirstIsGiven, Zenon
    <2> QED
      BY <2>2, <2>3
  <1> HIDE DEF skew, base
  <1>8. w \in Nat
    BY <1>7, RecordIsNotNone DEF Unset
  <1>9. b \in {0, SkewBase}
    BY <1>7 DEF Unset
  <1> HIDE DEF t, p, w, b
  <1>10. [tempo |-> t, ppq |-> p, skew |-> w, skew_base |-> b] \in TempoSent
    BY <1>5, <1>6, <1>8, <1>9 DEF TempoSent
  <1> QED
    BY <1>1, <1>10

\* The call with nothing but a record sends the record.
LEMMA RecordSent ==
    ASSUME NEW i \in QueueTempo
    PROVE  /\ JustRecord(i) \in Call /\ ~BadArguments(JustRecord(i))
           /\ tempo_to_alsa(JustRecord(i)) =
                 [tempo |-> i.tempo, ppq |-> i.ppq,
                  skew |-> IF Unset(i.skew) THEN 0 ELSE i.skew,
                  skew_base |-> IF ~Unset(i.skew_base) THEN i.skew_base
                                ELSE IF Unset(i.skew) THEN 0 ELSE SkewBase]
  <1> DEFINE a == JustRecord(i)
  <1>1. /\ a.tempo = None /\ a.record = i /\ a.ppq = None /\ a.skew = None
        /\ a.skew_base = None /\ a.bpm = None
    BY DEF JustRecord
  <1>2. a \in Call
    BY DEF JustRecord, Call
  <1>3. i # None
    BY RecordIsNotNone
  <1> HIDE DEF a
  <1>4. ~BadArguments(a)
    BY <1>1, <1>3 DEF BadArguments
  <1>5. /\ OfRecord(a, "tempo") = i.tempo /\ OfRecord(a, "ppq") = i.ppq
        /\ OfRecord(a, "skew") = i.skew /\ OfRecord(a, "skew_base") = i.skew_base
    BY <1>1, <1>3 DEF OfRecord
  <1>6. i.ppq # None
    BY RecordIsNotNone DEF QueueTempo
  <1>7. /\ FirstGiven(a.tempo, OfRecord(a, "tempo")) = i.tempo
        /\ FirstGiven(FirstGiven(a.ppq, OfRecord(a, "ppq")), 96) = i.ppq
        /\ FirstGiven(a.skew, OfRecord(a, "skew")) = i.skew
        /\ FirstGiven(a.skew_base, OfRecord(a, "skew_base")) = i.skew_base
    BY <1>1, <1>5, <1>6 DEF FirstGiven
  <1>8. tempo_to_alsa(a) =
                 [tempo |-> i.tempo, ppq |-> i.ppq,
                  skew |-> IF Unset(i.skew) THEN 0 ELSE i.skew,
                  skew_base |-> IF ~Unset(i.skew_base) THEN i.skew_base
                                ELSE IF Unset(i.skew) THEN 0 ELSE SkewBase]
    BY <1>1, <1>7 DEF tempo_to_alsa
  <1> QED
    BY <1>2, <1>4, <1>8 DEF a

\* What a client and a port send.
ClientSent == [name : Names \union {NoName},
               filter : SUBSET {"BROADCAST", "BOUNCE", "USE_EVENT"},
               events : SUBSET (Types \union {"NONE"})]
PortSent   == [name : Names \union {NoName}, capability : 0..1,
               flags : SUBSET {"TIMESTAMP", "TIME_REAL"}]

LEMMA ClientSends ==
    ASSUME NEW i \in ClientInfo
    PROVE  client_to_alsa(i) \in ClientSent
  <1> DEFINE w == (IF i.broadcast_filter THEN {"BROADCAST"} ELSE {})
                  \union (IF i.error_bounce THEN {"BOUNCE"} ELSE {})
                  \union (IF i.event_filter \in {None, {}} THEN {} ELSE {"USE_EVENT"})
             e == IF i.event_filter = None THEN {} ELSE i.event_filter
  <1>1. client_to_alsa(i) = [name |-> i.name, filter |-> w, events |-> e]
    BY Zenon DEF client_to_alsa
  <1>2. i.name \in Names \union {NoName}
    BY DEF ClientInfo
  <1>3. i.event_filter \in {None} \union SUBSET (Types \union {"NONE"})
    BY DEF ClientInfo
  <1>4. e \in SUBSET (Types \union {"NONE"})
    BY <1>3
  <1>5. w \in SUBSET {"BROADCAST", "BOUNCE", "USE_EVENT"}
    OBVIOUS
  <1> HIDE DEF w, e
  <1>6. [name |-> i.name, filter |-> w, events |-> e] \in ClientSent
    BY <1>2, <1>4, <1>5 DEF ClientSent
  <1> QED
    BY <1>1, <1>6, Zenon

LEMMA PortSends ==
    ASSUME NEW i \in PortInfo
    PROVE  port_to_alsa(i) \in PortSent
  <1> DEFINE w == (IF i.timestamping THEN {"TIMESTAMP"} ELSE {})
                  \union (IF i.timestamp_real THEN {"TIME_REAL"} ELSE {})
  <1>1. port_to_alsa(i) = [name |-> i.name, capability |-> i.capability, flags |-> w]
    BY Zenon DEF port_to_alsa
  <1>2. i.name \in Names \union {NoName} /\ i.capability \in 0..1
    BY DEF PortInfo
  <1>3. w \in SUBSET {"TIMESTAMP", "TIME_REAL"}
    OBVIOUS
  <1> HIDE DEF w
  <1>4. [name |-> i.name, capability |-> i.capability, flags |-> w] \in PortSent
    BY <1>2, <1>3 DEF PortSent
  <1> QED
    BY <1>1, <1>4, Zenon

\* What the kernel has of what is sent.
LEMMA StoredIs ==
    ASSUME NEW k, NEW s
    PROVE  /\ kind \in {"client", "port"} =>
                Stored(k, s) = [s EXCEPT !.name = IF s.name = NoName THEN k.name ELSE s.name]
           /\ kind = "tempo" =>
                Stored(k, s) = IF s.skew_base = 0
                                 THEN [k EXCEPT !.tempo = s.tempo, !.ppq = s.ppq] ELSE s
           /\ kind \in {"queue", "pool", "timer"} => Stored(k, s) = s
  BY DEF Stored

LEMMA TempoStored ==
    ASSUME kind = "tempo", NEW k \in TempoWire, NEW s \in TempoSent
    PROVE  Stored(k, s) \in TempoWire
  <1>1. CASE s.skew_base = 0
    <2>1. Stored(k, s) = [k EXCEPT !.tempo = s.tempo, !.ppq = s.ppq]
      BY <1>1, StoredIs
    <2>2. s.tempo \in Nat /\ s.ppq \in Nat
      BY DEF TempoSent
    <2>3. [k EXCEPT !.tempo = s.tempo, !.ppq = s.ppq] \in TempoWire
      BY <2>2 DEF TempoWire
    <2> QED
      BY <2>1, <2>3
  <1>2. CASE s.skew_base # 0
    <2>1. Stored(k, s) = s
      BY <1>2, StoredIs
    <2>2. s \in TempoWire
      BY <1>2 DEF TempoSent, TempoWire
    <2> QED
      BY <2>1, <2>2
  <1> QED
    BY <1>1, <1>2

LEMMA StoredTyped ==
    ASSUME kind \in Kinds,
           NEW k, IsWire(k), NEW i, IsRecord(i)
    PROVE  IsWire(Stored(k, to_alsa(i)))
  <1>1. CASE kind = "client"
    <2> DEFINE s == client_to_alsa(i)
               n == IF s.name = NoName THEN k.name ELSE s.name
    <2>1. to_alsa(i) = s
      BY <1>1 DEF to_alsa
    <2>2. s \in ClientSent
      BY <1>1, ClientSends DEF IsRecord
    <2> HIDE DEF s
    <2>3. Stored(k, s) = [s EXCEPT !.name = n]
      BY <1>1, StoredIs, Zenon
    <2>4. k.name \in Names
      BY <1>1 DEF IsWire, ClientWire
    <2>5. n \in Names
      BY <2>2, <2>4 DEF ClientSent
    <2> HIDE DEF n
    <2>6. [s EXCEPT !.name = n] \in ClientWire
      BY <2>2, <2>5 DEF ClientSent, ClientWire
    <2> QED
      BY <1>1, <2>1, <2>3, <2>6 DEF IsWire
  <1>2. CASE kind = "port"
    <2> DEFINE s == port_to_alsa(i)
               n == IF s.name = NoName THEN k.name ELSE s.name
    <2>1. to_alsa(i) = s
      BY <1>2 DEF to_alsa
    <2>2. s \in PortSent
      BY <1>2, PortSends DEF IsRecord
    <2> HIDE DEF s
    <2>3. Stored(k, s) = [s EXCEPT !.name = n]
      BY <1>2, StoredIs, Zenon
    <2>4. k.name \in Names
      BY <1>2 DEF IsWire, PortWire
    <2>5. n \in Names
      BY <2>2, <2>4 DEF PortSent
    <2> HIDE DEF n
    <2>6. [s EXCEPT !.name = n] \in PortWire
      BY <2>2, <2>5 DEF PortSent, PortWire
    <2> QED
      BY <1>2, <2>1, <2>3, <2>6 DEF IsWire
  <1>3. CASE kind = "queue"
    <2>1. Stored(k, to_alsa(i)) = queue_to_alsa(i)
      BY <1>3, StoredIs DEF to_alsa
    <2>2. i \in QueueInfo
      BY <1>3 DEF IsRecord
    <2>3. queue_to_alsa(i) \in QueueWire
      BY <2>2 DEF queue_to_alsa, QueueInfo, QueueWire
    <2> QED
      BY <1>3, <2>1, <2>3 DEF IsWire
  <1>4. CASE kind = "pool"
    <2>1. Stored(k, to_alsa(i)) = pool_to_alsa(i)
      BY <1>4, StoredIs DEF to_alsa
    <2>2. i \in ClientPool
      BY <1>4 DEF IsRecord
    <2>3. pool_to_alsa(i) \in ClientPool
      BY <2>2 DEF pool_to_alsa, ClientPool
    <2> QED
      BY <1>4, <2>1, <2>3 DEF IsWire
  <1>5. CASE kind = "timer"
    <2>1. Stored(k, to_alsa(i)) = timer_to_alsa(i)
      BY <1>5, StoredIs DEF to_alsa
    <2>2. i \in QueueTimer
      BY <1>5 DEF IsRecord
    <2>3. timer_to_alsa(i) \in QueueTimer
      BY <2>2 DEF timer_to_alsa, QueueTimer
    <2> QED
      BY <1>5, <2>1, <2>3 DEF IsWire
  <1>6. CASE kind = "tempo"
    <2>1. to_alsa(i) = tempo_to_alsa(JustRecord(i))
      BY <1>6 DEF to_alsa
    <2>2. i \in QueueTempo /\ k \in TempoWire
      BY <1>6 DEF IsRecord, IsWire
    <2>3. tempo_to_alsa(JustRecord(i)) \in TempoSent
      BY <2>2, RecordSent, CallSent
    <2>4. Stored(k, to_alsa(i)) \in TempoWire
      BY <1>6, <2>1, <2>2, <2>3, TempoStored
    <2> QED
      BY <1>6, <2>4 DEF IsWire
  <1> QED
    BY <1>1, <1>2, <1>3, <1>4, <1>5, <1>6, SixKinds

\* The attributes of a client's structure.
LEMMA ClientAttributes ==
    ASSUME kind = "client", NEW s \in ClientWire
    PROVE  /\ Attribute(s).name = s.name
           /\ Attribute(s).broadcast_filter = ("BROADCAST" \in s.filter)
           /\ Attribute(s).error_bounce = ("BOUNCE" \in s.filter)
           /\ Attribute(s).event_filter = IF "USE_EVENT" \in s.filter THEN s.events ELSE None
           /\ from_alsa(s).name = s.name
           /\ from_alsa(s).broadcast_filter = ("BROADCAST" \in s.filter)
           /\ from_alsa(s).error_bounce = ("BROADCAST" \in s.filter)
           /\ from_alsa(s).event_filter =
                 IF "USE_EVENT" \in s.filter THEN s.events \ {"NONE"} ELSE None
           /\ s.events # None /\ s.events \ {"NONE"} # None
  <1> DEFINE b == "BROADCAST" \in s.filter
             n == "BOUNCE" \in s.filter
             u == "USE_EVENT" \in s.filter
             e == IF u THEN s.events \ {"NONE"} ELSE None
             c == client_from_alsa(s)
             a == IF c.event_filter = None THEN None ELSE s.events
  <1>1. c = [name |-> s.name, broadcast_filter |-> b, error_bounce |-> b, event_filter |-> e]
    BY Zenon DEF client_from_alsa
  <1>2. from_alsa(s) = c
    BY DEF from_alsa
  <1>3. Attribute(s) = [c EXCEPT !.error_bounce = n, !.event_filter = a]
    BY DEF Attribute
  <1>4. s.events \in SUBSET (Types \union {"NONE"})
    BY DEF ClientWire
  <1>5. s.events \ {"NONE"} \in SUBSET (Types \union {"NONE"})
    BY <1>4
  <1>6. s.events # None /\ s.events \ {"NONE"} # None
    BY <1>4, <1>5, SettingsAssumption, Zenon
  <1>7. DOMAIN c = {"name", "broadcast_filter", "error_bounce", "event_filter"}
    BY <1>1
  <1> HIDE DEF b, e, c
  <1>8. c.name = s.name /\ c.broadcast_filter = b /\ c.error_bounce = b /\ c.event_filter = e
    BY <1>1
  <1>9. a = IF u THEN s.events ELSE None
    BY <1>6, <1>8, Zenon DEF e
  <1> HIDE DEF a, n
  <1>10. /\ Attribute(s).name = c.name /\ Attribute(s).broadcast_filter = c.broadcast_filter
         /\ Attribute(s).error_bounce = n /\ Attribute(s).event_filter = a
    BY <1>3, <1>7, Zenon
  <1>11. Attribute(s).event_filter = IF u THEN s.events ELSE None
    BY <1>9, <1>10
  <1>12. from_alsa(s).event_filter = IF u THEN s.events \ {"NONE"} ELSE None
    BY <1>2, <1>8 DEF e
  <1> QED
    BY <1>2, <1>6, <1>8, <1>10, <1>11, <1>12 DEF b, n

\* An attribute that has not changed is read as before; error_bounce is not read.
LEMMA AttributeTells ==
    ASSUME kind \in Kinds, NEW k, IsWire(k), NEW s, IsWire(s),
           NEW f, f \in DOMAIN from_alsa(k), f # "error_bounce",
           Attribute(s)[f] = Attribute(k)[f]
    PROVE  from_alsa(s)[f] = from_alsa(k)[f]
  <1>1. CASE kind # "client"
    BY <1>1, Zenon DEF Attribute
  <1>2. CASE kind = "client"
    <2>1. s \in ClientWire /\ k \in ClientWire
      BY <1>2 DEF IsWire
    <2>2. f \in {"name", "broadcast_filter", "event_filter"}
      <3>1. IsRecord(from_alsa(k))
        BY ReadTyped
      <3> QED
        BY <1>2, <3>1 DEF IsRecord, ClientInfo
    <2>3. CASE f = "name"
      <3>1. Attribute(s).name = Attribute(k).name
        BY <2>3, Zenon
      <3>2. from_alsa(s).name = from_alsa(k).name
        BY <1>2, <2>1, <3>1, ClientAttributes, Zenon
      <3> QED
        BY <2>3, <3>2, Zenon
    <2>4. CASE f = "broadcast_filter"
      <3>1. Attribute(s).broadcast_filter = Attribute(k).broadcast_filter
        BY <2>4, Zenon
      <3>2. from_alsa(s).broadcast_filter = from_alsa(k).broadcast_filter
        BY <1>2, <2>1, <3>1, ClientAttributes, Zenon
      <3> QED
        BY <2>4, <3>2, Zenon
    <2>5. CASE f = "event_filter"
      <3>1. Attribute(s).event_filter = Attribute(k).event_filter
        BY <2>5, Zenon
      <3>2. ("USE_EVENT" \in s.filter) = ("USE_EVENT" \in k.filter)
        <4>1. \A x \in {s, k} :
                 IF "USE_EVENT" \in x.filter THEN Attribute(x).event_filter # None
                 ELSE Attribute(x).event_filter = None
          BY <1>2, <2>1, ClientAttributes, Zenon
        <4> QED
          BY <3>1, <4>1
      <3>3. "USE_EVENT" \in s.filter => s.events = k.events
        BY <1>2, <2>1, <3>1, <3>2, ClientAttributes, Zenon
      <3>4. from_alsa(s).event_filter = from_alsa(k).event_filter
        BY <1>2, <2>1, <3>2, <3>3, ClientAttributes, Zenon
      <3> QED
        BY <2>5, <3>4, Zenon
    <2> QED
      BY <2>2, <2>3, <2>4, <2>5
  <1> QED
    BY <1>1, <1>2

\* The invariant after a step, from what the step leaves.
LEMMA SettingsStep ==
    ASSUME kind \in Kinds, kind' = kind,
           NEW s, kernel' = s, IsWire(s),
           NEW i, info' = i, NEW d, assigned' = d, NEW c, stale' = c,
           i # None => /\ IsRecord(i)
                       /\ \A f \in DOMAIN from_alsa(s) \ d : KeptIn(f, i, s, c)
    PROVE  SettingsInv'
  <1>1. IsWire(kernel)'
    BY DEF IsWire
  <1>2. i # None => IsRecord(info)'
    BY DEF IsRecord
  <1>3. from_alsa(kernel)' = from_alsa(s)
    BY DEF from_alsa
  <1>4. Attributes' = DOMAIN from_alsa(s)
    BY <1>3 DEF Attributes
  <1>5. ASSUME NEW f, KeptIn(f, i, s, c)
        PROVE  KeptIn(f, info, kernel, stale)'
    BY <1>3, <1>5 DEF KeptIn
  <1>6. Held'
    BY <1>2, <1>4, <1>5 DEF Held
  <1> QED
    BY <1>1, <1>6 DEF SettingsInv

\* What another has written leaves the record as good as it was: what has changed is stale.
LEMMA ChangedKeeps ==
    ASSUME SettingsInv, NEW s, IsWire(s), Changed(s)
    PROVE  SettingsInv'
  <1> DEFINE d == Attributes
             c == IF info = None THEN {}
                  ELSE stale \union {f \in d : Attribute(s)[f] # Attribute(kernel)[f]}
  <1>1. /\ kernel' = s /\ stale' = c /\ info' = info /\ assigned' = assigned /\ kind' = kind
    BY Zenon DEF Changed
  <1>2. kind \in Kinds /\ IsWire(kernel) /\ Held
    BY DEF SettingsInv
  <1>3. DOMAIN from_alsa(s) = Attributes
    BY <1>2, ReadTyped, Fields, Zenon
  <1>4. ASSUME info # None
        PROVE  /\ IsRecord(info)
               /\ \A f \in DOMAIN from_alsa(s) \ assigned : KeptIn(f, info, s, c)
    <2>1. IsRecord(info) /\ \A f \in Attributes \ assigned : KeptIn(f, info, kernel, stale)
      BY <1>2, <1>4 DEF Held
    <2>2. c = stale \union {f \in d : Attribute(s)[f] # Attribute(kernel)[f]}
      BY <1>4
    <2> HIDE DEF c
    <2>3. ASSUME NEW f \in d, f \notin c, f # "error_bounce"
          PROVE  f \notin stale /\ from_alsa(s)[f] = from_alsa(kernel)[f]
      <3>1. f \notin stale /\ Attribute(s)[f] = Attribute(kernel)[f]
        BY <2>2, <2>3, Zenon
      <3>2. f \in DOMAIN from_alsa(kernel)
        BY <2>3 DEF Attributes
      <3> QED
        BY <1>2, <2>3, <3>1, <3>2, AttributeTells, Zenon
    <2>4. ASSUME NEW f \in d \ assigned, f # "error_bounce"
          PROVE  KeptIn(f, info, s, c)
      <3>1. f \in stale \/ info[f] = from_alsa(kernel)[f]
        BY <2>1, <2>4 DEF KeptIn
      <3>2. f \in c \/ info[f] = from_alsa(s)[f]
        BY <2>3, <2>4, <3>1, Zenon
      <3> QED
        BY <2>4, <3>2 DEF KeptIn
    <2>5. ASSUME "error_bounce" \in d \ assigned
          PROVE  KeptIn("error_bounce", info, s, c)
      <3>1. "broadcast_filter" \in stale \/ info.error_bounce = from_alsa(kernel).broadcast_filter
        BY <2>1, <2>5 DEF KeptIn
      <3>2. kind = "client"
        BY <1>2, <2>1, <2>5, Fields, SixKinds
      <3>3. "broadcast_filter" \in d
        BY <1>2, <2>1, <3>2, Fields
      <3>4. "broadcast_filter" \in c \/ info.error_bounce = from_alsa(s).broadcast_filter
        <4>1. CASE "broadcast_filter" \in c
          BY <4>1
        <4>2. CASE "broadcast_filter" \notin c
          <5>1. /\ "broadcast_filter" \notin stale
                /\ from_alsa(s).broadcast_filter = from_alsa(kernel).broadcast_filter
            BY <2>3, <3>3, <4>2
          <5> QED
            BY <3>1, <5>1, Zenon
        <4> QED
          BY <4>1, <4>2
      <3> QED
        BY <3>4 DEF KeptIn
    <2>6. \A f \in DOMAIN from_alsa(s) \ assigned : KeptIn(f, info, s, c)
      BY <1>3, <2>4, <2>5, Zenon
    <2> QED
      BY <2>1, <2>6
  <1> HIDE DEF c
  <1> QED
    BY <1>1, <1>2, <1>4, SettingsStep, Zenon

\* The writes of others that are not a record's.
LEMMA FilterTyped ==
    ASSUME kind = "client", NEW k, IsWire(k), NEW t \in Types \union {"NONE"}
    PROVE  IsWire([k EXCEPT !.filter = @ \union {"USE_EVENT"}, !.events = @ \union {t}])
  <1> DEFINE w == k.filter \union {"USE_EVENT"}
             e == k.events \union {t}
  <1>1. k \in ClientWire
    BY DEF IsWire
  <1>2. w \in SUBSET {"BROADCAST", "BOUNCE", "USE_EVENT"} /\ e \in SUBSET (Types \union {"NONE"})
    BY <1>1 DEF ClientWire
  <1> HIDE DEF w, e
  <1>3. [k EXCEPT !.filter = w, !.events = e] \in ClientWire
    BY <1>1, <1>2 DEF ClientWire
  <1> QED
    BY <1>3 DEF IsWire, w, e

LEMMA PoolTyped ==
    ASSUME kind = "pool", NEW k, IsWire(k),
           NEW f \in {"output_pool", "input_pool", "output_room"}, NEW size \in 0..1
    PROVE  IsWire([k EXCEPT ![f] = size])
  <1>1. k \in ClientPool
    BY DEF IsWire
  <1>2. [k EXCEPT ![f] = size] \in ClientPool
    BY <1>1 DEF ClientPool
  <1> QED
    BY <1>2 DEF IsWire

\* The arguments of set_tempo.
LEMMA ArgumentsTyped ==
    ASSUME SettingsInv, kind = "tempo", NEW args \in Arguments
    PROVE  args \in Call
  <1>1. info \in QueueTempo \union {None}
    BY DEF SettingsInv, Held, IsRecord
  <1>2. (IF info = None THEN Tempi \union {None} ELSE {None}) \subseteq Nat \union {None}
    BY TemposTyped
  <1>3. Bpms \subseteq Nat \ {0}
    BY SettingsAssumption
  <1>4. /\ args.tempo \in IF info = None THEN Tempi \union {None} ELSE {None}
        /\ args.record = info /\ args.ppq \in Ppqs \union {None}
        /\ args.skew \in Skews \union {None} /\ args.skew_base \in {SkewBase, None}
        /\ args.bpm \in Bpms \union {None}
        /\ args = [tempo |-> args.tempo, record |-> args.record, ppq |-> args.ppq,
                   skew |-> args.skew, skew_base |-> args.skew_base, bpm |-> args.bpm]
    BY DEF Arguments
  <1>5. /\ args.tempo \in Nat \union {None} /\ args.record \in QueueTempo \union {None}
        /\ args.ppq \in Nat \union {None} /\ args.skew \in Nat \union {None}
        /\ args.bpm \in (Nat \ {0}) \union {None}
    BY <1>1, <1>2, <1>3, <1>4, TemposTyped, Zenon
  <1> QED
    BY <1>4, <1>5 DEF Call

\* A read gives what the kernel has.
LEMMA ReadKeeps ==
    ASSUME SettingsInv, kernel' = kernel, kind' = kind,
           info' = from_alsa(kernel)
    PROVE  SettingsInv'
  <1> DEFINE i == from_alsa(kernel)
  <1>1. kind \in Kinds /\ IsWire(kernel)
    BY DEF SettingsInv
  <1>2. IsRecord(i)
    BY <1>1, ReadTyped
  <1>3. "error_bounce" \in DOMAIN i => kind = "client"
    BY <1>1, <1>2, Fields, SixKinds
  <1>4. kind = "client" => i.error_bounce = i.broadcast_filter
    BY <1>1, ClientAttributes DEF IsWire
  <1>5. ASSUME NEW f \in DOMAIN i
        PROVE  KeptIn(f, i, kernel, stale')
    BY <1>3, <1>4, <1>5 DEF KeptIn
  <1> QED
    BY <1>1, <1>2, <1>5, SettingsStep, Zenon

\* A write lets the record go.
LEMMA WriteKeeps ==
    ASSUME SettingsInv, kind' = kind, info' = None,
           NEW s, kernel' = s, IsWire(s)
    PROVE  SettingsInv'
  <1>1. kind \in Kinds
    BY DEF SettingsInv
  <1> QED
    BY <1>1, SettingsStep, Zenon

LEMMA AssignKeeps ==
    ASSUME SettingsInv, NEW f \in Attributes, NEW v \in Values(f),
           assign(f, v)
    PROVE  SettingsInv'
  <1> DEFINE i == [info EXCEPT ![f] = v]
             d == assigned \union {f}
  <1>1. /\ kernel' = kernel /\ stale' = stale /\ info' = i /\ assigned' = d /\ kind' = kind
        /\ info # None
    BY Zenon DEF assign
  <1>2. kind \in Kinds /\ IsWire(kernel)
    BY DEF SettingsInv
  <1>3. IsRecord(info) /\ \A g \in Attributes \ assigned : KeptIn(g, info, kernel, stale)
    BY <1>1 DEF SettingsInv, Held
  <1>4. IsRecord(i)
    BY <1>2, <1>3, AssignTyped
  <1>5. DOMAIN info = Attributes
    BY <1>2, <1>3, Fields
  <1>6. \A g \in Attributes \ {f} : i[g] = info[g]
    BY <1>5
  <1> HIDE DEF i
  <1>7. ASSUME NEW g \in Attributes \ d
        PROVE  KeptIn(g, i, kernel, stale)
    <2>1. KeptIn(g, info, kernel, stale) /\ i[g] = info[g]
      BY <1>3, <1>6, <1>7
    <2> QED
      BY <2>1 DEF KeptIn
  <1>8. Attributes = DOMAIN from_alsa(kernel)
    BY DEF Attributes
  <1> HIDE DEF d
  <1> QED
    BY <1>1, <1>2, <1>4, <1>7, <1>8, SettingsStep, Zenon

LEMMA ElsewhereKeeps ==
    ASSUME SettingsInv, NEW f \in Attributes, NEW v \in Values(f),
           set_elsewhere(f, v)
    PROVE  SettingsInv'
  <1> DEFINE r == [from_alsa(kernel) EXCEPT ![f] = v]
             s == Stored(kernel, to_alsa(r))
  <1>1. Changed(s)
    BY DEF set_elsewhere
  <1>2. kind \in Kinds /\ IsWire(kernel)
    BY DEF SettingsInv
  <1>3. IsRecord(r)
    BY <1>2, ReadTyped, AssignTyped, Zenon
  <1> HIDE DEF r
  <1>4. IsWire(s)
    BY <1>2, <1>3, StoredTyped
  <1> HIDE DEF s
  <1> QED
    BY <1>1, <1>4, ChangedKeeps

LEMMA SetTempoKeeps ==
    ASSUME SettingsInv, NEW args \in Arguments, set_tempo(args)
    PROVE  SettingsInv'
  <1> DEFINE raises == BadArguments(args) \/ Refused(tempo_to_alsa(args))
             s == IF raises THEN kernel ELSE Stored(kernel, tempo_to_alsa(args))
  <1>1. kind = "tempo" /\ kernel' = s /\ info' = None /\ kind' = kind
    BY Zenon DEF set_tempo
  <1>2. IsWire(kernel) /\ kernel \in TempoWire
    BY <1>1 DEF SettingsInv, IsWire
  <1>3. args \in Call
    BY <1>1, ArgumentsTyped
  <1>4. ASSUME ~raises
        PROVE  Stored(kernel, tempo_to_alsa(args)) \in TempoWire
    BY <1>1, <1>2, <1>3, <1>4, CallSent, TempoStored, Zenon
  <1>5. s \in TempoWire
    BY <1>2, <1>4, Zenon
  <1> HIDE DEF s
  <1>6. IsWire(s)
    BY <1>1, <1>5 DEF IsWire
  <1> QED
    BY <1>1, <1>6, WriteKeeps

LEMMA NextSettingsInv ==
    SettingsInv /\ [SettingsNext]_settings => SettingsInv'
  <1> SUFFICES ASSUME SettingsInv, [SettingsNext]_settings
               PROVE  SettingsInv'
    OBVIOUS
  <1>1. kind \in Kinds /\ IsWire(kernel)
    BY DEF SettingsInv
  <1>2. ASSUME UNCHANGED <<kind, kernel, info, assigned, stale>>
        PROVE  SettingsInv'
    <2>1. info # None => /\ IsRecord(info)
                         /\ \A f \in DOMAIN from_alsa(kernel) \ assigned :
                               KeptIn(f, info, kernel, stale)
      BY DEF SettingsInv, Held, Attributes
    <2> QED
      BY <1>1, <1>2, <2>1, SettingsStep, Zenon
  <1>3. CASE UNCHANGED settings
    BY <1>2, <1>3, Zenon DEF settings
  <1>4. CASE \/ get_client_info \/ get_port_info \/ get_queue_info
             \/ get_client_pool \/ get_timer \/ get_tempo
    <2>1. kernel' = kernel /\ kind' = kind
      BY <1>4, Zenon DEF get_client_info, get_port_info, get_queue_info,
         get_client_pool, get_timer, get_tempo, Read
    <2>2. info' = from_alsa(kernel)
      BY <1>4 DEF get_client_info, get_port_info, get_queue_info,
         get_client_pool, get_timer, get_tempo, Read, from_alsa
    <2> QED
      BY <2>1, <2>2, ReadKeeps
  <1>5. CASE construct
    <2>1. /\ kernel' = kernel /\ info' = Default /\ assigned' = Attributes /\ kind' = kind
          /\ stale' = stale
      BY <1>5, Zenon DEF construct
    <2>2. IsRecord(Default) /\ Attributes = DOMAIN from_alsa(kernel)
      BY <1>1, DefaultTyped DEF Attributes
    <2>3. \A f \in DOMAIN from_alsa(kernel) \ Attributes : KeptIn(f, Default, kernel, stale)
      BY <2>2
    <2> QED
      BY <1>1, <2>1, <2>2, <2>3, SettingsStep, Zenon
  <1>6. CASE \E f \in Attributes : \E v \in Values(f) : assign(f, v) \/ set_elsewhere(f, v)
    BY <1>6, AssignKeeps, ElsewhereKeeps
  <1>7. CASE \/ set_client_info \/ set_port_info \/ set_info
             \/ set_client_pool \/ set_timer
    <2> DEFINE s == Stored(kernel, to_alsa(info))
    <2>1. kind' = kind /\ info' = None /\ info # None
      BY <1>7, Zenon DEF set_client_info, set_port_info, set_info,
         set_client_pool, set_timer, Write
    <2>2. kernel' = s
      BY <1>7 DEF set_client_info, set_port_info, set_info,
         set_client_pool, set_timer, Write, to_alsa
    <2>3. IsRecord(info)
      BY <2>1 DEF SettingsInv, Held
    <2>4. IsWire(s)
      BY <1>1, <2>3, StoredTyped
    <2> HIDE DEF s
    <2> QED
      BY <2>1, <2>2, <2>4, WriteKeeps
  <1>8. CASE \E t \in Types \union {"NONE"} : set_client_event_filter(t)
    <2> PICK t \in Types \union {"NONE"} : set_client_event_filter(t)
      BY <1>8
    <2> DEFINE s == [kernel EXCEPT !.filter = @ \union {"USE_EVENT"}, !.events = @ \union {t}]
    <2>1. kind = "client" /\ Changed(s)
      BY Zenon DEF set_client_event_filter
    <2>2. IsWire(s)
      BY <1>1, <2>1, FilterTyped
    <2> HIDE DEF s
    <2> QED
      BY <2>1, <2>2, ChangedKeeps
  <1>9. CASE \E f \in {"output_pool", "input_pool", "output_room"}, size \in 0..1 :
               set_client_pool_size(f, size)
    <2> PICK f \in {"output_pool", "input_pool", "output_room"}, size \in 0..1 :
               set_client_pool_size(f, size)
      BY <1>9
    <2> DEFINE s == [kernel EXCEPT ![f] = size]
    <2>1. kind = "pool" /\ Changed(s)
      BY Zenon DEF set_client_pool_size
    <2>2. IsWire(s)
      BY <1>1, <2>1, PoolTyped
    <2> HIDE DEF s
    <2> QED
      BY <2>1, <2>2, ChangedKeeps
  <1>10. CASE kind = "tempo" /\ \E args \in Arguments : set_tempo(args)
    BY <1>10, SetTempoKeeps
  <1>11. CASE \E type \in {"START", "STOP", "CONTINUE"} : Control(type)
    BY <1>2, <1>11, Zenon DEF Control
  <1>12. CASE drain_output
    BY <1>2, <1>12, Zenon DEF drain_output
  <1> QED
    BY <1>3, <1>4, <1>5, <1>6, <1>7, <1>8, <1>9, <1>10, <1>11, <1>12 DEF SettingsNext

\* The invariant is one.
THEOREM SettingsInvariant == SettingsSpec => []SettingsInv
  <1>1. SettingsInit => SettingsInv
    BY InitSettingsInv
  <1>2. SettingsInv /\ [SettingsNext]_settings => SettingsInv'
    BY NextSettingsInv
  <1> QED
    BY <1>1, <1>2, PTL DEF SettingsSpec

-----------------------------------------------------------------------------
(* set_tempo.                                                              *)

\* What is given for the attribute f, None when nothing is.
GivenFor(args, f) == FirstGiven(args[f], OfRecord(args, f))

\* The set of it, as the property has it.
LEMMA GivenSet ==
    ASSUME NEW args, NEW f
    PROVE  {v \in {args[f]} : v # None}
              \union {v \in {OfRecord(args, f)} : args[f] = None /\ v # None}
           = IF GivenFor(args, f) = None THEN {} ELSE {GivenFor(args, f)}
  <1>1. CASE args[f] = None
    BY <1>1 DEF GivenFor, FirstGiven
  <1>2. CASE args[f] # None
    BY <1>2 DEF GivenFor, FirstGiven
  <1> QED
    BY <1>1, <1>2

\* The types of it.
LEMMA GivenTyped ==
    ASSUME NEW args \in Call
    PROVE  /\ GivenFor(args, "ppq") \in Nat \union {None}
           /\ GivenFor(args, "skew") \in Nat \union {None}
           /\ GivenFor(args, "skew_base") \in {SkewBase, None}
           /\ None \notin Nat /\ SkewBase \in Nat \ {0}
  <1>1. /\ args.ppq \in Nat \union {None} /\ args.skew \in Nat \union {None}
        /\ args.skew_base \in {SkewBase} \union {None}
    BY DEF Call
  <1>2. /\ OfRecord(args, "ppq") \in Nat \union {None}
        /\ OfRecord(args, "skew") \in Nat \union {None}
        /\ OfRecord(args, "skew_base") \in {SkewBase} \union {None}
    BY OfRecordTyped
  <1>3. /\ GivenFor(args, "ppq") \in Nat \union {None}
        /\ GivenFor(args, "skew") \in Nat \union {None}
        /\ GivenFor(args, "skew_base") \in {SkewBase} \union {None}
    BY <1>1, <1>2, FirstIsGiven, Zenon DEF GivenFor
  <1> QED
    BY <1>3, TemposTyped

\* What the queue has after a call that does not raise.
LEMMA TempoSet ==
    ASSUME kind = "tempo", NEW k \in TempoWire, NEW args \in Call,
           ~BadArguments(args),
           NEW s, s = tempo_to_alsa(args), NEW n, n = Stored(k, s)
    PROVE  /\ args.bpm # None => n.tempo = Minute \div args.bpm
           /\ args.bpm = None => n.tempo = GivenFor(args, "tempo") /\ n.tempo # None
           /\ n.ppq = s.ppq
           /\ s.ppq = IF GivenFor(args, "ppq") = None THEN 96 ELSE GivenFor(args, "ppq")
           /\ GivenFor(args, "skew") \notin {0, None} => n.skew = GivenFor(args, "skew")
           /\ GivenFor(args, "skew") \in {0, None} =>
                 n.skew = IF GivenFor(args, "skew_base") # None THEN 0 ELSE k.skew
  <1> DEFINE t == GivenFor(args, "tempo")
             p == GivenFor(args, "ppq")
             w == GivenFor(args, "skew")
             b == GivenFor(args, "skew_base")
             m == IF args.bpm # None THEN Minute \div args.bpm ELSE t
  <1>1. s = [tempo     |-> m,
             ppq       |-> FirstGiven(p, 96),
             skew      |-> IF Unset(w) THEN 0 ELSE w,
             skew_base |-> IF ~Unset(b) THEN b ELSE IF Unset(w) THEN 0 ELSE SkewBase]
    BY DEF tempo_to_alsa, GivenFor
  <1>2. s \in TempoSent
    BY CallSent
  <1>3. n = IF s.skew_base = 0 THEN [k EXCEPT !.tempo = s.tempo, !.ppq = s.ppq] ELSE s
    BY StoredIs, Zenon
  <1>4. /\ w \in Nat \union {None} /\ b \in {SkewBase, None} /\ None \notin Nat
        /\ SkewBase \in Nat \ {0}
    BY GivenTyped
  <1> HIDE DEF t, p, w, b, m
  <1>5. /\ s.tempo = m /\ s.ppq = FirstGiven(p, 96)
        /\ s.skew = (IF Unset(w) THEN 0 ELSE w)
        /\ s.skew_base = (IF ~Unset(b) THEN b ELSE IF Unset(w) THEN 0 ELSE SkewBase)
    BY <1>1
  <1>6. n.tempo = s.tempo /\ n.ppq = s.ppq
        /\ n.skew = IF s.skew_base = 0 THEN k.skew ELSE s.skew
    <2>1. CASE s.skew_base = 0
      <3>1. n = [k EXCEPT !.tempo = s.tempo, !.ppq = s.ppq]
        BY <1>3, <2>1
      <3>2. DOMAIN k = {"tempo", "ppq", "skew", "skew_base"}
        BY DEF TempoWire
      <3> QED
        BY <2>1, <3>1, <3>2, Zenon
    <2>2. CASE s.skew_base # 0
      BY <1>3, <2>2, Zenon
    <2> QED
      BY <2>1, <2>2
  <1>7. s.ppq = IF p = None THEN 96 ELSE p
    BY <1>5 DEF FirstGiven
  <1>8. n.tempo = m /\ m # None
    BY <1>2, <1>4, <1>5, <1>6 DEF TempoSent
  <1>9. w \notin {0, None} => n.skew = w
    <2> HAVE w \notin {0, None}
    <2>1. ~Unset(w)
      BY DEF Unset
    <2>2. s.skew = w /\ s.skew_base # 0
      BY <1>4, <1>5, <2>1 DEF Unset
    <2> QED
      BY <1>6, <2>2
  <1>10. w \in {0, None} => n.skew = IF b # None THEN 0 ELSE k.skew
    <2> HAVE w \in {0, None}
    <2>1. Unset(w)
      BY DEF Unset
    <2>2. s.skew = 0
      BY <1>5, <2>1
    <2>3. (s.skew_base = 0) <=> (b = None)
      BY <1>4, <1>5, <2>1 DEF Unset
    <2> QED
      BY <1>6, <2>2, <2>3
  <1>11. (args.bpm # None => m = Minute \div args.bpm) /\ (args.bpm = None => m = t)
    BY DEF m
  <1> QED
    BY <1>6, <1>7, <1>8, <1>9, <1>10, <1>11 DEF t, p, w, b

LEMMA NoneGiven ==
    ASSUME NEW args, BadArguments(args), args.bpm = None
    PROVE  GivenFor(args, "tempo") = None
  <1>1. args.tempo = None /\ args.record = None
    BY DEF BadArguments
  <1>2. OfRecord(args, "tempo") = None
    BY <1>1 DEF OfRecord
  <1> QED
    BY <1>1, <1>2 DEF GivenFor, FirstGiven

LEMMA SetTempoAsks ==
    ASSUME SettingsInv, NEW args \in Arguments, set_tempo(args)
    PROVE  TempoAsAsked'
  <1> DEFINE s == tempo_to_alsa(args)
             raises == BadArguments(args) \/ Refused(s)
             n == Stored(kernel, s)
             G(f) == IF GivenFor(args, f) = None THEN {} ELSE {GivenFor(args, f)}
  <1>1. /\ kind = "tempo" /\ running' = running
        /\ asked' = [args |-> args, before |-> kernel, raised |-> raises]
        /\ kernel' = IF raises THEN kernel ELSE n
    BY Zenon DEF set_tempo
  <1>2. kernel \in TempoWire /\ args \in Call
    BY <1>1, ArgumentsTyped DEF SettingsInv, IsWire
  <1> HIDE DEF s, n, raises
  <1>3. asked'.args = args /\ asked'.before = kernel /\ asked'.raised = raises
    BY <1>1, Zenon
  <1>4. \A f : Given(f)' = G(f)
    BY <1>3, GivenSet, Zenon DEF Given
  <1> HIDE DEF G
  <1>5. CASE raises
    <2>1. kernel' = kernel
      BY <1>1, <1>5
    <2>2. running \/ G("tempo") = {} \/ args.bpm # None
      <3>1. CASE BadArguments(args)
        BY <3>1, NoneGiven, Zenon DEF G
      <3>2. CASE Refused(s)
        BY <3>2 DEF Refused
      <3> QED
        BY <1>5, <3>1, <3>2 DEF raises
    <2> QED
      BY <1>1, <1>3, <1>4, <1>5, <2>1, <2>2, Zenon DEF TempoAsAsked
  <1>6. CASE ~raises
    <2>1. kernel' = n /\ ~BadArguments(args) /\ ~Refused(s)
      BY <1>1, <1>6 DEF raises
    <2>2. /\ args.bpm # None => n.tempo = Minute \div args.bpm
          /\ args.bpm = None => n.tempo = GivenFor(args, "tempo") /\ n.tempo # None
          /\ n.ppq = s.ppq
          /\ s.ppq = IF GivenFor(args, "ppq") = None THEN 96 ELSE GivenFor(args, "ppq")
          /\ GivenFor(args, "skew") \notin {0, None} => n.skew = GivenFor(args, "skew")
          /\ GivenFor(args, "skew") \in {0, None} =>
                n.skew = IF GivenFor(args, "skew_base") # None THEN 0 ELSE kernel.skew
      BY <1>1, <1>2, <2>1, TempoSet DEF s, n
    <2>3. \/ n.tempo \in G("tempo") /\ args.bpm = None
          \/ args.bpm # None /\ n.tempo = Minute \div args.bpm
      BY <2>2, Zenon DEF G
    <2>4. n.ppq \in IF G("ppq") = {} THEN {96} ELSE G("ppq")
      BY <2>2, Zenon DEF G
    <2>5. running => n.ppq = kernel.ppq
      BY <1>1, <2>1, <2>2, Zenon DEF Refused
    <2>6. G("skew") \ {0} # {} => n.skew \in G("skew")
      BY <2>2 DEF G
    <2>7. G("skew") \subseteq {0} =>
             n.skew = IF G("skew_base") # {} THEN 0 ELSE kernel.skew
      BY <2>2 DEF G
    <2> QED
      BY <1>1, <1>3, <1>4, <1>6, <2>1, <2>3, <2>4, <2>5, <2>6, <2>7, Zenon DEF TempoAsAsked
  <1> QED
    BY <1>5, <1>6

\* Every other call forgets what was asked.
LEMMA SettingsNextAsks ==
    SettingsInv /\ TempoAsAsked /\ [SettingsNext]_settings => TempoAsAsked'
  <1> SUFFICES ASSUME SettingsInv, TempoAsAsked, [SettingsNext]_settings
               PROVE  TempoAsAsked'
    OBVIOUS
  <1>1. ASSUME asked' = None
        PROVE  TempoAsAsked'
    BY <1>1, Zenon DEF TempoAsAsked
  <1>2. CASE UNCHANGED settings
    <2>1. asked' = asked /\ kernel' = kernel /\ running' = running
      BY <1>2, Zenon DEF settings
    <2> QED
      BY <2>1 DEF TempoAsAsked, Given
  <1>3. CASE kind = "tempo" /\ \E args \in Arguments : set_tempo(args)
    BY <1>3, SetTempoAsks
  <1>4. CASE \/ get_client_info \/ get_port_info \/ get_queue_info
             \/ get_client_pool \/ get_timer \/ get_tempo
    BY <1>1, <1>4, Zenon DEF get_client_info, get_port_info, get_queue_info,
       get_client_pool, get_timer, get_tempo, Read
  <1>5. CASE construct
    BY <1>1, <1>5, Zenon DEF construct
  <1>6. CASE \E f \in Attributes : \E v \in Values(f) : assign(f, v) \/ set_elsewhere(f, v)
    BY <1>1, <1>6, Zenon DEF assign, set_elsewhere
  <1>7. CASE \/ set_client_info \/ set_port_info \/ set_info
             \/ set_client_pool \/ set_timer
    BY <1>1, <1>7, Zenon DEF set_client_info, set_port_info, set_info,
       set_client_pool, set_timer, Write
  <1>8. CASE \E t \in Types \union {"NONE"} : set_client_event_filter(t)
    BY <1>1, <1>8, Zenon DEF set_client_event_filter
  <1>9. CASE \E f \in {"output_pool", "input_pool", "output_room"}, size \in 0..1 :
               set_client_pool_size(f, size)
    BY <1>1, <1>9, Zenon DEF set_client_pool_size
  <1>10. CASE \E type \in {"START", "STOP", "CONTINUE"} : Control(type)
    BY <1>1, <1>10, Zenon DEF Control
  <1>11. CASE drain_output
    BY <1>1, <1>11, Zenon DEF drain_output
  <1> QED
    BY <1>2, <1>3, <1>4, <1>5, <1>6, <1>7, <1>8, <1>9, <1>10, <1>11 DEF SettingsNext

\* set_tempo sets the tempo, the resolution and the skew it is asked for and no others, or
\* raises and leaves them as they are.
THEOREM AlwaysTempoAsAsked == SettingsSpec => []TempoAsAsked
  <1>1. SettingsInit => TempoAsAsked
    BY Zenon DEF SettingsInit, TempoAsAsked
  <1>2. SettingsInv /\ TempoAsAsked /\ [SettingsNext]_settings => TempoAsAsked'
    BY SettingsNextAsks
  <1>3. SettingsSpec => []SettingsInv
    BY SettingsInvariant
  <1> QED
    BY <1>1, <1>2, <1>3, PTL DEF SettingsSpec

-----------------------------------------------------------------------------
(* Writing a record back.                                                  *)

\* An attribute with nothing special about it.
LEMMA PlainAttribute ==
    ASSUME NEW f, f \notin {"error_bounce", "event_filter"}, NEW now, NEW then,
           f \notin assigned => KeptIn(f, info, kernel, stale),
           now = Meant(f), info[f] = from_alsa(kernel)[f] => now = then
    PROVE  AsWritten(f, now, then)
  BY Zenon DEF KeptIn, AsWritten

\* What is meant by it.
LEMMA MeantIs ==
    /\ Meant("name") = IF kind \in {"client", "port"} /\ info.name = NoName
                         THEN kernel.name ELSE info.name
    /\ Meant("event_filter") = IF info.event_filter = {} THEN None ELSE info.event_filter
    /\ Meant("skew") = MeantSkew("skew") /\ Meant("skew_base") = MeantSkew("skew_base")
    /\ \A f : f \notin {"name", "event_filter", "skew", "skew_base"} => Meant(f) = info[f]
  BY DEF Meant

\* Two truths that are the same.
LEMMA SameTruth ==
    ASSUME NEW x, NEW w, NEW b \in BOOLEAN, x \in w <=> b
    PROVE  (x \in w) = b
  BY Zenon

LEMMA QueueWritten ==
    ASSUME kind = "queue", SettingsInv, info # None,
           NEW n, n = Stored(kernel, queue_to_alsa(info)), NEW f \in Attributes
    PROVE  AsWritten(f, Attribute(n)[f], Attribute(kernel)[f])
  <1>1. /\ info \in QueueInfo /\ kernel \in QueueWire /\ f \in {"name", "locked"}
        /\ f \notin assigned => KeptIn(f, info, kernel, stale)
    BY Fields DEF SettingsInv, Held, IsRecord, IsWire
  <1>2. n.name = info.name /\ n.locked = IF info.locked THEN 1 ELSE 0
    BY StoredIs DEF queue_to_alsa
  <1>3. \A s : Attribute(s) = from_alsa(s) /\ from_alsa(s) = queue_from_alsa(s)
    BY DEF Attribute, from_alsa
  <1>4. \A s : queue_from_alsa(s).name = s.name /\ queue_from_alsa(s).locked = (s.locked # 0)
    BY DEF queue_from_alsa
  <1>5. CASE f = "name"
    <2>1. Attribute(n).name = info.name /\ Attribute(kernel).name = from_alsa(kernel).name
      BY <1>2, <1>3, <1>4, Zenon
    <2>2. Meant("name") = info.name
      BY MeantIs
    <2> QED
      BY <1>1, <1>5, <2>1, <2>2, PlainAttribute, Zenon
  <1>6. CASE f = "locked"
    <2>1. info.locked \in BOOLEAN
      BY <1>1 DEF QueueInfo
    <2>2. Attribute(n).locked = info.locked
      <3>1. Attribute(n).locked = (n.locked # 0)
        BY <1>3, <1>4, Zenon
      <3>2. (n.locked # 0) <=> info.locked
        BY <1>2
      <3> QED
        BY <2>1, <3>1, <3>2, Zenon
    <2>3. Meant("locked") = info.locked /\ Attribute(kernel) = from_alsa(kernel)
      BY <1>3, MeantIs
    <2> QED
      BY <1>1, <1>6, <2>2, <2>3, PlainAttribute, Zenon
  <1> QED
    BY <1>1, <1>5, <1>6

LEMMA PortWritten ==
    ASSUME kind = "port", SettingsInv, info # None,
           NEW n, n = Stored(kernel, port_to_alsa(info)), NEW f \in Attributes
    PROVE  AsWritten(f, Attribute(n)[f], Attribute(kernel)[f])
  <1> DEFINE s == port_to_alsa(info)
  <1>1. /\ info \in PortInfo /\ kernel \in PortWire
        /\ f \in {"name", "capability", "timestamping", "timestamp_real"}
        /\ f \notin assigned => KeptIn(f, info, kernel, stale)
    BY Fields DEF SettingsInv, Held, IsRecord, IsWire
  <1>2. /\ s.name = info.name /\ s.capability = info.capability
        /\ s.flags = (IF info.timestamping THEN {"TIMESTAMP"} ELSE {})
                     \union (IF info.timestamp_real THEN {"TIME_REAL"} ELSE {})
        /\ DOMAIN s = {"name", "capability", "flags"}
    BY DEF port_to_alsa
  <1> HIDE DEF s
  <1>3. n = [s EXCEPT !.name = IF s.name = NoName THEN kernel.name ELSE s.name]
    BY StoredIs, Zenon DEF s
  <1>4. /\ n.name = IF info.name = NoName THEN kernel.name ELSE info.name
        /\ n.capability = info.capability /\ n.flags = s.flags
    BY <1>2, <1>3, Zenon
  <1>5. info.timestamping \in BOOLEAN /\ info.timestamp_real \in BOOLEAN
    BY <1>1 DEF PortInfo
  <1>6. /\ ("TIMESTAMP" \in n.flags) = info.timestamping
        /\ ("TIME_REAL" \in n.flags) = info.timestamp_real
    <2> DEFINE t == info.timestamping
               r == info.timestamp_real
               w == (IF t THEN {"TIMESTAMP"} ELSE {}) \union (IF r THEN {"TIME_REAL"} ELSE {})
    <2>0. t \in BOOLEAN /\ r \in BOOLEAN
      BY <1>5
    <2>1. n.flags = w
      BY <1>2, <1>4, Zenon
    <2> HIDE DEF t, r
    <2>2. /\ "TIMESTAMP" \in w <=> t
          /\ "TIME_REAL" \in w <=> r
      OBVIOUS
    <2> HIDE DEF w
    <2>3. ("TIMESTAMP" \in w) = t
      BY <2>0, <2>2, SameTruth, Zenon
    <2>4. ("TIME_REAL" \in w) = r
      BY <2>0, <2>2, SameTruth, Zenon
    <2> QED
      BY <2>1, <2>3, <2>4, Zenon DEF t, r
  <1>7. \A x : Attribute(x) = from_alsa(x) /\ from_alsa(x) = port_from_alsa(x)
    BY DEF Attribute, from_alsa
  <1>8. \A x : /\ port_from_alsa(x).name = x.name /\ port_from_alsa(x).capability = x.capability
               /\ port_from_alsa(x).timestamping = ("TIMESTAMP" \in x.flags)
               /\ port_from_alsa(x).timestamp_real = ("TIME_REAL" \in x.flags)
    BY DEF port_from_alsa
  <1>9. Attribute(kernel) = from_alsa(kernel)
    BY <1>7
  <1>10. CASE f = "name"
    <2>1. Attribute(n).name = n.name /\ from_alsa(kernel).name = kernel.name
      BY <1>7, <1>8, Zenon
    <2>2. Meant("name") = n.name
      BY <1>4, MeantIs
    <2>3. info.name = kernel.name => n.name = kernel.name
      BY <1>4, Zenon
    <2> QED
      BY <1>1, <1>9, <1>10, <2>1, <2>2, <2>3, PlainAttribute, Zenon
  <1>11. CASE f # "name"
    <2>1. Attribute(n)[f] = info[f]
      BY <1>1, <1>4, <1>6, <1>7, <1>8, <1>11, Zenon
    <2>2. Meant(f) = info[f]
      BY <1>1, <1>11, MeantIs
    <2> QED
      BY <1>1, <1>9, <1>11, <2>1, <2>2, PlainAttribute
  <1> QED
    BY <1>10, <1>11

LEMMA PoolWritten ==
    ASSUME kind = "pool", SettingsInv, info # None,
           NEW n, n = Stored(kernel, pool_to_alsa(info)), NEW f \in Attributes
    PROVE  AsWritten(f, Attribute(n)[f], Attribute(kernel)[f])
  <1>1. /\ info \in ClientPool /\ f \in {"output_pool", "input_pool", "output_room"}
        /\ f \notin assigned => KeptIn(f, info, kernel, stale)
    BY Fields DEF SettingsInv, Held, IsRecord, IsWire
  <1>2. n = pool_to_alsa(info)
    BY StoredIs
  <1>3. \A s : Attribute(s) = from_alsa(s) /\ from_alsa(s) = pool_from_alsa(s)
    BY DEF Attribute, from_alsa
  <1>4. pool_from_alsa(n)[f] = info[f]
    BY <1>1, <1>2 DEF pool_to_alsa, pool_from_alsa
  <1>5. Meant(f) = info[f]
    BY <1>1, MeantIs
  <1>6. Attribute(n)[f] = info[f] /\ Attribute(kernel) = from_alsa(kernel)
    BY <1>3, <1>4, Zenon
  <1> QED
    BY <1>1, <1>5, <1>6, PlainAttribute

LEMMA TimerWritten ==
    ASSUME kind = "timer", SettingsInv, info # None,
           NEW n, n = Stored(kernel, timer_to_alsa(info)), NEW f \in Attributes
    PROVE  AsWritten(f, Attribute(n)[f], Attribute(kernel)[f])
  <1>1. /\ info \in QueueTimer /\ f \in {"id", "type", "resolution"}
        /\ f \notin assigned => KeptIn(f, info, kernel, stale)
    BY Fields DEF SettingsInv, Held, IsRecord, IsWire
  <1>2. n = timer_to_alsa(info)
    BY StoredIs
  <1>3. \A s : Attribute(s) = from_alsa(s) /\ from_alsa(s) = timer_from_alsa(s)
    BY DEF Attribute, from_alsa
  <1>4. timer_from_alsa(n)[f] = info[f]
    BY <1>1, <1>2 DEF timer_to_alsa, timer_from_alsa
  <1>5. Meant(f) = info[f]
    BY <1>1, MeantIs
  <1>6. Attribute(n)[f] = info[f] /\ Attribute(kernel) = from_alsa(kernel)
    BY <1>3, <1>4, Zenon
  <1> QED
    BY <1>1, <1>5, <1>6, PlainAttribute

LEMMA TempoWritten ==
    ASSUME kind = "tempo", SettingsInv, info # None,
           NEW n, n = Stored(kernel, tempo_to_alsa(JustRecord(info))), NEW f \in Attributes
    PROVE  AsWritten(f, Attribute(n)[f], Attribute(kernel)[f])
  <1> DEFINE s == tempo_to_alsa(JustRecord(info))
             w == info.skew
             b == info.skew_base
  <1>1. /\ info \in QueueTempo /\ kernel \in TempoWire
        /\ f \in {"tempo", "ppq", "skew", "skew_base"}
        /\ f \notin assigned => KeptIn(f, info, kernel, stale)
    BY Fields DEF SettingsInv, Held, IsRecord, IsWire
  <1>2. s = [tempo |-> info.tempo, ppq |-> info.ppq,
             skew |-> IF Unset(w) THEN 0 ELSE w,
             skew_base |-> IF ~Unset(b) THEN b ELSE IF Unset(w) THEN 0 ELSE SkewBase]
    BY <1>1, RecordSent, Zenon
  <1> HIDE DEF s
  <1>3. n = IF s.skew_base = 0 THEN [kernel EXCEPT !.tempo = s.tempo, !.ppq = s.ppq] ELSE s
    BY StoredIs, Zenon DEF s
  <1>4. /\ w \in Nat \union {None} /\ b \in {SkewBase, None} /\ None \notin Nat
        /\ SkewBase \in Nat \ {0}
    BY <1>1, TemposTyped DEF QueueTempo
  <1>5. DOMAIN kernel = {"tempo", "ppq", "skew", "skew_base"} /\ kernel.skew_base = SkewBase
    BY <1>1 DEF TempoWire
  <1> HIDE DEF w, b
  <1>6. /\ s.tempo = info.tempo /\ s.ppq = info.ppq
        /\ s.skew = (IF Unset(w) THEN 0 ELSE w)
        /\ s.skew_base = (IF ~Unset(b) THEN b ELSE IF Unset(w) THEN 0 ELSE SkewBase)
    BY <1>2
  <1>7. \A x : Attribute(x) = from_alsa(x) /\ from_alsa(x) = tempo_from_alsa(x)
    BY DEF Attribute, from_alsa
  <1>8. \A x : /\ tempo_from_alsa(x).tempo = x.tempo /\ tempo_from_alsa(x).ppq = x.ppq
               /\ tempo_from_alsa(x).skew = x.skew
               /\ tempo_from_alsa(x).skew_base = x.skew_base
    BY DEF tempo_from_alsa
  <1>9. /\ Attribute(n)[f] = n[f] /\ Attribute(kernel)[f] = kernel[f]
        /\ from_alsa(kernel)[f] = kernel[f]
    BY <1>1, <1>7, <1>8, Zenon
  <1>10. CASE Unset(w) /\ Unset(b)
    <2>1. s.skew_base = 0
      BY <1>6, <1>10
    <2>2. n = [kernel EXCEPT !.tempo = s.tempo, !.ppq = s.ppq]
      BY <1>3, <2>1, Zenon
    <2>3. /\ n.tempo = info.tempo /\ n.ppq = info.ppq
          /\ n.skew = kernel.skew /\ n.skew_base = kernel.skew_base
      BY <1>5, <1>6, <2>2, Zenon
    <2>4. MeantSkew("skew") = kernel.skew /\ MeantSkew("skew_base") = kernel.skew_base
      BY <1>10, Zenon DEF MeantSkew, w, b
    <2>5. n[f] = Meant(f) /\ (info[f] = kernel[f] => n[f] = kernel[f])
      BY <1>1, <2>3, <2>4, MeantIs, Zenon
    <2> QED
      BY <1>1, <1>9, <2>5, PlainAttribute
  <1>11. CASE ~(Unset(w) /\ Unset(b))
    <2>1. s.skew_base = SkewBase
      BY <1>4, <1>6, <1>11 DEF Unset
    <2>2. n = s
      BY <1>3, <1>4, <2>1
    <2>3. /\ n.tempo = info.tempo /\ n.ppq = info.ppq
          /\ n.skew = FirstGiven(w, 0) /\ n.skew_base = SkewBase
      BY <1>6, <2>1, <2>2 DEF FirstGiven, Unset
    <2>4. MeantSkew("skew") = FirstGiven(w, 0)
      BY <1>11 DEF MeantSkew, w, b
    <2>5. MeantSkew("skew_base") = FirstGiven(b, SkewBase)
      BY <1>11 DEF MeantSkew, w, b
    <2>6. FirstGiven(b, SkewBase) = SkewBase
      BY <1>4 DEF FirstGiven
    <2>7. w = kernel.skew => FirstGiven(w, 0) = kernel.skew
      <3>1. kernel.skew # None
        BY <1>1, <1>4 DEF TempoWire
      <3> QED
        BY <3>1 DEF FirstGiven
    <2>8. n[f] = Meant(f) /\ (info[f] = kernel[f] => n[f] = kernel[f])
      <3>1. CASE f \in {"tempo", "ppq"}
        BY <2>3, <3>1, MeantIs
      <3>2. CASE f = "skew"
        BY <2>3, <2>4, <2>7, <3>2, MeantIs, Zenon DEF w
      <3>3. CASE f = "skew_base"
        BY <1>5, <2>3, <2>5, <2>6, <3>3, MeantIs, Zenon
      <3> QED
        BY <1>1, <3>1, <3>2, <3>3
    <2> QED
      BY <1>1, <1>9, <2>8, PlainAttribute
  <1> QED
    BY <1>10, <1>11

\* A filter, as it is read and written.
LEMMA FilterReread ==
    ASSUME NEW u \in BOOLEAN, NEW e \in SUBSET (Types \union {"NONE"})
    PROVE  LET then == IF u THEN e ELSE None
               read == IF u THEN e \ {"NONE"} ELSE None
           IN  Reread(then) = IF read \in {None, {}} THEN None ELSE read
  <1>1. e # None /\ e \ {"NONE"} # None
    <2>1. e \ {"NONE"} \in SUBSET (Types \union {"NONE"})
      OBVIOUS
    <2> QED
      BY <2>1, SettingsAssumption, Zenon
  <1>2. CASE u
    <2>1. (e \ {"NONE"} = {}) <=> (e = {} \/ e = {"NONE"})
      OBVIOUS
    <2> QED
      BY <1>1, <1>2, <2>1, Zenon DEF Reread
  <1>3. CASE ~u
    BY <1>3 DEF Reread
  <1> QED
    BY <1>2, <1>3

LEMMA ClientWritten ==
    ASSUME kind = "client", SettingsInv, info # None,
           NEW n, n = Stored(kernel, client_to_alsa(info)), NEW f \in Attributes
    PROVE  AsWritten(f, Attribute(n)[f], Attribute(kernel)[f])
  <1> DEFINE s == client_to_alsa(info)
             b == info.broadcast_filter
             r == info.error_bounce
             g == info.event_filter
             w == (IF b THEN {"BROADCAST"} ELSE {}) \union (IF r THEN {"BOUNCE"} ELSE {})
                  \union (IF g \in {None, {}} THEN {} ELSE {"USE_EVENT"})
  <1>0. kind \in Kinds /\ IsWire(kernel) /\ IsRecord(info)
    BY DEF SettingsInv, Held
  <1>1. /\ info \in ClientInfo /\ kernel \in ClientWire
        /\ f \in {"name", "broadcast_filter", "error_bounce", "event_filter"}
        /\ f \notin assigned => KeptIn(f, info, kernel, stale)
    BY <1>0, Fields DEF SettingsInv, Held, IsRecord, IsWire
  <1>2. n \in ClientWire
    <2>1. IsWire(Stored(kernel, to_alsa(info)))
      BY <1>0, StoredTyped
    <2>2. to_alsa(info) = client_to_alsa(info)
      BY DEF to_alsa
    <2> QED
      BY <2>1, <2>2 DEF IsWire
  <1>3. /\ s.name = info.name /\ s.filter = w
        /\ s.events = (IF g = None THEN {} ELSE g)
        /\ DOMAIN s = {"name", "filter", "events"}
    BY DEF client_to_alsa
  <1> HIDE DEF s
  <1>4. n = [s EXCEPT !.name = IF s.name = NoName THEN kernel.name ELSE s.name]
    BY StoredIs, Zenon DEF s
  <1>5. /\ n.name = IF info.name = NoName THEN kernel.name ELSE info.name
        /\ n.filter = w /\ n.events = IF g = None THEN {} ELSE g
    BY <1>3, <1>4, Zenon
  <1>6. b \in BOOLEAN /\ r \in BOOLEAN /\ g \in {None} \union SUBSET (Types \union {"NONE"})
    BY <1>1 DEF ClientInfo
  <1> HIDE DEF b, r, g
  <1>7. /\ "BROADCAST" \in w <=> b
        /\ "BOUNCE" \in w <=> r
        /\ "USE_EVENT" \in w <=> g \notin {None, {}}
    OBVIOUS
  <1> HIDE DEF w
  <1>8. /\ Attribute(n).name = n.name
        /\ Attribute(kernel).name = kernel.name /\ from_alsa(kernel).name = kernel.name
    BY <1>1, <1>2, ClientAttributes
  <1>9. Attribute(n).broadcast_filter = b
    <2>1. Attribute(n).broadcast_filter = ("BROADCAST" \in n.filter)
      BY <1>2, ClientAttributes, Zenon
    <2>2. ("BROADCAST" \in w) = b
      BY <1>6, <1>7, SameTruth, Zenon
    <2> QED
      BY <1>5, <2>1, <2>2, Zenon
  <1>10. Attribute(n).error_bounce = r
    <2>1. Attribute(n).error_bounce = ("BOUNCE" \in n.filter)
      BY <1>2, ClientAttributes, Zenon
    <2>2. ("BOUNCE" \in w) = r
      BY <1>6, <1>7, SameTruth, Zenon
    <2> QED
      BY <1>5, <2>1, <2>2, Zenon
  <1>11. Attribute(n).event_filter = IF g \in {None, {}} THEN None ELSE g
    <2>1. Attribute(n).event_filter = IF "USE_EVENT" \in n.filter THEN n.events ELSE None
      BY <1>2, ClientAttributes, Zenon
    <2> QED
      BY <1>5, <1>7, <2>1, Zenon
  <1>12. Attribute(kernel).broadcast_filter = from_alsa(kernel).broadcast_filter
    BY <1>1, ClientAttributes, Zenon
  <1>13. CASE f = "name"
    <2>1. Meant("name") = n.name
      BY <1>5, MeantIs
    <2>2. info.name = kernel.name => n.name = kernel.name
      BY <1>5, Zenon
    <2> QED
      BY <1>1, <1>8, <1>13, <2>1, <2>2, PlainAttribute, Zenon
  <1>14. CASE f = "broadcast_filter"
    <2>1. Meant("broadcast_filter") = b
      BY MeantIs DEF b
    <2> QED
      BY <1>1, <1>9, <1>12, <1>14, <2>1, PlainAttribute, Zenon DEF b
  <1>15. CASE f = "error_bounce"
    <2>1. Meant("error_bounce") = r
      BY MeantIs DEF r
    <2>2. "error_bounce" \notin assigned =>
             "broadcast_filter" \in stale \/ r = Attribute(kernel)["broadcast_filter"]
      BY <1>1, <1>12, <1>15, Zenon DEF KeptIn, r
    <2> QED
      BY <1>10, <1>15, <2>1, <2>2, Zenon DEF AsWritten
  <1>16. CASE f = "event_filter"
    <2> DEFINE u == "USE_EVENT" \in kernel.filter
               e == kernel.events
               then == IF u THEN e ELSE None
               read == IF u THEN e \ {"NONE"} ELSE None
    <2>1. Attribute(kernel).event_filter = then /\ from_alsa(kernel).event_filter = read
      BY <1>1, ClientAttributes, Zenon
    <2>2. u \in BOOLEAN /\ e \in SUBSET (Types \union {"NONE"})
      BY <1>1 DEF ClientWire
    <2> HIDE DEF u, e
    <2>3. Reread(then) = IF read \in {None, {}} THEN None ELSE read
      BY <2>2, FilterReread, Zenon
    <2> HIDE DEF then, read
    <2>4. Meant("event_filter") = IF g \in {None, {}} THEN None ELSE g
      BY MeantIs, Zenon DEF g
    <2>5. "event_filter" \notin assigned \union stale => g = read
      BY <1>1, <1>16, <2>1, Zenon DEF KeptIn, g
    <2>6. "event_filter" \in assigned => Attribute(n)["event_filter"] = Meant("event_filter")
      BY <1>11, <2>4, Zenon
    <2>7. "event_filter" \notin assigned \union stale =>
             Attribute(n)["event_filter"] = Reread(Attribute(kernel)["event_filter"])
      BY <1>11, <2>1, <2>3, <2>5, Zenon
    <2> QED
      BY <1>16, <2>6, <2>7 DEF AsWritten
  <1> QED
    BY <1>1, <1>13, <1>14, <1>15, <1>16

\* Which steps let a record go.
LEMMA SettingsNextWrites ==
    ASSUME SettingsInv, SettingsNext, info # None, info' = None,
           kind = "tempo" => ~asked'.raised /\ asked'.args = JustRecord(info)
    PROVE  \A f \in Attributes :
              AsWritten(f, Attribute(kernel')[f], Attribute(kernel)[f])
  <1> SUFFICES ASSUME NEW n, kernel' = n, NEW f \in Attributes
               PROVE  AsWritten(f, Attribute(n)[f], Attribute(kernel)[f])
    BY Zenon
  <1>0. kind \in Kinds /\ IsWire(kernel) /\ IsRecord(info)
    BY DEF SettingsInv, Held
  <1>1. CASE \/ get_client_info \/ get_port_info \/ get_queue_info
             \/ get_client_pool \/ get_timer \/ get_tempo
    BY <1>1, Zenon DEF get_client_info, get_port_info, get_queue_info,
       get_client_pool, get_timer, get_tempo, Read
  <1>2. CASE construct
    BY <1>2, Zenon DEF construct
  <1>3. ASSUME NEW g \in Attributes, NEW v \in Values(g), assign(g, v)
        PROVE  FALSE
    <2> DEFINE i == [info EXCEPT ![g] = v]
    <2>1. info' = i
      BY <1>3, Zenon DEF assign
    <2>2. IsRecord(i)
      BY <1>0, AssignTyped
    <2> HIDE DEF i
    <2>3. i # None
      BY <1>0, <2>2, SixKinds, SettingsAssumption DEF IsRecord
    <2> QED
      BY <2>1, <2>3
  <1>4. CASE \E g \in Attributes : \E v \in Values(g) : assign(g, v) \/ set_elsewhere(g, v)
    <2>1. ASSUME NEW g, NEW v, set_elsewhere(g, v)
          PROVE  FALSE
      BY <2>1, Zenon DEF set_elsewhere, Changed
    <2> QED
      BY <1>3, <1>4, <2>1
  <1>5. CASE set_client_info
    <2>1. kind = "client" /\ n = Stored(kernel, client_to_alsa(info))
      BY <1>5, Zenon DEF set_client_info, Write
    <2> QED
      BY <2>1, ClientWritten
  <1>6. CASE set_port_info
    <2>1. kind = "port" /\ n = Stored(kernel, port_to_alsa(info))
      BY <1>6, Zenon DEF set_port_info, Write
    <2> QED
      BY <2>1, PortWritten
  <1>7. CASE set_info
    <2>1. kind = "queue" /\ n = Stored(kernel, queue_to_alsa(info))
      BY <1>7, Zenon DEF set_info, Write
    <2> QED
      BY <2>1, QueueWritten
  <1>8. CASE set_client_pool
    <2>1. kind = "pool" /\ n = Stored(kernel, pool_to_alsa(info))
      BY <1>8, Zenon DEF set_client_pool, Write
    <2> QED
      BY <2>1, PoolWritten
  <1>9. CASE set_timer
    <2>1. kind = "timer" /\ n = Stored(kernel, timer_to_alsa(info))
      BY <1>9, Zenon DEF set_timer, Write
    <2> QED
      BY <2>1, TimerWritten
  <1>10. CASE \E t \in Types \union {"NONE"} : set_client_event_filter(t)
    BY <1>10, Zenon DEF set_client_event_filter, Changed
  <1>11. CASE \E g \in {"output_pool", "input_pool", "output_room"}, size \in 0..1 :
                set_client_pool_size(g, size)
    BY <1>11, Zenon DEF set_client_pool_size, Changed
  <1>12. CASE kind = "tempo" /\ \E args \in Arguments : set_tempo(args)
    <2> PICK args \in Arguments : set_tempo(args)
      BY <1>12
    <2> DEFINE raises == BadArguments(args) \/ Refused(tempo_to_alsa(args))
    <2>1. /\ asked' = [args |-> args, before |-> kernel, raised |-> raises]
          /\ kernel' = IF raises THEN kernel ELSE Stored(kernel, tempo_to_alsa(args))
      BY Zenon DEF set_tempo
    <2> HIDE DEF raises
    <2>2. asked'.args = args /\ asked'.raised = raises
      BY <2>1, Zenon
    <2>3. args = JustRecord(info) /\ ~raises
      BY <1>12, <2>2
    <2>4. n = Stored(kernel, tempo_to_alsa(JustRecord(info)))
      BY <2>1, <2>3, Zenon
    <2> QED
      BY <1>12, <2>4, TempoWritten
  <1>13. CASE \E type \in {"START", "STOP", "CONTINUE"} : Control(type)
    BY <1>13, Zenon DEF Control
  <1>14. CASE drain_output
    BY <1>14, Zenon DEF drain_output
  <1> QED
    BY <1>1, <1>2, <1>4, <1>5, <1>6, <1>7, <1>8, <1>9, <1>10, <1>11, <1>12, <1>13, <1>14
    DEF SettingsNext

\* A record that is written back changes what the application has assigned and nothing
\* else, but for what the conversions lose: error_bounce, and NONE in a filter.
THEOREM AlwaysOnlyAssignedWritten == SettingsSpec => OnlyAssignedWritten
  <1>1. SettingsInv /\ [SettingsNext]_settings =>
          [/\ info # None /\ info' = None
           /\ kind = "tempo" => ~asked'.raised /\ asked'.args = JustRecord(info)
           =>
              \A f \in Attributes :
                 AsWritten(f, Attribute(kernel')[f], Attribute(kernel)[f])]_settings
    <2> SUFFICES ASSUME SettingsInv, SettingsNext, info # None, info' = None,
                        kind = "tempo" => ~asked'.raised /\ asked'.args = JustRecord(info)
                 PROVE  \A f \in Attributes :
                           AsWritten(f, Attribute(kernel')[f], Attribute(kernel)[f])
      BY Zenon
    <2> QED
      BY SettingsNextWrites, Zenon
  <1>2. SettingsSpec => []SettingsInv
    BY SettingsInvariant
  <1> QED
    BY <1>1, <1>2, PTL DEF SettingsSpec, OnlyAssignedWritten
=============================================================================
