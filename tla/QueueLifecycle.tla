--------------------------- MODULE QueueLifecycle ---------------------------
(***************************************************************************)
(* Queue objects, the clients that make them and the kernel's queues.      *)
(* A client creates a queue or gets an object for one that exists; the     *)
(* object closes it, or gives up its use, when it is closed or when the    *)
(* last reference to it goes.  The kernel hands the id of a freed queue    *)
(* out again, to any client, while objects that name it may still be       *)
(* around; and a queue that is not locked can be taken over by any client  *)
(* that sets its attributes.                                               *)
(* Clients are separate processes or objects of one process; a             *)
(* method of an object is one action, since it makes one system call.  The *)
(* kernel takes the lowest free id; here it may take any.                  *)
(***************************************************************************)
EXTENDS Integers, FiniteSets, Python

CONSTANTS
    Clients,     \* SequencerClient objects
    Objects,     \* Queue objects; one that was collected can be made again
    QueueIds,    \* the ids the kernel has
    UsageCalls,  \* what the application passes to Queue.set_usage
    Locks        \* what the application passes as QueueInfo.locked; TRUE for no info

ASSUME QueueAssumption ==
    /\ None \notin Clients /\ None \notin Objects /\ None \notin QueueIds
    /\ UsageCalls \subseteq BOOLEAN
    /\ Locks \subseteq BOOLEAN

VARIABLES
    open,        \* clients whose handle is not None
    owner,       \* the kernel's queues: the client that created each, or None
    locked,      \* the kernel's queues only their owner may change
    usage,       \* the kernel's usage flags, pairs <<client, id>>
    live,        \* Queue objects somebody refers to
    client,      \* Queue.client, None for an object that is closed
    queue_id,    \* Queue.queue_id
    own,         \* Queue._own: "own" (True), "other" (False), "unmanaged" (None)
    _queues,     \* the client's weak dictionary of the queues it created
    current,     \* history: objects whose queue is the one they were made for
    leaked,      \* history: queues create_queue allocated and made no object for
    taken,       \* history: queues a client took over from another
    robbed       \* history: objects made for a queue another client then took over

queues == <<owner, locked, usage, leaked, taken>>
vars == <<open, queues, live, client, queue_id, own, _queues, current, robbed>>
fields == <<client, queue_id, own>>

-----------------------------------------------------------------------------
(* The kernel.                                                             *)

Allocate(c, q, lock) ==
    /\ owner[q] = None
    /\ owner' = [owner EXCEPT ![q] = c]
    /\ locked' = IF lock THEN locked \union {q} ELSE locked
    /\ usage' = usage \union {<<c, q>>}
    /\ UNCHANGED taken

\* The queues Q go, with their usage flags; of the flags U the others stay.
Free(Q, U) ==
    /\ owner' = [q \in QueueIds |-> IF q \in Q THEN None ELSE owner[q]]
    /\ locked' = locked \ Q
    /\ usage' = {u \in U : u[2] \notin Q}
    /\ leaked' = leaked \ Q
    /\ taken' = taken \ Q

\* A queue is freed for the client that owns it; for another one the call fails.
snd_seq_free_queue(c, q) ==
    IF owner[q] = c THEN Free({q}, usage) ELSE UNCHANGED queues

\* The owner may change a queue, and everybody one that is not locked.
MayChange(c, q) == owner[q] # None /\ (owner[q] = c \/ q \notin locked)

\* Of the objects S, those whose queue still exists after the step.
StillCurrent(S) == {o \in S : owner'[queue_id[o]] # None}

-----------------------------------------------------------------------------
Init ==
    /\ open = Clients
    /\ owner = [q \in QueueIds |-> None]
    /\ locked = {}
    /\ usage = {}
    /\ live = {}
    /\ client = [o \in Objects |-> None]
    /\ queue_id = [o \in Objects |-> None]
    /\ own = [o \in Objects |-> "other"]
    /\ _queues = [c \in Clients |-> [q \in QueueIds |-> None]]
    /\ current = {}
    /\ leaked = {}
    /\ taken = {}
    /\ robbed = {}

\* Queue(client, queue_id, _own=...)
Make(o, c, q, kind) ==
    /\ o \in Objects \ live
    /\ live' = live \union {o}
    /\ client' = [client EXCEPT ![o] = c]
    /\ queue_id' = [queue_id EXCEPT ![o] = q]
    /\ own' = [own EXCEPT ![o] = kind]

\* Queues are allocated locked, unless created with a QueueInfo that is not.
create_queue(c, q, o, lock) ==
    /\ c \in open
    /\ Allocate(c, q, lock)
    /\ _queues[c][q] = None
    /\ Make(o, c, q, "own")
    /\ _queues' = [_queues EXCEPT ![c][q] = o]
    /\ current' = current \union {o}
    /\ UNCHANGED <<open, leaked, robbed>>

\* "assert queue not in self._queues" fails: the queue stays, without an object.
create_queue_fails(c, q, lock) ==
    /\ c \in open
    /\ Allocate(c, q, lock)
    /\ _queues[c][q] # None
    /\ leaked' = leaked \union {q}
    /\ UNCHANGED <<open, live, fields, _queues, current, robbed>>

\* Variant: get_queue takes the queue for its own.
get_queue_own(c, q, o) ==
    /\ c \in open
    /\ _queues[c][q] = None
    /\ owner[q] # None
    /\ usage' = usage \union {<<c, q>>}
    /\ Make(o, c, q, "own")
    /\ current' = current \union {o}
    /\ UNCHANGED <<open, owner, locked, _queues, leaked, taken, robbed>>

\* get_queue of a queue the client has no object for in _queues.  (With one, it
\* returns that object and changes nothing; without a queue, it raises.)
get_queue(c, q, o) ==
    /\ c \in open
    /\ _queues[c][q] = None
    /\ owner[q] # None
    /\ usage' = usage \union {<<c, q>>}
    /\ Make(o, c, q, "other")
    /\ current' = current \union {o}
    /\ UNCHANGED <<open, owner, locked, _queues, leaked, taken, robbed>>

\* An object the application constructs itself.
Unmanaged(c, q, o) ==
    /\ c \in open
    /\ Make(o, c, q, "unmanaged")
    /\ current' = IF owner[q] # None THEN current \union {o} ELSE current
    /\ UNCHANGED <<open, queues, _queues, robbed>>

Forget(o) ==
    /\ robbed' = robbed \ {o}
    /\ client' = [client EXCEPT ![o] = None]
    /\ queue_id' = [queue_id EXCEPT ![o] = None]
    /\ own' = [own EXCEPT ![o] = "other"]

\* Variant: close does not look at _own.
closeAny(o) ==
    /\ o \in live /\ client[o] # None
    /\ IF client[o] \in open
       THEN snd_seq_free_queue(client[o], queue_id[o])
       ELSE UNCHANGED queues
    /\ current' = StillCurrent(current \ {o})
    /\ Forget(o)

\* Variant: close only gives up the use of a queue, whoever owns it.
closeNoFree(o) ==
    /\ o \in live /\ client[o] # None
    /\ usage' = IF client[o] \in open /\ own[o] # "unmanaged"
                THEN usage \ {<<client[o], queue_id[o]>>} ELSE usage
    /\ current' = current \ {o}
    /\ Forget(o)
    /\ UNCHANGED <<owner, locked, leaked, taken>>

\* Variant: close takes an object the application constructed for a managed one.
closeUnmanaged(o) ==
    /\ o \in live /\ client[o] # None
    /\ IF client[o] \in open /\ own[o] = "own"
       THEN snd_seq_free_queue(client[o], queue_id[o])
       ELSE /\ usage' = IF client[o] \in open
                        THEN usage \ {<<client[o], queue_id[o]>>} ELSE usage
            /\ UNCHANGED <<owner, locked, leaked, taken>>
    /\ current' = StillCurrent(current \ {o})
    /\ Forget(o)

\* Queue.close of an object that is open.  The system calls are skipped when the
\* client is closed.
close(o) ==
    /\ o \in live /\ client[o] # None
    /\ IF client[o] \in open /\ own[o] = "own"
       THEN snd_seq_free_queue(client[o], queue_id[o])
       ELSE /\ usage' = IF client[o] \in open /\ own[o] = "other"
                        THEN usage \ {<<client[o], queue_id[o]>>} ELSE usage
            /\ UNCHANGED <<owner, locked, leaked, taken>>
    /\ current' = StillCurrent(current \ {o})
    /\ Forget(o)

Close(o) == close(o) /\ UNCHANGED <<open, live, _queues>>

\* Variant: the object is collected without being closed.
__del__NoClose(o) ==
    /\ o \in live
    /\ live' = live \ {o}
    /\ _queues' = [c \in Clients |-> [q \in QueueIds |->
                      IF _queues[c][q] = o THEN None ELSE _queues[c][q]]]
    /\ current' = current \ {o}
    /\ robbed' = robbed \ {o}
    /\ UNCHANGED <<open, queues, fields>>

\* The last reference goes: __del__ closes the object, and the entry of the
\* weak dictionary disappears.
__del__(o) ==
    /\ o \in live
    /\ IF client[o] # None THEN close(o) ELSE UNCHANGED <<queues, current, robbed, fields>>
    /\ live' = live \ {o}
    /\ _queues' = [c \in Clients |-> [q \in QueueIds |->
                      IF _queues[c][q] = o THEN None ELSE _queues[c][q]]]
    /\ UNCHANGED open

set_usage(o, b) ==
    /\ o \in live /\ client[o] \in open
    /\ owner[queue_id[o]] # None
    /\ usage' = IF b THEN usage \union {<<client[o], queue_id[o]>>}
                     ELSE usage \ {<<client[o], queue_id[o]>>}
    /\ UNCHANGED <<open, owner, locked, live, fields, _queues, current, leaked, taken, robbed>>

\* Queue.set_info and SequencerClientBase.set_queue_info, with a QueueInfo whose
\* owner is 0 or the caller: the caller becomes the owner.  (With another owner, and
\* without the right, it raises.)
set_queue_info(c, q, lock) ==
    LET theirs == {o \in live : client[o] = owner[q] /\ queue_id[o] = q /\ own[o] = "own"}
    IN  /\ c \in open
        /\ MayChange(c, q)
        /\ owner' = [owner EXCEPT ![q] = c]
        /\ locked' = IF lock THEN locked \union {q} ELSE locked \ {q}
        /\ usage' = IF lock THEN usage \union {<<c, q>>} ELSE usage
        /\ IF owner[q] = c THEN UNCHANGED <<taken, robbed>>
                           ELSE taken' = taken \union {q} /\ robbed' = robbed \union theirs
        /\ UNCHANGED <<open, live, fields, _queues, current, leaked>>

\* SequencerClientBase.close: the kernel frees the queues of the client and
\* forgets what it used; its Queue objects stay as they are.
CloseClient(c) ==
    LET Q == {q \in QueueIds : owner[q] = c}
    IN  /\ c \in open
        /\ open' = open \ {c}
        /\ Free(Q, {u \in usage : u[1] # c})
        /\ current' = StillCurrent(current)
        /\ UNCHANGED <<live, fields, _queues, robbed>>

Next ==
    \/ \E c \in Clients, q \in QueueIds :
         \/ \E lock \in Locks :
              \/ create_queue_fails(c, q, lock)
              \/ set_queue_info(c, q, lock)
              \/ \E o \in Objects : create_queue(c, q, o, lock)
         \/ \E o \in Objects : get_queue(c, q, o) \/ Unmanaged(c, q, o)
    \/ \E o \in Objects : Close(o) \/ __del__(o) \/ \E b \in UsageCalls : set_usage(o, b)
    \/ \E c \in Clients : CloseClient(c)

Spec == Init /\ [][Next]_vars

-----------------------------------------------------------------------------
(* Properties.                                                             *)

IsOpen(o)  == client[o] # None
Owning(o)  == IsOpen(o) /\ own[o] = "own" /\ client[o] \in open
Managed(o) == IsOpen(o) /\ own[o] # "unmanaged" /\ client[o] \in open

\* Every variable holds a value the code can give it; an object that is open has
\* an id, and somebody refers to it.
TypeOK ==
    /\ open \subseteq Clients
    /\ owner \in [QueueIds -> Clients \union {None}]
    /\ locked \subseteq QueueIds
    /\ usage \subseteq Clients \X QueueIds
    /\ live \subseteq Objects
    /\ client \in [Objects -> Clients \union {None}]
    /\ queue_id \in [Objects -> QueueIds \union {None}]
    /\ own \in [Objects -> {"own", "other", "unmanaged"}]
    /\ _queues \in [Clients -> [QueueIds -> Objects \union {None}]]
    /\ current \subseteq live
    /\ leaked \subseteq QueueIds /\ taken \subseteq QueueIds
    /\ robbed \subseteq live
    /\ \A o \in Objects : IsOpen(o) => o \in live /\ queue_id[o] # None

\* An object that takes a queue for its own, and whose client is open, is right:
\* the kernel's queue with its id is the very one made for it, not one of another
\* client, or a later one, with the same id.  Only the owner of a queue another
\* client has taken over is wrong: it is not told.
OwnersOwn ==
    \A o \in Objects \ robbed : Owning(o) => o \in current /\ owner[queue_id[o]] = client[o]

\* A queue disappears only when its client is closed or when the object that
\* create_queue made for it is closed or collected, or an object that was made for
\* another queue, since taken over, with that id.
FreedByOwner ==
    [][\A q \in QueueIds :
          owner[q] # None /\ owner'[q] = None =>
              \/ owner[q] \notin open'
              \/ \E o \in Objects : /\ Owning(o) /\ queue_id[o] = q /\ client[o] = owner[q]
                                    /\ o \in current \union robbed /\ client'[o] = None]_vars

\* While its client is open, a queue has an object that will free it, unless the
\* assertion in create_queue failed for it or it was taken over.
QueueHasObject ==
    \A q \in QueueIds \ (leaked \union taken) :
        owner[q] # None => \E o \in Objects : /\ Owning(o) /\ queue_id[o] = q
                                              /\ client[o] = owner[q]

\* get_queue gives the one object that owns the queue to whoever asks the client
\* that created it: an owning object is in _queues under its id.
OwnersCached ==
    \A o \in Objects : Owning(o) => _queues[client[o]][queue_id[o]] = o

\* The client stops using a queue only when the queue is freed, the client closed,
\* the application says so with set_usage, or an object that get_queue made for
\* that client and id is closed: neither an object the application constructed
\* itself nor another client's takes the use away.
UsageGivenUp ==
    [][\A u \in usage \ usage' :
          \/ owner'[u[2]] = None
          \/ u[1] \notin open'
          \/ \E o \in Objects : /\ <<client[o], queue_id[o]>> = u
                                /\ \/ own[o] = "other" /\ client'[o] = None
                                   \/ UNCHANGED <<live, fields>>]_vars

\* The assertion in create_queue never fails.  (client.py:577)
AssertionHolds == leaked = {}
=============================================================================
