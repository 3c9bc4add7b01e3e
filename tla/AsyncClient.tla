----------------------------- MODULE AsyncClient -----------------------------
(***************************************************************************)
(* AsyncSequencerClient: tasks of one asyncio loop that call event_input   *)
(* and event_output on one client.  The client has one file descriptor and *)
(* the loop keeps one reader callback for it: add_reader replaces the      *)
(* callback that is there, remove_reader removes it whoever registered it. *)
(* A call tries once; if it would block it registers a callback with a     *)
(* future and awaits the future.                                           *)
(*                                                                         *)
(* Only one task or callback runs at a time, so everything up to an await  *)
(* is one action.  Events are the numbers 1, 2, ... in order of arrival;   *)
(* output events are counted, each taking one place of the output buffers. *)
(* An exception raised in place of an event, because it cannot be          *)
(* converted, takes the event's way through future and task, and stands    *)
(* for it here.                                                            *)
(***************************************************************************)
EXTENDS Integers, Sequences, FiniteSets

CONSTANTS
    Tasks,              \* asyncio tasks
    InputTasks,         \* those that call event_input
    OutputTasks,        \* those that call event_output
    CancelledTasks,     \* those the application may cancel
    None,               \* no reader
    LateTimeoutLoses,   \* asyncio.wait_for of Python 3.12 and later
    Capacity,           \* events the output buffers hold
    MaxEvents,          \* bound: events that arrive
    MaxOutputs          \* bound: events output

ASSUME AsyncAssumption ==
    /\ InputTasks \subseteq Tasks /\ OutputTasks \subseteq Tasks
    /\ CancelledTasks \subseteq Tasks
    /\ None \notin Tasks
    /\ LateTimeoutLoses \in BOOLEAN
    /\ Capacity \in Nat \ {0} /\ MaxEvents \in Nat /\ MaxOutputs \in Nat

VARIABLES
    arrived,     \* history: number of events that arrived
    fifo,        \* the kernel's input FIFO: the descriptor is readable when not empty
    ibuf,        \* alsa-lib's input buffer
    buffered,    \* output events in the buffers
    outputs,     \* history: number of events output
    open,        \* the client is not closed
    reader,      \* the task whose callback the loop has for the descriptor
    call,        \* what each task is in: "none", "input", "timed" input, "output"
    fut,         \* its future: "none", "pending" or "done"
    res,         \* the event the future of an input call holds, or 0
    log,         \* history: events each task got, in order, or the exceptions for them
    lost         \* history: events taken and given to no task

vars == <<arrived, fifo, ibuf, buffered, outputs, open, reader, call, fut, res, log, lost>>

inVars  == <<arrived, fifo, ibuf>>
outVars == <<buffered, outputs>>
tasks   == <<call, fut, res>>

-----------------------------------------------------------------------------
(* _event_input: alsa-lib serves its buffer first and refills it, with all *)
(* the kernel has, only when it is empty.                                  *)

Available == ibuf # <<>> \/ fifo # <<>>
NextEvent == Head(ibuf \o fifo)

\* Variant: when the kernel has nothing, the buffer is taken to be empty.
TakeEventRefill ==
    IF fifo # <<>> THEN ibuf' = Tail(ibuf \o fifo) /\ fifo' = <<>>
                   ELSE ibuf' = <<>> /\ UNCHANGED fifo

TakeEvent ==
    IF ibuf # <<>> THEN ibuf' = Tail(ibuf) /\ UNCHANGED fifo
                   ELSE ibuf' = Tail(fifo) /\ fifo' = <<>>

(* The kernel. *)

Arrive ==
    /\ open /\ arrived < MaxEvents
    /\ arrived' = arrived + 1
    /\ fifo' = Append(fifo, arrived + 1)
    /\ UNCHANGED <<ibuf, outVars, open, reader, tasks, log, lost>>

\* The kernel takes an output event: there is room for one more.
KernelSend ==
    /\ buffered > 0
    /\ buffered' = buffered - 1
    /\ UNCHANGED <<inVars, outputs, open, reader, tasks, log, lost>>

-----------------------------------------------------------------------------
(* event_input. *)

Deliver(t, n) == log' = [log EXCEPT ![t] = Append(@, n)]

InputNow(t) ==
    /\ open /\ call[t] = "none" /\ t \in InputTasks
    /\ Available
    /\ TakeEvent
    /\ Deliver(t, NextEvent)
    /\ UNCHANGED <<arrived, outVars, open, reader, tasks, lost>>

Wait(t, c) ==
    /\ call' = [call EXCEPT ![t] = c]
    /\ fut' = [fut EXCEPT ![t] = "pending"]
    /\ reader' = t
    /\ UNCHANGED res

InputWait(t, c) ==
    /\ open /\ call[t] = "none" /\ t \in InputTasks
    /\ ~Available
    /\ Wait(t, c)
    /\ UNCHANGED <<inVars, outVars, open, log, lost>>

\* reader_cb of a task that still waits.
ReaderInput(t) ==
    /\ open /\ fifo # <<>> /\ reader = t
    /\ call[t] \in {"input", "timed"} /\ fut[t] = "pending"
    /\ TakeEvent
    /\ fut' = [fut EXCEPT ![t] = "done"]
    /\ res' = [res EXCEPT ![t] = NextEvent]
    /\ reader' = None
    /\ UNCHANGED <<arrived, outVars, open, call, log, lost>>

\* Variant: without "if fut.done(): return" the event is taken, and set_result
\* raises InvalidStateError.
StaleReaderTakes(t) ==
    /\ open /\ fifo # <<>> /\ reader = t /\ fut[t] # "pending"
    /\ TakeEvent
    /\ lost' = lost \union {NextEvent}
    /\ reader' = None
    /\ UNCHANGED <<arrived, outVars, open, tasks, log>>

\* reader_cb or writer_cb of a call that is over: "if fut.done(): return".  The
\* callback stays registered, and the loop calls it as long as there is input.
StaleReader(t) ==
    /\ open /\ fifo # <<>> /\ reader = t /\ fut[t] # "pending"
    /\ UNCHANGED vars

(* event_output; drain_output and event_output_direct wait in the same way. *)

OutputNow(t) ==
    /\ open /\ call[t] = "none" /\ t \in OutputTasks
    /\ buffered < Capacity /\ outputs < MaxOutputs
    /\ buffered' = buffered + 1 /\ outputs' = outputs + 1
    /\ UNCHANGED <<inVars, open, reader, tasks, log, lost>>

OutputWait(t) ==
    /\ open /\ call[t] = "none" /\ t \in OutputTasks
    /\ buffered = Capacity
    /\ Wait(t, "output")
    /\ UNCHANGED <<inVars, outVars, open, log, lost>>

\* Variant: the callback is unregistered on EAGAIN too.
ReaderOutputOnce(t) ==
    /\ open /\ fifo # <<>> /\ reader = t
    /\ call[t] = "output" /\ fut[t] = "pending" /\ outputs < MaxOutputs
    /\ reader' = None
    /\ IF buffered < Capacity
       THEN /\ buffered' = buffered + 1 /\ outputs' = outputs + 1
            /\ fut' = [fut EXCEPT ![t] = "done"]
       ELSE UNCHANGED <<outVars, fut>>
    /\ UNCHANGED <<inVars, open, call, res, log, lost>>

\* writer_cb is registered with add_reader: it runs when there is input.
ReaderOutput(t) ==
    /\ open /\ fifo # <<>> /\ reader = t
    /\ call[t] = "output" /\ fut[t] = "pending"
    /\ buffered < Capacity /\ outputs < MaxOutputs
    /\ buffered' = buffered + 1 /\ outputs' = outputs + 1
    /\ fut' = [fut EXCEPT ![t] = "done"]
    /\ reader' = None
    /\ UNCHANGED <<inVars, open, call, res, log, lost>>

-----------------------------------------------------------------------------
(* The awaiting task goes on. *)

\* Variant: the future outlives the call.
LeaveKeepsFuture(t) ==
    /\ call' = [call EXCEPT ![t] = "none"]
    /\ UNCHANGED <<fut, res>>

Leave(t) ==
    /\ call' = [call EXCEPT ![t] = "none"]
    /\ fut' = [fut EXCEPT ![t] = "none"]
    /\ res' = [res EXCEPT ![t] = 0]

\* Variant: a woken call tries once more and returns that event first.
WakeAgain(t) ==
    /\ fut[t] = "done"
    /\ Leave(t)
    /\ IF call[t] # "output" /\ Available
       THEN /\ TakeEvent /\ UNCHANGED arrived
            /\ log' = [log EXCEPT ![t] = @ \o <<NextEvent, res[t]>>]
       ELSE /\ UNCHANGED inVars
            /\ IF call[t] = "output" THEN UNCHANGED log ELSE Deliver(t, res[t])
    /\ UNCHANGED <<outVars, open, reader, lost>>

\* The future is done: the call returns its result.
Wake(t) ==
    /\ fut[t] = "done"
    /\ Leave(t)
    /\ IF call[t] = "output" THEN UNCHANGED log ELSE Deliver(t, res[t])
    /\ UNCHANGED <<inVars, outVars, open, reader, lost>>

\* The timeout of wait_for: event_input returns None.  Nothing unregisters the
\* callback.
Timeout(t) ==
    /\ call[t] = "timed" /\ fut[t] = "pending"
    /\ Leave(t)
    /\ UNCHANGED <<inVars, outVars, open, reader, log, lost>>

\* The timeout and the event in one pass of the loop: the future is done but the
\* task has not run yet.  Since Python 3.12 wait_for raises TimeoutError
\* then (it used to return the result, which is Wake).
LateTimeout(t) ==
    /\ LateTimeoutLoses
    /\ call[t] = "timed" /\ fut[t] = "done"
    /\ Leave(t)
    /\ lost' = lost \union {res[t]}
    /\ UNCHANGED <<inVars, outVars, open, reader, log>>

\* The application cancels the task in the await.
Cancel(t) ==
    /\ t \in CancelledTasks /\ fut[t] # "none"
    /\ Leave(t)
    /\ lost' = IF res[t] # 0 THEN lost \union {res[t]} ELSE lost
    /\ UNCHANGED <<inVars, outVars, open, reader, log>>

\* close and aclose: no call can follow, and no callback, the descriptor being
\* closed; futures stay as they are.
Close ==
    /\ open
    /\ open' = FALSE
    /\ UNCHANGED <<inVars, outVars, reader, tasks, log, lost>>

-----------------------------------------------------------------------------
Init ==
    /\ arrived = 0 /\ fifo = <<>> /\ ibuf = <<>>
    /\ buffered = 0 /\ outputs = 0
    /\ open = TRUE /\ reader = None
    /\ call = [t \in Tasks |-> "none"]
    /\ fut = [t \in Tasks |-> "none"]
    /\ res = [t \in Tasks |-> 0]
    /\ log = [t \in Tasks |-> <<>>]
    /\ lost = {}

Callback(t) == ReaderInput(t) \/ StaleReader(t) \/ ReaderOutput(t)

Next ==
    \/ Arrive
    \/ KernelSend
    \/ Close
    \/ \E t \in Tasks :
         \/ InputNow(t)
         \/ InputWait(t, "input")
         \/ InputWait(t, "timed")
         \/ OutputNow(t)
         \/ OutputWait(t)
         \/ Callback(t)
         \/ Wake(t)
         \/ Timeout(t)
         \/ LateTimeout(t)
         \/ Cancel(t)

\* The loop runs what is ready and the kernel plays what it was given.  Nothing
\* obliges events to arrive, a task to make a call, or anyone to cancel one.
Fairness ==
    /\ WF_vars(KernelSend)
    /\ \A t \in Tasks : WF_vars(Callback(t)) /\ WF_vars(Wake(t)) /\ WF_vars(Timeout(t))

Spec == Init /\ [][Next]_vars
FairSpec == Spec /\ Fairness

-----------------------------------------------------------------------------
(* Properties.                                                             *)

Events == 1..MaxEvents

\* Every variable holds a value the code can give it; a future belongs to a
\* call, and only the done future of an input call holds an event.
TypeOK ==
    /\ arrived \in 0..MaxEvents
    /\ fifo \in Seq(Events) /\ ibuf \in Seq(Events)
    /\ buffered \in 0..Capacity /\ outputs \in 0..MaxOutputs
    /\ open \in BOOLEAN /\ reader \in Tasks \union {None}
    /\ call \in [Tasks -> {"none", "input", "timed", "output"}]
    /\ fut \in [Tasks -> {"none", "pending", "done"}]
    /\ res \in [Tasks -> Events \union {0}]
    /\ log \in [Tasks -> Seq(Events)]
    /\ lost \subseteq Events
    /\ \A t \in Tasks : /\ call[t] = "none" <=> fut[t] = "none"
                        /\ res[t] # 0 <=> fut[t] = "done" /\ call[t] \in {"input", "timed"}

Got(t) == {log[t][i] : i \in DOMAIN log[t]}
Held   == {t \in Tasks : res[t] # 0}

\* Every event that arrived is in one place: it still waits, in order, in the
\* kernel or alsa-lib, or exactly one task has it, in its future or returned, or
\* it was lost; none is handed to two calls, whatever callback displaced which.
EventsAccounted ==
    LET queued == ibuf \o fifo
        taken  == arrived - Len(queued)
    IN  /\ queued = [i \in 1..Len(queued) |-> taken + i]
        /\ 1..taken = lost \union {res[t] : t \in Held} \union UNION {Got(t) : t \in Tasks}
        /\ \A t \in Tasks : (Got(t) \union {res[t]}) \intersect lost = {}
        /\ \A t, u \in Tasks :
              /\ res[t] \notin Got(u)
              /\ t # u => Got(t) \intersect Got(u) = {}
              /\ t # u /\ t \in Held => res[t] # res[u]

\* A task gets its events in the order they arrived, each once.
TasksInOrder ==
    \A t \in Tasks :
        /\ \A i, j \in DOMAIN log[t] : i < j => log[t][i] < log[t][j]
        /\ t \in Held => \A n \in Got(t) : n < res[t]

\* An event is lost only when a call ends, by its timeout or by cancellation, in
\* the moment between its callback taking the event and its task running: a
\* callback that has outlived its call takes nothing.
LossOnlyInTheRace ==
    [][\A n \in lost' \ lost :
          \E t \in Tasks : fut[t] = "done" /\ res[t] = n /\ fut'[t] = "none"]_vars

\* If no other task ever waits on the client, a call that waits ends once there
\* is input: an input call with the event, an output call when the kernel has
\* made room as well.
SoleWaiterServed ==
    \A t \in Tasks :
        [](\A u \in Tasks \ {t} : fut[u] = "none")
            => ((fut[t] = "pending" /\ fifo # <<>>)
                  ~> (fut[t] # "pending" \/ fifo = <<>> \/ ~open \/ outputs = MaxOutputs))

\* event_output waits no longer than the buffers are full.  (Its docstring: it
\* "may block when both the client-side and the kernel-side buffers are full".)
OutputResumes ==
    \A t \in OutputTasks :
        (call[t] = "output") ~> (call[t] = "none" \/ ~open \/ outputs = MaxOutputs)
=============================================================================
