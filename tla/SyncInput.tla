------------------------------ MODULE SyncInput ------------------------------
(***************************************************************************)
(* The input path of one client read by one thread: event_input of         *)
(* SequencerClientBase, which tries once, and of SequencerClient, which    *)
(* polls the descriptor in between, with or without a timeout; alsa-lib's  *)
(* input buffer, and the kernel's FIFO, which holds a limited number of    *)
(* events and reports an overflow once, losing what it held.               *)
(*                                                                         *)
(* Time is counted in ticks of a millisecond, which is what poll() takes;  *)
(* a second is Second of them.  Only what is left of the timeout and of    *)
(* the poll is kept, so that time need not be bounded.  Events are the     *)
(* numbers 1, 2, ... in order of arrival.                                  *)
(***************************************************************************)
EXTENDS Integers, Sequences

CONSTANTS
    Timeouts,    \* the timeouts the application passes, in ticks; 0 for None
    Second,      \* ticks in a second
    FifoSize,    \* events the kernel's FIFO holds
    BufSize,     \* events alsa-lib reads at once
    Undecodable, \* events snd_midi_event_decode returns an error for
    MaxEvents    \* bound: events that are sent to the client

ASSUME SyncInputAssumption ==
    /\ Timeouts \subseteq Nat
    /\ Second \in Nat \ {0} /\ FifoSize \in Nat \ {0} /\ BufSize \in Nat \ {0}
    /\ MaxEvents \in Nat

VARIABLES
    arrived,     \* history: number of events sent to the client
    fifo,        \* the kernel's FIFO
    overflow,    \* it had no room for an event since it was read last
    ibuf,        \* alsa-lib's input buffer
    pc,          \* "idle", or where the call is: "try", "check" or "poll"
    waits,       \* the call is SequencerClient.event_input
    timeout,     \* its timeout, 0 for none
    left,        \* ticks until the deadline, for a call with a timeout
    nap,         \* ticks until poll() gives up, -1 for never
    log,         \* history: events returned, Gap where the application knows some went
    result,      \* history: "event", "error", "EAGAIN" or "None", of the last call
    fresh        \* history: events that arrived since the call began or last woke

kernel == <<arrived, fifo, overflow, fresh>>
\* An error raised, or a drop the application asked for.
Gap == 0

inCall == <<pc, waits, timeout, left, nap>>
vars   == <<kernel, ibuf, inCall, log, result>>

-----------------------------------------------------------------------------
(* The kernel. *)

\* An event that does not fit is lost.
Arrive ==
    /\ arrived < MaxEvents
    /\ arrived' = arrived + 1
    /\ IF Len(fifo) < FifoSize
       THEN fifo' = Append(fifo, arrived + 1) /\ UNCHANGED overflow
       ELSE overflow' = TRUE /\ UNCHANGED fifo
    /\ fresh' = IF pc = "idle" THEN 0 ELSE fresh + 1
    /\ UNCHANGED <<ibuf, inCall, log, result>>

Less(n) == IF n > 0 THEN n - 1 ELSE n

\* A millisecond passes, wherever the thread is.
Tick ==
    /\ pc # "idle" /\ (left > 0 \/ nap > 0)
    /\ left' = Less(left) /\ nap' = Less(nap)
    /\ UNCHANGED <<kernel, ibuf, pc, waits, timeout, log, result>>

Readable == fifo # <<>>

-----------------------------------------------------------------------------
(* snd_seq_event_input, and what feeds it: a read of the kernel that finds *)
(* the overflow clears the FIFO and fails.                                 *)

Drained(s)   == SubSeq(s, 1, IF Len(s) < BufSize THEN Len(s) ELSE BufSize)
Remaining(s) == SubSeq(s, Len(Drained(s)) + 1, Len(s))

Fetch ==
    IF overflow
    THEN fifo' = <<>> /\ overflow' = FALSE /\ UNCHANGED ibuf
    ELSE fifo' = Remaining(fifo) /\ ibuf' = Drained(fifo) /\ UNCHANGED overflow

\* _event_input: an event, taken from the buffer or from what a fetch brings,
\* or an error.
Empty  == ibuf = <<>> /\ fifo = <<>> /\ ~overflow
Failed == ibuf = <<>> /\ overflow
NextEvent == Head(ibuf \o fifo)

\* Variant: a fetch before the buffer is empty.
TakeEventMerged ==
    /\ fifo' = <<>>
    /\ ibuf' = Tail(ibuf \o fifo)
    /\ UNCHANGED overflow

TakeEvent ==
    IF ibuf # <<>> THEN ibuf' = Tail(ibuf) /\ UNCHANGED <<fifo, overflow>>
    ELSE /\ fifo' = Remaining(fifo)
         /\ ibuf' = Tail(Drained(fifo))
         /\ UNCHANGED overflow

-----------------------------------------------------------------------------
Init ==
    /\ arrived = 0 /\ fifo = <<>> /\ overflow = FALSE /\ fresh = 0
    /\ ibuf = <<>>
    /\ pc = "idle" /\ waits = FALSE /\ timeout = 0 /\ left = 0 /\ nap = 0
    /\ log = <<>> /\ result = "event"

\* Variant: the loop polls before it tries.
BeginPolls(w, t) ==
    /\ pc = "idle"
    /\ pc' = "check" /\ waits' = w /\ timeout' = t /\ left' = t
    /\ UNCHANGED <<kernel, ibuf, nap, log, result>>

\* "if timeout:", so that a timeout of 0 is no timeout.
Begin(w, t) ==
    /\ pc = "idle"
    /\ pc' = "try" /\ waits' = w /\ timeout' = t /\ left' = t
    /\ UNCHANGED <<kernel, ibuf, nap, log, result>>

Return(r) ==
    /\ pc' = "idle" /\ result' = r /\ fresh' = 0
    /\ waits' = FALSE /\ timeout' = 0 /\ left' = 0 /\ nap' = 0

\* The call has an event: it is returned, or lost in the decoder.
TryEvent ==
    /\ pc = "try" /\ ~Empty /\ ~Failed
    /\ TakeEvent
    /\ IF NextEvent \in Undecodable
       THEN log' = Append(log, Gap) /\ Return("error")
       ELSE log' = Append(log, NextEvent) /\ Return("event")
    /\ UNCHANGED arrived

\* Variant: an error of the kernel is taken for EAGAIN.
TryFailedAgain ==
    /\ pc = "try" /\ Failed
    /\ Fetch
    /\ pc' = IF waits THEN "check" ELSE "idle"
    /\ UNCHANGED <<arrived, fresh, waits, timeout, left, nap, log, result>>

\* The kernel reports the overflow: ALSAError.
TryFailed ==
    /\ pc = "try" /\ Failed
    /\ Fetch
    /\ log' = Append(log, Gap) /\ Return("error")
    /\ UNCHANGED arrived

\* Nothing there: the base class raises EAGAIN, the other goes on to wait.
TryAgain ==
    /\ pc = "try" /\ Empty
    /\ IF waits THEN pc' = "check" /\ UNCHANGED <<fresh, waits, timeout, left, nap, result>>
                ELSE Return("EAGAIN")
    /\ UNCHANGED <<arrived, fifo, overflow, ibuf, log>>

\* remaining <= 0
Expired == left = 0

GiveUp ==
    /\ pc = "check" /\ timeout > 0 /\ Expired
    /\ Return("None")
    /\ UNCHANGED <<arrived, fifo, overflow, ibuf, log>>

\* The argument of poll(): remaining, which is in seconds, as a number of
\* milliseconds, rounded up; or None.
\* Variant: the whole timeout each time.
PollTimeWhole == IF timeout = 0 THEN -1 ELSE timeout
PollTime ==
    IF timeout = 0 THEN -1 ELSE (left + Second - 1) \div Second

Poll ==
    /\ pc = "check" /\ ~(timeout > 0 /\ Expired)
    /\ pc' = "poll" /\ nap' = PollTime
    /\ UNCHANGED <<kernel, ibuf, waits, timeout, left, log, result>>

\* Variant: poll() is called with no timeout, and only left when there is input.
WakeByInput ==
    /\ pc = "poll" /\ Readable
    /\ pc' = "try" /\ nap' = 0 /\ fresh' = 0
    /\ UNCHANGED <<arrived, fifo, overflow, ibuf, waits, timeout, left, log, result>>

Wake ==
    /\ pc = "poll" /\ (Readable \/ nap = 0)
    /\ pc' = "try" /\ nap' = 0 /\ fresh' = 0
    /\ UNCHANGED <<arrived, fifo, overflow, ibuf, waits, timeout, left, log, result>>

(* The other calls that touch the input, between two event_input. *)

event_input_pending ==
    /\ pc = "idle" /\ ibuf = <<>> /\ ~Empty
    /\ Fetch
    /\ log' = IF overflow THEN Append(log, Gap) ELSE log
    /\ UNCHANGED <<arrived, fresh, inCall, result>>

drop_input ==
    /\ pc = "idle" /\ (ibuf # <<>> \/ fifo # <<>>)
    /\ ibuf' = <<>> /\ fifo' = <<>> /\ overflow' = FALSE
    /\ log' = Append(log, Gap)
    /\ UNCHANGED <<arrived, fresh, inCall, result>>

drop_input_buffer ==
    /\ pc = "idle" /\ ibuf # <<>>
    /\ ibuf' = <<>>
    /\ log' = Append(log, Gap)
    /\ UNCHANGED <<kernel, inCall, result>>

Next ==
    \/ Arrive
    \/ Tick
    \/ Begin(FALSE, 0)
    \/ \E t \in Timeouts : Begin(TRUE, t)
    \/ TryEvent
    \/ TryFailed
    \/ TryAgain
    \/ GiveUp
    \/ Poll
    \/ Wake
    \/ event_input_pending
    \/ drop_input
    \/ drop_input_buffer

\* The thread keeps running and time passes.  Nothing obliges events to arrive.
Fairness ==
    /\ WF_vars(Tick)
    /\ WF_vars(TryEvent) /\ WF_vars(TryFailed) /\ WF_vars(TryAgain)
    /\ WF_vars(GiveUp) /\ WF_vars(Poll) /\ WF_vars(Wake)

Spec == Init /\ [][Next]_vars
FairSpec == Spec /\ Fairness

-----------------------------------------------------------------------------
(* Properties.                                                             *)

Events == 1..MaxEvents

\* Every variable holds a value the code can give it; the kernel reports an
\* overflow only of a FIFO that is full.
TypeOK ==
    /\ arrived \in 0..MaxEvents
    /\ fifo \in Seq(Events) /\ Len(fifo) <= FifoSize
    /\ ibuf \in Seq(Events) /\ Len(ibuf) <= BufSize
    /\ overflow \in BOOLEAN /\ (overflow => Len(fifo) = FifoSize)
    /\ pc \in {"idle", "try", "check", "poll"}
    /\ waits \in BOOLEAN
    /\ timeout \in Timeouts \union {0}
    /\ left \in 0..timeout /\ nap \in -1..timeout
    /\ log \in Seq(Events \union {Gap})
    /\ result \in {"event", "error", "EAGAIN", "None"}
    /\ fresh \in 0..MaxEvents

\* The results, and the next event the application can get.
Results == log \o (IF ibuf \o fifo = <<>> THEN <<>> ELSE <<Head(ibuf \o fifo)>>)

\* The application gets the events in the order they were sent, each once, and
\* where some are missing, because the kernel's FIFO was full or one could not be
\* decoded, a call raised an error there (or the application dropped them):
\* between two results that are events there is no gap.
GapsReported ==
    \A i \in DOMAIN Results :
        LET before == IF i = 1 THEN 0 ELSE Results[i - 1]
        IN  Results[i] # Gap /\ (i = 1 \/ before # Gap) => Results[i] = before + 1

\* event_input returns None only when the timeout is over and a try made after
\* the last poll found nothing: an event that ended the poll, or came before it,
\* is not left behind.
NoneFoundNothing ==
    [][result' = "None" /\ pc' = "idle" /\ pc # "idle" =>
          timeout > 0 /\ left = 0 /\ ibuf = <<>> /\ Len(fifo) <= fresh]_vars

\* The thread sleeps no longer than to the deadline, and never while alsa-lib
\* has an event in its buffer, which the descriptor does not show.
SleepsRight ==
    pc = "poll" => /\ ibuf = <<>>
                   /\ timeout > 0 => 0 <= nap /\ nap <= left

\* A call returns when its timeout is over, and one with no timeout too when there
\* is an event: sleeping on the descriptor, it misses neither.
CallsReturn == (pc # "idle" /\ (timeout > 0 \/ ibuf \o fifo # <<>>)) ~> (pc = "idle")
=============================================================================
