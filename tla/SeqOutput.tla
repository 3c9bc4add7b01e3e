------------------------------ MODULE SeqOutput ------------------------------
(***************************************************************************)
(* The output path of one client: the calls that turn an event into        *)
(* snd_seq_event_t fragments, the output buffer alsa-lib keeps in the      *)
(* process, the kernel-side pool, and the retry loop of SequencerClient.   *)
(*                                                                         *)
(* An event is the sequence of fragments _prepare_event makes of it: one   *)
(* for every Event but MidiBytesEvent, one per complete MIDI message (or   *)
(* parser-buffer-sized piece of a SysEx) for a MidiBytesEvent.  A fragment *)
(* costs a number of cells; none for bytes that complete no message, where *)
(* _prepare_event returns an event of type NONE and nothing is output.     *)
(* Time is abstracted: the kernel delivers the pool in order, at any       *)
(* moment.                                                                 *)
(***************************************************************************)
EXTENDS Integers, Sequences, FiniteSetsExt, Functions

CONSTANTS
    Users,       \* the clients to look at, a record of records: waits (TRUE for
                 \* SequencerClient, FALSE for SequencerClientBase), ops, the methods
                 \* called, events, what is passed ([cells: Seq(Nat), bad: BOOLEAN]),
                 \* and calls, a bound on the calls in a behaviour
    BufSize,     \* cells of the output buffer
    PoolSize,    \* cells of the kernel pool
    Room,        \* free pool cells for which poll() reports POLLOUT
    MaxLog       \* bound: fragments ever accepted

ASSUME OutputAssumption ==
    /\ \A u \in Range(Users) :
          /\ u.waits \in BOOLEAN /\ u.calls \in Nat
          /\ u.ops \subseteq {"output", "direct", "buffer", "drain"}
          /\ \A e \in u.events :
                /\ e.cells \in Seq(Nat) /\ e.cells # <<>> /\ e.bad \in BOOLEAN
                /\ \A i \in 1..(Len(e.cells) - 1) : e.cells[i] > 0
    /\ BufSize \in Nat /\ PoolSize \in Nat /\ MaxLog \in Nat
    /\ Room \in 1..PoolSize

VARIABLES
    user,        \* which of Users this behaviour is about
    obuf,        \* alsa-lib's output buffer
    pool,        \* the client's kernel-side output pool
    delivered,   \* history: fragments the kernel has delivered
    calls,       \* history: every call, with its result once it returned
    dropped,     \* history: calls some fragment of which was discarded on request
    pc,          \* "idle", or where the running call is: "try" or "poll"
    rem          \* remainder: the next fragment to make, 0 for None

vars == <<user, obuf, pool, delivered, calls, dropped, pc, rem>>

-----------------------------------------------------------------------------
(* alsa-lib and the kernel, as the client uses them.                       *)

\* The cells of a buffer, added up from its first fragment.
Used(b) ==
    LET upto[n \in 0..Len(b)] == IF n = 0 THEN 0 ELSE upto[n - 1] + b[n].cells
    IN  upto[Len(b)]

\* How many fragments of the buffer b one write moves to the pool p: up to the
\* first that has no cells or that the kernel refuses (a queue the client does
\* not use, a destination that is gone).
Writable(b, p) ==
    Max({k \in 0..Len(b) : /\ \A i \in 1..k : ~b[i].bad
                           /\ Used(p) + Used(SubSeq(b, 1, k)) <= PoolSize})

\* snd_seq_drain_output: a refused fragment stays at the head of the buffer.
snd_seq_drain_output(b, p) ==
    LET k    == Writable(b, p)
        rest == SubSeq(b, k + 1, Len(b))
    IN  [obuf   |-> rest,
         pool   |-> p \o SubSeq(b, 1, k),
         result |-> IF rest = <<>> THEN "ok"
                    ELSE IF Head(rest).bad THEN "EINVAL"
                    ELSE IF k = 0 THEN "EAGAIN" ELSE "partial"]

\* Variant: the size of the new fragment is left out of the comparison.
FitsOffByOne(f, b) == Used(b) < BufSize /\ f.cells > 0

Fits(f, b) == Used(b) + f.cells <= BufSize

\* snd_seq_event_output: append, after a drain when there is no room.
snd_seq_event_output(f, b, p) ==
    LET d == snd_seq_drain_output(b, p) IN
    IF f.cells >= BufSize THEN [obuf |-> b, pool |-> p, result |-> "EINVAL"]
    ELSE IF Fits(f, b) THEN [obuf |-> Append(b, f), pool |-> p, result |-> "ok"]
    ELSE IF d.result \in {"EAGAIN", "EINVAL"} THEN d
    ELSE IF Fits(f, d.obuf) THEN [d EXCEPT !.obuf = Append(@, f), !.result = "ok"]
    ELSE [d EXCEPT !.result = "EAGAIN"]

-----------------------------------------------------------------------------
Running == Len(calls)            \* the number of the call in progress
Call    == calls[Running]
Parts   == Len(Call.ev.cells)

\* _prepare_event: the fragment made and the remainder left.  With no
\* remainder it starts over from the first byte of the event.
Fragment(r) ==
    LET i == IF r = 0 THEN 1 ELSE r IN
    [call |-> Running, part |-> i, cells |-> Call.ev.cells[i], bad |-> Call.ev.bad]
Remainder(r) ==
    LET i == IF r = 0 THEN 1 ELSE r IN IF i < Parts THEN i + 1 ELSE 0

\* _event_output, _event_output_direct and the body of event_output_buffer:
\* all three hand the fragment to snd_seq_event_output; the direct one forgets
\* the remainder.
\* Variant: snd_seq_event_output_buffer in place of snd_seq_event_output.
outputNoDrain(r) ==
    LET f == Fragment(r) IN
    IF f.cells > 0 /\ f.cells < BufSize /\ Fits(f, obuf)
    THEN [obuf |-> Append(obuf, f), pool |-> pool, result |-> "ok"]
    ELSE [obuf |-> obuf, pool |-> pool,
          result |-> IF f.cells = 0 THEN "ok"
                     ELSE IF f.cells < BufSize THEN "EAGAIN" ELSE "EINVAL"]
output(r) ==
    IF Fragment(r).cells = 0 THEN [obuf |-> obuf, pool |-> pool, result |-> "ok"]
    ELSE snd_seq_event_output(Fragment(r), obuf, pool)

func(r) ==
    CASE Call.op = "drain" ->
            [alsa |-> snd_seq_drain_output(obuf, pool), rem |-> 0]
      [] Call.op = "direct" ->
            [alsa |-> output(r),
             rem |-> IF Fragment(r).cells = 0 THEN Remainder(r) ELSE 0]
      [] Call.op \in {"output", "buffer"} ->
            [alsa |-> output(r), rem |-> Remainder(r)]

\* event_output_buffer and every call of the base class raise on the first
\* error; the calls SequencerClient overrides go through _event_output_wait.
Waits == Users[user].waits /\ Call.op # "buffer"

Return(result) ==
    /\ pc' = "idle"
    /\ rem' = 0
    /\ calls' = [calls EXCEPT ![Running].result = result]

Init ==
    /\ user \in DOMAIN Users
    /\ obuf = <<>> /\ pool = <<>> /\ delivered = <<>>
    /\ calls = <<>> /\ dropped = {}
    /\ pc = "idle" /\ rem = 0

Begin(op, e) ==
    /\ pc = "idle"
    /\ Running < Users[user].calls
    /\ calls' = Append(calls, [op |-> op, ev |-> e, result |-> "none"])
    /\ pc' = "try"
    /\ UNCHANGED <<user, obuf, pool, delivered, dropped, rem>>

BeginDrain == "drain" \in Users[user].ops /\ Begin("drain", [cells |-> <<0>>, bad |-> FALSE])

Log == delivered \o pool \o obuf     \* everything accepted and not dropped

\* Variant: an error is only looked at after the last fragment.
TryOnceLateCheck ==
    /\ pc = "try" /\ ~Waits
    /\ Len(Log) < MaxLog
    /\ LET f == func(rem) IN
         /\ obuf' = f.alsa.obuf /\ pool' = f.alsa.pool
         /\ IF f.rem = 0 THEN Return(f.alsa.result)
            ELSE rem' = f.rem /\ UNCHANGED <<pc, calls>>
    /\ UNCHANGED <<user, delivered, dropped>>

\* One round of the loop of SequencerClientBase.event_output.
TryOnce ==
    /\ pc = "try" /\ ~Waits
    /\ Len(Log) < MaxLog
    /\ LET f == func(rem) IN
         /\ obuf' = f.alsa.obuf /\ pool' = f.alsa.pool
         /\ IF f.alsa.result \in {"EAGAIN", "EINVAL"} \/ f.rem = 0
              THEN Return(f.alsa.result)
              ELSE rem' = f.rem /\ UNCHANGED <<pc, calls>>
    /\ UNCHANGED <<user, delivered, dropped>>

\* Variant: the test for EAGAIN is inverted.
TryWaitInverted ==
    /\ pc = "try" /\ Waits
    /\ Len(Log) < MaxLog
    /\ LET f == func(rem) IN
         /\ obuf' = f.alsa.obuf /\ pool' = f.alsa.pool
         /\ IF f.alsa.result = "EAGAIN" /\ f.rem = 0
              THEN Return("ok")
              ELSE pc' = "poll" /\ rem' = f.rem /\ UNCHANGED calls
    /\ UNCHANGED <<user, delivered, dropped>>

\* One round of the loop of SequencerClient._event_output_wait.
TryWait ==
    /\ pc = "try" /\ Waits
    /\ Len(Log) < MaxLog
    /\ LET f == func(rem) IN
         /\ obuf' = f.alsa.obuf /\ pool' = f.alsa.pool
         /\ IF f.alsa.result # "EAGAIN" /\ f.rem = 0
              THEN Return(f.alsa.result)
              ELSE pc' = "poll" /\ rem' = f.rem /\ UNCHANGED calls
    /\ UNCHANGED <<user, delivered, dropped>>

\* Variant: poll() registered for POLLIN, and nothing is coming in.
PollForInput == pc = "poll" /\ pool # pool /\ UNCHANGED vars

\* self._write_poll.poll(None) returns when the kernel reports POLLOUT.
Poll ==
    /\ pc = "poll"
    /\ Used(pool) + Room <= PoolSize
    /\ pc' = "try"
    /\ UNCHANGED <<user, obuf, pool, delivered, calls, dropped, rem>>

\* drop_output_buffer, drop_output, extract_output and remove_events, between calls.
CallsOf(s) == {s[i].call : i \in DOMAIN s}

DropOutputBuffer ==
    /\ pc = "idle" /\ obuf # <<>>
    /\ dropped' = dropped \union CallsOf(obuf)
    /\ obuf' = <<>>
    /\ UNCHANGED <<user, pool, delivered, calls, pc, rem>>

DropOutput ==
    /\ pc = "idle" /\ obuf \o pool # <<>>
    /\ dropped' = dropped \union CallsOf(obuf \o pool)
    /\ obuf' = <<>> /\ pool' = <<>>
    /\ UNCHANGED <<user, delivered, calls, pc, rem>>

ExtractOutput ==
    /\ pc = "idle" /\ obuf # <<>>
    /\ dropped' = dropped \union {Head(obuf).call}
    /\ obuf' = Tail(obuf)
    /\ UNCHANGED <<user, pool, delivered, calls, pc, rem>>

\* remove_events with the condition OUTPUT: what meets the other conditions (of
\* destination, channel, time, type and tag) goes from the buffer and the pool.
Without(b, S) ==
    LET kept[n \in 0..Len(b)] ==
            IF n = 0 THEN <<>>
            ELSE IF b[n].call \in S THEN kept[n - 1] ELSE Append(kept[n - 1], b[n])
    IN  kept[Len(b)]

RemoveEvents(S) ==
    /\ pc = "idle" /\ S \subseteq CallsOf(obuf \o pool)
    /\ dropped' = dropped \union S
    /\ obuf' = Without(obuf, S) /\ pool' = Without(pool, S)
    /\ UNCHANGED <<user, delivered, calls, pc, rem>>

\* The kernel dispatches the oldest cell of the pool.
Deliver ==
    /\ pool # <<>>
    /\ delivered' = Append(delivered, Head(pool))
    /\ pool' = Tail(pool)
    /\ UNCHANGED <<user, obuf, calls, dropped, pc, rem>>

Next ==
    \/ \E op \in Users[user].ops \ {"drain"}, e \in Users[user].events : Begin(op, e)
    \/ BeginDrain
    \/ TryOnce
    \/ TryWait
    \/ Poll
    \/ DropOutputBuffer
    \/ DropOutput
    \/ ExtractOutput
    \/ \E S \in SUBSET (1..Running) \ {{}} : RemoveEvents(S)
    \/ Deliver

\* The application's thread keeps running and the queue keeps playing.
Fairness == WF_vars(TryOnce) /\ WF_vars(TryWait) /\ WF_vars(Poll) /\ WF_vars(Deliver)

Spec == Init /\ [][Next]_vars
FairSpec == Spec /\ Fairness

-----------------------------------------------------------------------------
(* Properties.                                                             *)

Fragments == [call : 1..Users[user].calls, part : Nat, cells : Nat, bad : BOOLEAN]

\* Every variable holds a value the code can give it.
TypeOK ==
    /\ user \in DOMAIN Users
    /\ obuf \in Seq(Fragments) /\ Used(obuf) <= BufSize
    /\ pool \in Seq(Fragments) /\ Used(pool) <= PoolSize
    /\ delivered \in Seq(Fragments)
    /\ Running <= Users[user].calls
    /\ \A i \in 1..Running : /\ calls[i].op \in Users[user].ops
                             /\ calls[i].result \in {"none", "ok", "partial", "EAGAIN", "EINVAL"}
    /\ dropped \subseteq 1..Running
    /\ pc \in {"idle", "try", "poll"}
    /\ rem \in Nat

\* The parts of call c in the stream, and those of its parts that are events at all.
Accepted(c) == {f.part : f \in {g \in Range(Log) : g.call = c}}
Sendable(c) == {i \in DOMAIN calls[c].ev.cells : calls[c].ev.cells[i] > 0}

\* They are in order, and none is there twice.
PartsInOrder(c) ==
    \A i, j \in DOMAIN Log :
        i < j /\ Log[i].call = c /\ Log[j].call = c => Log[i].part < Log[j].part

Outputs == {c \in 1..Running : calls[c].op # "drain"}

Names(b) == [i \in DOMAIN b |-> <<b[i].call, b[i].part>>]

\* Output calls, the waits and retries of _event_output_wait among them, hand
\* their fragments over in the order of the calls, none twice, and what is
\* accepted is delivered in that order, wherever it was buffered in between.
\* True of every event of one fragment, and of any event sent without waiting.
Stream == INSTANCE OutputStream WITH
    Messages <- (UNION {1..u.calls : u \in Range(Users)}) \X (1..MaxLog),
    waiting  <- Names(pool \o obuf),
    done     <- Names(delivered)

ImplementsStream == Stream!Spec

\* Whatever has been accepted of an event is its beginning, with no gap and nothing
\* twice, and it is all of it exactly when the call returned normally: an event of
\* one fragment that a call refused can be sent again without being sent twice, and
\* of a longer one the rest.  (event_output_direct of several fragments is excepted:
\* it forgets all but the first.)  Waits and retries of SequencerClient change none
\* of that for events of one fragment.
BeginningAccepted ==
    \A c \in Outputs \ dropped :
        calls[c].op # "direct" \/ Len(calls[c].ev.cells) = 1 =>
            /\ PartsInOrder(c) /\ Accepted(c) \subseteq Sendable(c)
            /\ \A p \in Accepted(c), q \in Sendable(c) : q < p => q \in Accepted(c)
            /\ calls[c].result = "ok" => Accepted(c) = Sendable(c)
            /\ calls[c].result \in {"EAGAIN", "EINVAL"} => Accepted(c) # Sendable(c)

\* A call raises EAGAIN only when neither buffer can take anything more: the
\* pool not even the oldest event of the output buffer.
EagainMeansBothFull ==
    [][\A c \in 1..Running :
          calls[c].result = "none" /\ calls'[c].result = "EAGAIN" =>
              /\ obuf' # <<>>
              /\ Used(pool') + Head(obuf').cells > PoolSize
              /\ calls[c].op # "drain" =>
                    \E n \in Range(calls[c].ev.cells) : Used(obuf') + n > BufSize]_vars

\* Every call of SequencerClient returns: one that waits is resumed once the
\* kernel has made room, whatever is buffered in front of it.
CallsReturn == (pc # "idle") ~> (pc = "idle")

\* Output through SequencerClient: a call of event_output that returned sent its
\* whole event, every fragment once and in order.  (Docstring of event_output:
\* the event "will be appended to the output buffer".)
WaitedEventIntact ==
    \A c \in Outputs \ dropped :
        calls[c].op = "output" /\ calls[c].result = "ok" =>
            PartsInOrder(c) /\ Accepted(c) = Sendable(c)
=============================================================================
