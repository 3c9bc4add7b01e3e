---------------------------- MODULE MCSeqOutput ----------------------------
(* Small instances of SeqOutput. *)
EXTENDS SeqOutput

\* One-fragment events: of one cell, of two, one too long for the buffer, and
\* one the kernel refuses.
PlainEvents ==
    [cells : {<<1>>, <<2>>, <<3>>}, bad : {FALSE}] \union {[cells |-> <<1>>, bad |-> TRUE]}

\* MidiBytesEvents: two messages and an incomplete one, two messages of
\* different sizes, one too long for the buffer in the middle, two refused ones.
BytesEvents ==
    [cells : {<<1, 1, 0>>, <<2, 1>>, <<1, 3>>}, bad : {FALSE}]
        \union {[cells |-> <<1, 1>>, bad |-> TRUE]}

\* Two messages, and none that any buffer or queue would refuse.
GoodBytesEvents == {[cells |-> <<1, 1>>, bad |-> FALSE]}

\* SequencerClient with events of one fragment, and the base class with the others
\* (whose event_output does to the buffers what its event_output_buffer does).
BothClients ==
    [waiting |-> [waits |-> TRUE, ops |-> {"output", "drain"}, events |-> PlainEvents, calls |-> 4],
     base    |-> [waits |-> FALSE, ops |-> {"direct", "buffer", "drain"},
                  events |-> BytesEvents, calls |-> 3]]

\* SequencerClient with events of two fragments.
WaitingClient ==
    [waiting |-> [waits |-> TRUE, ops |-> {"output"}, events |-> GoodBytesEvents, calls |-> 4]]
=============================================================================
