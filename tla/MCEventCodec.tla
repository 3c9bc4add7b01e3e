---------------------------- MODULE MCEventCodec ----------------------------
(* Small instances of EventCodec. *)
EXTENDS EventCodec

\* Below zero, below zero in nanoseconds only, normal, and the same time with more
\* than a second in the nanoseconds.
SomeTimes    == {<<-1, 0>>, <<1, -1>>, <<2, 1>>, <<1, 5>>}
SomeFlagSets == {{}, {"REAL"}, {"HIGH", "REL"}, None}

Header(q, s, d) == [queue_id |-> q, source |-> s, dest |-> d]
SomeHeaders ==
    {Header(None, None, None), Header(7, <<128, 0>>, <<129, 1>>)}
SomeRaws == {None, [named |-> "other", rest |-> "other"]}

Call(q, p, d) == [queue |-> q, port |-> p, dest |-> d]
SomeArguments ==
    {NoArgs, Call(8, None, None), Call(None, 1, <<130, 0>>), Call(Closed, None, None)}
=============================================================================
