---------------------------- MODULE OutputStream ----------------------------
(***************************************************************************)
(* What the output path promises its user, with no buffer, pool or retry   *)
(* in it: messages accepted in the order of the calls and of the fragments *)
(* of a call, each at most once, and delivered in the order they were      *)
(* accepted.  A message is a pair <<call, part>>.  What waits may be       *)
(* discarded on request.                                                   *)
(***************************************************************************)
EXTENDS Integers, Sequences, Functions

CONSTANT Messages    \* pairs of numbers <<call, part>>

VARIABLES
    waiting,     \* accepted, not delivered yet
    done         \* delivered

Earlier(m, n) == m[1] < n[1] \/ (m[1] = n[1] /\ m[2] < n[2])

Init == waiting = <<>> /\ done = <<>>

Accept(m) ==
    /\ \A s \in {waiting, done} : \A i \in DOMAIN s : Earlier(s[i], m)
    /\ waiting' = Append(waiting, m)
    /\ UNCHANGED done

Deliver ==
    /\ waiting # <<>>
    /\ done' = Append(done, Head(waiting))
    /\ waiting' = Tail(waiting)

\* drop_output, drop_output_buffer, extract_output and remove_events take some
\* messages away; the others keep their order.
Discard ==
    /\ Range(waiting') \subseteq Range(waiting)
    /\ \A i, j \in DOMAIN waiting' : i < j => Earlier(waiting'[i], waiting'[j])
    /\ UNCHANGED done

Next ==
    \/ \E m \in Messages : Accept(m)
    \/ Deliver
    \/ Discard

Spec == Init /\ [][Next]_<<waiting, done>>
=============================================================================
