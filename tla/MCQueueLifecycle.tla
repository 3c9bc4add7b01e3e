-------------------------- MODULE MCQueueLifecycle --------------------------
(* Small instances of QueueLifecycle. *)
EXTENDS QueueLifecycle, TLC

CONSTANTS c1, c2, c3, o1, o2, o3, q1, q2

TwoClients == {c1, c2}
ThreeObjects == {o1, o2, o3}
ThreeClients == {c1, c2, c3}
OneId == {q1}
TwoIds == {q1, q2}

\* Nothing tells clients, objects or ids apart.
Symmetry == Permutations(Clients) \union Permutations(Objects) \union Permutations(QueueIds)
=============================================================================
