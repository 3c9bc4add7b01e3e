-------------------------- MODULE MCPortLifecycle --------------------------
(* Small instances of PortLifecycle. *)
EXTENDS PortLifecycle, TLC

CONSTANTS c1, c2, o1, o2, o3

TwoClients == {c1, c2}
ThreeObjects == {o1, o2, o3}
BothTypes == {<<"READ", "WRITE">>}

\* The kernel gives one client two ports, and the other one.
ThreeAddresses == {<<c1, 0>>, <<c1, 1>>, <<c2, 0>>}

\* Nothing tells objects apart.
Symmetry == Permutations(Objects)
=============================================================================
