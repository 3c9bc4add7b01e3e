---------------------------- MODULE MCMidoBackend ----------------------------
(* Small instances of MidoBackend. *)
EXTENDS MidoBackend

CONSTANTS in1, in2, out

TwoInputs == {in1, in2}
ThreePorts == {in1, in2, out}
=============================================================================
