----------------------------- MODULE MCSettings -----------------------------
(* A small instance of Settings: all kinds, two names, one event type, and of the  *)
(* numbers those the code tells apart.                                             *)
EXTENDS Settings

AllKinds == {"client", "port", "queue", "pool", "timer", "tempo"}
=============================================================================
