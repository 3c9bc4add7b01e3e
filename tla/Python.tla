------------------------------- MODULE Python -------------------------------
(* What the modules about queues have in common. *)

CONSTANT None   \* Python's None: no value, client, object or id
=============================================================================
