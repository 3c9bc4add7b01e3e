----------------------------- MODULE MCSyncInput -----------------------------
(* Small instances of SyncInput. *)
EXTENDS SyncInput

\* No timeout, one shorter than a second and one longer.
SomeTimeouts == {0, 1, 3}
=============================================================================
