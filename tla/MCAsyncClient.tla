--------------------------- MODULE MCAsyncClient ---------------------------
(* Small instances of AsyncClient. *)
EXTENDS AsyncClient

CONSTANTS t1, t2

BothTasks == {t1, t2}
SecondTask == {t2}
=============================================================================
