----------------------------- MODULE MCTaskQueue -----------------------------
(***************************************************************************)
(* TaskQueue for TLC: requests without a concurrency and with too high a   *)
(* one.  No symmetry: the run checks liveness.                             *)
(***************************************************************************)
EXTENDS TaskQueue
-----------------------------------------------------------------------------
AskedValues == {0, MaxConc + 1}
=============================================================================
