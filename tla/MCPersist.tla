----------------------------- MODULE MCPersist -----------------------------
(***************************************************************************)
(* Persist for TLC: one account that may be of either site, and clock      *)
(* ticks coarse enough for two saves to share one.                         *)
(***************************************************************************)
EXTENDS Persist
=============================================================================
