--------------------------- MODULE MCCredentials ---------------------------
(***************************************************************************)
(* Credentials for TLC: refreshers and polls of one login are              *)
(* interchangeable.                                                        *)
(***************************************************************************)
EXTENDS Credentials, TLC
-----------------------------------------------------------------------------
Symmetry == Permutations(Refresher) \cup Permutations(Poll)
=============================================================================
