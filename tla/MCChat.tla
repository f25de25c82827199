------------------------------- MODULE MCChat -------------------------------
(***************************************************************************)
(* Chat for TLC: the requests are interchangeable.                         *)
(***************************************************************************)
EXTENDS Chat, TLC
-----------------------------------------------------------------------------
Symmetry == Permutations(Request) \cup Permutations(Account)
=============================================================================
