----------------------------- MODULE MCSession -----------------------------
(***************************************************************************)
(* Session for TLC: keys, accounts and requests are interchangeable.       *)
(***************************************************************************)
EXTENDS Session, TLC
-----------------------------------------------------------------------------
Symmetry == Permutations(Key) \cup Permutations(Uid) \cup Permutations(Request)
=============================================================================
