------------------------------ MODULE MCLease ------------------------------
(***************************************************************************)
(* Lease for TLC: three requests and two entries.  No symmetry: the run    *)
(* checks liveness.                                                        *)
(***************************************************************************)
EXTENDS Lease
=============================================================================
