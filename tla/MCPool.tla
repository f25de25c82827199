------------------------------- MODULE MCPool -------------------------------
(***************************************************************************)
(* Pool for TLC: one account at a time, since accounts do not touch one    *)
(* another but in the choice; two sites, two models, and settings at which *)
(* every cap is met within the days the clock runs through.                *)
(***************************************************************************)
EXTENDS Pool
=============================================================================
