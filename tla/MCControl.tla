------------------------------ MODULE MCControl ------------------------------
(* Control with an environment that overrides the timeout, and files that   *)
(* change a hot value and switch the balance refresh off, change the cold   *)
(* values and its interval, or are invalid.                                 *)
EXTENDS Control

SomeEnv == [soft_rate |-> Absent, timeout |-> 2, header |-> Absent, balance |-> Absent]
Key(s, t, h, b) == [soft_rate |-> s, timeout |-> t, header |-> h, balance |-> b]
SomeForms == {Key(2, Absent, Absent, 0), Key(Absent, 1, 2, 2), Key(Bad, Absent, 2, Absent)}
=============================================================================
