----------------------------- MODULE MCScheduler -----------------------------
(* Scheduler on days of two hours, into the next day, with two of the five  *)
(* tasks: both in the same hour, one with two slots, one that is switched   *)
(* off, and all of them off.                                                *)
EXTENDS Scheduler

SomeTasks == <<"checkin", "travel">>
Hours(c, t) == [x \in TaskKind |-> IF x = "checkin" THEN c ELSE t]
SomeSchedules == {[hours |-> Hours({0, 1}, {0}), off |-> {}],
                  [hours |-> Hours({1}, {0}), off |-> {"travel"}],
                  [hours |-> Hours({0}, {1}), off |-> TaskKind]}
=============================================================================
