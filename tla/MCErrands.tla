------------------------------ MODULE MCErrands ------------------------------
(* Errands with one task of each sort (expert_use stands for the viewed     *)
(* ones), two readings after a report, and a midnight between any two steps.*)
EXTENDS Errands

\* States that differ in nothing a later step or a property looks at are one: what was owed to a job of
\* which a call failed, and of a job that is done all but the outcome.
AsSeen(job) ==
  LET owed == IF job.clean THEN job.owed ELSE {}
      drew == job.clean /\ job.school = "now"
  IN  IF job.step # "done" THEN [job EXCEPT !.owed = owed]
      ELSE [NoJob EXCEPT !.step = "done", !.clean = job.clean, !.owed = owed,
                         !.school = IF drew THEN "now" ELSE "no", !.later = IF drew THEN job.later ELSE 0]
ErrandsView == <<task, scoring, chances, day, [j \in Actors |-> AsSeen(jobs[j])]>>
=============================================================================
