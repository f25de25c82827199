------------------------------ MODULE Errands ------------------------------
(***************************************************************************)
(* The tasks of one account and who works on them: the scheduler's school   *)
(* run (scheduler/school.go), and the panel's single task, complete-all and *)
(* queue (panel/autotask.go, taskcenter.go, tasks.go). The panel's jobs     *)
(* share the account's lock, the scheduler takes none. The upstream scores  *)
(* what is reported later or not at all, forgets the daily tasks at         *)
(* midnight, and any call may fail, done or not.                            *)
(***************************************************************************)
EXTENDS Integers, FiniteSets, SequencesExt

CONSTANTS
  Growth,       \* growth tasks with an action
  Shares,       \* school tasks that a report alone lights (share_invite)
  Viewed,       \* school tasks that count only once viewed (desktop, chat, expert)
  Once,         \* those of them that are not forgotten at midnight (desktop_chat_1_time)
  SchoolRuns,   \* who runs the school tasks without the lock: the scheduler, schoolRunAll
  Polls,        \* readings after a report before giving up
  MaxDays       \* midnights

School == Shares \cup Viewed
Daily == School \ Once
Tasks == Growth \cup School

ASSUME ErrandsAssumption ==
  /\ IsFiniteSet(Tasks) /\ School # {}
  /\ Growth \cap School = {} /\ Shares \cap Viewed = {} /\ Once \subseteq Viewed
  /\ SchoolRuns \cap {"button", "queue"} = {}
  /\ Polls \in Nat \ {0} /\ MaxDays \in Nat

VARIABLES
  task,         \* per task: "new", "active", "lit", "claimed"
  scoring,      \* tasks whose report the upstream has not scored yet
  chances,      \* draws the account has
  day,
  jobs          \* per actor, what it is doing
errandVars == <<task, scoring, chances, day, jobs>>

Actors == SchoolRuns \cup {"button", "queue"}
\* A job has the tasks it still goes through, and the school tasks "due" behind them or "now" among them.
NoJob ==
  [kind |-> "none", step |-> "none", todo |-> <<>>, school |-> "no", polls |-> 0, have |-> 0, later |-> 0,
   clean |-> TRUE, owed |-> {}]
\* clean, owed and later are there for the properties: whether every call was answered, the tasks lit at
\* the start that the job goes through, and the draws others were granted since the balance was read.

ErrandsInit ==
  /\ task = [t \in Tasks |-> "new"] /\ scoring = {} /\ chances = 0 /\ day = 0
  /\ jobs = [j \in Actors |-> NoJob]

-----------------------------------------------------------------------------
(* The upstream. *)

Score ==
  \E t \in scoring :
    /\ scoring' = scoring \ {t}
    /\ task' = IF task[t] = "claimed" THEN task ELSE [task EXCEPT ![t] = "lit"]
    /\ UNCHANGED <<chances, day, jobs>>

Forget == \E t \in scoring : scoring' = scoring \ {t} /\ UNCHANGED <<task, chances, day, jobs>>

Midnight ==
  /\ day < MaxDays /\ day' = day + 1
  /\ task' = [t \in Tasks |-> IF t \in Daily THEN "new" ELSE task[t]]
  /\ scoring' = scoring \ Daily
  /\ jobs' = [j \in Actors |-> [jobs[j] EXCEPT !.owed = @ \ Daily]]
  /\ UNCHANGED chances

Counts(t) == task[t] = "active" \/ (t \notin Viewed /\ task[t] = "new")

-----------------------------------------------------------------------------
(* Starting a job. *)

Lit == {t \in Tasks : task[t] = "lit"}
Start(j, kind, step, todo, school, covers) ==
  /\ jobs[j] = NoJob
  /\ jobs' = [jobs EXCEPT ![j] = [NoJob EXCEPT !.kind = kind, !.step = step, !.todo = todo, !.school = school,
                                               !.owed = Lit \cap covers]]
  /\ UNCHANGED <<task, scoring, chances, day>>

SchoolOrder == SetToSeq(Shares) \o SetToSeq(Viewed)
GrowthPending(t) == task[t] \notin {"claimed", "lit"}
SchoolPending(t) == task[t] # "claimed" /\ (task[t] = "lit" => t \in Once)
\* The account's lock, which the panel's jobs share.
Locked == \E j \in {"button", "queue"} : jobs[j].step \notin {"none", "lock"}

RunSchool == \E j \in SchoolRuns : Start(j, "school", "open", SchoolOrder, "now", Shares)
AccountTaskAuto == \E t \in Growth : ~Locked /\ Start("button", "single", "look", <<t>>, "no", {t})
RunAutoAll == ~Locked /\ Start("button", "all", "accept", SetToSeq(Growth), "no", {})

\* The queue scans first and takes the lock later, or skips the account.
TasksRunQueue ==
  LET growth == {t \in Growth : GrowthPending(t)}
      school == \E t \in School : SchoolPending(t)
  IN  /\ growth # {} \/ school
      /\ Start("queue", "queue", "lock", SetToSeq(growth), IF school THEN "due" ELSE "no", IF school THEN Shares ELSE {})
QueueLocks ==
  /\ jobs["queue"].step = "lock"
  /\ jobs' = [jobs EXCEPT !["queue"] = IF Locked THEN NoJob ELSE [@ EXCEPT !.step = "accept"]]
  /\ UNCHANGED <<task, scoring, chances, day>>

-----------------------------------------------------------------------------
(* The steps of a job. A call is answered, or fails: done or not. *)

Now(j) == Head(jobs[j].todo)
At(j, step) == jobs[j].step = step
\* The job goes on at a step, to its next task, or ends.
Goes(j, step) == jobs' = [jobs EXCEPT ![j].step = step, ![j].polls = 0]
NextStep(job) ==
  [job EXCEPT !.polls = 0,
     !.step = IF job.todo # <<>> THEN "look"
              ELSE CASE job.school = "due" -> "open" [] job.school = "now" -> "balance" [] OTHER -> "done",
     !.todo = IF @ = <<>> /\ job.school = "due" THEN SchoolOrder ELSE @,
     !.school = IF job.todo = <<>> /\ @ = "due" THEN "now" ELSE @]
After(job, answered) == NextStep([job EXCEPT !.todo = Tail(@), !.clean = @ /\ answered])
Passes(j, answered) == jobs' = [jobs EXCEPT ![j] = After(@, answered)]
Stops(j, answered) == jobs' = [jobs EXCEPT ![j].step = "done", ![j].clean = @ /\ answered]

\* schoolAccount begins with a look at the period.
Open(j) ==
  /\ At(j, "open") /\ (Goes(j, "look") \/ Stops(j, FALSE))
  /\ UNCHANGED <<task, scoring, chances, day>>

\* acceptPendingTasks; a failure does not matter.
Accept(j) ==
  /\ At(j, "accept")
  /\ task' \in {task, [t \in Tasks |-> IF t \in Growth /\ task[t] = "new" THEN "active" ELSE task[t]]}
  /\ jobs' = [jobs EXCEPT ![j] = NextStep(@)]
  /\ UNCHANGED <<scoring, chances, day>>

SkipsLit(j) ==    \* a mutant: what is lit counts as done
  task[Now(j)] \in {"claimed", "lit"}
Skips(j) ==
  \/ task[Now(j)] = "claimed"
  \/ task[Now(j)] = "lit" /\ (Now(j) \in Viewed \/ jobs[j].kind = "all")
Look(j) ==
  /\ At(j, "look")
  /\ \/ Passes(j, FALSE)
     \/ Skips(j) /\ Passes(j, TRUE)
     \/ ~Skips(j) /\ Goes(j, IF Now(j) \in Viewed /\ task[Now(j)] = "new" THEN "view" ELSE "report")
  /\ UNCHANGED <<task, scoring, chances, day>>

View(j) ==
  /\ At(j, "view")
  /\ \/ /\ task' = IF task[Now(j)] = "new" THEN [task EXCEPT ![Now(j)] = "active"] ELSE task
        /\ Goes(j, "report") \/ Passes(j, FALSE)
     \/ task' = task /\ Passes(j, FALSE)
  /\ UNCHANGED <<scoring, chances, day>>

Report(j) ==
  /\ At(j, "report")
  /\ \/ /\ scoring' = IF Counts(Now(j)) THEN scoring \cup {Now(j)} ELSE scoring
        /\ Goes(j, "poll") \/ Passes(j, FALSE)
     \/ scoring' = scoring /\ Passes(j, FALSE)
  /\ UNCHANGED <<task, chances, day>>

\* schoolPollDone and taskByCodeWaiting: a failed reading costs the former one try, the latter all.
Poll(j) ==
  LET t == Now(j)
      once == [jobs[j] EXCEPT !.polls = @ + 1]
      again(answered) == IF once.polls < Polls THEN [once EXCEPT !.clean = @ /\ answered] ELSE After(once, answered)
  IN  /\ At(j, "poll")
      /\ \/ task[t] = "lit" /\ Goes(j, "claim")
         \/ task[t] = "claimed" /\ (IF t \in Growth THEN Passes(j, TRUE) ELSE Goes(j, "claim"))
         \/ task[t] \in {"new", "active"} /\ jobs' = [jobs EXCEPT ![j] = again(TRUE)]
         \/ jobs' = [jobs EXCEPT ![j] = IF t \in Growth THEN After(@, FALSE) ELSE again(FALSE)]
      /\ UNCHANGED <<task, scoring, chances, day>>

Claimed(t) == [task EXCEPT ![t] = IF @ = "lit" THEN "claimed" ELSE @]
Grants(t) == t \in School /\ task[t] = "lit"
Claim(j) ==
  LET t == Now(j)
      Reading(x) == x # j /\ jobs[x].step \in {"draw", "done"}
  IN  /\ At(j, "claim")
      /\ \/ /\ task' = Claimed(t)
            /\ chances' = chances + (IF Grants(t) THEN 1 ELSE 0)
            /\ \E answered \in BOOLEAN :
                 jobs' = [x \in Actors |->
                           IF x = j THEN After(jobs[x], answered)
                           ELSE IF Reading(x) /\ Grants(t) THEN [jobs[x] EXCEPT !.later = @ + 1] ELSE jobs[x]]
         \/ Passes(j, FALSE) /\ UNCHANGED <<task, chances>>
      /\ UNCHANGED <<scoring, day>>

BalanceLessOne(j) ==   \* a mutant: the last chance is kept
  /\ At(j, "balance")
  /\ jobs' = [jobs EXCEPT ![j].step = "draw", ![j].have = IF chances > 0 THEN chances - 1 ELSE 0]
  /\ UNCHANGED <<task, scoring, chances, day>>
Balance(j) ==
  /\ At(j, "balance")
  /\ Stops(j, FALSE) \/ jobs' = [jobs EXCEPT ![j].step = "draw", ![j].have = chances]
  /\ UNCHANGED <<task, scoring, chances, day>>

\* The draws the balance showed, as long as they are granted.
Draw(j) ==
  /\ At(j, "draw")
  /\ IF jobs[j].have = 0 THEN Stops(j, TRUE) /\ UNCHANGED chances
     ELSE \/ chances > 0 /\ chances' = chances - 1 /\ jobs' = [jobs EXCEPT ![j].have = @ - 1]
          \/ chances' \in {chances, IF chances > 0 THEN chances - 1 ELSE 0} /\ Stops(j, FALSE)
  /\ UNCHANGED <<task, scoring, day>>

\* The job reports what it did and lets go of the lock.
Ends(j) ==
  /\ At(j, "done") /\ jobs' = [jobs EXCEPT ![j] = NoJob]
  /\ UNCHANGED <<task, scoring, chances, day>>

\* accountTaskClaim, accountTaskAccept: buttons, without the lock.
ClaimButton ==
  \E t \in Growth :
    /\ task[t] = "lit" /\ task' = Claimed(t)
    /\ UNCHANGED <<scoring, chances, day, jobs>>
AcceptButton ==
  \E ts \in SUBSET Growth :
    /\ task' = [t \in Tasks |-> IF t \in ts /\ task[t] = "new" THEN "active" ELSE task[t]]
    /\ UNCHANGED <<scoring, chances, day, jobs>>

-----------------------------------------------------------------------------

Working(j) ==
  \/ Open(j) \/ Accept(j) \/ Look(j) \/ View(j) \/ Report(j) \/ Poll(j)
  \/ Claim(j) \/ Balance(j) \/ Draw(j) \/ Ends(j)

ErrandsNext ==
  \/ Score \/ Forget \/ Midnight
  \/ RunSchool \/ AccountTaskAuto \/ RunAutoAll \/ TasksRunQueue \/ QueueLocks
  \/ (\E j \in Actors : Working(j))
  \/ ClaimButton \/ AcceptButton

ErrandsSpec == ErrandsInit /\ [][ErrandsNext]_errandVars

-----------------------------------------------------------------------------
(* Properties. *)

ErrandsTypeOK ==
  /\ task \in [Tasks -> {"new", "active", "lit", "claimed"}]
  /\ scoring \subseteq Tasks /\ chances \in Nat /\ day \in 0..MaxDays
  /\ \A j \in Actors : jobs[j].polls \in 0..Polls - 1 /\ jobs[j].owed \subseteq Tasks /\ jobs[j].have \in Nat

\* A reward that was ready and not collected is caught up with: a single task or a school run whose
\* every call was answered leaves none of its tasks lit that were lit when it began, whatever the other
\* jobs, the buttons and the late scores did in between. (The viewed tasks and complete-all skip what is
\* lit: schoolChatTimesTask, schoolExpertTask, schoolDesktopTask, runAutoAll.)
CaughtUp ==
  /\ ErrandsTypeOK
  /\ \A j \in Actors : At(j, "done") /\ jobs[j].clean => \A t \in jobs[j].owed : task[t] = "claimed"

\* A school run that ended well leaves no draw of the account unused but those another job was granted
\* after it had read the balance (schoolAccount draws what one reading showed).
DrawsItsOwn ==
  \A j \in Actors : At(j, "done") /\ jobs[j].clean /\ jobs[j].school = "now" => chances <= jobs[j].later
=============================================================================
