------------------------------ MODULE Scheduler ------------------------------
(***************************************************************************)
(* The timed tasks of internal/scheduler/scheduler.go: the loop that sleeps *)
(* until the next full hour at which some task is due, the loop that        *)
(* refreshes the balances at an interval, and the panel, which changes the  *)
(* hours, the switches and the interval while both loops sleep, work or are *)
(* just computing.  What a task does to the accounts is the business of     *)
(* other modules; here it takes time, and hours may pass meanwhile.         *)
(*                                                                          *)
(* Time is counted in full hours: a slot is an hour h of a day, the clock   *)
(* stands for the hour last struck.  Day is 24 in the program.  The balance *)
(* interval is counted in minutes: its timer fires at any time it is set.   *)
(***************************************************************************)
EXTENDS Integers, Sequences, FiniteSetsExt, SequencesExt

CONSTANTS
  TaskOrder,    \* <<"checkin", "travel", "activity", "keepalive", "blackcat">>
  Day,          \* hours of a day
  MaxTime,      \* bound: the clock stops here
  Schedules,    \* [hours: [TaskKind -> sets of hours], off: sets of task kinds]
  Intervals,    \* of the balance refresh, in minutes; 0 is off
  MaxChanges    \* bound: changes made in the panel

TaskKind == Range(TaskOrder)

ASSUME SchedulerAssumption ==
  /\ Day \in Nat \ {0} /\ MaxTime \in Nat /\ MaxChanges \in Nat
  /\ Schedules \subseteq [hours: [TaskKind -> SUBSET (0 .. Day - 1)], off: SUBSET TaskKind]
  /\ Schedules # {}
  /\ Intervals \subseteq Nat /\ Intervals # {}

Never == -1     \* the zero time: no task is enabled

VARIABLES
  clock, cancelled,              \* the hour; the context of the process
  settings, rearmSchedule,       \* hours and switches under schedMu; the channel's one token
  pc, seen, next, kinds,         \* the loop: the settings of its plan, the slot, the tasks left
  balanceInterval, rearmBalance,
  balPc, cur,                    \* the balance loop and the interval it read
  panel, asked, changes,         \* the step of applyManagedRuntimeConfig under way
  last, did,                     \* observers: the slot last served and the tasks run in it,
  lost                           \* and how many that had struck gave way to a token
loop == <<pc, seen, next, kinds>>
balance == <<balPc, cur>>
panelVars == <<panel, asked, changes>>
observers == <<last, did, lost>>
vars == <<clock, cancelled, settings, rearmSchedule, loop, balanceInterval, rearmBalance,
          balance, panelVars, observers>>

\* An empty list of hours counts as not configured.
Defaults(old, new) ==
  [hours |-> [k \in TaskKind |-> IF new.hours[k] = {} THEN old.hours[k] ELSE new.hours[k]],
   off |-> new.off]

-----------------------------------------------------------------------------
(* The plan. *)

NextFireNotAfter(t, hours) ==   \* a mutant: a slot that has just struck counts as to come
  Min({LET at == (t - (t % Day)) + h IN IF at >= t THEN at ELSE at + Day : h \in hours})

NextFire(t, hours) ==
  Min({LET at == (t - (t % Day)) + h IN IF at > t THEN at ELSE at + Day : h \in hours})

\* A task that is switched off, or has no hours, gets no slot.
Slots(t, s) ==
  [k \in {x \in TaskKind : x \notin s.off /\ s.hours[x] # {}} |-> NextFire(t, s.hours[k])]

\* nextWake: the earliest slot, and every task that is due then.
NextWake(t, s) ==
  LET slots == Slots(t, s)
      first == IF DOMAIN slots = {} THEN Never ELSE Min({slots[k] : k \in DOMAIN slots})
  IN  [at |-> first, kinds |-> {k \in DOMAIN slots : slots[k] = first}]

-----------------------------------------------------------------------------
(* Run: plan, sleep, work. *)

\* One step for the clock and the settings: an hour that strikes between the two is planned for,
\* and its timer fires at once.
LoopPlan ==
  /\ pc = "top"
  /\ pc' = "armed" /\ seen' = settings
  /\ LET w == NextWake(clock, settings) IN next' = w.at /\ kinds' = w.kinds
  /\ UNCHANGED <<clock, cancelled, settings, rearmSchedule, balanceInterval, rearmBalance,
                 balance, panelVars, observers>>

LoopSleep ==
  /\ pc = "armed"
  /\ pc' = "wait"
  /\ UNCHANGED <<clock, cancelled, settings, rearmSchedule, seen, next, kinds, balanceInterval,
                 rearmBalance, balance, panelVars, observers>>

WaitFire ==
  /\ pc = "wait" /\ next # Never /\ clock >= next
  /\ pc' = "run"
  /\ UNCHANGED <<clock, cancelled, settings, rearmSchedule, seen, next, kinds,
                 balanceInterval, rearmBalance, balance, panelVars, observers>>

WaitRearmIgnored ==   \* a mutant: the token is taken and the old plan kept
  /\ pc = "wait" /\ rearmSchedule
  /\ rearmSchedule' = FALSE
  /\ UNCHANGED <<clock, cancelled, settings, loop, balanceInterval, rearmBalance, balance,
                 panelVars, observers>>

Struck == pc = "wait" /\ next # Never /\ clock >= next
Displaced == lost' = IF Struck THEN lost + 1 ELSE lost

WaitRearmKept ==   \* a mutant: the token is left in the channel
  /\ pc = "wait" /\ rearmSchedule
  /\ pc' = "top" /\ Displaced
  /\ UNCHANGED <<clock, cancelled, settings, rearmSchedule, seen, next, kinds, balanceInterval,
                 rearmBalance, balance, panelVars, last, did>>

\* A select takes any case that is ready: the token may win over a timer that has fired, and the
\* slot is gone, as the next plan begins after the present hour.
WaitRearm ==
  /\ pc = "wait" /\ rearmSchedule
  /\ pc' = "top" /\ rearmSchedule' = FALSE
  /\ Displaced
  /\ UNCHANGED <<clock, cancelled, settings, seen, next, kinds, balanceInterval,
                 rearmBalance, balance, panelVars, last, did>>

WaitCancelled ==
  /\ pc = "wait" /\ cancelled
  /\ pc' = "stopped"
  /\ UNCHANGED <<clock, cancelled, settings, rearmSchedule, seen, next, kinds,
                 balanceInterval, rearmBalance, balance, panelVars, observers>>

\* The tasks run in the order in which the plan collects them.
Foremost(k) == \E i \in DOMAIN TaskOrder : k = TaskOrder[i] /\ \A j \in 1 .. i - 1 : TaskOrder[j] \notin kinds
RunTask ==
  /\ pc = "run"
  /\ \E k \in kinds :
       /\ Foremost(k)
       /\ kinds' = kinds \ {k}
       /\ last' = next /\ did' = (IF last = next THEN did ELSE {}) \cup {k}
  /\ UNCHANGED <<clock, cancelled, settings, rearmSchedule, pc, seen, next,
                 balanceInterval, rearmBalance, balance, panelVars, lost>>

RunDone ==
  /\ pc = "run" /\ kinds = {}
  /\ pc' = "top"
  /\ UNCHANGED <<clock, cancelled, settings, rearmSchedule, seen, next, kinds,
                 balanceInterval, rearmBalance, balance, panelVars, observers>>

-----------------------------------------------------------------------------
(* StartBalanceRefresh: a loop of its own, which exists only when it was on *)
(* at the start.                                                            *)

BalanceRead ==
  /\ balPc = "top"
  /\ balPc' = "wait" /\ cur' = balanceInterval
  /\ UNCHANGED <<clock, cancelled, settings, rearmSchedule, loop, balanceInterval, rearmBalance,
                 panelVars, observers>>

BalanceFire ==
  /\ balPc = "wait" /\ cur > 0
  /\ balPc' = "refresh"
  /\ UNCHANGED <<clock, cancelled, settings, rearmSchedule, loop, balanceInterval, rearmBalance,
                 cur, panelVars, observers>>

BalanceRearm ==
  /\ balPc = "wait" /\ rearmBalance
  /\ balPc' = "top" /\ rearmBalance' = FALSE
  /\ UNCHANGED <<clock, cancelled, settings, rearmSchedule, loop, balanceInterval, cur,
                 panelVars, observers>>

BalanceCancelled ==
  /\ balPc = "wait" /\ cancelled
  /\ balPc' = "stopped"
  /\ UNCHANGED <<clock, cancelled, settings, rearmSchedule, loop, balanceInterval, rearmBalance,
                 cur, panelVars, observers>>

BalanceRefreshed ==
  /\ balPc = "refresh"
  /\ balPc' = "top"
  /\ UNCHANGED <<clock, cancelled, settings, rearmSchedule, loop, balanceInterval, rearmBalance,
                 cur, panelVars, observers>>

-----------------------------------------------------------------------------
(* The panel.  One configuration transaction at a time (its lock is held    *)
(* throughout); its steps interleave with the loops.                        *)

Reconfigure ==
  /\ panel = "idle" /\ changes < MaxChanges
  /\ \E s \in Schedules, d \in Intervals :
       /\ settings' = Defaults(settings, s)
       /\ asked' = d
  /\ panel' = "pokeSchedule" /\ changes' = changes + 1
  /\ UNCHANGED <<clock, cancelled, rearmSchedule, loop, balanceInterval, rearmBalance, balance,
                 observers>>

PokeUnbuffered ==   \* a mutant: without a buffer the signal reaches a waiting loop only
  /\ panel = "pokeSchedule"
  /\ rearmSchedule' = (pc = "wait") /\ panel' = "pokeBalance"
  /\ UNCHANGED <<clock, cancelled, settings, loop, balanceInterval, rearmBalance, balance, asked,
                 changes, observers>>

PokeSchedule ==
  /\ panel = "pokeSchedule"
  /\ rearmSchedule' = TRUE /\ panel' = "pokeBalance"
  /\ UNCHANGED <<clock, cancelled, settings, loop, balanceInterval, rearmBalance, balance, asked,
                 changes, observers>>

\* Reconfigure wakes the balance loop too, before its interval is set ...
PokeBalance ==
  /\ panel = "pokeBalance"
  /\ rearmBalance' = TRUE /\ panel' = "store"
  /\ UNCHANGED <<clock, cancelled, settings, rearmSchedule, loop, balanceInterval, balance, asked,
                 changes, observers>>

\* ... and SetBalanceInterval sets it and wakes the loop again.
SetBalanceInterval ==
  /\ panel = "store"
  /\ balanceInterval' = asked /\ panel' = "pokeAgain"
  /\ UNCHANGED <<clock, cancelled, settings, rearmSchedule, loop, rearmBalance, balance, asked,
                 changes, observers>>

PokeAgain ==
  /\ panel = "pokeAgain"
  /\ rearmBalance' = TRUE /\ panel' = "idle"
  /\ UNCHANGED <<clock, cancelled, settings, rearmSchedule, loop, balanceInterval, balance, asked,
                 changes, observers>>

-----------------------------------------------------------------------------
Tick ==
  /\ clock < MaxTime
  /\ clock' = clock + 1
  /\ UNCHANGED <<cancelled, settings, rearmSchedule, loop, balanceInterval, rearmBalance, balance,
                 panelVars, observers>>

Cancel ==
  /\ ~cancelled /\ cancelled' = TRUE
  /\ UNCHANGED <<clock, settings, rearmSchedule, loop, balanceInterval, rearmBalance, balance,
                 panelVars, observers>>

SchedulerInit ==
  /\ clock = 0 /\ cancelled = FALSE
  /\ settings \in Schedules /\ rearmSchedule = FALSE
  /\ pc = "top" /\ seen = settings /\ next = Never /\ kinds = {}
  /\ balanceInterval \in Intervals /\ rearmBalance = FALSE
  /\ balPc = IF balanceInterval > 0 THEN "top" ELSE "off"
  /\ cur = balanceInterval
  /\ panel = "idle" /\ asked = balanceInterval /\ changes = 0
  /\ last = Never /\ did = {} /\ lost = 0

LoopStep ==
  LoopPlan \/ LoopSleep \/ WaitFire \/ WaitRearm \/ WaitCancelled \/ RunTask \/ RunDone
BalanceStep == BalanceRead \/ BalanceFire \/ BalanceRearm \/ BalanceCancelled \/ BalanceRefreshed
PanelStep == PokeSchedule \/ PokeBalance \/ SetBalanceInterval \/ PokeAgain

SchedulerNext == LoopStep \/ BalanceStep \/ PanelStep \/ Reconfigure \/ Tick \/ Cancel

\* Every goroutine that can go on does; a task ends (its calls have time limits).  Nothing is
\* assumed of the clock, the administrator or the signal.
SchedulerSpec ==
  /\ SchedulerInit /\ [][SchedulerNext]_vars
  /\ WF_vars(LoopStep) /\ WF_vars(BalanceStep) /\ WF_vars(PanelStep)

-----------------------------------------------------------------------------
SchedulerTypeOK ==
  /\ clock \in Nat /\ cancelled \in BOOLEAN /\ rearmSchedule \in BOOLEAN /\ rearmBalance \in BOOLEAN
  /\ pc \in {"top", "armed", "wait", "run", "stopped"}
  /\ balPc \in {"off", "top", "wait", "refresh", "stopped"}
  /\ panel \in {"idle", "pokeSchedule", "pokeBalance", "store", "pokeAgain"}
  /\ balanceInterval \in Nat /\ cur \in Nat /\ asked \in Nat /\ changes \in Nat /\ lost \in Nat

\* A change is never lost: as long as a loop sleeps, or is about to, on settings that are no
\* longer current, its channel holds a token or the panel is about to put one there (Reconfigure and
\* SetBalanceInterval change first and poke afterwards, into a buffer of one).
NoRearmLost ==
  /\ SchedulerTypeOK
  /\ pc \in {"armed", "wait"} /\ seen # settings => rearmSchedule \/ panel = "pokeSchedule"
  /\ balPc = "wait" /\ cur # balanceInterval => rearmBalance \/ panel = "pokeAgain"

\* What the loop sleeps for is what is due, and it is not passed over in silence.  When an hour
\* strikes on the loop asleep before its slot, the tasks enabled in that hour (by the settings it
\* planned with) are exactly those it sleeps for.  Once its slot has struck, it wakes to run it, is
\* stopped by the signal, or loses the slot to a token, which OneLossPerChange bounds.  When it
\* goes back to planning after the work, all of the slot's tasks have run, and no task runs twice
\* in a slot, though the plan is made anew within the hour just served, and again after each change.
DueBy(s, t) == {k \in TaskKind : k \notin s.off /\ t % Day \in s.hours[k]}
Due(t) == DueBy(seen, t)
SlotsServed ==
  [][/\ clock' # clock /\ pc \in {"armed", "wait"} /\ (next = Never \/ clock < next) =>
          Due(clock') = IF next = clock' THEN kinds ELSE {}
     /\ Struck /\ ~Struck' =>
          \/ pc' = "run" /\ kinds' = Due(next) /\ last # next
          \/ pc' = "stopped" /\ cancelled
          \/ pc' = "top" /\ lost' = lost + 1
     /\ pc = "run" /\ pc' # "run" => last = next /\ did = Due(next)
     /\ pc = "run" /\ kinds' # kinds => ~(last = next /\ (kinds \ kinds') \cap did # {})]_vars

\* A save in the panel costs the sleeping loop one slot at the most: the slots lost so far, the
\* token in the channel and the one about to be put there are paid for by as many changes.
OneLossPerChange ==
  lost + (IF rearmSchedule THEN 1 ELSE 0) + (IF panel = "pokeSchedule" THEN 1 ELSE 0) <= changes

\* The one-token channels wake a loop neither too rarely nor too often: no change is lost, and none
\* displaces more than one slot.
RearmsBalance == NoRearmLost /\ OneLossPerChange

\* A change made in the panel is taken up by both loops, or they stop: a loop that exists does not
\* stay on old settings.
ChangeTakenUp ==
  /\ (seen # settings) ~> (seen = settings \/ pc = "stopped")
  /\ (cur # balanceInterval /\ balPc # "off") ~> (cur = balanceInterval \/ balPc = "stopped")

\* The claim of README.md:518-519 that schedule.*, the refresh interval included, takes effect at
\* once and without a restart: an interval set in the panel is taken up by the balance refresh.
BalanceTakenUp == (balanceInterval > 0) ~> (cur = balanceInterval \/ cancelled)
=============================================================================
