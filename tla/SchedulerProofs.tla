--------------------------- MODULE SchedulerProofs ---------------------------
(***************************************************************************)
(* No change of the schedule or of the refresh interval is lost, whatever   *)
(* the tasks, hours and intervals, and however often the panel saves.       *)
(*                                                                         *)
(* SlotsFit is inductive: what the sleeping loop has planned is all that is *)
(* due until then, and the tasks run and left make up the slot.  That the   *)
(* plan is exact rests on arithmetic of days and hours, and on the least    *)
(* number principle.                                                       *)
(*                                                                         *)
(* The errands run for an account collect what was ready when they began,  *)
(* and the school run leaves no draw of its own behind, whatever the tasks, *)
(* the polls and the jobs at work.                                          *)
(***************************************************************************)
EXTENDS Scheduler, Errands, FiniteSetTheorems, SequenceTheorems, WellFoundedInduction, TLAPS

(* The scheduler's loops. *)

\* The two halves of NoRearmLost, one per loop.
ScheduleKept == pc \in {"armed", "wait"} /\ seen # settings => rearmSchedule \/ panel = "pokeSchedule"
IntervalKept == balPc = "wait" /\ cur # balanceInterval => rearmBalance \/ panel = "pokeAgain"

LEMMA Halves == NoRearmLost <=> SchedulerTypeOK /\ ScheduleKept /\ IntervalKept
  BY DEF NoRearmLost, ScheduleKept, IntervalKept

LEMMA SchedulerInitInv == SchedulerInit => NoRearmLost
<1> SUFFICES ASSUME SchedulerInit PROVE SchedulerTypeOK /\ ScheduleKept /\ IntervalKept
  BY Halves
<1>1. SchedulerTypeOK
  BY SchedulerAssumption DEF SchedulerInit, SchedulerTypeOK
<1>2. ScheduleKept /\ IntervalKept
  BY DEF SchedulerInit, ScheduleKept, IntervalKept
<1> QED
  BY <1>1, <1>2

-----------------------------------------------------------------------------

\* The loop of the tasks plans with the settings of the moment and leaves the
\* panel and the other loop alone.
LEMMA LoopKeeps ==
  ASSUME NoRearmLost, LoopStep
  PROVE  NoRearmLost'
<1> USE DEF loop, balance, panelVars, observers
<1>0. SchedulerTypeOK /\ ScheduleKept /\ IntervalKept
  BY Halves
<1>1. CASE LoopPlan
  BY <1>0, <1>1 DEF LoopPlan, SchedulerTypeOK, NoRearmLost, IntervalKept
<1>2. CASE LoopSleep
  BY <1>0, <1>2 DEF LoopSleep, SchedulerTypeOK, NoRearmLost, ScheduleKept, IntervalKept
<1>3. CASE WaitFire \/ WaitCancelled \/ RunDone
  BY <1>0, <1>3 DEF WaitFire, WaitCancelled, RunDone, SchedulerTypeOK, NoRearmLost, IntervalKept
<1>4. CASE WaitRearm
  <2>1. lost' \in Nat
    BY <1>0, <1>4 DEF WaitRearm, Displaced, SchedulerTypeOK
  <2> QED
    BY <1>0, <1>4, <2>1 DEF WaitRearm, SchedulerTypeOK, NoRearmLost, IntervalKept
<1>5. CASE RunTask
  BY <1>0, <1>5 DEF RunTask, SchedulerTypeOK, NoRearmLost, IntervalKept
<1> QED
  BY <1>1, <1>2, <1>3, <1>4, <1>5 DEF LoopStep

\* So does the loop of the balances.
LEMMA BalanceKeeps ==
  ASSUME NoRearmLost, BalanceStep
  PROVE  NoRearmLost'
<1> USE DEF loop, balance, panelVars, observers
<1>0. SchedulerTypeOK /\ ScheduleKept /\ IntervalKept
  BY Halves
<1>1. CASE BalanceRead
  BY <1>0, <1>1 DEF BalanceRead, SchedulerTypeOK, NoRearmLost, ScheduleKept
<1>2. CASE BalanceFire \/ BalanceCancelled \/ BalanceRefreshed
  BY <1>0, <1>2
     DEF BalanceFire, BalanceCancelled, BalanceRefreshed, SchedulerTypeOK, NoRearmLost, ScheduleKept
<1>3. CASE BalanceRearm
  BY <1>0, <1>3 DEF BalanceRearm, SchedulerTypeOK, NoRearmLost, ScheduleKept
<1> QED
  BY <1>1, <1>2, <1>3 DEF BalanceStep

\* The panel changes first and pokes afterwards: in between its own step says so.
LEMMA PanelKeeps ==
  ASSUME NoRearmLost, PanelStep \/ Reconfigure
  PROVE  NoRearmLost'
<1> USE DEF loop, balance, panelVars, observers
<1>0. SchedulerTypeOK /\ ScheduleKept /\ IntervalKept
  BY Halves
<1>1. CASE Reconfigure
  <2>1. asked' \in Nat
    BY <1>1, SchedulerAssumption DEF Reconfigure
  <2>2. panel = "idle" /\ panel' = "pokeSchedule"
    BY <1>1 DEF Reconfigure
  <2>3. SchedulerTypeOK'
    BY <1>0, <1>1, <2>1, <2>2 DEF Reconfigure, SchedulerTypeOK
  <2>4. IntervalKept'
    BY <1>0, <1>1, <2>2 DEF Reconfigure, IntervalKept
  <2>5. ScheduleKept'
    BY <2>2 DEF ScheduleKept
  <2> QED
    BY <2>3, <2>4, <2>5 DEF NoRearmLost, ScheduleKept, IntervalKept
<1>2. CASE PokeSchedule
  BY <1>0, <1>2 DEF PokeSchedule, SchedulerTypeOK, NoRearmLost, IntervalKept
<1>3. CASE PokeBalance
  BY <1>0, <1>3 DEF PokeBalance, SchedulerTypeOK, NoRearmLost, ScheduleKept
<1>4. CASE SetBalanceInterval
  BY <1>0, <1>4 DEF SetBalanceInterval, SchedulerTypeOK, NoRearmLost, ScheduleKept
<1>5. CASE PokeAgain
  BY <1>0, <1>5 DEF PokeAgain, SchedulerTypeOK, NoRearmLost, ScheduleKept
<1> QED
  BY <1>1, <1>2, <1>3, <1>4, <1>5 DEF PanelStep

LEMMA WorldKeeps ==
  ASSUME NoRearmLost, Tick \/ Cancel \/ UNCHANGED vars
  PROVE  NoRearmLost'
<1> USE DEF loop, balance, panelVars, observers
<1>1. CASE Tick
  BY <1>1 DEF Tick, SchedulerTypeOK, NoRearmLost
<1>2. CASE Cancel
  BY <1>2 DEF Cancel, SchedulerTypeOK, NoRearmLost
<1>3. CASE UNCHANGED vars
  BY <1>3 DEF vars, SchedulerTypeOK, NoRearmLost
<1> QED
  BY <1>1, <1>2, <1>3

\* The channel of one token suffices: neither loop ever sleeps on settings that
\* are no longer current without a token to wake it, or the panel about to put one
\* there (Run, StartBalanceRefresh, Reconfigure, SetBalanceInterval).
THEOREM RearmNeverLost == SchedulerSpec => []NoRearmLost
<1>1. NoRearmLost /\ [SchedulerNext]_vars => NoRearmLost'
  BY LoopKeeps, BalanceKeeps, PanelKeeps, WorldKeeps DEF SchedulerNext
<1> QED
  BY <1>1, SchedulerInitInv, PTL DEF SchedulerSpec

-----------------------------------------------------------------------------
(* The plan of the task loop. *)

\* Every set of naturals that is not empty has a least element: among the finite
\* sets of its elements up to a bound, one has no smaller one within.
LEMMA LeastNumber ==
  ASSUME NEW S, S \subseteq Nat, S # {}
  PROVE  \E x \in S : \A y \in S : x <= y
<1> DEFINE below(k) == {m \in S : m <= k}
           T == {below(k) : k \in S}
<1>1. T \subseteq FiniteSubsetsOf(Nat)
  <2>1. ASSUME NEW k \in S PROVE below(k) \in FiniteSubsetsOf(Nat)
    <3>1. below(k) \in SUBSET Nat /\ \A m \in below(k) : m <= k
      OBVIOUS
    <3>2. k \in Nat
      OBVIOUS
    <3> HIDE DEF below
    <3> QED
      BY <3>1, <3>2, FS_BoundedSetOfNaturals DEF FiniteSubsetsOf
  <2> QED
    BY <2>1
<1>2. T # {}
  OBVIOUS
<1>3. PICK x \in T : \A y \in T : ~ (<<y, x>> \in StrictSubsetOrdering(Nat))
  <2> HIDE DEF T
  <2> QED
    BY <1>1, <1>2, FS_StrictSubsetOrderingWellFounded, WFMin
<1>4. PICK k \in S : x = below(k)
  BY <1>3
<1>5. ASSUME NEW y \in S, ~(k <= y) PROVE FALSE
  <2>1. y \in Nat /\ k \in Nat
    OBVIOUS
  <2>2. \A m \in Nat : m <= y => m <= k
    BY <1>5, <2>1
  <2>3. below(y) \in T /\ below(y) \subseteq below(k)
    BY <2>2
  <2>4. k \in below(k) /\ k \notin below(y)
    BY <1>5, <2>1
  <2> HIDE DEF below, T
  <2>5. below(y) \in SUBSET Nat /\ x \in SUBSET Nat
    BY <1>1, <2>3 DEF FiniteSubsetsOf
  <2> QED
    BY <1>3, <1>4, <2>3, <2>4, <2>5 DEF StrictSubsetOrdering
<1> QED
  BY <1>5

LEMMA MinIsLeast ==
  ASSUME NEW S, S \subseteq Nat, S # {}
  PROVE  Min(S) \in S /\ \A y \in S : Min(S) <= y
BY LeastNumber DEF Min

-----------------------------------------------------------------------------
(* Hours of the day.                                                         *)

\* A time is so many days and an hour.
LEMMA DayAndHour ==
  ASSUME NEW t \in Nat
  PROVE  \E q \in Nat, r \in 0 .. Day - 1 : t = Day * q + r /\ t % Day = r
<1>1. Day \in Nat \ {0}
  BY SchedulerAssumption
<1>2. t = Day * (t \div Day) + (t % Day)
  BY <1>1
<1>3. t % Day \in 0 .. Day - 1 /\ t \div Day \in Nat
  BY <1>1
<1> QED
  BY <1>2, <1>3

\* The hour of a time so put together.
LEMMA HourOf ==
  ASSUME NEW q \in Nat, NEW r \in 0 .. Day - 1
  PROVE  Day * q + r \in Nat /\ (Day * q + r) % Day = r
<1>1. Day \in Nat \ {0}
  BY SchedulerAssumption
<1> QED
  BY <1>1

LEMMA LaterDay ==
  ASSUME NEW p \in Nat, NEW q \in Nat, p < q
  PROVE  Day * p + Day <= Day * q
<1>1. Day \in Nat \ {0}
  BY SchedulerAssumption
<1> QED
  BY <1>1

\* The next time an hour strikes, today or tomorrow.
Strikes(t, h) == LET at == (t - (t % Day)) + h IN IF at > t THEN at ELSE at + Day

LEMMA StrikesNext ==
  ASSUME NEW t \in Nat, NEW h \in 0 .. Day - 1
  PROVE  /\ Strikes(t, h) \in Nat /\ Strikes(t, h) > t /\ Strikes(t, h) % Day = h
         /\ \A u \in Nat : u > t /\ u % Day = h => Strikes(t, h) <= u
<1>1. Day \in Nat \ {0} /\ h \in Nat
  BY SchedulerAssumption
<1>2. PICK q \in Nat, r \in 0 .. Day - 1 : t = Day * q + r /\ t % Day = r
  BY DayAndHour
<1>3. Day * q \in Nat /\ Day * (q + 1) = Day * q + Day /\ q + 1 \in Nat
  BY <1>1
<1>4. Strikes(t, h) = IF Day * q + h > t THEN Day * q + h ELSE Day * (q + 1) + h
  BY <1>1, <1>2, <1>3 DEF Strikes
<1>5. /\ Day * q + h \in Nat /\ (Day * q + h) % Day = h
      /\ Day * (q + 1) + h \in Nat /\ (Day * (q + 1) + h) % Day = h
  BY <1>3, HourOf
<1>6. Strikes(t, h) \in Nat /\ Strikes(t, h) > t /\ Strikes(t, h) % Day = h
  BY <1>1, <1>2, <1>3, <1>4, <1>5
<1>7. ASSUME NEW u \in Nat, u > t, u % Day = h PROVE Strikes(t, h) <= u
  <2>1. PICK p \in Nat, s \in 0 .. Day - 1 : u = Day * p + s /\ u % Day = s
    BY DayAndHour
  <2>2. u = Day * p + h /\ Day * p \in Nat
    BY <1>1, <1>7, <2>1
  <2>3. CASE p < q
    <3>1. Day * p + Day <= Day * q
      BY <2>3, LaterDay
    <3> QED
      BY <1>1, <1>2, <1>3, <1>7, <2>2, <3>1
  <2>4. CASE p = q
    BY <1>1, <1>2, <1>3, <1>4, <1>7, <2>2, <2>4
  <2>5. CASE q < p
    <3>1. Day * q + Day <= Day * p
      BY <2>5, LaterDay
    <3> QED
      BY <1>1, <1>2, <1>3, <1>4, <2>2, <3>1
  <2> QED
    BY <2>3, <2>4, <2>5
<1> QED
  BY <1>6, <1>7

\* nextFire gives the next time at which one of the hours strikes.
LEMMA NextFireIsNext ==
  ASSUME NEW t \in Nat, NEW hours \in SUBSET (0 .. Day - 1), hours # {}
  PROVE  /\ NextFire(t, hours) \in Nat /\ NextFire(t, hours) > t /\ NextFire(t, hours) % Day \in hours
         /\ \A u \in Nat : u > t /\ u % Day \in hours => NextFire(t, hours) <= u
<1> DEFINE S == {Strikes(t, h) : h \in hours}
<1>1. NextFire(t, hours) = Min(S)
  BY DEF NextFire, Strikes
<1>2. S \subseteq Nat /\ S # {}
  BY StrikesNext
<1>3. Min(S) \in S /\ \A y \in S : Min(S) <= y
  <2> HIDE DEF S
  <2> QED
    BY <1>2, MinIsLeast
<1>4. PICK h \in hours : Min(S) = Strikes(t, h)
  BY <1>3
<1>5. ASSUME NEW u \in Nat, u > t, u % Day \in hours PROVE Min(S) <= u
  <2>1. Strikes(t, u % Day) \in S /\ Strikes(t, u % Day) <= u /\ Strikes(t, u % Day) \in Nat
    BY <1>5, StrikesNext
  <2>2. Min(S) <= Strikes(t, u % Day) /\ Min(S) \in Nat
    BY <1>2, <1>3, <2>1
  <2> QED
    BY <2>1, <2>2
<1> QED
  BY <1>1, <1>4, <1>5, StrikesNext

-----------------------------------------------------------------------------
(* The plan.                                                                 *)

Schedule == [hours: [TaskKind -> SUBSET (0 .. Day - 1)], off: SUBSET TaskKind]

\* nextWake: nothing is due before the time it gives, and what is due then is
\* exactly what it gives; if it gives none, nothing is ever due.
LEMMA PlanIsExact ==
  ASSUME NEW t \in Nat, NEW s \in Schedule
  PROVE  LET w == NextWake(t, s)
         IN  /\ w.at = Never => \A u \in Nat : u > t => DueBy(s, u) = {}
             /\ w.at # Never =>
                  /\ w.at \in Nat /\ w.at > t /\ w.kinds = DueBy(s, w.at) /\ w.kinds # {}
                  /\ \A u \in Nat : u > t /\ u < w.at => DueBy(s, u) = {}
<1> DEFINE on == {k \in TaskKind : k \notin s.off /\ s.hours[k] # {}}
           slots == Slots(t, s)
           S == {slots[k] : k \in on}
           first == IF on = {} THEN Never ELSE Min(S)
<1>1. DOMAIN slots = on /\ \A k \in on : slots[k] = NextFire(t, s.hours[k])
  BY DEF Slots
<1>2. NextWake(t, s) = [at |-> first, kinds |-> {k \in on : slots[k] = first}]
  BY <1>1 DEF NextWake
<1>3. ASSUME NEW k \in on
      PROVE  /\ slots[k] \in Nat /\ slots[k] > t /\ slots[k] % Day \in s.hours[k]
             /\ \A u \in Nat : u > t /\ u % Day \in s.hours[k] => slots[k] <= u
  <2>1. s.hours[k] \in SUBSET (0 .. Day - 1) /\ s.hours[k] # {}
    BY DEF Schedule
  <2> QED
    BY <1>1, <2>1, NextFireIsNext
<1>4. ASSUME NEW u PROVE DueBy(s, u) = {k \in on : u % Day \in s.hours[k]}
  BY DEF DueBy
<1> HIDE DEF slots, on
<1>5. CASE on = {}
  BY <1>2, <1>4, <1>5
<1>6. CASE on # {}
  <2>1. S \subseteq Nat /\ S # {}
    BY <1>3, <1>6
  <2>2. Min(S) \in S /\ \A y \in S : Min(S) <= y
    <3> HIDE DEF S
    <3> QED
      BY <2>1, MinIsLeast
  <2>3. first = Min(S) /\ first \in Nat /\ first # Never
    BY <1>6, <2>1, <2>2 DEF Never
  <2>4. \A k \in on : first <= slots[k] /\ slots[k] \in Nat
    BY <1>3, <2>2, <2>3
  <2>5. PICK k0 \in on : first = slots[k0]
    BY <2>2, <2>3
  <2> HIDE DEF S, first
  <2>6. first > t
    BY <1>3, <2>5
  <2>7. {k \in on : slots[k] = first} = DueBy(s, first)
    <3>1. ASSUME NEW k \in on PROVE slots[k] = first <=> first % Day \in s.hours[k]
      <4>1. slots[k] = first => first % Day \in s.hours[k]
        BY <1>3
      <4>2. first % Day \in s.hours[k] => slots[k] <= first
        BY <1>3, <2>3, <2>6
      <4> QED
        BY <2>3, <2>4, <4>1, <4>2
    <3> QED
      BY <1>4, <3>1
  <2>8. ASSUME NEW u \in Nat, u > t, u < first PROVE DueBy(s, u) = {}
    <3>1. ASSUME NEW k \in on, u % Day \in s.hours[k] PROVE FALSE
      <4>1. slots[k] <= u
        BY <1>3, <2>8, <3>1
      <4> QED
        BY <2>3, <2>4, <2>8, <4>1
    <3> QED
      BY <1>4, <3>1
  <2> QED
    BY <1>2, <2>3, <2>5, <2>6, <2>7, <2>8
<1> QED
  BY <1>5, <1>6

-----------------------------------------------------------------------------
(* The loop.                                                                 *)

\* What the loop has before it.  While it sleeps, nothing is due from now until
\* the slot of its plan; while it works, the tasks run and the tasks left make
\* up the slot.  The slot served last is never ahead.
SlotsFit ==
  /\ clock \in Nat /\ seen \in Schedule /\ settings \in Schedule /\ pc \in {"top", "armed", "wait", "run", "stopped"}
  /\ last \in Nat \cup {Never} /\ last <= clock
  /\ pc \in {"armed", "wait"} =>
       /\ \A t \in Nat : t > clock /\ (next = Never \/ t < next) => Due(t) = {}
       /\ next # Never => next \in Nat /\ kinds = Due(next) /\ kinds # {} /\ last < next
  /\ pc = "run" =>
       /\ next \in Nat /\ next <= clock
       /\ last # next => kinds = Due(next) /\ kinds # {}
       /\ last = next => kinds \cup did = Due(next) /\ kinds \cap did = {}

LEMMA SlotsInitInv == SchedulerInit => SlotsFit
<1> SUFFICES ASSUME SchedulerInit PROVE SlotsFit
  OBVIOUS
<1>1. settings \in Schedule
  BY SchedulerAssumption DEF SchedulerInit, Schedule
<1> QED
  BY <1>1 DEF SchedulerInit, SlotsFit, Never

\* What the rest of the program may do to the loop: the clock goes on, the
\* settings change.
LEMMA OthersKeepSlots ==
  ASSUME SlotsFit, UNCHANGED <<loop, observers>>, clock' \in {clock, clock + 1},
         settings' \in Schedule
  PROVE  SlotsFit'
<1>1. UNCHANGED <<pc, seen, next, kinds, last, did>> /\ \A t : Due(t)' = Due(t)
  BY DEF loop, observers, Due, DueBy
<1>2. clock \in Nat /\ clock' \in Nat /\ clock <= clock'
  BY DEF SlotsFit
<1>3. \A t \in Nat : t > clock' => t > clock
  BY <1>2
<1>4. last' <= clock' /\ (next \in Nat /\ next <= clock => next' <= clock')
  BY <1>1, <1>2 DEF SlotsFit, Never
<1>5. ASSUME pc \in {"armed", "wait"}
      PROVE  /\ \A t \in Nat : t > clock' /\ (next' = Never \/ t < next') => Due(t)' = {}
             /\ next' # Never => next' \in Nat /\ kinds' = Due(next)' /\ kinds' # {} /\ last' < next'
  BY <1>1, <1>3, <1>5 DEF SlotsFit
<1>6. ASSUME pc = "run"
      PROVE  /\ next' \in Nat /\ next' <= clock'
             /\ last' # next' => kinds' = Due(next)' /\ kinds' # {}
             /\ last' = next' => kinds' \cup did' = Due(next)' /\ kinds' \cap did' = {}
  BY <1>1, <1>4, <1>6 DEF SlotsFit
<1> QED
  BY <1>1, <1>2, <1>4, <1>5, <1>6 DEF SlotsFit

LEMMA DefaultsFit ==
  ASSUME NEW old \in Schedule, NEW new \in Schedules
  PROVE  Defaults(old, new) \in Schedule
BY SchedulerAssumption DEF Defaults, Schedule

LEMMA PlanKeepsSlots ==
  ASSUME SlotsFit, LoopPlan
  PROVE  SlotsFit'
<1> DEFINE w == NextWake(clock, settings)
<1>1. /\ pc' = "armed" /\ seen' = settings /\ next' = w.at /\ kinds' = w.kinds
      /\ UNCHANGED <<clock, settings, last, did>>
  BY DEF LoopPlan, observers
<1>2. clock \in Nat /\ settings \in Schedule /\ last \in Nat \cup {Never} /\ last <= clock
  BY DEF SlotsFit
<1>3. \A t : Due(t)' = DueBy(settings, t)
  BY <1>1 DEF Due, DueBy
<1>4. /\ w.at = Never => \A u \in Nat : u > clock => DueBy(settings, u) = {}
      /\ w.at # Never =>
           /\ w.at \in Nat /\ w.at > clock /\ w.kinds = DueBy(settings, w.at) /\ w.kinds # {}
           /\ \A u \in Nat : u > clock /\ u < w.at => DueBy(settings, u) = {}
  BY <1>2, PlanIsExact
<1> HIDE DEF w
<1>5. next' # Never => next' \in Nat /\ kinds' = Due(next)' /\ kinds' # {} /\ last' < next'
  <2>1. Due(next)' = DueBy(settings, next')
    BY <1>1 DEF Due, DueBy
  <2> QED
    BY <1>1, <1>2, <1>4, <2>1 DEF Never
<1>6. \A t \in Nat : t > clock' /\ (next' = Never \/ t < next') => Due(t)' = {}
  BY <1>1, <1>3, <1>4
<1> QED
  BY <1>1, <1>2, <1>5, <1>6 DEF SlotsFit

LEMMA LoopKeepsSlots ==
  ASSUME SlotsFit, LoopStep
  PROVE  SlotsFit'
<1>1. CASE LoopPlan
  BY <1>1, PlanKeepsSlots
<1>2. CASE LoopSleep \/ WaitRearm \/ WaitCancelled \/ RunDone
  <2>1. /\ UNCHANGED <<clock, settings, seen, next, kinds, last, did>>
        /\ pc' \in {"top", "wait", "stopped"} /\ (pc' = "wait" => pc = "armed")
    BY <1>2 DEF LoopSleep, WaitRearm, WaitCancelled, RunDone, observers
  <2>2. \A t : Due(t)' = Due(t)
    BY <2>1 DEF Due, DueBy
  <2> QED
    BY <2>1, <2>2 DEF SlotsFit
<1>3. CASE WaitFire
  <2>1. /\ pc = "wait" /\ next # Never /\ clock >= next /\ pc' = "run"
        /\ UNCHANGED <<clock, settings, seen, next, kinds, last, did>>
    BY <1>3 DEF WaitFire, observers
  <2>2. Due(next)' = Due(next)
    BY <2>1 DEF Due, DueBy
  <2>3. next \in Nat /\ kinds = Due(next) /\ kinds # {} /\ last < next /\ last # next
    BY <2>1 DEF SlotsFit, Never
  <2>4. next' <= clock'
    BY <2>1, <2>3 DEF SlotsFit
  <2> QED
    BY <2>1, <2>2, <2>3, <2>4 DEF SlotsFit
<1>4. CASE RunTask
  <2>1. PICK k \in kinds : /\ kinds' = kinds \ {k} /\ last' = next
                           /\ did' = (IF last = next THEN did ELSE {}) \cup {k}
    BY <1>4 DEF RunTask
  <2>2. pc = "run" /\ UNCHANGED <<clock, settings, pc, seen, next>>
    BY <1>4 DEF RunTask
  <2>3. Due(next)' = Due(next)
    BY <2>2 DEF Due, DueBy
  <2>4. kinds' \cup did' = Due(next)' /\ kinds' \cap did' = {}
    <3>1. CASE last = next
      BY <2>1, <2>2, <2>3, <3>1 DEF SlotsFit
    <3>2. CASE last # next
      BY <2>1, <2>2, <2>3, <3>2 DEF SlotsFit
    <3> QED
      BY <3>1, <3>2
  <2> QED
    BY <2>1, <2>2, <2>4 DEF SlotsFit
<1> QED
  BY <1>1, <1>2, <1>3, <1>4 DEF LoopStep

LEMMA SlotsStepInv == SlotsFit /\ [SchedulerNext]_vars => SlotsFit'
<1> SUFFICES ASSUME SlotsFit, [SchedulerNext]_vars PROVE SlotsFit'
  OBVIOUS
<1>1. CASE LoopStep
  BY <1>1, LoopKeepsSlots
<1>2. ASSUME ~LoopStep
      PROVE  UNCHANGED <<loop, observers>> /\ clock' \in {clock, clock + 1} /\ settings' \in Schedule
  <2>1. CASE BalanceStep \/ PanelStep \/ UNCHANGED vars
    BY <2>1 DEF BalanceStep, BalanceRead, BalanceFire, BalanceRearm, BalanceCancelled, BalanceRefreshed,
         PanelStep, PokeSchedule, PokeBalance, SetBalanceInterval, PokeAgain, vars, SlotsFit
  <2>2. CASE Reconfigure
    BY <2>2, DefaultsFit DEF Reconfigure, SlotsFit
  <2>3. CASE Tick \/ Cancel
    BY <2>3 DEF Tick, Cancel, SlotsFit
  <2> QED
    BY <1>2, <2>1, <2>2, <2>3 DEF SchedulerNext
<1> QED
  BY <1>1, <1>2, OthersKeepSlots

\* Whatever the tasks, the length of the day and the schedules, and however often
\* the panel changes them: when an hour strikes on the loop asleep before its slot,
\* the tasks due are exactly those it sleeps for; a slot that has struck is run,
\* ends with the process or is counted as lost; once begun, all its tasks have run
\* when the loop plans again; and none runs twice in a slot (nextFire, nextWake, Run).
THEOREM EverySlotIsServed == SchedulerSpec => SlotsServed
<1> DEFINE Served ==
       /\ clock' # clock /\ pc \in {"armed", "wait"} /\ (next = Never \/ clock < next) =>
            Due(clock') = IF next = clock' THEN kinds ELSE {}
       /\ Struck /\ ~Struck' =>
            \/ pc' = "run" /\ kinds' = Due(next) /\ last # next
            \/ pc' = "stopped" /\ cancelled
            \/ pc' = "top" /\ lost' = lost + 1
       /\ pc = "run" /\ pc' # "run" => last = next /\ did = Due(next)
       /\ pc = "run" /\ kinds' # kinds => ~(last = next /\ (kinds \ kinds') \cap did # {})
<1>1. SlotsFit /\ [SchedulerNext]_vars => [Served]_vars
  <2> SUFFICES ASSUME SlotsFit, SchedulerNext
               PROVE  Served
    OBVIOUS
  <2>1. ASSUME clock' # clock, pc \in {"armed", "wait"}, next = Never \/ clock < next
        PROVE  Due(clock') = IF next = clock' THEN kinds ELSE {}
    <3>1. clock \in Nat /\ clock' = clock + 1
      <4>1. CASE Tick
        BY <4>1 DEF Tick, SlotsFit
      <4>2. CASE ~Tick
        BY <2>1, <4>2
           DEF SchedulerNext, LoopStep, LoopPlan, LoopSleep, WaitFire, WaitRearm, WaitCancelled, RunTask, RunDone,
               BalanceStep, BalanceRead, BalanceFire, BalanceRearm, BalanceCancelled, BalanceRefreshed,
               PanelStep, PokeSchedule, PokeBalance, SetBalanceInterval, PokeAgain, Reconfigure, Cancel
      <4> QED
        BY <4>1, <4>2
    <3>2. clock' \in Nat /\ clock' > clock /\ clock' # Never
      BY <3>1 DEF Never
    <3>3. next # Never => next \in Nat /\ kinds = Due(next)
      BY <2>1 DEF SlotsFit
    <3>4. next = clock' \/ next = Never \/ clock' < next
      BY <2>1, <3>1, <3>3
    <3>5. next = Never \/ clock' < next => Due(clock') = {}
      BY <2>1, <3>2 DEF SlotsFit
    <3>6. clock' < next => next # clock'
      BY <3>2, <3>3 DEF Never
    <3> QED
      BY <3>2, <3>3, <3>4, <3>5, <3>6
  <2>2. ASSUME pc = "run", pc' # "run" \/ kinds' # kinds
        PROVE  RunTask \/ RunDone
    BY <2>2
       DEF SchedulerNext, LoopStep, LoopPlan, LoopSleep, WaitFire, WaitRearm, WaitCancelled, loop,
           BalanceStep, BalanceRead, BalanceFire, BalanceRearm, BalanceCancelled, BalanceRefreshed,
           PanelStep, PokeSchedule, PokeBalance, SetBalanceInterval, PokeAgain, Reconfigure, Tick, Cancel
  <2>3. ASSUME pc = "run", pc' # "run" PROVE last = next /\ did = Due(next)
    <3>1. RunDone
      BY <2>2, <2>3 DEF RunTask
    <3> QED
      BY <2>3, <3>1 DEF RunDone, SlotsFit
  <2>4. ASSUME pc = "run", kinds' # kinds, last = next, (kinds \ kinds') \cap did # {} PROVE FALSE
    <3>1. RunTask
      BY <2>2, <2>4 DEF RunDone
    <3>2. kinds \ kinds' \subseteq kinds /\ kinds \cap did = {}
      BY <2>4 DEF SlotsFit
    <3> QED
      BY <2>4, <3>2
  <2>5. ASSUME Struck, ~Struck'
        PROVE  \/ pc' = "run" /\ kinds' = Due(next) /\ last # next
               \/ pc' = "stopped" /\ cancelled
               \/ pc' = "top" /\ lost' = lost + 1
    <3>1. /\ pc = "wait" /\ next # Never /\ clock >= next
          /\ next \in Nat /\ kinds = Due(next) /\ last < next /\ last \in Nat \cup {Never}
      BY <2>5 DEF Struck, SlotsFit
    <3>2. last # next
      BY <3>1 DEF Never
    <3>3. CASE WaitFire
      BY <3>1, <3>2, <3>3 DEF WaitFire
    <3>4. CASE WaitCancelled
      BY <3>4 DEF WaitCancelled
    <3>5. CASE WaitRearm
      BY <2>5, <3>5 DEF WaitRearm, Displaced
    <3>6. CASE ~(WaitFire \/ WaitCancelled \/ WaitRearm)
      <4>1. UNCHANGED <<pc, next>> /\ clock' \in {clock, clock + 1}
        BY <3>1, <3>6
           DEF SchedulerNext, LoopStep, LoopPlan, LoopSleep, RunTask, RunDone, loop,
               BalanceStep, BalanceRead, BalanceFire, BalanceRearm, BalanceCancelled, BalanceRefreshed,
               PanelStep, PokeSchedule, PokeBalance, SetBalanceInterval, PokeAgain, Reconfigure, Tick, Cancel
      <4>2. clock' >= next'
        BY <3>1, <4>1 DEF SlotsFit
      <4> QED
        BY <2>5, <3>1, <4>1, <4>2 DEF Struck
    <3> QED
      BY <3>3, <3>4, <3>5, <3>6
  <2> QED
    BY <2>1, <2>3, <2>4, <2>5
<1>2. SchedulerSpec => []SlotsFit
  BY SlotsInitInv, SlotsStepInv, PTL DEF SchedulerSpec
<1> QED
  BY <1>1, <1>2, PTL DEF SchedulerSpec, SlotsServed

-----------------------------------------------------------------------------
(* What a save costs. *)

Owed == lost + (IF rearmSchedule THEN 1 ELSE 0) + (IF panel = "pokeSchedule" THEN 1 ELSE 0)

LEMMA PaidStep ==
  ASSUME SchedulerTypeOK, OneLossPerChange, [SchedulerNext]_vars
  PROVE  OneLossPerChange'
<1> USE DEF loop, balance, panelVars, observers
<1>1. Owed <= changes /\ lost \in Nat /\ changes \in Nat /\ rearmSchedule \in BOOLEAN
  BY DEF OneLossPerChange, Owed, SchedulerTypeOK
<1>2. CASE WaitRearm
  <2>1. /\ rearmSchedule /\ ~rearmSchedule' /\ panel' = panel /\ changes' = changes
        /\ lost' = lost \/ lost' = lost + 1
    BY <1>2 DEF WaitRearm, Displaced
  <2>2. CASE panel = "pokeSchedule"
    <3>1. Owed = lost + 1 + 1 /\ Owed' = lost' + 0 + 1
      BY <2>1, <2>2 DEF Owed
    <3> QED
      BY <1>1, <2>1, <3>1 DEF Owed, OneLossPerChange
  <2>3. CASE panel # "pokeSchedule"
    <3>1. Owed = lost + 1 + 0 /\ Owed' = lost' + 0 + 0
      BY <2>1, <2>3 DEF Owed
    <3> QED
      BY <1>1, <2>1, <3>1 DEF Owed, OneLossPerChange
  <2> QED
    BY <2>2, <2>3
<1>3. CASE Reconfigure
  <2>1. /\ panel = "idle" /\ panel' = "pokeSchedule" /\ changes' = changes + 1
        /\ UNCHANGED <<lost, rearmSchedule>>
    BY <1>3 DEF Reconfigure
  <2>2. Owed' <= changes'
    BY <1>1, <2>1 DEF Owed
  <2> QED
    BY <2>2 DEF Owed, OneLossPerChange
<1>4. CASE PokeSchedule
  <2>1. /\ panel = "pokeSchedule" /\ panel' = "pokeBalance" /\ rearmSchedule'
        /\ UNCHANGED <<lost, changes>>
    BY <1>4 DEF PokeSchedule
  <2>2. Owed' <= changes'
    BY <1>1, <2>1 DEF Owed
  <2> QED
    BY <2>2 DEF Owed, OneLossPerChange
<1>5. CASE ~(WaitRearm \/ Reconfigure \/ PokeSchedule)
  <2>1. /\ UNCHANGED <<lost, rearmSchedule, changes>>
        /\ panel' = panel \/ panel' # "pokeSchedule"
    BY <1>5
       DEF SchedulerNext, LoopStep, LoopPlan, LoopSleep, WaitFire, WaitCancelled, RunTask, RunDone, vars,
           BalanceStep, BalanceRead, BalanceFire, BalanceRearm, BalanceCancelled, BalanceRefreshed,
           PanelStep, PokeBalance, SetBalanceInterval, PokeAgain, Tick, Cancel
  <2>2. Owed' <= changes'
    BY <1>1, <2>1 DEF Owed
  <2> QED
    BY <2>2 DEF Owed, OneLossPerChange
<1> QED
  BY <1>2, <1>3, <1>4, <1>5

\* However often the panel saves and whenever the hours strike: no more slots are
\* lost to tokens than changes have been made (Run, Reconfigure, poke).
THEOREM LossesArePaid == SchedulerSpec => []OneLossPerChange
<1>1. SchedulerInit => OneLossPerChange
  BY DEF SchedulerInit, OneLossPerChange
<1>2. NoRearmLost => SchedulerTypeOK
  BY DEF NoRearmLost
<1> QED
  BY <1>1, <1>2, PaidStep, RearmNeverLost, PTL DEF SchedulerSpec

\* Both together: the tokens are neither too few nor too many (Run, Reconfigure,
\* SetBalanceInterval, poke).
THEOREM RearmsAreBalanced == SchedulerSpec => []RearmsBalance
<1>1. NoRearmLost /\ OneLossPerChange => RearmsBalance
  BY DEF RearmsBalance
<1> QED
  BY <1>1, RearmNeverLost, LossesArePaid, PTL

-----------------------------------------------------------------------------
(* The errands of an account. *)

Kind == {"none", "school", "single", "all", "queue"}
Handling == {"look", "view", "report", "poll", "claim"}
Step == {"none", "lock", "accept", "open", "balance", "draw", "done"} \cup Handling
Job ==
  [kind : Kind, step : Step, todo : Seq(Tasks), school : {"no", "due", "now"}, polls : 0 .. Polls - 1,
   have : Nat, later : Nat, clean : BOOLEAN, owed : SUBSET Tasks]
\* A job whose last reading has just been counted.
Counting ==
  [kind : Kind, step : Step, todo : Seq(Tasks), school : {"no", "due", "now"}, polls : Nat,
   have : Nat, later : Nat, clean : BOOLEAN, owed : SUBSET Tasks]
Standing == {"new", "active", "lit", "claimed"}

\* The tasks a job goes through yet.
Ahead(job) == Range(job.todo) \cup (IF job.school = "due" THEN Shares ELSE {})

\* What was ready when the job began has been collected, or is ready and ahead.
Pays(job, tk) ==
  \A t \in job.owed : tk[t] = "claimed" \/ (tk[t] = "lit" /\ t \in Ahead(job))

\* Whatever the step: complete-all, and who passes viewed tasks, owe nothing.
Duty(job) == (job.kind = "all" => job.owed = {}) /\ job.owed \cap Viewed = {}

JobFits(job, tk, ch) ==
  /\ Duty(job)
  /\ job.clean => Pays(job, tk)
  /\ job.step \in Handling \cup {"open"} => job.todo # <<>>
  /\ job.step \in {"balance", "draw"} => job.todo = <<>> /\ job.school # "due"
  /\ job.step = "done" /\ job.clean => job.todo = <<>> /\ job.school # "due"
  /\ job.step \notin {"draw", "done"} => job.later = 0
  /\ job.step = "draw" => ch <= job.have + job.later
  /\ job.step = "done" /\ job.clean /\ job.school = "now" => ch <= job.later

TypesFit ==
  /\ task \in [Tasks -> Standing] /\ scoring \subseteq Tasks /\ chances \in Nat /\ day \in 0 .. MaxDays
  /\ jobs \in [Actors -> Job]

ErrandInv == TypesFit /\ \A j \in Actors : JobFits(jobs[j], task, chances)

-----------------------------------------------------------------------------
(* Sequences of tasks. *)

\* SetToSeq lists a finite set.
LEMMA Listed ==
  ASSUME NEW S, IsFiniteSet(S)
  PROVE  SetToSeq(S) \in Seq(S) /\ Range(SetToSeq(S)) = S
<1> DEFINE n == Cardinality(S)
<1>1. n \in Nat /\ ExistsBijection(1 .. n, S)
  BY FS_CardinalityType
<1>2. PICK g \in [1 .. n -> S] : IsInjective(g)
  BY <1>1 DEF ExistsBijection, Bijection, Injection, IsInjective
<1>3. SetToSeq(S) \in [1 .. n -> S] /\ IsInjective(SetToSeq(S))
  BY <1>2 DEF SetToSeq
<1>4. SetToSeq(S) \in Injection(1 .. n, S)
  BY <1>3 DEF Injection
<1>5. IsFiniteSet(1 .. n) /\ Cardinality(1 .. n) = n
  BY <1>1, FS_Interval
<1>6. SetToSeq(S) \in Surjection(1 .. n, S)
  BY <1>4, <1>5, FS_Injection
<1>7. Range(SetToSeq(S)) = S
  BY <1>6 DEF Surjection, Range
<1>8. SetToSeq(S) \in Seq(S)
  BY <1>1, <1>3
<1> QED
  BY <1>7, <1>8

\* The rest of a list and its first are the list.
LEMMA Rest ==
  ASSUME NEW S, NEW s \in Seq(S), s # <<>>
  PROVE  /\ Tail(s) \in Seq(S) /\ Head(s) \in Range(s) /\ Head(s) \in S
         /\ Range(s) \subseteq Range(Tail(s)) \cup {Head(s)}
<1>1. /\ Tail(s) \in Seq(S) /\ Len(s) \in Nat \ {0} /\ Head(s) = s[1]
      /\ Len(Tail(s)) = Len(s) - 1
      /\ \A i \in 1 .. Len(Tail(s)) : Tail(s)[i] = s[i + 1]
  OBVIOUS
<1>2. ASSUME NEW i \in 1 .. Len(s), i # 1 PROVE s[i] \in Range(Tail(s))
  <2>1. i - 1 \in 1 .. Len(Tail(s)) /\ Tail(s)[i - 1] = s[i]
    BY <1>1, <1>2
  <2>2. i - 1 \in DOMAIN Tail(s)
    BY <1>1, <2>1
  <2> QED
    BY <2>1, <2>2 DEF Range
<1> QED
  BY <1>1, <1>2 DEF Range

LEMMA Lists ==
  /\ SchoolOrder \in Seq(Tasks) /\ SchoolOrder # <<>> /\ Shares \subseteq Range(SchoolOrder)
  /\ SetToSeq(Growth) \in Seq(Tasks)
<1>1. IsFiniteSet(Shares) /\ IsFiniteSet(Viewed) /\ IsFiniteSet(Growth)
  BY ErrandsAssumption, FS_Subset DEF Tasks, School
<1> DEFINE a == SetToSeq(Shares)
           b == SetToSeq(Viewed)
<1>2. a \in Seq(Shares) /\ Range(a) = Shares /\ b \in Seq(Viewed) /\ Range(b) = Viewed
  BY <1>1, Listed
<1>3. a \in Seq(Tasks) /\ b \in Seq(Tasks)
  BY <1>2 DEF Tasks, School
<1>4. SetToSeq(Growth) \in Seq(Tasks)
  BY <1>1, Listed DEF Tasks
<1> HIDE DEF a, b
<1>5. /\ a \o b \in Seq(Tasks) /\ Len(a \o b) = Len(a) + Len(b)
      /\ \A i \in 1 .. Len(a) + Len(b) : (a \o b)[i] = IF i <= Len(a) THEN a[i] ELSE b[i - Len(a)]
  BY <1>3, ConcatProperties
<1>6. ASSUME NEW t \in Shares PROVE t \in Range(a \o b)
  <2>1. PICK i \in 1 .. Len(a) : a[i] = t
    BY <1>2 DEF Range
  <2> QED
    BY <1>3, <1>5, <2>1 DEF Range
<1>7. a \o b # <<>>
  <2>1. Range(a) \cup Range(b) # {}
    BY <1>2, ErrandsAssumption DEF School
  <2>2. Len(a) # 0 \/ Len(b) # 0
    BY <1>3, <2>1 DEF Range
  <2> QED
    BY <1>3, <1>5, <2>2
<1> QED
  BY <1>4, <1>5, <1>6, <1>7 DEF SchoolOrder, a, b

-----------------------------------------------------------------------------
(* What a job may become. *)

LEMMA JobCounts == Job \subseteq Counting
BY ErrandsAssumption DEF Job, Counting

LEMMA Facts ==
  ASSUME ErrandInv
  PROVE  /\ TypesFit /\ chances \in Nat /\ Polls \in Nat \ {0} /\ 0 \in 0 .. Polls - 1
         /\ \A j \in Actors : jobs[j] \in Job /\ JobFits(jobs[j], task, chances)
BY ErrandsAssumption DEF ErrandInv, TypesFit

LEMMA NextStepFits ==
  ASSUME NEW job \in Counting, NEW tk, NEW ch,
         Duty(job), job.clean => Pays(job, tk), job.later = 0
  PROVE  NextStep(job) \in Job /\ JobFits(NextStep(job), tk, ch)
<1> DEFINE x == NextStep(job)
<1>0. 0 \in 0 .. Polls - 1
  BY ErrandsAssumption
<1>1. /\ x.kind = job.kind /\ x.owed = job.owed /\ x.clean = job.clean /\ x.later = 0
      /\ x.have = job.have /\ x.polls = 0
  BY DEF NextStep, Counting
<1>2. CASE job.todo # <<>>
  <2>1. x.todo = job.todo /\ x.school = job.school /\ x.step = "look"
    BY <1>2 DEF NextStep, Counting
  <2>2. x = [job EXCEPT !.polls = 0, !.step = "look"]
    BY <1>2 DEF NextStep, Counting
  <2>3. x \in Job
    BY <1>0, <2>2 DEF Counting, Job, Step, Handling
  <2> HIDE DEF x
  <2>4. Duty(x) /\ (x.clean => Pays(x, tk))
    BY <1>1, <2>1 DEF Duty, Pays, Ahead
  <2> QED
    BY <1>1, <1>2, <2>1, <2>3, <2>4 DEF JobFits, Handling, x
<1>3. CASE job.todo = <<>> /\ job.school = "due"
  <2>1. x.todo = SchoolOrder /\ x.school = "now" /\ x.step = "open"
    BY <1>3 DEF NextStep, Counting
  <2>2. x = [job EXCEPT !.polls = 0, !.step = "open", !.todo = SchoolOrder, !.school = "now"]
    BY <1>3 DEF NextStep, Counting
  <2>3. x \in Job
    BY <1>0, <2>2, Lists DEF Counting, Job, Step, Handling
  <2>4. Ahead(job) \subseteq Shares
    BY <1>3 DEF Ahead, Range
  <2> HIDE DEF x
  <2>5. Duty(x) /\ (x.clean => Pays(x, tk))
    BY <1>1, <2>1, <2>4, Lists DEF Duty, Pays, Ahead
  <2> QED
    BY <1>1, <2>1, <2>3, <2>5, Lists DEF JobFits, Handling, x
<1>4. CASE job.todo = <<>> /\ job.school # "due"
  <2>1. x.todo = <<>> /\ x.school = job.school
        /\ x.step = IF job.school = "now" THEN "balance" ELSE "done"
    BY <1>4 DEF NextStep, Counting
  <2>2. x = [job EXCEPT !.polls = 0, !.step = IF job.school = "now" THEN "balance" ELSE "done"]
    BY <1>4 DEF NextStep, Counting
  <2>3. x \in Job
    BY <1>0, <2>2 DEF Counting, Job, Step, Handling
  <2> HIDE DEF x
  <2>4. Duty(x) /\ (x.clean => Pays(x, tk))
    BY <1>1, <1>4, <2>1 DEF Duty, Pays, Ahead
  <2> QED
    BY <1>1, <1>4, <2>1, <2>3, <2>4 DEF JobFits, Handling, x
<1> QED
  BY <1>2, <1>3, <1>4

\* A job passes its task.  If it says that every call was answered, the task is
\* none that it owes, or has been collected.
LEMMA AfterFits ==
  ASSUME NEW job \in Counting, NEW tk, NEW ch, NEW answered \in BOOLEAN, job.todo # <<>>,
         Duty(job), job.clean => Pays(job, tk), job.later = 0,
         job.clean /\ answered /\ Head(job.todo) \in job.owed => tk[Head(job.todo)] = "claimed"
  PROVE  After(job, answered) \in Job /\ JobFits(After(job, answered), tk, ch)
<1> DEFINE x == [job EXCEPT !.todo = Tail(@), !.clean = @ /\ answered]
<1>1. job.todo \in Seq(Tasks) /\ job.clean \in BOOLEAN
  BY DEF Counting
<1>2. /\ Tail(job.todo) \in Seq(Tasks)
      /\ Range(job.todo) \subseteq Range(Tail(job.todo)) \cup {Head(job.todo)}
  BY <1>1, Rest
<1>3. x \in Counting
  BY <1>1, <1>2 DEF Counting
<1>4. /\ x.kind = job.kind /\ x.owed = job.owed /\ x.later = 0 /\ x.school = job.school
      /\ x.todo = Tail(job.todo) /\ x.clean = (job.clean /\ answered)
  BY DEF Counting
<1>5. After(job, answered) = NextStep(x)
  BY DEF After
<1> HIDE DEF x
<1>6. Duty(x)
  BY <1>4 DEF Duty
<1>7. x.clean => Pays(x, tk)
  BY <1>2, <1>4 DEF Pays, Ahead
<1> QED
  BY <1>3, <1>4, <1>5, <1>6, <1>7, NextStepFits

\* A job goes on with its task.
LEMMA GoFits ==
  ASSUME NEW job \in Job, NEW tk, NEW ch, NEW step \in Handling, job.todo # <<>>,
         Duty(job), job.clean => Pays(job, tk), job.later = 0
  PROVE  LET x == [job EXCEPT !.step = step, !.polls = 0] IN x \in Job /\ JobFits(x, tk, ch)
<1> DEFINE x == [job EXCEPT !.step = step, !.polls = 0]
<1>0. 0 \in 0 .. Polls - 1 /\ step \in Step
  BY ErrandsAssumption DEF Step
<1>1. x \in Job
  BY <1>0 DEF Job
<1>2. /\ x.kind = job.kind /\ x.owed = job.owed /\ x.later = 0 /\ x.school = job.school
      /\ x.todo = job.todo /\ x.clean = job.clean /\ x.step = step
  BY DEF Job
<1> HIDE DEF x
<1>3. Duty(x) /\ (x.clean => Pays(x, tk))
  BY <1>2 DEF Duty, Pays, Ahead
<1>4. JobFits(x, tk, ch)
  BY <1>2, <1>3 DEF JobFits, Handling
<1> QED
  BY <1>1, <1>4 DEF x

\* A job that gives up claims nothing.
LEMMA StopFits ==
  ASSUME NEW job \in Job, NEW tk, NEW ch, Duty(job)
  PROVE  LET x == [job EXCEPT !.step = "done", !.clean = @ /\ FALSE]
         IN  x \in Job /\ JobFits(x, tk, ch)
<1> DEFINE x == [job EXCEPT !.step = "done", !.clean = @ /\ FALSE]
<1>1. x \in Job
  BY DEF Job, Step
<1>2. x.kind = job.kind /\ x.owed = job.owed /\ x.clean = FALSE /\ x.step = "done"
  BY DEF Job
<1> HIDE DEF x
<1>3. JobFits(x, tk, ch)
  BY <1>2 DEF JobFits, Handling, Duty
<1> QED
  BY <1>1, <1>3 DEF x

-----------------------------------------------------------------------------
(* What the upstream may do under a job's feet. *)

\* Nothing ready is lost, and nothing collected.
Forward(tk, tk2) ==
  /\ tk2 \in [Tasks -> Standing]
  /\ \A t \in Tasks : /\ tk[t] = "claimed" => tk2[t] = "claimed"
                      /\ tk[t] = "lit" => tk2[t] \in {"lit", "claimed"}

LEMMA PaysOn ==
  ASSUME NEW job \in Job, NEW tk, NEW tk2, Forward(tk, tk2), Pays(job, tk)
  PROVE  Pays(job, tk2)
BY DEF Pays, Forward, Job

LEMMA FitsOn ==
  ASSUME NEW job \in Job, NEW tk, NEW tk2, NEW c \in Nat, NEW d \in Nat,
         Forward(tk, tk2), d <= c, JobFits(job, tk, c)
  PROVE  JobFits(job, tk2, d)
<1>1. job.clean => Pays(job, tk2)
  BY PaysOn DEF JobFits
<1>2. job.have \in Nat /\ job.later \in Nat
  BY DEF Job
<1> QED
  BY <1>1, <1>2 DEF JobFits

\* One job moves; the tasks go forward, and no draw is added.
LEMMA JobMoves ==
  ASSUME ErrandInv, NEW j \in Actors, NEW x \in Job, jobs' = [jobs EXCEPT ![j] = x],
         Forward(task, task'), chances' \in Nat, chances' <= chances,
         scoring' \subseteq Tasks, day' = day, JobFits(x, task', chances')
  PROVE  ErrandInv'
<1>1. TypesFit'
  BY Facts DEF TypesFit, Forward
<1>2. ASSUME NEW i \in Actors PROVE JobFits(jobs'[i], task', chances')
  <2>1. CASE i = j
    BY <2>1, Facts DEF TypesFit
  <2>2. CASE i # j
    <3>1. jobs'[i] = jobs[i]
      BY <2>2, Facts DEF TypesFit
    <3> QED
      BY <3>1, Facts, FitsOn
  <2> QED
    BY <2>1, <2>2
<1> QED
  BY <1>1, <1>2 DEF ErrandInv

\* No job moves.
LEMMA JobsStay ==
  ASSUME ErrandInv, jobs' = jobs, Forward(task, task'), chances' = chances,
         scoring' \subseteq Tasks, day' = day
  PROVE  ErrandInv'
<1>1. TypesFit'
  BY Facts DEF TypesFit, Forward
<1>2. \A i \in Actors : JobFits(jobs'[i], task', chances')
  BY Facts, FitsOn
<1> QED
  BY <1>1, <1>2 DEF ErrandInv

LEMMA StandsStill == ASSUME ErrandInv PROVE Forward(task, task)
BY Facts DEF TypesFit, Forward

-----------------------------------------------------------------------------
(* The steps of a job. *)

\* A job that handles a task.
LEMMA AtTask ==
  ASSUME ErrandInv, NEW j \in Actors, jobs[j].step \in Handling \cup {"open"}
  PROVE  /\ jobs[j] \in Job /\ Duty(jobs[j]) /\ jobs[j].todo # <<>> /\ jobs[j].later = 0
         /\ jobs[j].clean => Pays(jobs[j], task)
         /\ Now(j) \in Tasks /\ Now(j) = Head(jobs[j].todo)
<1>1. jobs[j] \in Job /\ JobFits(jobs[j], task, chances)
  BY Facts
<1>2. jobs[j].todo # <<>>
  BY <1>1 DEF JobFits
<1>3. Now(j) \in Tasks
  BY <1>1, <1>2, Rest DEF Job, Now
<1> QED
  BY <1>1, <1>2, <1>3 DEF JobFits, Now, Handling

\* It passes it, goes on with it, or gives up; nothing else changes but the
\* tasks, which go forward, and what is scored.
LEMMA Handles ==
  ASSUME ErrandInv, NEW j \in Actors, jobs[j].step \in Handling \cup {"open"},
         Forward(task, task'), chances' = chances, scoring' \subseteq Tasks, day' = day,
         \/ Passes(j, FALSE)
         \/ Passes(j, TRUE) /\ (Now(j) \in jobs[j].owed => task'[Now(j)] = "claimed")
         \/ \E step \in Handling : Goes(j, step)
         \/ Stops(j, FALSE)
  PROVE  ErrandInv'
<1> DEFINE job == jobs[j]
<1>0. /\ job \in Job /\ Duty(job) /\ job.todo # <<>> /\ job.later = 0
      /\ job.clean => Pays(job, task')
      /\ Now(j) = Head(job.todo) /\ chances' \in Nat /\ chances' <= chances
  BY AtTask, PaysOn, Facts
<1>1. ASSUME NEW answered \in BOOLEAN, Passes(j, answered),
             answered /\ Now(j) \in jobs[j].owed => task'[Now(j)] = "claimed"
      PROVE  ErrandInv'
  <2>1. jobs' = [jobs EXCEPT ![j] = After(job, answered)]
    BY <1>1, Facts DEF Passes, TypesFit
  <2>2. After(job, answered) \in Job /\ JobFits(After(job, answered), task', chances')
    BY <1>0, <1>1, AfterFits, JobCounts
  <2> QED
    BY <1>0, <2>1, <2>2, JobMoves
<1>2. ASSUME NEW step \in Handling, Goes(j, step) PROVE ErrandInv'
  <2> DEFINE x == [job EXCEPT !.step = step, !.polls = 0]
  <2>1. jobs' = [jobs EXCEPT ![j] = x]
    BY <1>2, Facts DEF Goes, TypesFit
  <2>2. x \in Job /\ JobFits(x, task', chances')
    BY <1>0, GoFits
  <2> HIDE DEF x
  <2> QED
    BY <1>0, <2>1, <2>2, JobMoves
<1>3. CASE Stops(j, FALSE)
  <2> DEFINE x == [job EXCEPT !.step = "done", !.clean = @ /\ FALSE]
  <2>1. jobs' = [jobs EXCEPT ![j] = x]
    BY <1>3, Facts DEF Stops, TypesFit
  <2>2. x \in Job /\ JobFits(x, task', chances')
    BY <1>0, StopFits
  <2> HIDE DEF x
  <2> QED
    BY <1>0, <2>1, <2>2, JobMoves
<1> QED
  BY <1>1, <1>2, <1>3

LEMMA Stopped ==
  ASSUME ErrandInv, NEW j \in Actors, NEW answered \in BOOLEAN, Stops(j, answered)
  PROVE  jobs' = [jobs EXCEPT ![j] = [jobs[j] EXCEPT !.step = "done", !.clean = @ /\ answered]]
BY Facts DEF Stops, TypesFit

LEMMA KeepsOpen ==
  ASSUME ErrandInv, NEW j \in Actors, Open(j)
  PROVE  ErrandInv'
BY Handles, StandsStill, Facts DEF Open, At, Handling, TypesFit

LEMMA KeepsLook ==
  ASSUME ErrandInv, NEW j \in Actors, Look(j)
  PROVE  ErrandInv'
<1>1. /\ jobs[j].step \in Handling \cup {"open"}
      /\ Forward(task, task') /\ chances' = chances /\ scoring' \subseteq Tasks /\ day' = day
      /\ task' = task
  BY StandsStill, Facts DEF Look, At, Handling, TypesFit
<1>2. CASE Skips(j) /\ Passes(j, TRUE)
  <2>1. ASSUME Now(j) \in jobs[j].owed PROVE task[Now(j)] = "claimed"
    BY <1>1, <1>2, <2>1, AtTask DEF Skips, Duty
  <2> QED
    BY <1>1, <1>2, <2>1, Handles
<1>3. CASE Passes(j, FALSE)
  BY <1>1, <1>3, Handles
<1>4. ASSUME NEW step \in Handling, Goes(j, step) PROVE ErrandInv'
  BY <1>1, <1>4, Handles
<1> QED
  BY <1>2, <1>3, <1>4 DEF Look, Handling

LEMMA KeepsView ==
  ASSUME ErrandInv, NEW j \in Actors, View(j)
  PROVE  ErrandInv'
<1>1. /\ jobs[j].step \in Handling \cup {"open"}
      /\ chances' = chances /\ scoring' \subseteq Tasks /\ day' = day
  BY Facts DEF View, At, Handling, TypesFit
<1>2. Forward(task, task')
  <2>1. CASE task' = task
    BY <2>1, StandsStill
  <2>2. CASE task[Now(j)] = "new" /\ task' = [task EXCEPT ![Now(j)] = "active"]
    BY <2>2, Facts DEF TypesFit, Forward, Standing
  <2> QED
    BY <2>1, <2>2 DEF View
<1>3. "report" \in Handling
  BY DEF Handling
<1>4. Passes(j, FALSE) \/ Goes(j, "report")
  BY DEF View
<1> QED
  BY <1>1, <1>2, <1>3, <1>4, Handles

LEMMA KeepsReport ==
  ASSUME ErrandInv, NEW j \in Actors, Report(j)
  PROVE  ErrandInv'
<1>1. /\ jobs[j].step \in Handling \cup {"open"}
      /\ Forward(task, task') /\ chances' = chances /\ day' = day
  BY StandsStill DEF Report, At, Handling
<1>2. scoring' \subseteq Tasks
  BY <1>1, AtTask, Facts DEF Report, TypesFit
<1>3. "poll" \in Handling
  BY DEF Handling
<1>4. Passes(j, FALSE) \/ Goes(j, "poll")
  BY DEF Report
<1> QED
  BY <1>1, <1>2, <1>3, <1>4, Handles

LEMMA KeepsPoll ==
  ASSUME ErrandInv, NEW j \in Actors, Poll(j)
  PROVE  ErrandInv'
<1> DEFINE t == Now(j)
           job == jobs[j]
           once == [job EXCEPT !.polls = @ + 1]
<1>1. /\ jobs[j].step \in Handling \cup {"open"}
      /\ Forward(task, task') /\ chances' = chances /\ scoring' \subseteq Tasks /\ day' = day
      /\ task' = task /\ chances' \in Nat /\ chances' <= chances
  BY StandsStill, Facts DEF Poll, At, Handling, TypesFit
<1>2. /\ job \in Job /\ Duty(job) /\ job.todo # <<>> /\ job.later = 0
      /\ job.clean => Pays(job, task)
      /\ t = Head(job.todo)
  BY <1>1, AtTask
<1>3. /\ once.kind = job.kind /\ once.owed = job.owed /\ once.later = 0 /\ once.school = job.school
      /\ once.todo = job.todo /\ once.clean = job.clean /\ once.step = "poll"
      /\ once.polls = job.polls + 1
  BY <1>2 DEF Poll, At, Job
<1>4. ASSUME NEW answered \in BOOLEAN, once.polls < Polls,
             jobs' = [jobs EXCEPT ![j] = [once EXCEPT !.clean = @ /\ answered]]
      PROVE  ErrandInv'
  <2> DEFINE x == [once EXCEPT !.clean = @ /\ answered]
  <2>1. job.polls \in Nat /\ job.polls + 1 \in 0 .. Polls - 1
    BY <1>2, <1>3, <1>4, Facts DEF Job
  <2>2. x = [job EXCEPT !.polls = job.polls + 1, !.clean = @ /\ answered]
    BY <1>2 DEF Job
  <2>3. x \in Job
    BY <1>2, <2>1, <2>2 DEF Job
  <2>4. /\ x.kind = job.kind /\ x.owed = job.owed /\ x.later = 0 /\ x.school = job.school
        /\ x.todo = job.todo /\ x.clean = (job.clean /\ answered) /\ x.step = "poll"
    BY <1>2, <1>3, <2>2 DEF Job
  <2>5. jobs' = [jobs EXCEPT ![j] = x]
    BY <1>4
  <2> HIDE DEF x, once, job
  <2>6. Duty(x) /\ (x.clean => Pays(x, task))
    BY <1>2, <2>4 DEF Duty, Pays, Ahead
  <2>7. JobFits(x, task', chances')
    BY <1>1, <1>2, <2>4, <2>6 DEF JobFits, Handling
  <2> QED
    BY <1>1, <2>3, <2>5, <2>7, JobMoves
<1>5. ASSUME NEW answered \in BOOLEAN, ~(once.polls < Polls),
             answered => task[t] \in {"new", "active"},
             jobs' = [jobs EXCEPT ![j] = After(once, answered)]
      PROVE  ErrandInv'
  <2>1. once \in Counting
    <3>1. job \in Counting /\ job.polls + 1 \in Nat
      BY <1>2, JobCounts DEF Counting
    <3> QED
      BY <3>1 DEF Counting
  <2>2. ASSUME job.clean, answered, t \in job.owed PROVE task[t] = "claimed"
    BY <1>2, <1>5, <2>2 DEF Pays
  <2> HIDE DEF once, job
  <2>4. Duty(once) /\ (once.clean => Pays(once, task'))
    BY <1>1, <1>2, <1>3 DEF Duty, Pays, Ahead
  <2>3. After(once, answered) \in Job /\ JobFits(After(once, answered), task', chances')
    BY <1>1, <1>2, <1>3, <2>1, <2>2, <2>4, AfterFits
  <2> QED
    BY <1>1, <1>5, <2>1, <2>3, JobMoves
<1>6. ASSUME task[t] = "lit" /\ Goes(j, "claim") PROVE ErrandInv'
  BY <1>1, <1>6, Handles DEF Handling
<1>7. ASSUME task[t] = "claimed", Passes(j, TRUE) \/ Goes(j, "claim") PROVE ErrandInv'
  BY <1>1, <1>7, Handles DEF Handling
<1>8. ASSUME jobs' = [jobs EXCEPT ![j] = After(@, FALSE)] PROVE ErrandInv'
  <2>1. Passes(j, FALSE)
    BY <1>8 DEF Passes
  <2> QED
    BY <1>1, <2>1, Handles
<1> QED
  BY <1>4, <1>5, <1>6, <1>7, <1>8, Facts DEF Poll, TypesFit

LEMMA KeepsAccept ==
  ASSUME ErrandInv, NEW j \in Actors, Accept(j)
  PROVE  ErrandInv'
<1> DEFINE job == jobs[j]
<1>1. job.step = "accept" /\ jobs' = [jobs EXCEPT ![j] = NextStep(job)]
      /\ chances' = chances /\ scoring' = scoring /\ day' = day
  BY DEF Accept, At
<1>2. Forward(task, task')
  BY Facts DEF Accept, TypesFit, Forward, Standing
<1>3. job \in Counting /\ Duty(job) /\ job.later = 0 /\ (job.clean => Pays(job, task))
  BY <1>1, Facts, JobCounts DEF JobFits
<1>4. job.clean => Pays(job, task')
  BY <1>2, <1>3, PaysOn, Facts
<1>5. NextStep(job) \in Job /\ JobFits(NextStep(job), task', chances')
  BY <1>3, <1>4, NextStepFits
<1>6. chances' \in Nat /\ chances' <= chances /\ scoring' \subseteq Tasks
  BY <1>1, Facts DEF TypesFit
<1> QED
  BY <1>1, <1>2, <1>5, <1>6, JobMoves

LEMMA KeepsBalance ==
  ASSUME ErrandInv, NEW j \in Actors, Balance(j)
  PROVE  ErrandInv'
<1> DEFINE job == jobs[j]
<1>1. job.step = "balance" /\ task' = task /\ scoring' = scoring /\ chances' = chances /\ day' = day
  BY DEF Balance, At
<1>2. /\ job \in Job /\ Duty(job) /\ (job.clean => Pays(job, task)) /\ job.later = 0
      /\ job.todo = <<>> /\ job.school # "due"
  BY <1>1, Facts DEF JobFits
<1>3. Forward(task, task') /\ scoring' \subseteq Tasks /\ chances' \in Nat /\ chances' <= chances
  BY <1>1, StandsStill, Facts DEF TypesFit
<1>4. CASE Stops(j, FALSE)
  <2> DEFINE x == [job EXCEPT !.step = "done", !.clean = @ /\ FALSE]
  <2>1. jobs' = [jobs EXCEPT ![j] = x]
    BY <1>4, Facts DEF Stops, TypesFit
  <2>2. x \in Job /\ JobFits(x, task', chances')
    BY <1>2, StopFits
  <2> HIDE DEF x
  <2> QED
    BY <1>1, <1>3, <2>1, <2>2, JobMoves
<1>5. CASE jobs' = [jobs EXCEPT ![j].step = "draw", ![j].have = chances]
  <2> DEFINE x == [job EXCEPT !.step = "draw", !.have = chances]
  <2>1. jobs' = [jobs EXCEPT ![j] = x]
    BY <1>5, Facts DEF TypesFit
  <2>2. x \in Job
    BY <1>2, Facts DEF Job, Step
  <2>3. /\ x.kind = job.kind /\ x.owed = job.owed /\ x.later = 0 /\ x.school = job.school
        /\ x.todo = job.todo /\ x.clean = job.clean /\ x.step = "draw" /\ x.have = chances
    BY <1>2 DEF Job
  <2> HIDE DEF x, job
  <2>4. Duty(x) /\ (x.clean => Pays(x, task))
    BY <1>2, <2>3 DEF Duty, Pays, Ahead
  <2>5. JobFits(x, task', chances')
    BY <1>1, <1>2, <2>3, <2>4, Facts DEF JobFits, Handling
  <2> QED
    BY <1>1, <1>3, <2>1, <2>2, <2>5, JobMoves
<1> QED
  BY <1>4, <1>5 DEF Balance

LEMMA KeepsDraw ==
  ASSUME ErrandInv, NEW j \in Actors, Draw(j)
  PROVE  ErrandInv'
<1> DEFINE job == jobs[j]
<1>1. job.step = "draw" /\ task' = task /\ scoring' = scoring /\ day' = day
  BY DEF Draw, At
<1>2. /\ job \in Job /\ Duty(job) /\ (job.clean => Pays(job, task))
      /\ job.todo = <<>> /\ job.school # "due" /\ chances <= job.have + job.later
      /\ job.have \in Nat /\ job.later \in Nat
  BY <1>1, Facts DEF JobFits, Job
<1>3. Forward(task, task') /\ scoring' \subseteq Tasks /\ chances' \in Nat /\ chances' <= chances
  <2>0. \/ UNCHANGED chances \/ (chances > 0 /\ chances' = chances - 1)
        \/ chances' \in {chances, IF chances > 0 THEN chances - 1 ELSE 0}
    BY DEF Draw
  <2>1. chances' = chances \/ (chances > 0 /\ chances' = chances - 1)
    BY <2>0, Facts
  <2>2. chances' \in Nat /\ chances' <= chances
    BY <2>1, Facts
  <2> QED
    BY <1>1, <2>2, StandsStill, Facts DEF TypesFit
<1>4. CASE job.have = 0 /\ Stops(j, TRUE) /\ chances' = chances
  <2> DEFINE x == [job EXCEPT !.step = "done", !.clean = @ /\ TRUE]
  <2>1. jobs' = [jobs EXCEPT ![j] = x]
    BY <1>4, Stopped
  <2>2. x \in Job
    BY <1>2 DEF Job, Step
  <2>3. /\ x.kind = job.kind /\ x.owed = job.owed /\ x.later = job.later /\ x.school = job.school
        /\ x.todo = job.todo /\ x.clean = job.clean /\ x.step = "done"
    BY <1>2 DEF Job
  <2> HIDE DEF x, job
  <2>4. Duty(x) /\ (x.clean => Pays(x, task))
    BY <1>2, <2>3 DEF Duty, Pays, Ahead
  <2>5. chances <= job.later
    BY <1>2, <1>4, Facts
  <2>6. JobFits(x, task', chances')
    BY <1>1, <1>2, <1>4, <2>3, <2>4, <2>5 DEF JobFits, Handling
  <2> QED
    BY <1>1, <1>3, <2>1, <2>2, <2>6, JobMoves
<1>5. CASE /\ job.have # 0 /\ chances > 0 /\ chances' = chances - 1
           /\ jobs' = [jobs EXCEPT ![j].have = @ - 1]
  <2> DEFINE x == [job EXCEPT !.have = @ - 1]
  <2>1. jobs' = [jobs EXCEPT ![j] = x]
    BY <1>5, Facts DEF TypesFit
  <2>0. job.have - 1 \in Nat
    BY <1>2, <1>5
  <2>2. x \in Job
    BY <1>2, <2>0 DEF Job
  <2>3. /\ x.kind = job.kind /\ x.owed = job.owed /\ x.later = job.later /\ x.school = job.school
        /\ x.todo = job.todo /\ x.clean = job.clean /\ x.step = "draw" /\ x.have = job.have - 1
    BY <1>1, <1>2 DEF Job
  <2> HIDE DEF x, job
  <2>4. Duty(x) /\ (x.clean => Pays(x, task))
    BY <1>2, <2>3 DEF Duty, Pays, Ahead
  <2>5. chances' <= x.have + x.later
    BY <1>2, <1>5, <2>3, Facts
  <2>6. JobFits(x, task', chances')
    BY <1>1, <1>2, <2>3, <2>4, <2>5 DEF JobFits, Handling
  <2> QED
    BY <1>1, <1>3, <2>1, <2>2, <2>6, JobMoves
<1>6. CASE Stops(j, FALSE)
  <2> DEFINE x == [job EXCEPT !.step = "done", !.clean = @ /\ FALSE]
  <2>1. jobs' = [jobs EXCEPT ![j] = x]
    BY <1>6, Facts DEF Stops, TypesFit
  <2>2. x \in Job /\ JobFits(x, task', chances')
    BY <1>2, StopFits
  <2> HIDE DEF x
  <2> QED
    BY <1>1, <1>3, <2>1, <2>2, JobMoves
<1> QED
  BY <1>4, <1>5, <1>6 DEF Draw

LEMMA IdleFits ==
  ASSUME NEW tk, NEW ch PROVE NoJob \in Job /\ JobFits(NoJob, tk, ch)
<1>1. NoJob \in Job
  BY ErrandsAssumption DEF NoJob, Job, Kind, Step
<1>2. JobFits(NoJob, tk, ch)
  BY DEF NoJob, JobFits, Duty, Pays, Handling
<1> QED
  BY <1>1, <1>2

LEMMA KeepsEnds ==
  ASSUME ErrandInv, NEW j \in Actors, Ends(j)
  PROVE  ErrandInv'
<1>1. /\ jobs' = [jobs EXCEPT ![j] = NoJob] /\ task' = task /\ day' = day
      /\ chances' \in Nat /\ chances' <= chances /\ scoring' \subseteq Tasks
  BY Facts DEF Ends, TypesFit
<1>2. NoJob \in Job /\ JobFits(NoJob, task', chances')
  BY IdleFits
<1> QED
  BY <1>1, <1>2, StandsStill, JobMoves

\* A job's own claim of a school task adds a draw, and every job that has read
\* the balance notes it.
LEMMA KeepsClaim ==
  ASSUME ErrandInv, NEW j \in Actors, Claim(j)
  PROVE  ErrandInv'
<1> DEFINE t == Now(j)
           job == jobs[j]
           Reading(x) == x # j /\ jobs[x].step \in {"draw", "done"}
           plus == IF Grants(t) THEN 1 ELSE 0
<1>1. job.step \in Handling \cup {"open"} /\ job.step = "claim" /\ scoring' = scoring /\ day' = day
  BY DEF Claim, At, Handling
<1>2. /\ job \in Job /\ Duty(job) /\ job.todo # <<>> /\ job.later = 0
      /\ job.clean => Pays(job, task)
      /\ t \in Tasks /\ t = Head(job.todo)
  BY <1>1, AtTask
<1>3. CASE Passes(j, FALSE) /\ UNCHANGED <<task, chances>>
  BY <1>1, <1>3, StandsStill, Facts, Handles DEF TypesFit
<1>4. ASSUME task' = Claimed(t), chances' = chances + plus, NEW answered \in BOOLEAN,
             jobs' = [x \in Actors |->
                       IF x = j THEN After(jobs[x], answered)
                       ELSE IF Reading(x) /\ Grants(t) THEN [jobs[x] EXCEPT !.later = @ + 1] ELSE jobs[x]]
      PROVE  ErrandInv'
  <2>1. Forward(task, task')
    BY <1>2, <1>4, Facts DEF Claimed, Forward, TypesFit, Standing
  <2>2. job.clean => Pays(job, task')
    BY <1>2, <2>1, PaysOn
  <2>3. ASSUME job.clean, t \in job.owed PROVE task'[t] = "claimed"
    <3>1. task[t] \in {"lit", "claimed"}
      BY <1>2, <2>3 DEF Pays
    <3> QED
      BY <1>2, <1>4, <3>1, Facts DEF Claimed, TypesFit
  <2>4. After(job, answered) \in Job /\ JobFits(After(job, answered), task', chances')
    BY <1>2, <2>2, <2>3, AfterFits, JobCounts
  <2>5. plus \in {0, 1} /\ chances' \in Nat
    BY <1>4, Facts DEF TypesFit
  <2>6. ASSUME NEW x \in Actors, x # j PROVE jobs'[x] \in Job /\ JobFits(jobs'[x], task', chances')
    <3>1. jobs[x] \in Job /\ JobFits(jobs[x], task, chances) /\ jobs[x].later \in Nat
          /\ jobs[x].have \in Nat
      BY Facts DEF Job
    <3>2. CASE Reading(x) /\ Grants(t)
      <4> DEFINE y == [jobs[x] EXCEPT !.later = @ + 1]
      <4>1. y \in Job
        BY <3>1 DEF Job
      <4>2. /\ y.kind = jobs[x].kind /\ y.owed = jobs[x].owed /\ y.later = jobs[x].later + 1
            /\ y.school = jobs[x].school /\ y.todo = jobs[x].todo /\ y.clean = jobs[x].clean
            /\ y.step = jobs[x].step /\ y.have = jobs[x].have
        BY <3>1 DEF Job
      <4>3. jobs'[x] = y
        BY <1>4, <2>6, <3>2
      <4> HIDE DEF y
      <4>4. y.clean => Pays(y, task')
        <5>1. y.clean => Pays(jobs[x], task')
          BY <2>1, <3>1, <4>2, PaysOn DEF JobFits
        <5> QED
          BY <5>1, <4>2 DEF Pays, Ahead
      <4>5. chances' = chances + 1
        BY <1>4, <3>2
      <4>6. Duty(y)
        BY <3>1, <4>2 DEF JobFits, Duty
      <4>7. JobFits(y, task', chances')
        BY <3>1, <3>2, <4>2, <4>4, <4>5, <4>6, Facts DEF JobFits, Handling
      <4> QED
        BY <4>1, <4>3, <4>7
    <3>3. CASE ~Grants(t)
      <4>1. jobs'[x] = jobs[x] /\ chances' = chances
        BY <1>4, <2>6, <3>3, Facts
      <4> QED
        BY <2>1, <3>1, <4>1, Facts, FitsOn
    <3>4. CASE ~Reading(x)
      <4>1. jobs'[x] = jobs[x] /\ jobs[x].step \notin {"draw", "done"}
        BY <1>4, <2>6, <3>4
      <4>2. jobs[x].clean => Pays(jobs[x], task')
        BY <2>1, <3>1, PaysOn DEF JobFits
      <4> QED
        BY <3>1, <4>1, <4>2 DEF JobFits
    <3> QED
      BY <3>2, <3>3, <3>4
  <2>7. \A x \in Actors : jobs'[x] \in Job /\ JobFits(jobs'[x], task', chances')
    BY <1>4, <2>4, <2>6
  <2>8. TypesFit'
    BY <1>1, <1>4, <2>1, <2>5, <2>7, Facts DEF TypesFit, Forward
  <2> QED
    BY <2>7, <2>8 DEF ErrandInv
<1> QED
  BY <1>3, <1>4 DEF Claim

-----------------------------------------------------------------------------
(* Jobs that begin, and what happens beside them. *)

LEMMA StartFits ==
  ASSUME ErrandInv, NEW j \in Actors, NEW kind \in Kind, NEW step \in {"open", "look", "accept", "lock"},
         NEW todo \in Seq(Tasks), NEW school \in {"no", "due", "now"}, NEW covers \in SUBSET Tasks,
         Start(j, kind, step, todo, school, covers),
         step \in {"open", "look"} => todo # <<>>,
         kind = "all" => covers = {}, covers \cap Viewed = {},
         covers \subseteq Range(todo) \cup (IF school = "due" THEN Shares ELSE {})
  PROVE  ErrandInv'
<1> DEFINE x == [NoJob EXCEPT !.kind = kind, !.step = step, !.todo = todo, !.school = school,
                              !.owed = Lit \cap covers]
<1>1. /\ jobs' = [jobs EXCEPT ![j] = x] /\ task' = task /\ day' = day
      /\ chances' \in Nat /\ chances' <= chances /\ scoring' \subseteq Tasks
  BY Facts DEF Start, TypesFit
<1>2. NoJob \in Job /\ NoJob.later = 0
  BY IdleFits DEF NoJob
<1>3. x \in Job
  <2>1. Lit \cap covers \in SUBSET Tasks
    OBVIOUS
  <2>2. step \in Step
    BY DEF Step, Handling
  <2> QED
    BY <1>2, <2>1, <2>2 DEF Job
<1>4. /\ x.kind = kind /\ x.step = step /\ x.todo = todo /\ x.school = school /\ x.later = 0
      /\ x.owed = Lit \cap covers
  BY <1>2 DEF Job
<1> HIDE DEF x
<1>5. Pays(x, task) /\ Duty(x)
  BY <1>4 DEF Pays, Duty, Ahead, Lit
<1>6. JobFits(x, task', chances')
  BY <1>1, <1>4, <1>5 DEF JobFits, Handling
<1> QED
  BY <1>1, <1>3, <1>6, StandsStill, JobMoves

LEMMA KeepsStarts ==
  ASSUME ErrandInv, RunSchool \/ AccountTaskAuto \/ RunAutoAll \/ TasksRunQueue
  PROVE  ErrandInv'
<1>0. /\ Shares \subseteq Tasks /\ Growth \subseteq Tasks /\ Shares \cap Viewed = {}
      /\ Growth \cap Viewed = {} /\ "button" \in Actors /\ "queue" \in Actors /\ SchoolRuns \subseteq Actors
  BY ErrandsAssumption DEF Tasks, School, Actors
<1>1. CASE RunSchool
  <2>1. PICK j \in SchoolRuns : Start(j, "school", "open", SchoolOrder, "now", Shares)
    BY <1>1 DEF RunSchool
  <2> QED
    BY <1>0, <2>1, Lists, StartFits DEF Kind
<1>2. CASE AccountTaskAuto
  <2>1. PICK t \in Growth : Start("button", "single", "look", <<t>>, "no", {t})
    BY <1>2 DEF AccountTaskAuto
  <2>2. <<t>> \in Seq(Tasks) /\ <<t>> # <<>> /\ t \in Range(<<t>>)
    BY <1>0 DEF Range
  <2>3. /\ {t} \in SUBSET Tasks /\ {t} \cap Viewed = {}
        /\ {t} \subseteq Range(<<t>>) \cup (IF "no" = "due" THEN Shares ELSE {})
    BY <1>0, <2>2
  <2> QED
    BY <1>0, <2>1, <2>2, <2>3, StartFits DEF Kind
<1>3. CASE RunAutoAll
  BY <1>0, <1>3, Lists, StartFits DEF Kind, RunAutoAll
<1>4. CASE TasksRunQueue
  <2> DEFINE growth == {t \in Growth : GrowthPending(t)}
             school == \E t \in School : SchoolPending(t)
  <2>1. Start("queue", "queue", "lock", SetToSeq(growth), IF school THEN "due" ELSE "no",
              IF school THEN Shares ELSE {})
    BY <1>4 DEF TasksRunQueue
  <2>2. IsFiniteSet(growth)
    BY <1>0, ErrandsAssumption, FS_Subset
  <2>3. SetToSeq(growth) \in Seq(Tasks)
    BY <1>0, <2>2, Listed
  <2> HIDE DEF growth, school
  <2>4. CASE school
    BY <1>0, <2>1, <2>3, <2>4, StartFits DEF Kind
  <2>5. CASE ~school
    BY <1>0, <2>1, <2>3, <2>5, StartFits DEF Kind
  <2> QED
    BY <2>4, <2>5
<1> QED
  BY <1>1, <1>2, <1>3, <1>4

LEMMA KeepsQueueLocks ==
  ASSUME ErrandInv, QueueLocks
  PROVE  ErrandInv'
<1> DEFINE j == "queue"
           job == jobs[j]
           x == IF Locked THEN NoJob ELSE [job EXCEPT !.step = "accept"]
<1>0. j \in Actors
  BY DEF Actors
<1>1. /\ jobs' = [jobs EXCEPT ![j] = x] /\ task' = task /\ day' = day /\ job.step = "lock"
      /\ chances' \in Nat /\ chances' <= chances /\ scoring' \subseteq Tasks
  BY <1>0, Facts DEF QueueLocks, TypesFit
<1>2. CASE Locked
  BY <1>0, <1>1, <1>2, IdleFits, StandsStill, JobMoves
<1>3. CASE ~Locked
  <2> DEFINE y == [job EXCEPT !.step = "accept"]
  <2>1. job \in Job /\ Duty(job) /\ (job.clean => Pays(job, task)) /\ job.later = 0
    BY <1>0, <1>1, Facts DEF JobFits
  <2>2. y \in Job
    BY <2>1 DEF Job, Step
  <2>3. /\ y.kind = job.kind /\ y.owed = job.owed /\ y.later = 0 /\ y.school = job.school
        /\ y.todo = job.todo /\ y.clean = job.clean /\ y.step = "accept"
    BY <2>1 DEF Job
  <2>4. x = y
    BY <1>3
  <2> HIDE DEF x, y, job
  <2>5. Duty(y) /\ (y.clean => Pays(y, task))
    BY <2>1, <2>3 DEF Duty, Pays, Ahead
  <2>6. JobFits(y, task', chances')
    BY <1>1, <2>3, <2>5 DEF JobFits, Handling
  <2> QED
    BY <1>0, <1>1, <2>2, <2>4, <2>6, StandsStill, JobMoves
<1> QED
  BY <1>2, <1>3

\* A task that is forgotten at midnight is owed no more.
LEMMA KeepsMidnight ==
  ASSUME ErrandInv, Midnight
  PROVE  ErrandInv'
<1>1. /\ day' = day + 1 /\ day < MaxDays /\ scoring' = scoring \ Daily /\ chances' = chances
      /\ task' = [t \in Tasks |-> IF t \in Daily THEN "new" ELSE task[t]]
      /\ jobs' = [j \in Actors |-> [jobs[j] EXCEPT !.owed = @ \ Daily]]
  BY DEF Midnight
<1>2. ASSUME NEW j \in Actors PROVE jobs'[j] \in Job /\ JobFits(jobs'[j], task', chances')
  <2> DEFINE job == jobs[j]
             x == [job EXCEPT !.owed = @ \ Daily]
  <2>1. job \in Job /\ JobFits(job, task, chances) /\ job.owed \subseteq Tasks
    BY Facts DEF Job
  <2>2. x \in Job
    BY <2>1 DEF Job
  <2>3. /\ x.kind = job.kind /\ x.owed = job.owed \ Daily /\ x.later = job.later
        /\ x.school = job.school /\ x.todo = job.todo /\ x.clean = job.clean
        /\ x.step = job.step /\ x.have = job.have
    BY <2>1 DEF Job
  <2>4. jobs'[j] = x
    BY <1>1
  <2> HIDE DEF x, job
  <2>5. x.clean => Pays(x, task')
    BY <1>1, <2>1, <2>3 DEF JobFits, Pays, Ahead
  <2>6. Duty(x)
    BY <2>1, <2>3 DEF JobFits, Duty
  <2> QED
    BY <1>1, <2>1, <2>2, <2>3, <2>4, <2>5, <2>6 DEF JobFits
<1>3. task' \in [Tasks -> Standing]
  BY <1>1, Facts DEF TypesFit, Standing
<1>4. day' \in 0 .. MaxDays
  BY <1>1, ErrandsAssumption, Facts DEF TypesFit
<1>5. TypesFit'
  BY <1>1, <1>2, <1>3, <1>4, Facts DEF TypesFit
<1> QED
  BY <1>2, <1>5 DEF ErrandInv

LEMMA KeepsWorld ==
  ASSUME ErrandInv, Score \/ Forget \/ ClaimButton \/ AcceptButton
  PROVE  ErrandInv'
<1>1. jobs' = jobs /\ chances' = chances /\ day' = day
  BY DEF Score, Forget, ClaimButton, AcceptButton
<1>2. scoring' \subseteq Tasks
  BY Facts DEF Score, Forget, ClaimButton, AcceptButton, TypesFit
<1>3. CASE Score
  <2>1. PICK t \in scoring :
          task' = IF task[t] = "claimed" THEN task ELSE [task EXCEPT ![t] = "lit"]
    BY <1>3 DEF Score
  <2>2. Forward(task, task')
    BY <2>1, Facts DEF TypesFit, Forward, Standing
  <2> QED
    BY <1>1, <1>2, <2>2, JobsStay
<1>4. CASE Forget
  BY <1>1, <1>2, <1>4, StandsStill, JobsStay DEF Forget
<1>5. CASE ClaimButton
  <2>1. Forward(task, task')
    BY <1>5, Facts DEF ClaimButton, Claimed, TypesFit, Forward, Standing
  <2> QED
    BY <1>1, <1>2, <2>1, JobsStay
<1>6. CASE AcceptButton
  <2>1. Forward(task, task')
    BY <1>6, Facts DEF AcceptButton, TypesFit, Forward, Standing
  <2> QED
    BY <1>1, <1>2, <2>1, JobsStay
<1> QED
  BY <1>3, <1>4, <1>5, <1>6

-----------------------------------------------------------------------------

LEMMA ErrandInitInv == ErrandsInit => ErrandInv
<1> SUFFICES ASSUME ErrandsInit PROVE ErrandInv
  OBVIOUS
<1>1. TypesFit
  BY IdleFits, ErrandsAssumption DEF ErrandsInit, TypesFit, Standing
<1>2. \A j \in Actors : JobFits(jobs[j], task, chances)
  BY IdleFits DEF ErrandsInit
<1> QED
  BY <1>1, <1>2 DEF ErrandInv

LEMMA ErrandStepInv == ErrandInv /\ [ErrandsNext]_errandVars => ErrandInv'
<1> SUFFICES ASSUME ErrandInv, [ErrandsNext]_errandVars PROVE ErrandInv'
  OBVIOUS
<1>1. ASSUME NEW j \in Actors, Working(j) PROVE ErrandInv'
  BY <1>1, KeepsOpen, KeepsAccept, KeepsLook, KeepsView, KeepsReport, KeepsPoll, KeepsClaim,
     KeepsBalance, KeepsDraw, KeepsEnds DEF Working
<1>2. CASE UNCHANGED errandVars
  BY <1>2, StandsStill, Facts, JobsStay DEF errandVars, TypesFit
<1> QED
  BY <1>1, <1>2, KeepsStarts, KeepsQueueLocks, KeepsMidnight, KeepsWorld DEF ErrandsNext

LEMMA ErrandInvariance == ErrandsSpec => []ErrandInv
BY ErrandInitInv, ErrandStepInv, PTL DEF ErrandsSpec

\* Whatever other jobs, buttons, late scores and midnights come between, a job
\* whose every call was answered has collected each reward it covers that was
\* ready when it began (runTaskAction, schoolAccount).
THEOREM RewardsAreCaughtUp == ErrandsSpec => []CaughtUp
<1>1. ASSUME ErrandInv PROVE CaughtUp
  <2>1. ErrandsTypeOK
    <3>1. TypesFit /\ \A j \in Actors : jobs[j] \in Job
      BY <1>1, Facts
    <3> QED
      BY <3>1 DEF ErrandsTypeOK, TypesFit, Standing, Job
  <2>2. ASSUME NEW j \in Actors, At(j, "done"), jobs[j].clean, NEW t \in jobs[j].owed
        PROVE  task[t] = "claimed"
    <3>1. JobFits(jobs[j], task, chances)
      BY <1>1, Facts
    <3> QED
      BY <2>2, <3>1 DEF At, JobFits, Pays, Ahead, Range
  <2> QED
    BY <2>1, <2>2 DEF CaughtUp
<1> QED
  BY <1>1, ErrandInvariance, PTL

\* A school run that ended well has used every draw but those granted to others
\* after it read the balance (schoolAccount).
THEOREM SchoolDrawsItsOwn == ErrandsSpec => []DrawsItsOwn
<1>1. ErrandInv => DrawsItsOwn
  BY Facts DEF DrawsItsOwn, JobFits, At
<1> QED
  BY <1>1, ErrandInvariance, PTL
=============================================================================
