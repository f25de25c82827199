----------------------------- MODULE ChatProofs -----------------------------
(***************************************************************************)
(* Theorems about Pool, and about Chat, which works on it, for every set   *)
(* of accounts, sites and models, every setting of the penalties and any   *)
(* finite set of requests.                                                 *)
(*                                                                         *)
(* Of the pool, PoolInv is inductive: types, PenaltyInv and BreakerPaced,  *)
(* which says that the breaker's deadline is within what its next trip     *)
(* would set; without it a step cannot know that the next trip ends later. *)
(*                                                                         *)
(* Every step of the handler is a step of the pool or leaves it alone, so  *)
(* PoolInv holds of it too.  ChatInv is inductive: it adds where the       *)
(* locals of a request stand at each place of the loop.  Effect says what  *)
(* any one step may do, each action is shown to have it, and the invariant *)
(* is kept because of it alone.                                            *)
(***************************************************************************)
EXTENDS Chat, FiniteSetTheorems, TLAPS


-----------------------------------------------------------------------------
(* The arithmetic of Penalty, for all values of its constants: every        *)
(* operator yields a record of its type, and the deadline it sets is ahead  *)
(* and within its cap.                                                      *)


\* The shift table holds positive naturals.
LEMMA Pow2Positive == \A n \in 0 .. 16 : Pow2[n + 1] \in Nat \ {0}
  BY DEF Pow2

\* The shift table grows.
LEMMA Pow2Grows == \A n \in 0 .. 15 : Pow2[n + 1] <= Pow2[n + 2]
  BY DEF Pow2

\* A doubled duration is a natural, no shorter than the original.
LEMMA ShlGrows ==
  ASSUME NEW d \in Nat, NEW n \in 0 .. 16
  PROVE  Shl(d, n) \in Nat /\ d <= Shl(d, n)
<1>1. Pow2[n + 1] \in Nat /\ Pow2[n + 1] >= 1
  BY Pow2Positive
<1>2. \A k \in Nat : k >= 1 => d * k \in Nat /\ d <= d * k
  OBVIOUS
<1> QED
  BY <1>1, <1>2 DEF Shl

\* One more doubling is no shorter.
LEMMA ShlMonotone ==
  ASSUME NEW d \in Nat, NEW n \in 0 .. 15
  PROVE  Shl(d, n) <= Shl(d, n + 1)
<1> DEFINE p == Pow2[n + 1]
           q == Pow2[n + 2]
<1>1. p \in Nat /\ q \in Nat /\ p <= q
  BY Pow2Positive, Pow2Grows
<1>2. \A j, k \in Nat : j <= k => d * j <= d * k
  OBVIOUS
<1>3. d * p <= d * q
  BY <1>1, <1>2
<1> QED
  BY <1>3 DEF Shl

\* The next 04:00 is ahead, at most a day away.
LEMMA NextDay4AMAhead ==
  ASSUME NEW t \in Nat
  PROVE  /\ NextDay4AM(t) \in Nat
         /\ t < NextDay4AM(t) /\ NextDay4AM(t) <= t + Day
<1>1. Day \in Nat /\ Day > 0
  BY PenaltyAssumption
<1>2. t % Day \in Int /\ 0 <= t % Day /\ t % Day < Day
  BY <1>1
<1> QED
  BY <1>1, <1>2 DEF NextDay4AM

-----------------------------------------------------------------------------
\* An ordinary soft cool-down is well formed, names no model, and ends within
\* soft_rate_max.
LEMMA SoftCoolWithinMax ==
  ASSUME NEW c \in Cool, NEW t \in Nat, NEW d \in SoftBase
  PROVE  /\ SoftCool(c, t, d) \in Cool
         /\ SoftCool(c, t, d).model = NoModel
         /\ SoftCool(c, t, d).kind = Soft
         /\ t < SoftCool(c, t, d).until
         /\ SoftCool(c, t, d).until <= t + SoftRateMax
<1>1. /\ d \in Nat /\ d > 0 /\ d <= SoftRateMax /\ SoftRateMax \in Nat
      /\ SoftRateMax > 0 /\ StreakBound \in 2 .. 17
  BY PenaltyAssumption, BaseWithinCap
<1>2. c.streak \in 0 .. StreakBound
  BY DEF Cool
<1>3. SoftStreak(c) \in 1 .. StreakBound
  BY <1>1, <1>2 DEF SoftStreak, AtMost
<1>4. /\ SoftDuration(d, SoftStreak(c)) \in Nat
      /\ 0 < SoftDuration(d, SoftStreak(c))
      /\ SoftDuration(d, SoftStreak(c)) <= SoftRateMax
  <2>1. CASE SoftStreak(c) <= 1
    BY <2>1, <1>1 DEF SoftDuration
  <2>2. CASE ~(SoftStreak(c) <= 1)
    <3>1. SoftStreak(c) - 1 \in 0 .. 16
      BY <2>2, <1>1, <1>3
    <3>2. /\ Shl(d, SoftStreak(c) - 1) \in Nat
          /\ d <= Shl(d, SoftStreak(c) - 1)
      BY <3>1, <1>1, ShlGrows
    <3> QED
      BY <2>2, <3>2, <1>1 DEF SoftDuration, AtMost
  <2> QED
    BY <2>1, <2>2
<1> QED
  BY <1>3, <1>4, <1>1 DEF SoftCool, Cool

\* A hard cool-down is well formed, names no model and ends within a day.
LEMMA HardCoolWithinDay ==
  ASSUME NEW c \in Cool, NEW t \in Nat
  PROVE  /\ HardCool(c, t) \in Cool
         /\ HardCool(c, t).model = NoModel
         /\ t < HardCool(c, t).until
         /\ HardCool(c, t).until <= t + Day
  BY NextDay4AMAhead DEF HardCool, Cool

\* A 6004 is a soft cool-down with a deadline within soft_rate_max.
LEMMA ModelCoolWithinMax ==
  ASSUME NEW c \in Cool, NEW t \in Nat, NEW r \in Nat, NEW m \in Model
  PROVE  /\ ModelCool(c, t, r, m) \in Cool
         /\ ModelCool(c, t, r, m).kind = Soft
         /\ t < ModelCool(c, t, r, m).until
         /\ ModelCool(c, t, r, m).until <= t + SoftRateMax
<1>1. SoftRateMax \in Nat /\ SoftRateMax > 0 /\ StreakBound \in 2 .. 17
  BY PenaltyAssumption
<1>2. c.streak \in 0 .. StreakBound
  BY DEF Cool
<1>3. SoftStreak(c) \in 0 .. StreakBound
  BY <1>1, <1>2 DEF SoftStreak, AtMost
<1>4. /\ ResetDuration(t, r) \in Nat
      /\ 0 < ResetDuration(t, r) /\ ResetDuration(t, r) <= SoftRateMax
  BY <1>1 DEF ResetDuration, AtMost
<1> QED
  BY <1>3, <1>4, <1>1 DEF ModelCool, Cool

\* A success leaves kind, deadline and model alone.
LEMMA EndStreakKeeps ==
  ASSUME NEW c \in Cool
  PROVE  /\ EndStreak(c) \in Cool
         /\ EndStreak(c).kind = c.kind /\ EndStreak(c).until = c.until
         /\ EndStreak(c).model = c.model
  BY PenaltyAssumption DEF EndStreak, Cool

-----------------------------------------------------------------------------
\* A breaker trip is never shorter than the trip before, and never longer than
\* the cap.
LEMMA BreakerDurationGrows ==
  ASSUME NEW r \in 0 .. RetryBound
  PROVE  /\ BreakerDuration(r) \in Nat /\ 0 < BreakerDuration(r)
         /\ BreakerDuration(r) <= BreakerCooldownMax
         /\ BreakerDuration(r) <= BreakerDuration(AtMost(r + 1, RetryBound))
<1>1. /\ BreakerCooldown \in Nat /\ BreakerCooldown > 0
      /\ BreakerCooldownMax \in Nat /\ BreakerCooldown <= BreakerCooldownMax
      /\ RetryBound \in 1 .. 16
  BY PenaltyAssumption, BaseWithinCap
<1> DEFINE D(k) == Shl(BreakerCooldown, k)
<1>2. \A k \in 0 .. 16 : D(k) \in Nat /\ BreakerCooldown <= D(k)
  BY <1>1, ShlGrows
<1>3. \A k \in 0 .. 15 : D(k) <= D(k + 1)
  BY <1>1, ShlMonotone
<1>4. r \in 0 .. 16 /\ AtMost(r + 1, RetryBound) \in 1 .. 16
  BY <1>1 DEF AtMost
<1>5. CASE r = 0
  <2>1. AtMost(r + 1, RetryBound) = 1
    BY <1>5, <1>1 DEF AtMost
  <2>2. BreakerDuration(r) = BreakerCooldown
    BY <1>5 DEF BreakerDuration
  <2>3. BreakerDuration(1) = AtMost(D(1), BreakerCooldownMax)
    BY DEF BreakerDuration
  <2>4. BreakerCooldown <= AtMost(D(1), BreakerCooldownMax)
    BY <1>1, <1>2 DEF AtMost
  <2> QED
    BY <2>1, <2>2, <2>3, <2>4, <1>1
<1>6. CASE r # 0 /\ r < RetryBound
  <2>1. AtMost(r + 1, RetryBound) = r + 1 /\ r \in 0 .. 15
    BY <1>6, <1>1 DEF AtMost
  <2>2. /\ BreakerDuration(r) = AtMost(D(r), BreakerCooldownMax)
        /\ BreakerDuration(r + 1) = AtMost(D(r + 1), BreakerCooldownMax)
    BY <1>6, <1>4 DEF BreakerDuration
  <2>3. D(r) \in Nat /\ D(r + 1) \in Nat /\ D(r) <= D(r + 1) /\ 0 < D(r)
    BY <2>1, <1>1, <1>2, <1>3
  <2> HIDE DEF D
  <2> QED
    BY <2>1, <2>2, <2>3, <1>1 DEF AtMost
<1>7. CASE r = RetryBound
  <2>1. AtMost(r + 1, RetryBound) = r /\ r # 0
    BY <1>7, <1>1 DEF AtMost
  <2>2. BreakerDuration(r) = AtMost(D(r), BreakerCooldownMax)
    BY <2>1 DEF BreakerDuration
  <2>3. D(r) \in Nat /\ 0 < D(r)
    BY <1>4, <1>1, <1>2
  <2> HIDE DEF D
  <2> QED
    BY <2>1, <2>2, <2>3, <1>1 DEF AtMost
<1> QED
  BY <1>5, <1>6, <1>7, <1>1

\* A failure recorded at t keeps the breaker's record well formed, its deadline
\* set exactly when it has tripped, no earlier than it was, and within what the
\* next trip would set.
LEMMA BreakerFailurePaced ==
  ASSUME NEW b \in Breaker, NEW t \in Nat \ {0},
         b.until = 0 <=> b.retry = 0,
         b.until <= t + BreakerDuration(b.retry)
  PROVE  LET c == BreakerFailure(b, t)
         IN  /\ c \in Breaker
             /\ c.until = 0 <=> c.retry = 0
             /\ b.until <= c.until
             /\ c.until <= t + BreakerDuration(c.retry)
<1>1. /\ b.fails \in 0 .. BreakerThreshold - 1 /\ b.retry \in 0 .. RetryBound
      /\ b.until \in Nat /\ BreakerThreshold \in Nat /\ BreakerThreshold > 0
      /\ RetryBound \in 1 .. 16
  BY PenaltyAssumption DEF Breaker
<1>2. /\ BreakerDuration(b.retry) \in Nat /\ 0 < BreakerDuration(b.retry)
      /\ BreakerDuration(b.retry) <= BreakerDuration(AtMost(b.retry + 1, RetryBound))
  BY <1>1, BreakerDurationGrows
<1>3. AtMost(b.retry + 1, RetryBound) \in 1 .. RetryBound
  BY <1>1 DEF AtMost
<1>4. BreakerDuration(AtMost(b.retry + 1, RetryBound)) \in Nat
  BY <1>3, <1>1, BreakerDurationGrows
<1>5. CASE b.fails + 1 < BreakerThreshold
  BY <1>5, <1>1 DEF BreakerFailure, Breaker
<1>6. CASE ~(b.fails + 1 < BreakerThreshold)
  <2> DEFINE c == BreakerFailure(b, t)
  <2>1. c = [fails |-> 0, retry |-> AtMost(b.retry + 1, RetryBound),
             until |-> t + BreakerDuration(b.retry)]
    BY <1>6 DEF BreakerFailure
  <2>2. c \in Breaker
    BY <2>1, <1>1, <1>2, <1>3 DEF Breaker
  <2>3. /\ c.until = t + BreakerDuration(b.retry)
        /\ c.retry = AtMost(b.retry + 1, RetryBound)
    BY <2>1
  <2> HIDE DEF c
  <2>4. c.until # 0 /\ c.retry # 0
    BY <2>3, <1>2, <1>3
  <2>5. b.until <= c.until
    BY <2>3, <1>1, <1>2
  <2>6. c.until <= t + BreakerDuration(c.retry)
    BY <2>3, <1>2, <1>4
  <2> QED
    BY <2>2, <2>4, <2>5, <2>6 DEF c
<1> QED
  BY <1>5, <1>6

\* A breaker that is paced is within its cap.
LEMMA BreakerPacedWithinCap ==
  ASSUME NEW b \in Breaker, NEW t \in Nat, b.until <= t + BreakerDuration(b.retry)
  PROVE  b.until <= t + BreakerCooldownMax
<1>1. b.retry \in 0 .. RetryBound /\ b.until \in Nat
  BY DEF Breaker
<1>2. BreakerDuration(b.retry) \in Nat /\ BreakerDuration(b.retry) <= BreakerCooldownMax
  BY <1>1, BreakerDurationGrows
<1> QED
  BY <1>1, <1>2, PenaltyAssumption

\* A failure never moves the end of a degrade window that is running, and opens
\* one within its cap.
LEMMA DegradeFailureFixed ==
  ASSUME NEW g \in Degrade, NEW t \in Nat
  PROVE  LET h == DegradeFailure(g, t)
             cap == AtMost(DegradeCooldown, DegradeCooldownMax)
         IN  /\ h \in Degrade /\ cap \in Nat
             /\ Active(g.until, t) => h.until = g.until
             /\ g.until <= t + cap => h.until <= t + cap
  BY PenaltyAssumption DEF DegradeFailure, Degrade, Active, AtMost

-----------------------------------------------------------------------------
(* The pool: its inductive invariant.                                       *)

\* The breaker's deadline is no further than its next trip would put it.
BreakerPaced ==
  \A u \in Account : breaker[u].until <= now + BreakerDuration(breaker[u].retry)

PoolInv == PoolTypeOK /\ PenaltyInv /\ BreakerPaced

-----------------------------------------------------------------------------
(* What each variable may do in a step.  The proofs treat one variable at   *)
(* a time: every step of the pool is one of these shapes for each of them.  *)

CoolStep(u) ==
  \/ \E d \in SoftBase : cool' = [cool EXCEPT ![u] = SoftCool(cool[u], now, d)]
  \/ cool' = [cool EXCEPT ![u] = HardCool(cool[u], now)]
  \/ \E r \in Nat, m \in Model :
        cool' = [cool EXCEPT ![u] = ModelCool(cool[u], now, r, m)]
  \/ cool' = [cool EXCEPT ![u] = EndStreak(cool[u])]
  \/ cool' = [cool EXCEPT ![u] = NoCool]
  \/ cool' = cool

BreakerStep(u) ==
  \/ breaker' = [breaker EXCEPT ![u] = BreakerFailure(breaker[u], now)]
  \/ breaker' = [breaker EXCEPT ![u] = NoBreaker]
  \/ breaker' = breaker

DegradeStep(u) ==
  \/ degrade' = [degrade EXCEPT ![u] = DegradeFailure(degrade[u], now)]
  \/ degrade' = [degrade EXCEPT ![u] = NoDegrade]
  \/ degrade' = degrade

RestStep(u) ==
  /\ byUID' \in {byUID, byUID \cup {u}, byUID \ {u}}
  /\ \E s \in Site : site' \in {site, [site EXCEPT ![u] = s]}
  /\ \E b \in BOOLEAN : disabled' = [disabled EXCEPT ![u] = b]
  /\ \E n \in 0 .. SessionDeadThreshold - 1 : sessionDead' = [sessionDead EXCEPT ![u] = n]
  /\ lastUsed' \in {lastUsed, [lastUsed EXCEPT ![u] = now], [lastUsed EXCEPT ![u] = 0]}
  /\ \E n \in Nat : inFlight' = [inFlight EXCEPT ![u] = n]

\* Every operation has these shapes.
LEMMA StepShapes ==
  ASSUME PoolTypeOK, NEW u \in Account,
         Failure(u) \/ Recovery(u) \/ Membership(u) \/ Selection(u)
  PROVE  CoolStep(u) /\ BreakerStep(u) /\ DegradeStep(u) /\ RestStep(u) /\ now' = now
<1> USE DEF CoolStep, BreakerStep, DegradeStep
<1>0. /\ byUID \subseteq Account
      /\ site = [site EXCEPT ![u] = site[u]] /\ site[u] \in Site
      /\ disabled = [disabled EXCEPT ![u] = disabled[u]] /\ disabled[u] \in BOOLEAN
      /\ sessionDead = [sessionDead EXCEPT ![u] = sessionDead[u]]
      /\ sessionDead[u] \in 0 .. SessionDeadThreshold - 1
      /\ inFlight = [inFlight EXCEPT ![u] = inFlight[u]] /\ inFlight[u] \in Nat
      /\ SessionDeadThreshold \in Nat \ {0}
      /\ FALSE \in BOOLEAN /\ TRUE \in BOOLEAN /\ 0 \in 0 .. SessionDeadThreshold - 1
      /\ now \in Time
  BY PenaltyAssumption DEF PoolTypeOK
<1>1. Time \subseteq Nat
  BY PoolAssumption DEF Time
<1>2. ASSUME NEW c, CoolTo(u, c)
      PROVE  BreakerStep(u) /\ DegradeStep(u) /\ RestStep(u) /\ now' = now
             /\ cool' = [cool EXCEPT ![u] = c]
  BY <1>2, <1>0 DEF CoolTo, RestStep
<1>3. ASSUME NEW d \in SoftBase, Cooldown(u, d)
      PROVE  CoolStep(u) /\ BreakerStep(u) /\ DegradeStep(u) /\ RestStep(u) /\ now' = now
  BY <1>2, <1>3 DEF Cooldown
<1>4. CASE CooldownUntilTomorrow4AM(u)
  BY <1>2, <1>4 DEF CooldownUntilTomorrow4AM
<1>5. ASSUME NEW r \in Time, NEW m \in Model, CooldownSoftForModel(u, r, m)
      PROVE  CoolStep(u) /\ BreakerStep(u) /\ DegradeStep(u) /\ RestStep(u) /\ now' = now
  BY <1>1, <1>2, <1>5 DEF CooldownSoftForModel
<1>6. CASE NoteError(u)
  BY <1>0, <1>6 DEF NoteError, RestStep
<1>7. CASE NoteFailures(u)
  BY <1>0, <1>7 DEF NoteFailures, RestStep
<1>8. CASE Disable(u)
  BY <1>0, <1>8 DEF Disable, RestStep
<1>9. CASE NoteSessionDead(u)
  <2> DEFINE dead == sessionDead[u] + 1 = SessionDeadThreshold
  <2>1. (IF dead THEN 0 ELSE sessionDead[u] + 1) \in 0 .. SessionDeadThreshold - 1
    BY <1>0
  <2>2. disabled[u] \/ dead \in BOOLEAN
    BY <1>0
  <2>3. /\ sessionDead' = [sessionDead EXCEPT ![u] = IF dead THEN 0 ELSE sessionDead[u] + 1]
        /\ disabled' = [disabled EXCEPT ![u] = disabled[u] \/ dead]
        /\ UNCHANGED <<now, byUID, site, cool, breaker, degrade, lastUsed, inFlight>>
    BY <1>9 DEF NoteSessionDead
  <2> HIDE DEF dead
  <2> QED
    BY <2>1, <2>2, <2>3, <1>0 DEF RestStep
<1>10. CASE NoteSuccess(u)
  BY <1>0, <1>10 DEF NoteSuccess, RestStep
<1>11. CASE ClearSessionDead(u)
  BY <1>0, <1>11 DEF ClearSessionDead, RestStep
<1>12. CASE Revive(u)
  BY <1>0, <1>12 DEF Revive, RestStep
<1>13. CASE ReenableIfCredits(u)
  BY <1>0, <1>13 DEF ReenableIfCredits, RestStep
<1>23. CASE ReviveDisabled(u)
  BY <1>0, <1>23 DEF ReviveDisabled, RestStep
<1>14. ASSUME NEW s \in Site, Upsert(u, s)
       PROVE  CoolStep(u) /\ BreakerStep(u) /\ DegradeStep(u) /\ RestStep(u) /\ now' = now
  BY <1>0, <1>14 DEF Upsert, UpsertSite, RestStep, penalties
<1>15. CASE Remove(u)
  BY <1>0, <1>15 DEF Remove, RestStep
<1>16. CASE Use(u)
  BY <1>0, <1>16 DEF Use, RestStep, penalties
<1>17. CASE Acquire(u)
  <2>1. inFlight[u] + 1 \in Nat
    BY <1>0
  <2>2. /\ inFlight' = [inFlight EXCEPT ![u] = inFlight[u] + 1]
        /\ UNCHANGED <<now, byUID, site, disabled, sessionDead, cool, breaker,
                        degrade, lastUsed>>
    BY <1>17 DEF Acquire, penalties
  <2> QED
    BY <2>1, <2>2, <1>0 DEF RestStep
<1>18. CASE Release(u)
  <2>1. inFlight[u] - 1 \in Nat
    BY <1>0, <1>18 DEF Release
  <2>2. /\ inFlight' = [inFlight EXCEPT ![u] = inFlight[u] - 1]
        /\ UNCHANGED <<now, byUID, site, disabled, sessionDead, cool, breaker,
                        degrade, lastUsed>>
    BY <1>18 DEF Release, penalties
  <2> QED
    BY <2>1, <2>2, <1>0 DEF RestStep
<1>19. CASE Failure(u)
  BY <1>3, <1>4, <1>5, <1>6, <1>7, <1>8, <1>9, <1>19 DEF Failure
<1>20. CASE Recovery(u)
  BY <1>10, <1>11, <1>12, <1>13, <1>20, <1>23 DEF Recovery
<1>21. CASE Membership(u)
  BY <1>14, <1>15, <1>21 DEF Membership
<1>22. CASE Selection(u)
  BY <1>16, <1>17, <1>18, <1>22 DEF Selection, Pick, PickByUID
<1> QED
  BY <1>19, <1>20, <1>21, <1>22

-----------------------------------------------------------------------------
\* Each variable's shape keeps its part of the invariant.
LEMMA CoolKept ==
  ASSUME PoolInv, now' = now \/ now' = now + 1, now \in Nat,
         NEW u \in Account, CoolStep(u)
  PROVE  /\ cool' \in [Account -> Cool]
         /\ ModelMarkIsSoft'
         /\ \A v \in Account : cool'[v].until <= now' + CoolCap
<1>1. /\ cool \in [Account -> Cool]
      /\ \A v \in Account : cool[v].until \in Nat /\ cool[v].until <= now + CoolCap
      /\ ModelMarkIsSoft
  BY DEF PoolInv, PoolTypeOK, PenaltyInv, SentencesBounded, Cool
<1>2. /\ CoolCap \in Nat /\ SoftRateMax <= CoolCap /\ Day <= CoolCap
      /\ SoftRateMax \in Nat /\ Day \in Nat /\ 0 \in 0 .. StreakBound
  BY PenaltyAssumption DEF CoolCap
<1>3. NoCool \in Cool /\ NoCool.until = 0 /\ NoCool.model = NoModel
  BY <1>2 DEF NoCool, Cool
<1> DEFINE Fits(c) == /\ c \in Cool /\ c.until <= now + CoolCap
                      /\ c.model # NoModel => c.kind = Soft /\ c.until # 0
<1>4. ASSUME NEW c, cool' = [cool EXCEPT ![u] = c], Fits(c)
      PROVE  /\ cool' \in [Account -> Cool]
             /\ \A v \in Account : Fits(cool'[v])
  BY <1>4, <1>1 DEF ModelMarkIsSoft
<1>5. /\ cool' \in [Account -> Cool]
      /\ \A v \in Account : Fits(cool'[v])
  <2>0. cool[u] \in Cool /\ cool[u].until \in Nat
    BY <1>1
  <2>1. ASSUME NEW d \in SoftBase PROVE Fits(SoftCool(cool[u], now, d))
    <3>1. /\ SoftCool(cool[u], now, d) \in Cool
          /\ SoftCool(cool[u], now, d).model = NoModel
          /\ SoftCool(cool[u], now, d).until <= now + SoftRateMax
      BY <2>0, SoftCoolWithinMax
    <3>2. SoftCool(cool[u], now, d).until \in Nat
      BY <3>1 DEF Cool
    <3> QED
      BY <3>1, <3>2, <1>2
  <2>2. Fits(HardCool(cool[u], now))
    <3>1. /\ HardCool(cool[u], now) \in Cool
          /\ HardCool(cool[u], now).model = NoModel
          /\ HardCool(cool[u], now).until <= now + Day
      BY <2>0, HardCoolWithinDay
    <3>2. HardCool(cool[u], now).until \in Nat
      BY <3>1 DEF Cool
    <3> QED
      BY <3>1, <3>2, <1>2
  <2>3. ASSUME NEW r \in Nat, NEW m \in Model PROVE Fits(ModelCool(cool[u], now, r, m))
    <3>1. /\ ModelCool(cool[u], now, r, m) \in Cool
          /\ ModelCool(cool[u], now, r, m).kind = Soft
          /\ now < ModelCool(cool[u], now, r, m).until
          /\ ModelCool(cool[u], now, r, m).until <= now + SoftRateMax
      BY <2>0, ModelCoolWithinMax
    <3>2. ModelCool(cool[u], now, r, m).until \in Nat
      BY <3>1 DEF Cool
    <3> QED
      BY <3>1, <3>2, <1>2
  <2>4. Fits(EndStreak(cool[u]))
    BY <2>0, <1>1, EndStreakKeeps DEF ModelMarkIsSoft
  <2>5. Fits(NoCool)
    BY <1>2, <1>3
  <2>6. \A v \in Account : Fits(cool[v])
    BY <1>1 DEF ModelMarkIsSoft
  <2> HIDE DEF Fits
  <2> QED
    BY <2>1, <2>2, <2>3, <2>4, <2>5, <2>6, <1>1, <1>4 DEF CoolStep
<1>6. \A v \in Account : cool'[v].until \in Nat
  BY <1>5 DEF Cool
<1> QED
  BY <1>5, <1>6, <1>2 DEF ModelMarkIsSoft

\* The breaker stays well formed and paced, and only ever moves its deadline
\* back or is cleared whole.
LEMMA BreakerKept ==
  ASSUME PoolInv, now' = now \/ now' = now + 1, now \in Nat \ {0},
         NEW u \in Account, BreakerStep(u)
  PROVE  /\ breaker' \in [Account -> Breaker]
         /\ BreakerTripped'
         /\ BreakerPaced'
         /\ \A v \in Account : \/ breaker[v].until <= breaker'[v].until
                               \/ breaker'[v] = NoBreaker
<1>1. /\ breaker \in [Account -> Breaker]
      /\ BreakerTripped /\ BreakerPaced
  BY DEF PoolInv, PoolTypeOK, PenaltyInv
<1>2. /\ RetryBound \in 1 .. 16 /\ 0 \in 0 .. BreakerThreshold - 1
      /\ 0 \in 0 .. RetryBound
  BY PenaltyAssumption
<1>3. \A r \in 0 .. RetryBound : BreakerDuration(r) \in Nat
  BY BreakerDurationGrows
<1> DEFINE Fits(b) == /\ b \in Breaker /\ (b.until = 0 <=> b.retry = 0)
                      /\ b.until <= now + BreakerDuration(b.retry)
<1>4. NoBreaker \in Breaker /\ NoBreaker.until = 0 /\ NoBreaker.retry = 0
  BY <1>2 DEF NoBreaker, Breaker
<1>5. Fits(NoBreaker)
  BY <1>2, <1>3, <1>4
<1>6. \A v \in Account : Fits(breaker[v])
  BY <1>1 DEF BreakerTripped, BreakerPaced
<1>7. /\ Fits(BreakerFailure(breaker[u], now))
      /\ breaker[u].until <= BreakerFailure(breaker[u], now).until
  BY <1>6, BreakerFailurePaced
<1>8. \A v \in Account : breaker[v].until \in Nat
  BY <1>1 DEF Breaker
<1>9. \A v \in Account : /\ Fits(breaker'[v])
                         /\ \/ breaker[v].until <= breaker'[v].until
                            \/ breaker'[v] = NoBreaker
  <2> HIDE DEF Fits
  <2> QED
    BY <1>1, <1>5, <1>6, <1>7, <1>8 DEF BreakerStep
<1>10. breaker' \in [Account -> Breaker]
  BY <1>1, <1>4, <1>7 DEF BreakerStep
<1>11. \A v \in Account : breaker'[v].until \in Nat /\ breaker'[v].retry \in 0 .. RetryBound
  BY <1>10 DEF Breaker
<1> QED
  BY <1>9, <1>10, <1>11, <1>3 DEF BreakerTripped, BreakerPaced

\* The degrade windows stay within their cap, and a running one is not moved.
LEMMA DegradeKept ==
  ASSUME PoolInv, now' = now \/ now' = now + 1, now \in Nat,
         NEW u \in Account, DegradeStep(u)
  PROVE  /\ degrade' \in [Account -> Degrade]
         /\ \A v \in Account :
              degrade'[v].until <= now' + AtMost(DegradeCooldown, DegradeCooldownMax)
         /\ \A v \in Account :
              Active(degrade[v].until, now) => degrade'[v].until \in {degrade[v].until, 0}
<1> DEFINE cap == AtMost(DegradeCooldown, DegradeCooldownMax)
           Fits(g) == g \in Degrade /\ g.until <= now + cap
<1>1. /\ degrade \in [Account -> Degrade]
      /\ \A v \in Account : Fits(degrade[v])
  BY DEF PoolInv, PoolTypeOK, PenaltyInv, SentencesBounded
<1>2. cap \in Nat
  BY PenaltyAssumption DEF AtMost
<1>3. Fits(NoDegrade) /\ NoDegrade.until = 0
  BY <1>2, PenaltyAssumption DEF NoDegrade, Degrade
<1>4. /\ Fits(DegradeFailure(degrade[u], now))
      /\ Active(degrade[u].until, now)
           => DegradeFailure(degrade[u], now).until = degrade[u].until
  BY <1>1, DegradeFailureFixed
<1>5. \A v \in Account :
        /\ Fits(degrade'[v])
        /\ Active(degrade[v].until, now) => degrade'[v].until \in {degrade[v].until, 0}
  <2> HIDE DEF Fits, cap
  <2> QED
    BY <1>1, <1>3, <1>4 DEF DegradeStep
<1>6. degrade' \in [Account -> Degrade]
  BY <1>1, <1>3, <1>4 DEF DegradeStep
<1>7. \A v \in Account : degrade'[v].until \in Nat
  BY <1>6 DEF Degrade
<1> QED
  BY <1>2, <1>5, <1>6, <1>7

\* What is left: the variables no sentence depends on.
LEMMA RestKept ==
  ASSUME PoolTypeOK, NEW u \in Account, RestStep(u)
  PROVE  /\ byUID' \subseteq Account
         /\ site' \in [Account -> Site]
         /\ disabled' \in [Account -> BOOLEAN]
         /\ sessionDead' \in [Account -> 0 .. SessionDeadThreshold - 1]
         /\ lastUsed' \in [Account -> 0 .. MaxTime]
         /\ inFlight' \in [Account -> Nat]
<1>1. now \in 0 .. MaxTime /\ 0 \in 0 .. MaxTime
  BY PoolAssumption DEF PoolTypeOK, Time
<1> QED
  BY <1>1 DEF PoolTypeOK, RestStep

\* The clock starts after Go's zero time and stops at its bound.
LEMMA NowIsNat == PoolTypeOK => now \in Nat \ {0}
  BY PoolAssumption DEF PoolTypeOK, Time

LEMMA PoolInitInv == PoolInit => PoolInv
<1> SUFFICES ASSUME PoolInit PROVE PoolInv
  OBVIOUS
<1>1. /\ NoCool \in Cool /\ NoBreaker \in Breaker /\ NoDegrade \in Degrade
      /\ NoCool.until = 0 /\ NoCool.model = NoModel
      /\ NoBreaker.until = 0 /\ NoBreaker.retry = 0 /\ NoDegrade.until = 0
  BY PenaltyAssumption
     DEF NoCool, NoBreaker, NoDegrade, Cool, Breaker, Degrade
<1>2. PoolTypeOK
  <2>1. now \in Time
    BY PoolAssumption DEF PoolInit, Time
  <2> QED
    BY <1>1, <2>1, PenaltyAssumption, PoolAssumption DEF PoolInit, PoolTypeOK
<1>3. BreakerDuration(0) \in Nat
  BY BreakerDurationGrows, PenaltyAssumption
<1>4. CoolCap \in Nat /\ AtMost(DegradeCooldown, DegradeCooldownMax) \in Nat
      /\ BreakerCooldownMax \in Nat
  BY PenaltyAssumption DEF CoolCap, AtMost
<1> QED
  BY <1>1, <1>2, <1>3, <1>4, NowIsNat
     DEF PoolInit, PoolInv, PenaltyInv, BreakerTripped, ModelMarkIsSoft,
         SentencesBounded, BreakerPaced

\* A step of the clock moves nothing else.
LEMMA TickShapes ==
  ASSUME PoolTypeOK, Tick, NEW u \in Account
  PROVE  /\ CoolStep(u) /\ BreakerStep(u) /\ DegradeStep(u)
         /\ now' = now + 1 /\ now' \in Time
         /\ UNCHANGED <<byUID, site, disabled, sessionDead, lastUsed, inFlight>>
  BY PoolAssumption
     DEF Tick, PoolTypeOK, Time, CoolStep, BreakerStep, DegradeStep, penalties

LEMMA PoolStepInv == PoolInv /\ [PoolNext]_poolVars => PoolInv'
<1> SUFFICES ASSUME PoolInv, [PoolNext]_poolVars PROVE PoolInv'
  OBVIOUS
<1>1. PoolTypeOK /\ now \in Nat \ {0}
  BY NowIsNat DEF PoolInv
<1>2. CASE Account = {}
  <2>1. /\ byUID' \subseteq Account /\ now' \in Time
        /\ UNCHANGED <<site, disabled, sessionDead, cool, breaker, degrade,
                       lastUsed, inFlight>>
    BY <1>1, <1>2, PoolAssumption
       DEF PoolNext, poolVars, Tick, penalties, PoolTypeOK, Time
  <2> QED
    BY <1>1, <1>2, <2>1
       DEF PoolInv, PoolTypeOK, PenaltyInv, BreakerTripped, ModelMarkIsSoft,
           SentencesBounded, BreakerPaced
<1>3. ASSUME NEW u \in Account, CoolStep(u), BreakerStep(u), DegradeStep(u),
             now' = now \/ now' = now + 1, now' \in Time,
             /\ byUID' \subseteq Account
             /\ site' \in [Account -> Site]
             /\ disabled' \in [Account -> BOOLEAN]
             /\ sessionDead' \in [Account -> 0 .. SessionDeadThreshold - 1]
             /\ lastUsed' \in [Account -> 0 .. MaxTime]
             /\ inFlight' \in [Account -> Nat]
      PROVE  PoolInv'
  <2>1. /\ cool' \in [Account -> Cool] /\ ModelMarkIsSoft'
        /\ \A v \in Account : cool'[v].until <= now' + CoolCap
    BY <1>1, <1>3, CoolKept
  <2>2. breaker' \in [Account -> Breaker] /\ BreakerTripped' /\ BreakerPaced'
    BY <1>1, <1>3, BreakerKept
  <2>3. /\ degrade' \in [Account -> Degrade]
        /\ \A v \in Account :
             degrade'[v].until <= now' + AtMost(DegradeCooldown, DegradeCooldownMax)
    BY <1>1, <1>3, DegradeKept
  <2>4. PoolTypeOK'
    BY <1>3, <2>1, <2>2, <2>3 DEF PoolTypeOK
  <2>5. \A v \in Account : breaker'[v].until <= now' + BreakerCooldownMax
    BY <2>2, <2>4, BreakerPacedWithinCap DEF PoolTypeOK, BreakerPaced, Time
  <2> QED
    BY <2>1, <2>2, <2>3, <2>4, <2>5
       DEF PoolInv, PenaltyInv, SentencesBounded
<1>4. CASE Tick /\ Account # {}
  <2>1. PICK u \in Account : TRUE
    BY <1>4
  <2> QED
    BY <1>1, <1>3, <1>4, <2>1, TickShapes DEF PoolTypeOK
<1>5. ASSUME NEW u \in Account,
             Failure(u) \/ Recovery(u) \/ Membership(u) \/ Selection(u)
      PROVE  PoolInv'
  BY <1>1, <1>3, <1>5, StepShapes, RestKept DEF PoolTypeOK
<1>6. CASE UNCHANGED poolVars /\ Account # {}
  <2>1. PICK u \in Account : TRUE
    BY <1>6
  <2>2. CoolStep(u) /\ BreakerStep(u) /\ DegradeStep(u) /\ now' = now
    BY <1>6 DEF poolVars, CoolStep, BreakerStep, DegradeStep
  <2> QED
    BY <1>1, <1>3, <1>6, <2>2 DEF PoolTypeOK, poolVars
<1> QED
  BY <1>2, <1>4, <1>5, <1>6 DEF PoolNext

LEMMA PoolInvariance == PoolSpec => []PoolInv
  BY PoolInitInv, PoolStepInv, PTL DEF PoolSpec

-----------------------------------------------------------------------------
(* The theorems *)

\* The pool's variables keep their types through every operation.
THEOREM PoolTypes == PoolSpec => []PoolTypeOK
<1>1. PoolInv => PoolTypeOK
  BY DEF PoolInv
<1> QED
  BY <1>1, PoolInvariance, PTL

\* Whatever failures and recoveries meet on an account, breaker count and
\* deadline agree, only a soft cool-down names a model, and every sentence ends
\* within its cap.
THEOREM PenaltiesHold == PoolSpec => []PenaltyInv
<1>1. PoolInv => PenaltyInv
  BY DEF PoolInv
<1> QED
  BY <1>1, PoolInvariance, PTL

\* Every step, the clock's and a stutter too, has the breaker and the degrade
\* windows move as one account's shapes say.
LEMMA SomeoneSteps ==
  ASSUME PoolInv, [PoolNext]_poolVars, Account # {}
  PROVE  \E u \in Account : BreakerStep(u) /\ DegradeStep(u) /\ now' \in {now, now + 1}
<1>0. PICK u \in Account : TRUE
  OBVIOUS
<1>1. CASE Tick
  BY <1>0, <1>1, TickShapes DEF PoolInv
<1>2. ASSUME NEW v \in Account,
             Failure(v) \/ Recovery(v) \/ Membership(v) \/ Selection(v)
      PROVE  \E w \in Account : BreakerStep(w) /\ DegradeStep(w) /\ now' \in {now, now + 1}
  BY <1>2, StepShapes DEF PoolInv
<1>3. CASE UNCHANGED poolVars
  BY <1>0, <1>3 DEF poolVars, BreakerStep, DegradeStep
<1> QED
  BY <1>1, <1>2, <1>3 DEF PoolNext

\* The breaker's deadline only moves to a later time, or is lifted together with its counts,
\* and a degrade window that is running ends when it was going to, or is lifted.
THEOREM SentencesServed == PoolSpec => NoSentenceCutShort
<1>1. PoolInv /\ [PoolNext]_poolVars
      => [\A u \in Account :
            /\ breaker'[u].until < breaker[u].until => breaker'[u] = NoBreaker
            /\ Active(degrade[u].until, now)
                 => degrade'[u].until \in {degrade[u].until, 0}]_poolVars
  <2> SUFFICES ASSUME PoolInv, [PoolNext]_poolVars, NEW u \in Account
               PROVE  /\ breaker'[u].until < breaker[u].until => breaker'[u] = NoBreaker
                      /\ Active(degrade[u].until, now)
                           => degrade'[u].until \in {degrade[u].until, 0}
    OBVIOUS
  <2>1. PICK w \in Account : BreakerStep(w) /\ now' \in {now, now + 1}
    BY SomeoneSteps
  <2>2. now \in Nat \ {0}
    BY NowIsNat DEF PoolInv
  <2>3. breaker' \in [Account -> Breaker] /\ breaker \in [Account -> Breaker]
    BY <2>1, <2>2, BreakerKept DEF PoolInv, PoolTypeOK
  <2>4. breaker[u].until \in Nat /\ breaker'[u].until \in Nat
    BY <2>3 DEF Breaker
  <2>5. breaker[u].until <= breaker'[u].until \/ breaker'[u] = NoBreaker
    BY <2>1, <2>2, BreakerKept
  <2>6. breaker'[u].until < breaker[u].until => breaker'[u] = NoBreaker
    BY <2>4, <2>5
  <2>7. PICK x \in Account : DegradeStep(x) /\ now' \in {now, now + 1}
    BY SomeoneSteps
  <2>8. Active(degrade[u].until, now) => degrade'[u].until \in {degrade[u].until, 0}
    BY <2>7, DegradeKept, NowIsNat DEF PoolInv
  <2> QED
    BY <2>6, <2>8
<1> QED
  BY <1>1, PoolInvariance, PTL DEF PoolSpec, NoSentenceCutShort

\* A 429 without a reset time, a 404, a WAF block or a 402 benches the account for
\* every model, whatever model a 6004 had noted before and however the bases and
\* caps are set: the new deadline is ahead, and the note is gone.
THEOREM BlocksBenchForAll == PoolSpec => AccountLevelBenches
<1>1. PoolInv =>
        [\A u \in Account :
           CooldownUntilTomorrow4AM(u) \/ (\E d \in SoftBase : Cooldown(u, d))
             => \A m \in Model : ~HealthyForModel(u, m)']_poolVars
  <2> SUFFICES ASSUME PoolInv, NEW u \in Account, NEW m \in Model,
                      CooldownUntilTomorrow4AM(u) \/ (\E d \in SoftBase : Cooldown(u, d))
               PROVE  ~HealthyForModel(u, m)'
    OBVIOUS
  <2>1. now \in Nat /\ cool[u] \in Cool
    BY NowIsNat DEF PoolInv, PoolTypeOK
  <2>2. PICK c : CoolTo(u, c) /\ c.model = NoModel /\ now < c.until /\ c.until \in Nat
    <3>1. CASE CooldownUntilTomorrow4AM(u)
      BY <2>1, <3>1, HardCoolWithinDay DEF CooldownUntilTomorrow4AM, Cool
    <3>2. ASSUME NEW d \in SoftBase, Cooldown(u, d)
          PROVE  \E c : CoolTo(u, c) /\ c.model = NoModel /\ now < c.until /\ c.until \in Nat
      BY <2>1, <3>2, SoftCoolWithinMax DEF Cooldown, Cool
    <3> QED
      BY <3>1, <3>2
  <2>3. cool'[u] = c /\ now' = now
    BY <2>2 DEF CoolTo, PoolInv, PoolTypeOK
  <2>4. Active(cool'[u].until, now') /\ cool'[u].model = NoModel
    BY <2>1, <2>2, <2>3 DEF Active
  <2> QED
    BY <2>4 DEF HealthyForModel, Healthy
<1> QED
  BY <1>1, PoolInvariance, PTL DEF AccountLevelBenches

-----------------------------------------------------------------------------
(* Choosing an account *)

\* The draw stays within the shortlist, and every shortlist within the candidates.
LEMMA DrawnFromCandidates ==
  ASSUME NEW cands, NEW short \in ShortLists(cands), NEW u \in Drawn(short)
  PROVE  u \in cands
<1>1. short \in SUBSET cands
  BY DEF ShortLists
<1>2. u \in short
  BY DEF Drawn
<1> QED
  BY <1>1, <1>2

\* The bars hold whatever the state: each way of choosing tests them all.
LEMMA ChoiceIsBarred == PickRespectsBars
<1> SUFFICES ASSUME NEW tried \in SUBSET Account, NEW m \in Model \cup {NoModel},
                    NEW s \in Site \cup {AnySite}, NEW u \in Pickable(tried, m, s)
             PROVE  /\ u \in byUID \ tried /\ AtSite(u, s)
                    /\ ~disabled[u] /\ ~InFlightFull(u)
                    /\ ~Active(degrade[u].until, now)
                    /\ ~(cool[u].kind = Hard /\ Active(cool[u].until, now))
  BY DEF PickRespectsBars
<1>1. CASE Candidates(tried, m, s) = {}
  <2>1. u \in StandIns(tried, s)
    BY <1>1 DEF Pickable, EarliestExpiry
  <2> QED
    BY <2>1 DEF StandIns
<1>2. CASE Candidates(tried, m, s) # {}
  <2>1. PICK short \in ShortLists(Candidates(tried, m, s)) : u \in Drawn(short)
    BY <1>2 DEF Pickable
  <2>2. u \in Candidates(tried, m, s)
    BY <2>1, DrawnFromCandidates
  <2>3. u \in byUID \ tried /\ AtSite(u, s) /\ HealthyForModel(u, m) /\ ~InFlightFull(u)
    BY <2>2 DEF Candidates, Available
  <2>4. Soft # Hard
    BY DEF Soft, Hard
  <2> QED
    BY <2>3, <2>4 DEF HealthyForModel, Healthy
<1> QED
  BY <1>1, <1>2

\* Neither the choice among the healthy nor the fallback crosses a bar.
THEOREM PickIsBarred == PoolSpec => []PickRespectsBars
  BY ChoiceIsBarred, PTL

\* With two models or more, whatever /healthz counts as servable some request
\* could be given.
THEOREM ServableProbeSound ==
  ASSUME Model # {}, \A m \in Model : \E n \in Model : n # m
  PROVE  PoolSpec => []ServableSound
<1>1. PoolInv => ServableSound
  <2> SUFFICES ASSUME PoolInv, NEW s \in Site \cup {AnySite}, ServableNow(s)
               PROVE  \E m \in Model : Candidates({}, m, s) # {}
    BY DEF ServableSound
  <2>1. PICK u \in byUID : /\ AtSite(u, s) /\ ~InFlightFull(u)
                           /\ \/ Healthy(u)
                              \/ ModelExempt(u) /\ now >= degrade[u].until
    BY DEF ServableNow
  <2>2. u \in Account /\ now \in Nat
        /\ degrade[u].until \in Nat /\ cool[u].model \in Model \cup {NoModel}
    BY NowIsNat DEF PoolInv, PoolTypeOK, Degrade, Cool
  <2>3. ASSUME NEW m \in Model, HealthyForModel(u, m)
        PROVE  \E n \in Model : Candidates({}, n, s) # {}
    BY <2>1, <2>3 DEF Candidates, Available
  <2>4. CASE Healthy(u)
    BY <2>3, <2>4 DEF HealthyForModel
  <2>5. CASE ModelExempt(u) /\ now >= degrade[u].until
    <3>1. PICK n \in Model : n # cool[u].model
      BY <2>2
    <3>2. n # NoModel
      BY PenaltyAssumption
    <3>3. ~Active(degrade[u].until, now)
      BY <2>2, <2>5 DEF Active
    <3>4. HealthyForModel(u, n)
      BY <2>5, <3>1, <3>2, <3>3 DEF HealthyForModel, ModelExempt
    <3> QED
      BY <2>3, <3>4
  <2> QED
    BY <2>1, <2>4, <2>5
<1> QED
  BY <1>1, PoolInvariance, PTL


-----------------------------------------------------------------------------
(* The handler: its inductive invariant.                                    *)

\* Where a request has an account, and where it has a lease on it.
Leased == {"ready", "sent", "fail", "bind", "stream"}
Placed == Leased \cup {"acquire", "after", "rotate"}
\* Where the attempt of this round may have been sent.
Spent  == {"sent", "fail", "after", "rotate", "bind", "stream"}

\* The lease is on the account of the round; a round is begun only below the
\* bound.
LeaseFits(r) ==
  /\ req[r].held = IF req[r].pc \in Leased THEN req[r].acct ELSE None
  /\ req[r].pc \in Placed => req[r].acct \in Account /\ req[r].round < MaxRotate
  /\ At(r, "sticky") => req[r].sticky # None

\* Each round sends once at most, and each way into the next round counts it.
RoundFits(r) ==
  IF At(r, "done") THEN sent[r] <= MaxRotate
  ELSE sent[r] <= req[r].round + IF req[r].pc \in Spent THEN 1 ELSE 0

\* The account of the round is among those tried.  One on which the request has
\* failed is too, is not the one of a fresh round, and is not the one the request
\* is stuck to, but between the failure and fail().
TriedFits(r) ==
  ~At(r, "done") =>
    /\ failedOn[r] \subseteq req[r].tried
    /\ At(r, "start") => req[r].tried = {}
    /\ req[r].pc \in {"acquire", "ready", "sent"} => req[r].acct \in req[r].tried \ failedOn[r]
    /\ req[r].sticky \in failedOn[r] => At(r, "fail") /\ req[r].sticky = req[r].acct

\* What is still to be held against the account of the round is its own doing.
BlameFits(r) ==
  req[r].pc \in {"fail", "after"} =>
    /\ req[r].verdict = "streak" => req[r].acct \in blamed
    /\ req[r].verdict = "waf" => req[r].acct \in hitBy

Fits(r) == LeaseFits(r) /\ RoundFits(r) /\ TriedFits(r) /\ BlameFits(r)

ChatInv ==
  /\ ChatTypeOK /\ PoolInv
  /\ \A r \in Request : Fits(r)
  /\ LeasesMatch /\ BlameIsOwn
  /\ waf.hits \subseteq hitBy /\ IsFiniteSet(hitBy)

-----------------------------------------------------------------------------
(* What the classification of answers promises.                             *)

LEMMA RulesRead ==
  ASSUME NEW a
  PROVE  /\ Rules(a)[1] <=> (a.status = 402 \/ "credit" \in a.body)
         /\ Rules(a)[2] <=> "dead" \in a.body
         /\ Rules(a)[3] <=> (a.status = 429 \/ "limit" \in a.body)
         /\ Rules(a)[4] <=> IsWafBlocked(a)
         /\ Rules(a)[5] <=> a.status = 404
         /\ Rules(a)[6] <=> a.status >= 500
         /\ Rules(a)[7] <=> (a.status >= 400 /\ "content" \in a.body)
         /\ Rules(a)[8] <=> (a.status >= 400 /\ "params" \in a.body)
<1>1. Rules(a)[1] <=> (a.status = 402 \/ "credit" \in a.body)
  BY DEF Rules
<1>2. Rules(a)[2] <=> "dead" \in a.body
  BY DEF Rules
<1>3. Rules(a)[3] <=> (a.status = 429 \/ "limit" \in a.body)
  BY DEF Rules
<1>4. Rules(a)[4] <=> IsWafBlocked(a)
  BY DEF Rules
<1>5. Rules(a)[5] <=> a.status = 404
  BY DEF Rules
<1>6. Rules(a)[6] <=> a.status >= 500
  BY DEF Rules
<1>7. Rules(a)[7] <=> (a.status >= 400 /\ "content" \in a.body)
  BY DEF Rules
<1>8. Rules(a)[8] <=> (a.status >= 400 /\ "params" \in a.body)
  BY DEF Rules
<1> QED
  BY <1>1, <1>2, <1>3, <1>4, <1>5, <1>6, <1>7, <1>8

\* An answer in which the request alone is at fault is judged to be about its
\* content or its form, by whatever other rule it could have matched.
LEMMA FaultIsSeen ==
  ASSUME NEW a \in Answers, RequestAtFault(a)
  PROVE  Verdict(a) \in {"content_blocked", "bad_params"}
<1> DEFINE First(i) == Rules(a)[i] /\ \A j \in 1 .. i - 1 : ~Rules(a)[j]
           n == CHOOSE i \in DOMAIN Verdicts : First(i)
<1>1. /\ a.status = 400 \/ (a.status = 403 /\ ~IsWafBlocked(a))
      /\ "content" \in a.body \/ "params" \in a.body
      /\ "credit" \notin a.body /\ "dead" \notin a.body /\ "limit" \notin a.body
  BY DEF RequestAtFault, IsWafBlocked
<1>2. ~IsWafBlocked(a) /\ a.status \in {400, 403}
  BY <1>1 DEF IsWafBlocked
<1>3. ~Rules(a)[1] /\ ~Rules(a)[2] /\ ~Rules(a)[3] /\ ~Rules(a)[4] /\ ~Rules(a)[5] /\ ~Rules(a)[6]
  BY <1>1, <1>2, RulesRead
<1>4. Rules(a)[7] \/ Rules(a)[8]
  BY <1>1, <1>2, RulesRead
<1>5. DOMAIN Verdicts = 1 .. 10
  BY DEF Verdicts
<1> HIDE DEF n
<1>6. \E i \in DOMAIN Verdicts : First(i)
  <2>1. CASE Rules(a)[7]
    <3>1. First(7)
      BY <2>1, <1>3
    <3> QED
      BY <3>1, <1>5
  <2>2. CASE ~Rules(a)[7]
    <3>1. First(8)
      BY <2>2, <1>3, <1>4
    <3> QED
      BY <3>1, <1>5
  <2> QED
    BY <2>1, <2>2
<1>7. n \in 1 .. 10 /\ First(n)
  <2>1. n \in DOMAIN Verdicts /\ First(n)
    BY <1>6 DEF n
  <2> QED
    BY <2>1, <1>5
<1>8. n \in {7, 8}
  BY <1>3, <1>4, <1>7
<1>9. Verdict(a) = Verdicts[n]
  BY DEF Verdict, n
<1>10. Verdicts[7] = "content_blocked" /\ Verdicts[8] = "bad_params"
  BY DEF Verdicts
<1> QED
  BY <1>8, <1>9, <1>10

\* So a failure of any other kind is held against the account as well.
LEMMA OthersAreOwn ==
  ASSUME NEW f \in Failures, f.kind \notin {"content_blocked", "bad_params"}
  PROVE  f.own
<1>1. PICK a \in Answers : f = [kind |-> Verdict(a), reset |-> ParseSoftRateReset(a),
                                own |-> ~RequestAtFault(a)]
  BY DEF Failures
<1>2. ~RequestAtFault(a)
  BY <1>1, FaultIsSeen
<1> QED
  BY <1>1, <1>2

-----------------------------------------------------------------------------
(* What one step of the handler does, in the terms the invariant needs.     *)

\* Nothing is held against the account.
Clean(u) ==
  cool[u] = NoCool /\ breaker[u] = NoBreaker /\ degrade[u] = NoDegrade /\ ~disabled[u]

\* A request's step changes its own locals and history, and adds to the blame.
Mine(r) ==
  /\ req' \in [Request -> Locals] /\ failedOn' \in [Request -> SUBSET Account]
  /\ sent' \in [Request -> Nat]
  /\ \A q \in Request \ {r} :
       req'[q] = req[q] /\ failedOn'[q] = failedOn[q] /\ sent'[q] = sent[q]
  /\ blamed \subseteq blamed' /\ blamed' \subseteq Account
  /\ hitBy \subseteq hitBy' /\ hitBy' \subseteq Account /\ IsFiniteSet(hitBy')

\* The lease is taken and given back by the operation that counts it, and a
\* penalty falls on an account that is to blame.
PoolPart(r) ==
  \/ UNCHANGED poolVars /\ req'[r].held = req[r].held
  \/ \E u \in Account :
       /\ UNCHANGED inFlight /\ req'[r].held = req[r].held
       /\ \/ Failure(u) /\ u \in blamed'
          \/ NoteSuccess(u)
          \/ Selection(u) /\ Use(u)
  \/ \E u \in Account : Acquire(u) /\ req[r].held = None /\ req'[r].held = u
  \/ \E u \in Account : Release(u) /\ req[r].held = u /\ req'[r].held = None

\* The conversation's and the site's variables.
GatesFit ==
  /\ bound \in Account \cup {None} /\ degraded \in BOOLEAN
  /\ waf \in [hits : SUBSET Account, closed : BOOLEAN] /\ waf.hits \subseteq hitBy
  /\ waf.closed => Cardinality(hitBy) >= WafThreshold

Effect(r) == Mine(r) /\ PoolPart(r) /\ Fits(r)' /\ GatesFit'

\* The hypotheses every action starts from.
LEMMA Facts ==
  ASSUME ChatInv, NEW r \in Request
  PROVE  /\ ChatTypeOK /\ PoolTypeOK /\ byUID \subseteq Account /\ GatesFit
         /\ req[r] \in Locals /\ req[r].round \in Nat /\ req[r].round <= MaxRotate
         /\ sent[r] \in Nat /\ failedOn[r] \subseteq Account /\ IsFiniteSet(hitBy)
         /\ LeaseFits(r) /\ RoundFits(r) /\ TriedFits(r) /\ BlameFits(r)
         /\ MaxRotate \in Nat \ {0} /\ None \notin Account /\ WafThreshold \in Nat \ {0}
<1>1. MaxRotate \in Nat \ {0} /\ None \notin Account /\ WafThreshold \in Nat \ {0}
  BY ChatAssumption
<1>2. ChatTypeOK /\ PoolTypeOK /\ Fits(r) /\ BlameIsOwn /\ waf.hits \subseteq hitBy /\ IsFiniteSet(hitBy)
  BY DEF ChatInv, PoolInv
<1>3. GatesFit
  BY <1>2 DEF GatesFit, ChatTypeOK, BlameIsOwn
<1>4. req[r] \in Locals
  BY <1>2 DEF ChatTypeOK
<1>5. req[r].round \in Nat /\ req[r].round <= MaxRotate
  BY <1>1, <1>4 DEF Locals
<1> QED
  BY <1>1, <1>2, <1>3, <1>4, <1>5 DEF Fits, ChatTypeOK, PoolTypeOK

\* What is left alone is kept.
LEMMA Quiet ==
  ASSUME ChatInv, NEW r \in Request, NEW x \in Locals, req' = [req EXCEPT ![r] = x],
         UNCHANGED history
  PROVE  Mine(r) /\ req'[r] = x
<1>1. ChatTypeOK /\ IsFiniteSet(hitBy)
  BY Facts
<1> QED
  BY <1>1 DEF Mine, ChatTypeOK, history

LEMMA GatesKept ==
  ASSUME GatesFit, UNCHANGED <<degraded, waf, hitBy>>, bound' \in Account \cup {None}
  PROVE  GatesFit'
  BY DEF GatesFit

\* The locals after the shapes of assignment that several actions share.
LEMMA AfterGoto ==
  ASSUME ChatInv, NEW r \in Request, NEW pc \in Pc, Goto(r, pc)
  PROVE  \E x \in Locals :
           /\ req' = [req EXCEPT ![r] = x] /\ x.pc = pc
           /\ x.round = req[r].round /\ x.tried = req[r].tried /\ x.sticky = req[r].sticky
           /\ x.acct = req[r].acct /\ x.held = req[r].held /\ x.verdict = req[r].verdict
<1> DEFINE x == [req[r] EXCEPT !.pc = pc]
<1>1. req \in [Request -> Locals] /\ req[r] \in Locals
  BY Facts DEF ChatTypeOK
<1>2. x \in Locals
  BY <1>1 DEF Locals
<1>3. req' = [req EXCEPT ![r] = x]
  BY <1>1 DEF Goto
<1>4. /\ x.pc = pc /\ x.round = req[r].round /\ x.tried = req[r].tried
      /\ x.sticky = req[r].sticky /\ x.acct = req[r].acct /\ x.held = req[r].held
      /\ x.verdict = req[r].verdict
  BY <1>1 DEF Locals
<1> QED
  BY <1>2, <1>3, <1>4

LEMMA AfterDone ==
  ASSUME ChatInv, NEW r \in Request, Done(r)
  PROVE  \E x \in Locals : req' = [req EXCEPT ![r] = x] /\ x.pc = "done" /\ x.held = None
<1> DEFINE x == [Initial EXCEPT !.pc = "done"]
<1>1. Initial \in Locals /\ "done" \in Pc
  BY ChatAssumption DEF Initial, Locals, Pc
<1>2. x \in Locals
  BY <1>1 DEF Locals
<1>3. x.pc = "done" /\ x.held = None
  BY DEF Initial
<1> QED
  BY <1>2, <1>3 DEF Done

LEMMA AfterNextRound ==
  ASSUME ChatInv, NEW r \in Request, NextRound(r), req[r].round < MaxRotate
  PROVE  \E x \in Locals :
           /\ req' = [req EXCEPT ![r] = x]
           /\ x.pc = IF req[r].sticky # None THEN "sticky" ELSE "pick"
           /\ x.round = req[r].round + 1 /\ x.tried = req[r].tried
           /\ x.sticky = req[r].sticky /\ x.held = req[r].held
<1> DEFINE pc == IF req[r].sticky # None THEN "sticky" ELSE "pick"
           x == [req[r] EXCEPT !.round = @ + 1, !.acct = None, !.verdict = "none", !.pc = pc]
<1>1. /\ req \in [Request -> Locals] /\ req[r] \in Locals
      /\ req[r].round + 1 \in 0 .. MaxRotate
  BY Facts DEF ChatTypeOK
<1>2. pc \in Pc
  BY DEF Pc
<1>3. req' = [req EXCEPT ![r].round = @ + 1, ![r].acct = None, ![r].verdict = "none", ![r].pc = pc]
  BY DEF NextRound
<1> HIDE DEF pc
<1>4. req' = [req EXCEPT ![r] = x]
  BY <1>1, <1>3
<1>5. x \in Locals
  BY <1>1, <1>2 DEF Locals
<1>6. /\ x.pc = pc /\ x.round = req[r].round + 1 /\ x.tried = req[r].tried
      /\ x.sticky = req[r].sticky /\ x.held = req[r].held
  BY <1>1 DEF Locals
<1> QED
  BY <1>4, <1>5, <1>6 DEF pc

\* A request that ends keeps no lease and sends no more.
LEMMA DoneFits ==
  ASSUME ChatInv, NEW r \in Request, Done(r), UNCHANGED history
  PROVE  Mine(r) /\ Fits(r)' /\ req'[r].held = None
<1>1. PICK x \in Locals : req' = [req EXCEPT ![r] = x] /\ x.pc = "done" /\ x.held = None
  BY AfterDone
<1>2. Mine(r) /\ req'[r] = x
  BY <1>1, Quiet
<1>3. sent'[r] <= MaxRotate
  BY Facts DEF history, RoundFits, LeaseFits, Placed, Leased, Spent, Locals
<1>4. LeaseFits(r)' /\ TriedFits(r)' /\ BlameFits(r)'
  BY <1>1, <1>2 DEF LeaseFits, TriedFits, BlameFits, Leased, Placed, At
<1> QED
  BY <1>1, <1>2, <1>3, <1>4 DEF Fits, RoundFits, At

LEMMA FailLocals ==
  ASSUME ChatInv, NEW r \in Request, NEW verdict \in {"none", "streak", "waf", "refresh"},
         req' = [req EXCEPT ![r].pc = "fail", ![r].verdict = verdict]
  PROVE  \E x \in Locals :
           /\ req' = [req EXCEPT ![r] = x] /\ x.pc = "fail" /\ x.verdict = verdict
           /\ x.round = req[r].round /\ x.tried = req[r].tried /\ x.sticky = req[r].sticky
           /\ x.acct = req[r].acct /\ x.held = req[r].held
<1> DEFINE x == [req[r] EXCEPT !.pc = "fail", !.verdict = verdict]
<1>1. req \in [Request -> Locals] /\ req[r] \in Locals
  BY Facts DEF ChatTypeOK
<1>2. "fail" \in Pc
  BY DEF Pc
<1>3. x \in Locals
  BY <1>1, <1>2 DEF Locals
<1>4. req' = [req EXCEPT ![r] = x]
  BY <1>1
<1>5. /\ x.pc = "fail" /\ x.verdict = verdict
      /\ x.round = req[r].round /\ x.tried = req[r].tried /\ x.sticky = req[r].sticky
      /\ x.acct = req[r].acct /\ x.held = req[r].held
  BY <1>1 DEF Locals
<1> QED
  BY <1>3, <1>4, <1>5

\* The next round counts what the last one may have sent.
LEMMA NextRoundFits ==
  ASSUME ChatInv, NEW r \in Request, NextRound(r), UNCHANGED history,
         req[r].held = None, req[r].pc \in {"acquire", "after", "rotate"}
  PROVE  Mine(r) /\ Fits(r)' /\ req'[r].held = None
<1>1. req[r].round < MaxRotate /\ req[r].pc \in Placed
  BY Facts DEF LeaseFits, Placed
<1>2. PICK x \in Locals :
        /\ req' = [req EXCEPT ![r] = x]
        /\ x.pc = IF req[r].sticky # None THEN "sticky" ELSE "pick"
        /\ x.round = req[r].round + 1 /\ x.tried = req[r].tried
        /\ x.sticky = req[r].sticky /\ x.held = req[r].held
  BY <1>1, AfterNextRound
<1>3. Mine(r) /\ req'[r] = x
  BY <1>2, Quiet
<1>4. LeaseFits(r)' /\ BlameFits(r)'
  BY <1>2, <1>3 DEF LeaseFits, BlameFits, Leased, Placed, At
<1>5. RoundFits(r)'
  BY <1>2, <1>3, Facts DEF RoundFits, history, Spent, At
<1>6. TriedFits(r)'
  BY <1>2, <1>3, Facts DEF TriedFits, history, At
<1> QED
  BY <1>2, <1>3, <1>4, <1>5, <1>6 DEF Fits

\* Moves that keep the account of the round and what is held.
LEMMA GotoFits ==
  ASSUME ChatInv, NEW r \in Request, NEW pc \in Pc, Goto(r, pc), UNCHANGED history,
         \/ req[r].pc \in {"sent", "bind"} /\ pc \in {"bind", "stream"}
         \/ req[r].pc = "after" /\ pc = "rotate"
  PROVE  Mine(r) /\ Fits(r)' /\ req'[r].held = req[r].held
<1>1. PICK x \in Locals :
        /\ req' = [req EXCEPT ![r] = x] /\ x.pc = pc
        /\ x.round = req[r].round /\ x.tried = req[r].tried /\ x.sticky = req[r].sticky
        /\ x.acct = req[r].acct /\ x.held = req[r].held /\ x.verdict = req[r].verdict
  BY AfterGoto
<1>2. Mine(r) /\ req'[r] = x
  BY <1>1, Quiet
<1>3. LeaseFits(r)' /\ BlameFits(r)'
  BY <1>1, <1>2, Facts DEF LeaseFits, BlameFits, Leased, Placed, At
<1>4. RoundFits(r)' /\ TriedFits(r)'
  BY <1>1, <1>2, Facts DEF RoundFits, TriedFits, history, Spent, At
<1> QED
  BY <1>1, <1>2, <1>3, <1>4 DEF Fits

-----------------------------------------------------------------------------
(* The actions, one by one.                                                 *)

LEMMA StartEffect ==
  ASSUME ChatInv, NEW r \in Request, Start(r)
  PROVE  Effect(r)
<1>1. PICK u \in IF bound \in Usable THEN {bound}
                 ELSE IF Usable = {} THEN {None} ELSE Usable :
        /\ bound' = u
        /\ IF waf.closed THEN Done(r)
           ELSE req' = [req EXCEPT ![r].sticky = u, ![r].plain = ~degraded,
                                   ![r].pc = IF u # None THEN "sticky" ELSE "pick"]
  BY DEF Start
<1>2. At(r, "start") /\ UNCHANGED <<poolVars, degraded, waf, history>>
  BY DEF Start
<1>3. u \in Account \cup {None}
  BY <1>1, Facts DEF Usable, Available
<1>4. GatesFit'
  BY <1>1, <1>2, <1>3, GatesKept, Facts DEF history
<1>5. req[r].held = None /\ req[r].tried = {} /\ failedOn[r] = {} /\ sent[r] <= req[r].round
  BY <1>2, Facts DEF LeaseFits, TriedFits, RoundFits, Leased, Spent, At
<1>6. CASE waf.closed
  BY <1>1, <1>2, <1>4, <1>5, <1>6, DoneFits DEF Effect, PoolPart
<1>7. CASE ~waf.closed
  <2> DEFINE pc == IF u # None THEN "sticky" ELSE "pick"
             x == [req[r] EXCEPT !.sticky = u, !.plain = ~degraded, !.pc = pc]
  <2>1. req \in [Request -> Locals] /\ req[r] \in Locals /\ degraded \in BOOLEAN
    BY Facts DEF ChatTypeOK
  <2>2. pc \in Pc
    BY DEF Pc
  <2>3. req' = [req EXCEPT ![r].sticky = u, ![r].plain = ~degraded, ![r].pc = pc]
    BY <1>1, <1>7
  <2> HIDE DEF pc
  <2>4. x \in Locals
    BY <1>3, <2>1, <2>2 DEF Locals
  <2>5. req' = [req EXCEPT ![r] = x]
    BY <2>1, <2>3
  <2>6. /\ x.pc = pc /\ x.round = req[r].round /\ x.tried = req[r].tried
        /\ x.sticky = u /\ x.held = req[r].held
    BY <2>1 DEF Locals
  <2> HIDE DEF x
  <2>7. Mine(r) /\ req'[r] = x
    BY <1>2, <2>4, <2>5, Quiet
  <2>8. LeaseFits(r)' /\ BlameFits(r)'
    BY <1>5, <2>6, <2>7 DEF pc, LeaseFits, BlameFits, Leased, Placed, At
  <2>9. RoundFits(r)' /\ TriedFits(r)'
    BY <1>2, <1>5, <2>6, <2>7, Facts DEF pc, RoundFits, TriedFits, history, Spent, At
  <2> QED
    BY <1>2, <1>4, <2>6, <2>7, <2>8, <2>9 DEF Effect, PoolPart, Fits
<1> QED
  BY <1>6, <1>7

LEMMA GiveUpEffect ==
  ASSUME ChatInv, NEW r \in Request, GiveUp(r)
  PROVE  Effect(r)
<1>1. /\ At(r, "sticky") \/ At(r, "pick")
      /\ Done(r) /\ UNCHANGED <<poolVars, bound, degraded, waf, history>>
  BY DEF GiveUp
<1>2. req[r].held = None
  BY <1>1, Facts DEF LeaseFits, Leased, At
<1>3. GatesFit'
  BY <1>1, GatesKept, Facts DEF GatesFit, history
<1> QED
  BY <1>1, <1>2, <1>3, DoneFits DEF Effect, PoolPart

\* Both ways of choosing: the account is one the request has not failed on.
LEMMA ChosenFits ==
  ASSUME ChatInv, NEW r \in Request, NEW u \in Account, Chosen(r, u), UNCHANGED history,
         At(r, "sticky") \/ At(r, "pick"), ~Exhausted(r),
         u \notin failedOn[r]
  PROVE  Mine(r) /\ Fits(r)' /\ req[r].held = None /\ req'[r].held = None
<1> DEFINE x == [req[r] EXCEPT !.acct = u, !.tried = @ \cup {u}, !.pc = "acquire"]
<1>1. req \in [Request -> Locals] /\ req[r] \in Locals /\ req[r].tried \cup {u} \in SUBSET Account
  BY Facts DEF ChatTypeOK, Locals
<1>2. "acquire" \in Pc
  BY DEF Pc
<1>3. x \in Locals
  BY <1>1, <1>2 DEF Locals
<1>4. req' = [req EXCEPT ![r] = x]
  BY <1>1 DEF Chosen
<1>5. /\ x.pc = "acquire" /\ x.round = req[r].round /\ x.tried = req[r].tried \cup {u}
      /\ x.sticky = req[r].sticky /\ x.acct = u /\ x.held = req[r].held
  BY <1>1 DEF Locals
<1> HIDE DEF x
<1>6. Mine(r) /\ req'[r] = x
  BY <1>3, <1>4, Quiet
<1>7. req[r].held = None /\ req[r].round < MaxRotate
  BY Facts DEF LeaseFits, Leased, At, Exhausted
<1>8. LeaseFits(r)' /\ BlameFits(r)'
  BY <1>5, <1>6, <1>7, Facts DEF LeaseFits, BlameFits, Leased, Placed, At
<1>9. RoundFits(r)' /\ TriedFits(r)'
  BY <1>5, <1>6, Facts DEF RoundFits, TriedFits, history, Spent, At
<1> QED
  BY <1>5, <1>6, <1>7, <1>8, <1>9 DEF Fits

LEMMA PickStickyEffect ==
  ASSUME ChatInv, NEW r \in Request, PickSticky(r)
  PROVE  Effect(r)
<1>1. /\ At(r, "sticky") /\ ~Exhausted(r) /\ UNCHANGED <<degraded, waf, history>>
      /\ \/ /\ PickByUID(req[r].sticky, TheModel, TheSite)
            /\ Chosen(r, req[r].sticky)
            /\ UNCHANGED bound
         \/ /\ req[r].sticky \notin Usable
            /\ Unbind
            /\ req' = [req EXCEPT ![r].sticky = None, ![r].pc = "pick"]
            /\ UNCHANGED poolVars
  BY DEF PickSticky
<1>2. req[r].held = None /\ req[r].sticky \in Account /\ req[r].sticky \notin failedOn[r]
  BY <1>1, Facts DEF LeaseFits, TriedFits, Leased, Locals, At
<1>3. GatesFit'
  BY <1>1, GatesKept, Facts DEF GatesFit, Unbind, history
<1>4. TheModel \in Model /\ TheSite \in Site
  BY ChatAssumption DEF TheModel, TheSite
<1>5. CASE PickByUID(req[r].sticky, TheModel, TheSite) /\ Chosen(r, req[r].sticky)
  <2>1. Mine(r) /\ Fits(r)' /\ req'[r].held = None
    BY <1>1, <1>2, <1>5, ChosenFits
  <2>2. Selection(req[r].sticky) /\ Use(req[r].sticky) /\ UNCHANGED inFlight
    BY <1>4, <1>5 DEF Selection, PickByUID, Use
  <2> QED
    BY <1>2, <1>3, <2>1, <2>2 DEF Effect, PoolPart
<1>6. CASE req' = [req EXCEPT ![r].sticky = None, ![r].pc = "pick"] /\ UNCHANGED poolVars
  <2> DEFINE x == [req[r] EXCEPT !.sticky = None, !.pc = "pick"]
  <2>1. req \in [Request -> Locals] /\ req[r] \in Locals
    BY Facts DEF ChatTypeOK
  <2>2. "pick" \in Pc
    BY DEF Pc
  <2>3. x \in Locals
    BY <2>1, <2>2 DEF Locals
  <2>4. req' = [req EXCEPT ![r] = x]
    BY <1>6, <2>1
  <2>5. /\ x.pc = "pick" /\ x.round = req[r].round /\ x.tried = req[r].tried
        /\ x.sticky = None /\ x.held = req[r].held
    BY <2>1 DEF Locals
  <2> HIDE DEF x
  <2>6. Mine(r) /\ req'[r] = x
    BY <1>1, <2>3, <2>4, Quiet
  <2>7. LeaseFits(r)' /\ BlameFits(r)'
    BY <1>2, <2>5, <2>6 DEF LeaseFits, BlameFits, Leased, Placed, At
  <2>8. RoundFits(r)' /\ TriedFits(r)'
    BY <1>1, <2>5, <2>6, Facts DEF RoundFits, TriedFits, history, Spent, At
  <2> QED
    BY <1>3, <1>6, <2>5, <2>6, <2>7, <2>8 DEF Effect, PoolPart, Fits
<1> QED
  BY <1>1, <1>5, <1>6

LEMMA PickFreshEffect ==
  ASSUME ChatInv, NEW r \in Request, PickFresh(r)
  PROVE  Effect(r)
<1>1. /\ At(r, "pick") /\ ~Exhausted(r) /\ UNCHANGED <<bound, degraded, waf, history>>
      /\ \/ \E u \in Account : Pick(u, req[r].tried, TheModel, TheSite) /\ Chosen(r, u)
         \/ Done(r) /\ UNCHANGED poolVars
  BY DEF PickFresh
<1>2. req[r].held = None /\ failedOn[r] \subseteq req[r].tried /\ req[r].tried \subseteq Account
  BY <1>1, Facts DEF LeaseFits, TriedFits, Leased, Locals, At
<1>3. GatesFit'
  BY <1>1, GatesKept, Facts DEF GatesFit, history
<1>4. TheModel \in Model /\ TheSite \in Site
  BY ChatAssumption DEF TheModel, TheSite
<1>5. ASSUME NEW u \in Account, Pick(u, req[r].tried, TheModel, TheSite), Chosen(r, u)
      PROVE  Effect(r)
  <2>1. u \notin req[r].tried
    BY <1>2, <1>4, <1>5, ChoiceIsBarred DEF Pick, PickRespectsBars
  <2>2. Mine(r) /\ Fits(r)' /\ req'[r].held = None
    BY <1>1, <1>2, <1>5, <2>1, ChosenFits
  <2>3. Selection(u) /\ Use(u) /\ UNCHANGED inFlight
    BY <1>2, <1>4, <1>5 DEF Selection, Pick, Use
  <2> QED
    BY <1>2, <1>3, <1>5, <2>2, <2>3 DEF Effect, PoolPart
<1>6. CASE Done(r) /\ UNCHANGED poolVars
  BY <1>1, <1>2, <1>3, <1>6, DoneFits DEF Effect, PoolPart
<1> QED
  BY <1>1, <1>5, <1>6

LEMMA LeaseEffect ==
  ASSUME ChatInv, NEW r \in Request, Lease(r)
  PROVE  Effect(r)
<1> DEFINE u == req[r].acct
           pc == IF req[r].sticky # None THEN "sticky" ELSE "pick"
<1>1. /\ At(r, "acquire") /\ UNCHANGED <<degraded, waf, history>>
      /\ \/ /\ Acquire(u)
            /\ req' = [req EXCEPT ![r].held = u, ![r].pc = "ready"]
            /\ UNCHANGED bound
         \/ /\ req[r].sticky = u /\ Unbind /\ UNCHANGED poolVars
            /\ req' = [req EXCEPT ![r].round = @ + 1, ![r].acct = None,
                                  ![r].sticky = None, ![r].pc = "pick"]
         \/ NextRound(r) /\ UNCHANGED <<poolVars, bound>>
  BY DEF Lease
<1>2. /\ req[r].held = None /\ u \in Account /\ u \in req[r].tried \ failedOn[r]
      /\ req[r].round < MaxRotate /\ req[r].round + 1 \in 0 .. MaxRotate
  BY <1>1, Facts DEF LeaseFits, TriedFits, Leased, Placed, Locals, At
<1>3. GatesFit'
  BY <1>1, GatesKept, Facts DEF GatesFit, Unbind, history
<1>4. req \in [Request -> Locals] /\ req[r] \in Locals
  BY Facts DEF ChatTypeOK
<1>5. "ready" \in Pc /\ "pick" \in Pc
  BY DEF Pc
<1> HIDE DEF u
<1>6. CASE Acquire(u) /\ req' = [req EXCEPT ![r].held = u, ![r].pc = "ready"]
  <2> DEFINE x == [req[r] EXCEPT !.held = u, !.pc = "ready"]
  <2>1. x \in Locals
    BY <1>2, <1>4, <1>5 DEF Locals
  <2>2. req' = [req EXCEPT ![r] = x]
    BY <1>4, <1>6
  <2>3. /\ x.pc = "ready" /\ x.round = req[r].round /\ x.tried = req[r].tried
        /\ x.sticky = req[r].sticky /\ x.held = u /\ x.acct = u
    BY <1>4 DEF Locals, u
  <2> HIDE DEF x
  <2>4. Mine(r) /\ req'[r] = x
    BY <1>1, <2>1, <2>2, Quiet
  <2>5. LeaseFits(r)' /\ BlameFits(r)'
    BY <1>2, <2>3, <2>4 DEF LeaseFits, BlameFits, Leased, Placed, At
  <2>6. RoundFits(r)' /\ TriedFits(r)'
    BY <1>1, <1>2, <2>3, <2>4, Facts DEF RoundFits, TriedFits, history, Spent, At
  <2> QED
    BY <1>2, <1>3, <1>6, <2>3, <2>4, <2>5, <2>6 DEF Effect, PoolPart, Fits
<1>7. CASE /\ req[r].sticky = u /\ UNCHANGED poolVars
           /\ req' = [req EXCEPT ![r].round = @ + 1, ![r].acct = None,
                                 ![r].sticky = None, ![r].pc = "pick"]
  <2> DEFINE x == [req[r] EXCEPT !.round = @ + 1, !.acct = None, !.sticky = None, !.pc = "pick"]
  <2>1. x \in Locals
    BY <1>2, <1>4, <1>5 DEF Locals
  <2>2. req' = [req EXCEPT ![r] = x]
    BY <1>4, <1>7
  <2>3. /\ x.pc = "pick" /\ x.round = req[r].round + 1 /\ x.tried = req[r].tried
        /\ x.sticky = None /\ x.held = req[r].held
    BY <1>4 DEF Locals
  <2> HIDE DEF x
  <2>4. Mine(r) /\ req'[r] = x
    BY <1>1, <2>1, <2>2, Quiet
  <2>5. LeaseFits(r)' /\ BlameFits(r)'
    BY <1>2, <2>3, <2>4 DEF LeaseFits, BlameFits, Leased, Placed, At
  <2>6. RoundFits(r)' /\ TriedFits(r)'
    BY <1>1, <1>2, <2>3, <2>4, Facts DEF RoundFits, TriedFits, history, Spent, At
  <2> QED
    BY <1>2, <1>3, <1>7, <2>3, <2>4, <2>5, <2>6 DEF Effect, PoolPart, Fits
<1>8. CASE NextRound(r) /\ UNCHANGED poolVars
  BY <1>1, <1>2, <1>3, <1>8, NextRoundFits DEF Effect, PoolPart, At
<1> QED
  BY <1>1, <1>6, <1>7, <1>8

LEMMA RefreshEffect ==
  ASSUME ChatInv, NEW r \in Request, Refresh(r)
  PROVE  Effect(r)
<1> DEFINE u == req[r].acct
<1>1. /\ At(r, "ready") /\ UNCHANGED <<bound, degraded, waf, hitBy>>
      /\ \/ /\ sent' = [sent EXCEPT ![r] = @ + 1] /\ Goto(r, "sent")
            /\ UNCHANGED <<poolVars, failedOn, blamed>>
         \/ /\ Disable(u) \/ NoteError(u)
            /\ req' = [req EXCEPT ![r].pc = "fail", ![r].verdict = "refresh"]
            /\ failedOn' = [failedOn EXCEPT ![r] = @ \cup {u}]
            /\ blamed' = blamed \cup {u}
            /\ UNCHANGED sent
  BY DEF Refresh
<1>2. /\ req[r].held = u /\ u \in Account /\ u \notin failedOn[r] /\ req[r].round < MaxRotate
      /\ failedOn[r] \subseteq req[r].tried /\ req[r].sticky \notin failedOn[r]
      /\ sent[r] <= req[r].round /\ u \in req[r].tried 
  BY <1>1, Facts DEF LeaseFits, TriedFits, RoundFits, Leased, Placed, Spent, At
<1>3. GatesFit'
  BY <1>1, GatesKept, Facts DEF GatesFit
<1>4. /\ req \in [Request -> Locals] /\ req[r] \in Locals /\ sent \in [Request -> Nat]
      /\ failedOn \in [Request -> SUBSET Account] /\ blamed \subseteq Account
      /\ hitBy \subseteq Account /\ IsFiniteSet(hitBy)
  BY Facts DEF ChatTypeOK
<1> HIDE DEF u
<1>5. CASE /\ sent' = [sent EXCEPT ![r] = @ + 1] /\ Goto(r, "sent")
           /\ UNCHANGED <<poolVars, failedOn, blamed>>
  <2>1. "sent" \in Pc
    BY DEF Pc
  <2>2. PICK x \in Locals :
          /\ req' = [req EXCEPT ![r] = x] /\ x.pc = "sent"
          /\ x.round = req[r].round /\ x.tried = req[r].tried /\ x.sticky = req[r].sticky
          /\ x.acct = req[r].acct /\ x.held = req[r].held /\ x.verdict = req[r].verdict
    BY <1>5, <2>1, AfterGoto
  <2>3. Mine(r) /\ req'[r] = x /\ sent'[r] = sent[r] + 1
    BY <1>1, <1>4, <1>5, <2>2 DEF Mine
  <2>4. LeaseFits(r)' /\ BlameFits(r)'
    BY <1>2, <2>2, <2>3 DEF LeaseFits, BlameFits, Leased, Placed, At, u
  <2>5. RoundFits(r)' /\ TriedFits(r)'
    BY <1>2, <1>5, <2>2, <2>3, Facts DEF RoundFits, TriedFits, Spent, At, u
  <2> QED
    BY <1>3, <1>5, <2>2, <2>3, <2>4, <2>5 DEF Effect, PoolPart, Fits
<1>6. CASE /\ Disable(u) \/ NoteError(u)
           /\ req' = [req EXCEPT ![r].pc = "fail", ![r].verdict = "refresh"]
           /\ failedOn' = [failedOn EXCEPT ![r] = @ \cup {u}]
           /\ blamed' = blamed \cup {u}
           /\ UNCHANGED sent
  <2>1. PICK x \in Locals :
          /\ req' = [req EXCEPT ![r] = x] /\ x.pc = "fail" /\ x.verdict = "refresh"
          /\ x.round = req[r].round /\ x.tried = req[r].tried /\ x.sticky = req[r].sticky
          /\ x.acct = req[r].acct /\ x.held = req[r].held
    BY <1>4, <1>6, FailLocals
  <2>2. Mine(r) /\ req'[r] = x /\ failedOn'[r] = failedOn[r] \cup {u}
    <3>1. /\ req' \in [Request -> Locals] /\ req'[r] = x
          /\ \A q \in Request \ {r} : req'[q] = req[q]
      BY <1>4, <2>1
    <3>2. /\ failedOn' \in [Request -> SUBSET Account] /\ failedOn'[r] = failedOn[r] \cup {u}
          /\ \A q \in Request \ {r} : failedOn'[q] = failedOn[q]
      BY <1>2, <1>4, <1>6
    <3>3. blamed \subseteq blamed' /\ blamed' \subseteq Account
      BY <1>2, <1>4, <1>6
    <3> QED
      BY <1>1, <1>4, <1>6, <3>1, <3>2, <3>3 DEF Mine
  <2>3. LeaseFits(r)' /\ BlameFits(r)'
    BY <1>2, <2>1, <2>2 DEF LeaseFits, BlameFits, Leased, Placed, At, u
  <2>4. RoundFits(r)'
    BY <1>2, <1>6, <2>1, <2>2, Facts DEF RoundFits, Spent, At
  <2>5. TriedFits(r)'
    BY <1>2, <2>1, <2>2 DEF TriedFits, At, u
  <2>6. Failure(u) /\ UNCHANGED inFlight /\ u \in blamed'
    BY <1>6 DEF Failure, Disable, NoteError
  <2> QED
    BY <1>2, <1>3, <2>1, <2>2, <2>3, <2>4, <2>5, <2>6 DEF Effect, PoolPart, Fits
<1> QED
  BY <1>1, <1>5, <1>6

\* After any failed answer the lease is still held, and the account is on record.
LEMMA FailedFits ==
  ASSUME ChatInv, NEW r \in Request, At(r, "sent"),
         NEW verdict \in {"none", "streak", "waf"}, Failed(r, verdict),
         blamed' \in {blamed, blamed \cup {req[r].acct}},
         hitBy' \in {hitBy, hitBy \cup {req[r].acct}},
         verdict = "streak" => req[r].acct \in blamed',
         verdict = "waf" => req[r].acct \in hitBy'
  PROVE  /\ Mine(r) /\ Fits(r)' /\ req'[r].held = req[r].held /\ GatesFit'
         /\ req[r].acct \in Account
<1> DEFINE u == req[r].acct
<1>1. /\ req[r].held = u /\ u \in Account /\ req[r].round < MaxRotate
      /\ failedOn[r] \subseteq req[r].tried /\ req[r].sticky \notin failedOn[r]
      /\ sent[r] <= req[r].round + 1 /\ u \in req[r].tried 
  BY Facts DEF LeaseFits, TriedFits, RoundFits, Leased, Placed, Spent, At
<1>2. /\ req \in [Request -> Locals] /\ req[r] \in Locals /\ sent \in [Request -> Nat]
      /\ failedOn \in [Request -> SUBSET Account] /\ blamed \subseteq Account
      /\ hitBy \subseteq Account /\ IsFiniteSet(hitBy)
  BY Facts DEF ChatTypeOK
<1>3. IsFiniteSet(hitBy \cup {u}) /\ Cardinality(hitBy) <= Cardinality(hitBy')
      /\ hitBy \subseteq hitBy' /\ IsFiniteSet(hitBy')
  <2>1. IsFiniteSet(hitBy \cup {u})
    BY <1>2, FS_AddElement
  <2>2. IsFiniteSet(hitBy') /\ hitBy \subseteq hitBy'
    BY <1>2, <2>1
  <2> QED
    BY <2>1, <2>2, FS_Subset
<1>4. /\ req' = [req EXCEPT ![r].pc = "fail", ![r].verdict = verdict]
      /\ failedOn' = [failedOn EXCEPT ![r] = @ \cup {u}]
      /\ UNCHANGED <<bound, degraded, waf, sent>>
  BY DEF Failed
<1> HIDE DEF u
<1>5. PICK x \in Locals :
        /\ req' = [req EXCEPT ![r] = x] /\ x.pc = "fail" /\ x.verdict = verdict
        /\ x.round = req[r].round /\ x.tried = req[r].tried /\ x.sticky = req[r].sticky
        /\ x.acct = req[r].acct /\ x.held = req[r].held
  <2>1. verdict \in {"none", "streak", "waf", "refresh"}
    OBVIOUS
  <2> QED
    BY <1>4, <2>1, FailLocals
<1>6. Mine(r) /\ req'[r] = x /\ failedOn'[r] = failedOn[r] \cup {u}
  <2>1. blamed \subseteq blamed' /\ blamed' \subseteq Account /\ hitBy' \subseteq Account
    BY <1>1, <1>2 DEF u
  <2>2. /\ req' \in [Request -> Locals] /\ req'[r] = x
        /\ \A q \in Request \ {r} : req'[q] = req[q]
    BY <1>2, <1>5
  <2>3. /\ failedOn' \in [Request -> SUBSET Account] /\ failedOn'[r] = failedOn[r] \cup {u}
        /\ \A q \in Request \ {r} : failedOn'[q] = failedOn[q]
    BY <1>1, <1>2, <1>4
  <2> QED
    BY <1>2, <1>3, <1>4, <2>1, <2>2, <2>3 DEF Mine
<1>7. LeaseFits(r)' /\ BlameFits(r)'
  BY <1>1, <1>5, <1>6 DEF LeaseFits, BlameFits, Leased, Placed, At, u
<1>8. RoundFits(r)' /\ TriedFits(r)'
  BY <1>1, <1>4, <1>5, <1>6, Facts DEF RoundFits, TriedFits, Spent, At, u
<1>9. GatesFit'
  <2>1. Cardinality(hitBy) \in Nat /\ Cardinality(hitBy') \in Nat
    BY <1>2, <1>3, FS_CardinalityType
  <2> QED
    BY <1>3, <1>4, <2>1, Facts DEF GatesFit
<1> QED
  BY <1>1, <1>5, <1>6, <1>7, <1>8, <1>9 DEF Fits, u

LEMMA PunishedEffect ==
  ASSUME ChatInv, NEW r \in Request, Punished(r)
  PROVE  Effect(r)
<1> DEFINE u == req[r].acct
<1>1. At(r, "sent") /\ Failed(r, "none") /\ UNCHANGED hitBy
  BY DEF Punished
<1>2. PICK f \in Failures : Policy(u, f) /\ Blame(r, f)
  BY DEF Punished
<1>3. f.own
  BY <1>2, OthersAreOwn DEF Policy
<1>4. blamed' = blamed \cup {u}
  BY <1>2, <1>3 DEF Blame
<1>5. /\ Mine(r) /\ Fits(r)' /\ req'[r].held = req[r].held /\ GatesFit'
      /\ u \in Account
  BY <1>1, <1>4, FailedFits
<1>6. TheModel \in Model
  BY ChatAssumption DEF TheModel
<1> HIDE DEF u
<1>7. Failure(u)
  BY <1>2, <1>6 DEF Policy, Failure
<1>8. UNCHANGED inFlight
  BY <1>2 DEF Policy, CooldownUntilTomorrow4AM, CooldownSoftForModel, Cooldown, CoolTo,
              Disable, NoteError
<1> QED
  BY <1>4, <1>5, <1>7, <1>8 DEF Effect, PoolPart

LEMMA WafBlockedEffect ==
  ASSUME ChatInv, NEW r \in Request, WafBlocked(r)
  PROVE  Effect(r)
<1> DEFINE u == req[r].acct
<1>1. /\ At(r, "sent") /\ Failed(r, "waf") /\ hitBy' = hitBy \cup {u}
      /\ \E d \in SoftBase : Cooldown(u, d)
  BY DEF WafBlocked
<1>2. PICK f \in FailuresOf({"waf_block"}) : Blame(r, f)
  BY DEF WafBlocked
<1>3. f.own
  BY OthersAreOwn DEF FailuresOf
<1>4. blamed' = blamed \cup {u}
  BY <1>2, <1>3 DEF Blame
<1>5. /\ Mine(r) /\ Fits(r)' /\ req'[r].held = req[r].held /\ GatesFit'
      /\ u \in Account
  BY <1>1, <1>4, FailedFits
<1> HIDE DEF u
<1>6. Failure(u) /\ UNCHANGED inFlight
  BY <1>1 DEF Failure, Cooldown, CoolTo
<1> QED
  BY <1>4, <1>5, <1>6 DEF Effect, PoolPart

LEMMA StreakEffect ==
  ASSUME ChatInv, NEW r \in Request, Streak(r)
  PROVE  Effect(r)
<1> DEFINE u == req[r].acct
<1>1. At(r, "sent") /\ Failed(r, "streak") /\ UNCHANGED <<poolVars, hitBy>>
  BY DEF Streak
<1>2. blamed' = blamed \cup {u}
  <2>1. ASSUME NEW f \in FailuresOf({"client"}), Blame(r, f) PROVE blamed' = blamed \cup {u}
    <3>1. f.own
      BY OthersAreOwn DEF FailuresOf
    <3> QED
      BY <2>1, <3>1 DEF Blame
  <2> QED
    BY <2>1 DEF Streak
<1>3. Mine(r) /\ Fits(r)' /\ req'[r].held = req[r].held /\ GatesFit'
  BY <1>1, <1>2, FailedFits
<1> QED
  BY <1>1, <1>3 DEF Effect, PoolPart

LEMMA ContentFaultEffect ==
  ASSUME ChatInv, NEW r \in Request, ContentFault(r)
  PROVE  Effect(r)
<1>1. /\ At(r, "sent") /\ Failed(r, "none") /\ UNCHANGED <<poolVars, hitBy>>
      /\ blamed' \in {blamed, blamed \cup {req[r].acct}}
  BY DEF ContentFault, Blame
<1>2. Mine(r) /\ Fits(r)' /\ req'[r].held = req[r].held /\ GatesFit'
  BY <1>1, FailedFits
<1> QED
  BY <1>1, <1>2 DEF Effect, PoolPart

LEMMA DegradeRetryEffect ==
  ASSUME ChatInv, NEW r \in Request, DegradeRetry(r)
  PROVE  Effect(r)
<1> DEFINE u == req[r].acct
           pc == IF req[r].sticky # None THEN "sticky" ELSE "pick"
           x == [req[r] EXCEPT !.plain = FALSE, !.tried = @ \ {u}, !.held = None,
                               !.acct = None, !.round = @ + 1, !.pc = pc]
<1>1. /\ At(r, "sent") /\ degraded' = TRUE /\ Release(req[r].held)
      /\ UNCHANGED <<bound, waf, history>>
      /\ req' = [req EXCEPT ![r].plain = FALSE, ![r].tried = @ \ {u}, ![r].held = None,
                            ![r].acct = None, ![r].round = @ + 1, ![r].pc = pc]
  BY DEF DegradeRetry
<1>2. /\ req[r].held = u /\ u \in Account /\ u \notin failedOn[r]
      /\ failedOn[r] \subseteq req[r].tried /\ req[r].sticky \notin failedOn[r]
      /\ sent[r] <= req[r].round + 1 /\ req[r].round + 1 \in 0 .. MaxRotate
  BY <1>1, Facts DEF LeaseFits, TriedFits, RoundFits, Leased, Placed, Spent, At
<1>3. /\ req \in [Request -> Locals] /\ req[r] \in Locals /\ FALSE \in BOOLEAN
      /\ req[r].tried \ {u} \in SUBSET Account
  BY Facts DEF ChatTypeOK, Locals
<1>4. pc \in Pc
  BY DEF Pc
<1> HIDE DEF u, pc
<1>5. x \in Locals
  BY <1>2, <1>3, <1>4 DEF Locals
<1>6. req' = [req EXCEPT ![r] = x]
  BY <1>1, <1>3
<1>7. /\ x.pc = pc /\ x.round = req[r].round + 1 /\ x.tried = req[r].tried \ {u}
      /\ x.sticky = req[r].sticky /\ x.held = None
  BY <1>3 DEF Locals
<1> HIDE DEF x
<1>8. Mine(r) /\ req'[r] = x
  BY <1>1, <1>5, <1>6, Quiet
<1>9. LeaseFits(r)' /\ BlameFits(r)'
  BY <1>7, <1>8 DEF pc, LeaseFits, BlameFits, Leased, Placed, At
<1>10. RoundFits(r)' /\ TriedFits(r)'
  <2>1. /\ sent'[r] = sent[r] /\ failedOn'[r] = failedOn[r] /\ req'[r].pc \in {"sticky", "pick"}
        /\ sent[r] \in Nat /\ req[r].round \in Nat
    BY <1>1, <1>7, <1>8, Facts DEF history, pc
  <2>2. failedOn[r] \subseteq req[r].tried \ {u}
    BY <1>2
  <2> QED
    BY <1>2, <1>7, <1>8, <2>1, <2>2 DEF RoundFits, TriedFits, Spent, At
<1>11. GatesFit'
  BY <1>1, Facts DEF GatesFit, history
<1> QED
  BY <1>1, <1>2, <1>7, <1>8, <1>9, <1>10, <1>11 DEF Effect, PoolPart, Fits

LEMMA SucceededEffect ==
  ASSUME ChatInv, NEW r \in Request, Succeeded(r)
  PROVE  Effect(r)
<1>1. /\ At(r, "sent") /\ NoteSuccess(req[r].acct) /\ Goto(r, "bind")
      /\ UNCHANGED <<bound, degraded, waf, history>>
  BY DEF Succeeded
<1>2. req[r].acct \in Account /\ req[r].round < MaxRotate /\ "bind" \in Pc
  BY <1>1, Facts DEF LeaseFits, Placed, Leased, At, Pc
<1>3. Mine(r) /\ Fits(r)' /\ req'[r].held = req[r].held
  BY <1>1, <1>2, GotoFits DEF At
<1>4. GatesFit'
  BY <1>1, GatesKept, Facts DEF GatesFit, history
<1>5. UNCHANGED inFlight
  BY <1>1 DEF NoteSuccess
<1> QED
  BY <1>1, <1>2, <1>3, <1>4, <1>5 DEF Effect, PoolPart

LEMMA BindSessionEffect ==
  ASSUME ChatInv, NEW r \in Request, BindSession(r)
  PROVE  Effect(r)
<1>1. /\ At(r, "bind") /\ bound' = req[r].acct /\ Goto(r, "stream")
      /\ UNCHANGED <<poolVars, degraded, waf, history>>
  BY DEF BindSession
<1>2. req[r].acct \in Account /\ "stream" \in Pc
  BY <1>1, Facts DEF LeaseFits, Placed, Leased, At, Pc
<1>3. Mine(r) /\ Fits(r)' /\ req'[r].held = req[r].held
  BY <1>1, <1>2, GotoFits DEF At
<1>4. GatesFit'
  BY <1>1, <1>2, GatesKept, Facts DEF history
<1> QED
  BY <1>1, <1>3, <1>4 DEF Effect, PoolPart

LEMMA FinishEffect ==
  ASSUME ChatInv, NEW r \in Request, Finish(r)
  PROVE  Effect(r)
<1>1. /\ At(r, "stream") /\ Release(req[r].held) /\ Done(r)
      /\ UNCHANGED <<bound, degraded, waf, history>>
  BY DEF Finish
<1>2. req[r].held \in Account
  BY <1>1, Facts DEF LeaseFits, Placed, Leased, At
<1>3. Mine(r) /\ Fits(r)' /\ req'[r].held = None
  BY <1>1, DoneFits
<1>4. GatesFit'
  BY <1>1, GatesKept, Facts DEF GatesFit, history
<1> QED
  BY <1>1, <1>2, <1>3, <1>4 DEF Effect, PoolPart

LEMMA FailEffect ==
  ASSUME ChatInv, NEW r \in Request, Fail(r)
  PROVE  Effect(r)
<1> DEFINE u == req[r].acct
           stuck == req[r].sticky = u
           y == IF stuck THEN None ELSE req[r].sticky
           x == [req[r] EXCEPT !.held = None, !.pc = "after", !.sticky = y]
<1>1. /\ At(r, "fail") /\ Release(req[r].held) /\ UNCHANGED <<degraded, waf, history>>
      /\ req' = [req EXCEPT ![r].held = None, ![r].pc = "after", ![r].sticky = y]
      /\ bound' \in {bound, None}
  BY DEF Fail, Unbind
<1>2. /\ req[r].held = u /\ u \in Account /\ failedOn[r] \subseteq req[r].tried
      /\ req[r].sticky \in failedOn[r] => stuck
  BY <1>1, Facts DEF LeaseFits, TriedFits, Leased, Placed, At
<1>3. /\ req \in [Request -> Locals] /\ req[r] \in Locals /\ y \in Account \cup {None}
      /\ failedOn[r] \subseteq Account
  BY Facts DEF ChatTypeOK, Locals
<1>4. "after" \in Pc
  BY DEF Pc
<1>5. y \notin failedOn[r]
  BY <1>2, <1>3, Facts
<1> HIDE DEF u, y
<1>6. x \in Locals
  BY <1>3, <1>4 DEF Locals
<1>7. req' = [req EXCEPT ![r] = x]
  BY <1>1, <1>3
<1>8. /\ x.pc = "after" /\ x.round = req[r].round /\ x.tried = req[r].tried
      /\ x.sticky = y /\ x.held = None /\ x.acct = req[r].acct /\ x.verdict = req[r].verdict
  BY <1>3 DEF Locals
<1> HIDE DEF x
<1>9. Mine(r) /\ req'[r] = x
  BY <1>1, <1>6, <1>7, Quiet
<1>10. LeaseFits(r)' /\ BlameFits(r)'
  BY <1>1, <1>8, <1>9, Facts DEF LeaseFits, BlameFits, history, Leased, Placed, At
<1>11. RoundFits(r)' /\ TriedFits(r)'
  BY <1>1, <1>2, <1>5, <1>8, <1>9, Facts DEF RoundFits, TriedFits, history, Spent, At
<1>12. GatesFit'
  BY <1>1, Facts DEF GatesFit, history
<1> QED
  BY <1>1, <1>2, <1>8, <1>9, <1>10, <1>11, <1>12 DEF Effect, PoolPart, Fits

LEMMA NoteStreakEffect ==
  ASSUME ChatInv, NEW r \in Request, NoteStreak(r)
  PROVE  Effect(r)
<1>1. /\ At(r, "after") /\ req[r].verdict = "streak" /\ NoteFailures(req[r].acct)
      /\ Goto(r, "rotate") /\ UNCHANGED <<bound, degraded, waf, history>>
  BY DEF NoteStreak
<1>2. req[r].acct \in Account /\ req[r].acct \in blamed /\ "rotate" \in Pc
  BY <1>1, Facts DEF LeaseFits, BlameFits, Placed, Leased, At, Pc
<1>3. Mine(r) /\ Fits(r)' /\ req'[r].held = req[r].held
  BY <1>1, <1>2, GotoFits DEF At
<1>4. GatesFit'
  BY <1>1, GatesKept, Facts DEF GatesFit, history
<1>5. Failure(req[r].acct) /\ UNCHANGED inFlight /\ req[r].acct \in blamed'
  BY <1>1, <1>2 DEF Failure, NoteFailures, history
<1> QED
  BY <1>2, <1>3, <1>4, <1>5 DEF Effect, PoolPart

LEMMA NoteWafEffect ==
  ASSUME ChatInv, NEW r \in Request, NoteWaf(r)
  PROVE  Effect(r)
<1> DEFINE hits == waf.hits \cup {req[r].acct}
<1>1. /\ At(r, "after") /\ req[r].verdict = "waf" /\ UNCHANGED <<poolVars, bound, degraded, history>>
      /\ \/ waf.closed /\ Done(r) /\ UNCHANGED waf
         \/ /\ Cardinality(hits) >= WafThreshold /\ Done(r)
            /\ waf' = [hits |-> {}, closed |-> TRUE]
         \/ ~waf.closed /\ Goto(r, "rotate") /\ waf' = [waf EXCEPT !.hits = hits]
  BY DEF NoteWaf
<1>2. req[r].held = None /\ req[r].acct \in Account /\ "rotate" \in Pc /\ hits \subseteq hitBy
  BY <1>1, Facts DEF LeaseFits, BlameFits, GatesFit, Placed, Leased, At, Pc
<1>3. Mine(r) /\ Fits(r)' /\ req'[r].held = req[r].held
  <2>1. CASE Done(r)
    BY <1>1, <1>2, <2>1, DoneFits
  <2>2. CASE Goto(r, "rotate")
    BY <1>1, <1>2, <2>2, GotoFits DEF At
  <2> QED
    BY <1>1, <2>1, <2>2
<1>4. GatesFit'
  <2>1. Cardinality(hits) <= Cardinality(hitBy) /\ Cardinality(hits) \in Nat /\ Cardinality(hitBy) \in Nat
    BY <1>2, Facts, FS_Subset, FS_CardinalityType
  <2>2. /\ bound' = bound /\ degraded' = degraded /\ hitBy' = hitBy /\ hits \in SUBSET Account
        /\ bound \in Account \cup {None} /\ degraded \in BOOLEAN /\ WafThreshold \in Nat
        /\ waf \in [hits : SUBSET Account, closed : BOOLEAN] /\ waf.hits \subseteq hitBy
        /\ waf.closed => Cardinality(hitBy) >= WafThreshold
    BY <1>1, <1>2, Facts DEF GatesFit, history
  <2> HIDE DEF hits
  <2>3. CASE UNCHANGED waf
    BY <2>2, <2>3 DEF GatesFit
  <2>4. CASE Cardinality(hits) >= WafThreshold /\ waf' = [hits |-> {}, closed |-> TRUE]
    BY <2>1, <2>2, <2>4 DEF GatesFit
  <2>5. CASE ~waf.closed /\ waf' = [waf EXCEPT !.hits = hits]
    BY <1>2, <2>2, <2>5 DEF GatesFit
  <2> QED
    BY <1>1, <2>3, <2>4, <2>5
<1> QED
  BY <1>1, <1>3, <1>4 DEF Effect, PoolPart

LEMMA RotateEffect ==
  ASSUME ChatInv, NEW r \in Request, Rotate(r)
  PROVE  Effect(r)
<1>1. /\ At(r, "rotate") \/ At(r, "after")
      /\ NextRound(r) \/ Done(r)
      /\ UNCHANGED <<poolVars, bound, degraded, waf, history>>
  BY DEF Rotate
<1>2. req[r].held = None
  BY <1>1, Facts DEF LeaseFits, Leased, At
<1>3. Mine(r) /\ Fits(r)' /\ req'[r].held = None
  BY <1>1, <1>2, DoneFits, NextRoundFits DEF At
<1>4. GatesFit'
  BY <1>1, GatesKept, Facts DEF GatesFit, history
<1> QED
  BY <1>1, <1>2, <1>3, <1>4 DEF Effect, PoolPart

LEMMA StepEffect ==
  ASSUME ChatInv, NEW r \in Request, ChatStep(r)
  PROVE  Effect(r)
BY StartEffect, GiveUpEffect, PickStickyEffect, PickFreshEffect, LeaseEffect, RefreshEffect,
   PunishedEffect, WafBlockedEffect, StreakEffect, ContentFaultEffect, DegradeRetryEffect,
   SucceededEffect, BindSessionEffect, FinishEffect, FailEffect, NoteStreakEffect,
   NoteWafEffect, RotateEffect
   DEF ChatStep, Answer

-----------------------------------------------------------------------------
(* The invariant is kept.                                                   *)

LEMMA EffectIsPoolStep ==
  ASSUME NEW r, PoolPart(r)
  PROVE  [PoolNext]_poolVars
  BY DEF PoolPart, PoolNext, Selection, Recovery

LEMMA TypesKept ==
  ASSUME ChatInv, NEW r \in Request, Effect(r)
  PROVE  ChatTypeOK'
  BY DEF Effect, Mine, GatesFit, ChatTypeOK

LEMMA FitsKept ==
  ASSUME ChatInv, NEW r \in Request, Effect(r)
  PROVE  \A q \in Request : Fits(q)'
<1> SUFFICES ASSUME NEW q \in Request, q # r PROVE Fits(q)'
  BY DEF Effect
<1>1. /\ Fits(q) /\ req'[q] = req[q] /\ failedOn'[q] = failedOn[q] /\ sent'[q] = sent[q]
      /\ blamed \subseteq blamed' /\ hitBy \subseteq hitBy'
  BY DEF ChatInv, Effect, Mine
<1>2. LeaseFits(q)' /\ RoundFits(q)' /\ TriedFits(q)'
  BY <1>1 DEF Fits, LeaseFits, RoundFits, TriedFits, At
<1>3. BlameFits(q)'
  BY <1>1 DEF Fits, BlameFits
<1> QED
  BY <1>2, <1>3 DEF Fits

\* A lease is counted when it is taken and no longer when it is given back.
LEMMA LeasesKept ==
  ASSUME ChatInv, NEW r \in Request, Effect(r)
  PROVE  LeasesMatch'
<1> DEFINE HeldBy(u) == {q \in Request : req[q].held = u}
           Left(u)   == {q \in Request \ {r} : req[q].held = u}
<1>1. /\ \A q \in Request \ {r} : req'[q] = req[q]
      /\ inFlight \in [Account -> Nat] /\ None \notin Account /\ IsFiniteSet(Request)
      /\ \A u \in Account : inFlight[u] = Cardinality(HeldBy(u))
  BY ChatAssumption DEF Effect, Mine, ChatInv, LeasesMatch, PoolInv, PoolTypeOK
<1>2. ASSUME NEW u \in Account
      PROVE  /\ IsFiniteSet(Left(u)) /\ r \notin Left(u) /\ Cardinality(Left(u)) \in Nat
             /\ Cardinality(Left(u) \cup {r}) = Cardinality(Left(u)) + 1
  <2>1. IsFiniteSet(Left(u))
    BY <1>1, FS_Subset
  <2> QED
    BY <2>1, FS_AddElement, FS_CardinalityType
<1>3. ASSUME NEW u \in Account
      PROVE  /\ HeldBy(u) = IF req[r].held = u THEN Left(u) \cup {r} ELSE Left(u)
             /\ HeldBy(u)' = IF req'[r].held = u THEN Left(u) \cup {r} ELSE Left(u)
  BY <1>1
<1>4. ASSUME NEW u \in Account
      PROVE  inFlight[u] = Cardinality(Left(u)) + IF req[r].held = u THEN 1 ELSE 0
  <2>1. /\ inFlight[u] = Cardinality(HeldBy(u))
        /\ HeldBy(u) = IF req[r].held = u THEN Left(u) \cup {r} ELSE Left(u)
        /\ Cardinality(Left(u)) \in Nat
        /\ Cardinality(Left(u) \cup {r}) = Cardinality(Left(u)) + 1
    BY <1>1, <1>2, <1>3, <1>4
  <2> HIDE DEF HeldBy, Left
  <2> QED
    BY <2>1
<1>5. ASSUME NEW u \in Account
      PROVE  inFlight'[u] = Cardinality(Left(u)) + IF req'[r].held = u THEN 1 ELSE 0
  <2>1. CASE UNCHANGED inFlight /\ req'[r].held = req[r].held
    BY <1>4, <2>1
  <2>2. ASSUME NEW v \in Account, Acquire(v), req[r].held = None, req'[r].held = v
        PROVE  inFlight'[u] = Cardinality(Left(u)) + IF req'[r].held = u THEN 1 ELSE 0
    BY <1>1, <1>2, <1>4, <2>2 DEF Acquire
  <2>3. ASSUME NEW v \in Account, Release(v), req[r].held = v, req'[r].held = None
        PROVE  inFlight'[u] = Cardinality(Left(u)) + IF req'[r].held = u THEN 1 ELSE 0
    <3>1. /\ inFlight' = [inFlight EXCEPT ![v] = @ - 1] /\ inFlight[u] \in Nat
          /\ inFlight[u] = Cardinality(Left(u)) + IF req[r].held = u THEN 1 ELSE 0
          /\ Cardinality(Left(u)) \in Nat
      BY <1>1, <1>2, <1>4, <2>3 DEF Release
    <3> HIDE DEF Left
    <3> QED
      BY <1>1, <2>3, <3>1
  <2> QED
    BY <2>1, <2>2, <2>3 DEF Effect, PoolPart, poolVars
<1>6. ASSUME NEW u \in Account
      PROVE  inFlight'[u] = Cardinality(HeldBy(u)')
  <2>1. /\ inFlight'[u] = Cardinality(Left(u)) + IF req'[r].held = u THEN 1 ELSE 0
        /\ HeldBy(u)' = IF req'[r].held = u THEN Left(u) \cup {r} ELSE Left(u)
        /\ Cardinality(Left(u)) \in Nat
        /\ Cardinality(Left(u) \cup {r}) = Cardinality(Left(u)) + 1
    BY <1>2, <1>3, <1>5, <1>6
  <2>2. CASE req'[r].held = u
    BY <2>1, <2>2
  <2>3. CASE req'[r].held # u
    <3>1. HeldBy(u)' = Left(u) /\ inFlight'[u] = Cardinality(Left(u)) + 0
      BY <2>1, <2>3
    <3> HIDE DEF HeldBy
    <3>2. inFlight'[u] = Cardinality(Left(u))
      BY <2>1, <3>1
    <3> QED
      BY <3>1, <3>2
  <2> QED
    BY <2>2, <2>3
<1> QED
  BY <1>6, TypesKept DEF LeasesMatch

\* The penalties of an account move only in a step that is held against it.
LEMMA CleanKept ==
  ASSUME ChatInv, NEW r \in Request, Effect(r), NEW u \in Account \ blamed'
  PROVE  Clean(u)'
<1>1. PoolTypeOK /\ blamed \subseteq blamed' /\ PoolPart(r)
  BY Facts DEF Effect, Mine
<1>2. Clean(u)
  BY <1>1 DEF ChatInv, BlameIsOwn, Clean
<1>3. CASE UNCHANGED <<cool, breaker, degrade, disabled>>
  BY <1>2, <1>3 DEF Clean
<1>4. ASSUME NEW v \in Account, Failure(v), v \in blamed'
      PROVE  Clean(u)'
  <2>1. CoolStep(v) /\ BreakerStep(v) /\ DegradeStep(v) /\ RestStep(v)
    BY <1>1, <1>4, StepShapes
  <2>2. /\ cool'[u] = cool[u] /\ breaker'[u] = breaker[u] /\ degrade'[u] = degrade[u]
        /\ disabled'[u] = disabled[u]
    BY <1>1, <1>4, <2>1
       DEF CoolStep, BreakerStep, DegradeStep, RestStep, PoolTypeOK
  <2> QED
    BY <1>2, <2>2 DEF Clean
<1>5. ASSUME NEW v \in Account, NoteSuccess(v)
      PROVE  Clean(u)'
  <2>1. EndStreak(NoCool) = NoCool
    BY PenaltyAssumption DEF EndStreak, NoCool, Soft, Hard
  <2>2. cool'[u] \in {cool[u], EndStreak(cool[u])}
    BY <1>1, <1>5 DEF NoteSuccess, PoolTypeOK
  <2>3. /\ breaker'[u] \in {breaker[u], NoBreaker} /\ degrade'[u] \in {degrade[u], NoDegrade}
        /\ disabled'[u] = disabled[u]
    BY <1>1, <1>5 DEF NoteSuccess, PoolTypeOK
  <2> QED
    BY <1>2, <2>1, <2>2, <2>3 DEF Clean
<1> QED
  BY <1>1, <1>3, <1>4, <1>5 DEF PoolPart, poolVars, Use, Acquire, Release, penalties

LEMMA ChatInitInv == ChatInit => ChatInv
<1> SUFFICES ASSUME ChatInit PROVE ChatInv
  OBVIOUS
<1>1. PoolInv
  BY PoolInitInv DEF ChatInit
<1>2. Initial \in Locals
  BY ChatAssumption DEF Initial, Locals, Pc
<1>3. ChatTypeOK
  BY <1>2, ChatAssumption DEF ChatInit, ChatTypeOK
<1>4. ASSUME NEW r \in Request PROVE Fits(r)
  <2>1. /\ req[r].pc = "start" /\ req[r].round = 0 /\ req[r].tried = {}
        /\ req[r].sticky = None /\ req[r].held = None
        /\ sent[r] = 0 /\ failedOn[r] = {}
    BY DEF ChatInit, Initial
  <2> QED
    BY <2>1 DEF Fits, LeaseFits, RoundFits, TriedFits, BlameFits, Leased, Placed, Spent, At
<1>5. LeasesMatch
  <2> SUFFICES ASSUME NEW u \in Account
               PROVE  inFlight[u] = Cardinality({r \in Request : req[r].held = u})
    BY <1>3 DEF LeasesMatch
  <2>1. {r \in Request : req[r].held = u} = {}
    BY ChatAssumption DEF ChatInit, Initial
  <2> QED
    BY <2>1, FS_EmptySet DEF ChatInit, PoolInit
<1>6. BlameIsOwn
  BY DEF ChatInit, PoolInit, BlameIsOwn
<1>7. waf.hits \subseteq hitBy /\ IsFiniteSet(hitBy)
  BY FS_EmptySet DEF ChatInit
<1> QED
  BY <1>1, <1>3, <1>4, <1>5, <1>6, <1>7 DEF ChatInv

LEMMA ChatStepInv == ChatInv /\ [ChatNext]_vars => ChatInv'
<1> SUFFICES ASSUME ChatInv, [ChatNext]_vars PROVE ChatInv'
  OBVIOUS
<1>1. CASE UNCHANGED vars
  <2>1. PoolInv'
    BY <1>1, PoolStepInv DEF ChatInv, vars
  <2>2. UNCHANGED <<req, bound, degraded, waf, failedOn, sent, blamed, hitBy>>
        /\ UNCHANGED <<inFlight, cool, breaker, degrade, disabled>>
    BY <1>1 DEF vars, chatVars, poolVars
  <2>3. ChatTypeOK' /\ LeasesMatch'
    BY <2>2 DEF ChatInv, ChatTypeOK, LeasesMatch
  <2>4. \A r \in Request : Fits(r)'
    BY <2>2 DEF ChatInv, Fits, LeaseFits, RoundFits, TriedFits, BlameFits, At
  <2>5. BlameIsOwn' /\ waf'.hits \subseteq hitBy' /\ IsFiniteSet(hitBy)'
    BY <2>2 DEF ChatInv, BlameIsOwn
  <2> QED
    BY <2>1, <2>3, <2>4, <2>5 DEF ChatInv
<1>2. ASSUME NEW r \in Request, ChatStep(r) PROVE ChatInv'
  <2>1. Effect(r)
    BY <1>2, StepEffect
  <2>2. PoolInv'
    BY <2>1, EffectIsPoolStep, PoolStepInv DEF ChatInv, Effect
  <2>3. ChatTypeOK' /\ LeasesMatch' /\ \A q \in Request : Fits(q)'
    BY <2>1, TypesKept, LeasesKept, FitsKept
  <2>4. BlameIsOwn'
    BY <2>1, CleanKept DEF Effect, GatesFit, BlameIsOwn, Clean
  <2>5. waf'.hits \subseteq hitBy' /\ IsFiniteSet(hitBy)'
    BY <2>1 DEF Effect, GatesFit, Mine
  <2> QED
    BY <2>2, <2>3, <2>4, <2>5 DEF ChatInv
<1> QED
  BY <1>1, <1>2 DEF ChatNext

LEMMA ChatInvariance == ChatSpec => []ChatInv
<1> QED
  BY ChatInitInv, ChatStepInv, PTL DEF ChatSpec

-----------------------------------------------------------------------------
\* Through every way round the loop of the handler (rotation, degraded retry,
\* cancelled back-off, early return) the leases counted are those held.
THEOREM LeasesAlwaysMatch == ChatSpec => []LeasesMatch
<1>1. ChatInv => LeasesMatch
  BY DEF ChatInv
<1> QED
  BY <1>1, ChatInvariance, PTL

\* Neither the bound account nor the rotation brings a request back to an account
\* that has failed it.
THEOREM NoRequestTriesTwice == ChatSpec => []NoSecondChance
<1>1. ChatInv => NoSecondChance
  BY DEF ChatInv, NoSecondChance, Fits, TriedFits, At
<1> QED
  BY <1>1, ChatInvariance, PTL

\* A request costs at most max_rotate upstream attempts.
THEOREM AttemptsAreBounded == ChatSpec => []AttemptsBounded
<1>1. ASSUME ChatInv PROVE AttemptsBounded
  <2> SUFFICES ASSUME NEW r \in Request PROVE sent[r] <= MaxRotate
    BY DEF AttemptsBounded
  <2> QED
    BY <1>1, Facts DEF RoundFits, LeaseFits, Placed, Leased, Spent, Locals
<1> QED
  BY <1>1, ChatInvariance, PTL

\* An account is benched for bad answers of its own alone, and the site closed for
\* blocks through several.
THEOREM BlameStaysOwn == ChatSpec => []BlameIsOwn
<1>1. ChatInv => BlameIsOwn
  BY DEF ChatInv
<1> QED
  BY <1>1, ChatInvariance, PTL

\* The handler drives the pool as its own specification allows, so all that is
\* shown of the pool holds under the handler.
THEOREM HandlerKeepsPool == ChatSpec => PoolSpec
<1>1. ChatInit => PoolInit
  BY DEF ChatInit
<1>2. ChatInv /\ [ChatNext]_vars => [PoolNext]_poolVars
  <2> SUFFICES ASSUME ChatInv, [ChatNext]_vars PROVE [PoolNext]_poolVars
    OBVIOUS
  <2>1. CASE UNCHANGED vars
    BY <2>1 DEF vars
  <2>2. ASSUME NEW r \in Request, ChatStep(r) PROVE [PoolNext]_poolVars
    BY <2>2, StepEffect, EffectIsPoolStep DEF Effect
  <2> QED
    BY <2>1, <2>2 DEF ChatNext
<1> QED
  BY <1>1, <1>2, ChatInvariance, PTL DEF ChatSpec, PoolSpec

=============================================================================
