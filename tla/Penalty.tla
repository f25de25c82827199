------------------------------ MODULE Penalty ------------------------------
(***************************************************************************)
(* The arithmetic of one account's sentences, as internal/pool computes    *)
(* them: the instant cool-down with its exponential soft back-off, the     *)
(* circuit breaker and the losing-streak degrade.  No variables here: the  *)
(* modules that keep accounts (Pool, Chat) apply these operators.          *)
(* The mutants of a definition (a plausible bug each) stand before it.     *)
(*                                                                         *)
(* Times are naturals; 0 is Go's zero time.Time ("no deadline").           *)
(***************************************************************************)
EXTENDS Integers

CONSTANTS
  Model,              \* model names a chat request may ask for
  NoModel,            \* the empty model name
  SoftBase,           \* bases of a soft cool-down: soft_rate, and 60s for 404/WAF
  SoftRateMax,        \* cooldown.soft_rate_max
  StreakBound,        \* saturation of softStreak (see SoftStreak)
  BreakerThreshold,   \* pool.breaker_threshold
  BreakerCooldown,    \* pool.breaker_cooldown
  BreakerCooldownMax, \* pool.breaker_cooldown_max
  RetryBound,         \* saturation of retryCount (see BreakerFailure)
  DegradeThreshold,   \* pool.degrade_threshold
  DegradeCooldown,    \* pool.degrade_cooldown
  DegradeCooldownMax, \* pool.degrade_cooldown_max
  SessionDeadThreshold, \* pool.sessionDeadThreshold
  Day                 \* ticks from one 04:00 to the next

\* 1 << n for the shifts the code makes: softStreakShiftMax caps them at 16.
Pow2 == << 1, 2, 4, 8, 16, 32, 64, 128, 256, 512, 1024, 2048, 4096, 8192,
           16384, 32768, 65536 >>
Shl(d, n) == d * Pow2[n + 1]

AtMost(d, max) == IF d > max THEN max ELSE d

(***************************************************************************)
(* The two saturated counters are wide enough that saturation is never     *)
(* seen: at the bound the doubled duration has reached its cap.            *)
(***************************************************************************)
ASSUME PenaltyAssumption ==
  /\ NoModel \notin Model
  /\ SoftBase # {} /\ SoftBase \subseteq Nat \ {0}
  /\ SoftRateMax \in Nat \ {0}
  /\ StreakBound \in 2 .. 17
  /\ \A d \in SoftBase : Shl(d, StreakBound - 1) >= SoftRateMax
  /\ BreakerThreshold \in Nat \ {0}
  /\ BreakerCooldown \in Nat \ {0}
  /\ BreakerCooldownMax \in Nat \ {0}
  /\ RetryBound \in 1 .. 16
  /\ Shl(BreakerCooldown, RetryBound) >= BreakerCooldownMax
  /\ DegradeThreshold \in Nat \ {0}
  /\ DegradeCooldown \in Nat \ {0}
  /\ DegradeCooldownMax \in Nat \ {0}
  /\ SessionDeadThreshold \in Nat \ {0}
  /\ Day \in Nat \ {0}

(***************************************************************************)
(* The base of each sentence is within its cap.  The defaults are (600s    *)
(* within 2h, 30m within 6h); the configuration loader does not enforce    *)
(* it, and the first sentence of a series is not capped.                   *)
(***************************************************************************)
ASSUME BaseWithinCap ==
  /\ \A d \in SoftBase : d <= SoftRateMax
  /\ BreakerCooldown <= BreakerCooldownMax

-----------------------------------------------------------------------------
Hard == "hard_credit"
Soft == "soft_rate"

Cool    == [kind: {Hard, Soft}, until: Nat, streak: 0 .. StreakBound,
            model: Model \cup {NoModel}]
Breaker == [fails: 0 .. BreakerThreshold - 1, retry: 0 .. RetryBound, until: Nat]
Degrade == [fails: 0 .. DegradeThreshold - 1, until: Nat]

\* The zero values of a new entry; CoolHard is iota 0.
NoCool    == [kind |-> Hard, until |-> 0, streak |-> 0, model |-> NoModel]
NoBreaker == [fails |-> 0, retry |-> 0, until |-> 0]
NoDegrade == [fails |-> 0, until |-> 0]

\* A deadline that is set and still ahead of t.
Active(deadline, t) == deadline # 0 /\ t < deadline

-----------------------------------------------------------------------------
(***************************************************************************)
(* softStreak counts soft cool-downs without end; it is used only to shift *)
(* a base left, and once the shifted base is past SoftRateMax more of it   *)
(* changes nothing, so the model lets it saturate at StreakBound.          *)
(***************************************************************************)
SoftStreak(c) == AtMost(c.streak + 1, StreakBound)

SoftDurationUncapped(d, streak) == IF streak <= 1 THEN d ELSE Shl(d, streak - 1)

\* softDurationLocked: the first of a streak is the base, later ones double.
SoftDuration(d, streak) ==
  IF streak <= 1 THEN d ELSE AtMost(Shl(d, streak - 1), SoftRateMax)

SoftCoolKeepsModel(c, t, d) ==
  [kind |-> Soft, until |-> t + SoftDuration(d, SoftStreak(c)),
   streak |-> SoftStreak(c), model |-> c.model]

SoftCool(c, t, d) ==
  [kind |-> Soft, until |-> t + SoftDuration(d, SoftStreak(c)),
   streak |-> SoftStreak(c), model |-> NoModel]

\* A success ends the streak; the cool-down itself runs on.
EndStreak(c) ==
  [kind |-> c.kind, until |-> c.until, streak |-> 0, model |-> c.model]

\* A hard cool-down ends at the first 04:00 after t.
NextDay4AM(t) == t + (Day - (t % Day))
HardCool(c, t) ==
  [kind |-> Hard, until |-> NextDay4AM(t), streak |-> c.streak, model |-> NoModel]

\* A 6004 that names its reset time: no back-off, capped, and the model noted.
\* A reset already past leaves a cool-down of one millisecond, one tick here.
ResetDuration(t, resetAt) ==
  IF resetAt > t THEN AtMost(resetAt - t, SoftRateMax) ELSE 1
ModelCool(c, t, resetAt, m) ==
  [kind |-> Soft, until |-> t + ResetDuration(t, resetAt),
   streak |-> SoftStreak(c), model |-> m]

-----------------------------------------------------------------------------
\* The breaker's retry-th trip: the base doubled once per earlier trip, capped.
BreakerDuration(retry) ==
  IF retry = 0 THEN BreakerCooldown
               ELSE AtMost(Shl(BreakerCooldown, retry), BreakerCooldownMax)

\* recordBreakerFailureLocked.  retryCount saturates like softStreak.
BreakerFailure(b, t) ==
  IF b.fails + 1 < BreakerThreshold
  THEN [fails |-> b.fails + 1, retry |-> b.retry, until |-> b.until]
  ELSE [fails |-> 0, retry |-> AtMost(b.retry + 1, RetryBound),
        until |-> t + BreakerDuration(b.retry)]

DegradeExtends(g, t) ==
  IF g.fails + 1 < DegradeThreshold
  THEN [fails |-> g.fails + 1, until |-> g.until]
  ELSE [fails |-> 0, until |-> t + AtMost(DegradeCooldown, DegradeCooldownMax)]

\* NoteFailures: the threshold opens a degrade window, never extends one.
DegradeFailure(g, t) ==
  IF g.fails + 1 < DegradeThreshold
  THEN [fails |-> g.fails + 1, until |-> g.until]
  ELSE [fails |-> 0,
        until |-> IF Active(g.until, t) THEN g.until
                  ELSE t + AtMost(DegradeCooldown, DegradeCooldownMax)]
=============================================================================
