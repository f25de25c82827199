-------------------------------- MODULE Pool --------------------------------
(***************************************************************************)
(* The account pool of internal/pool: the penalties of every account, the  *)
(* operations that set and lift them, the in-flight leases and the choice  *)
(* of an account for a request.  Every operation runs under Pool.mu and is *)
(* one step here; Acquire and Release, which work outside the lock, are    *)
(* atomic here and refined by module Lease.                                *)
(*                                                                         *)
(* Left out as data the choice does not depend on: credits and success     *)
(* counts (they only weigh the random draw, which is a free choice here),  *)
(* reasons, token usage, names.                                            *)
(***************************************************************************)
EXTENDS Penalty, FiniteSets

CONSTANTS
  Account,      \* uids
  Site,         \* upstream sites: cn and the international one
  AnySite,      \* the empty site of a query: no restriction
  MaxInFlight,  \* pool.max_in_flight; 0 = unlimited
  MinPickGap,   \* minPickGap, in ticks
  ShortList,    \* accounts that survive the cut by weight: 5
  MaxTime,      \* bound: the clock stops here
  MaxLease      \* bound: leases counted per account when MaxInFlight = 0

ASSUME PoolAssumption ==
  /\ AnySite \notin Site
  /\ MaxInFlight \in Nat /\ MinPickGap \in Nat
  /\ ShortList \in Nat \ {0} /\ MaxTime \in Nat \ {0} /\ MaxLease \in Nat

VARIABLES
  now,          \* time.Now()
  byUID,        \* the uids the pool holds
  site,         \* site[u]: entry.a.Site
  disabled, sessionDead, \* entry.disabled, entry.sessionDeadFails
  cool,         \* entry.coolKind, until, softStreak, softRateModel
  breaker,      \* entry.fails, retryCount, breakerUntil
  degrade,      \* entry.consecutiveFails, degradeUntil
  lastUsed,     \* entry.lastUsed
  inFlight      \* entry.inFlight

penalties == <<disabled, sessionDead, cool, breaker, degrade>>
poolVars  == <<now, byUID, site, disabled, sessionDead, cool, breaker, degrade,
               lastUsed, inFlight>>

Time == 1 .. MaxTime

PoolTypeOK ==
  /\ now \in Time
  /\ byUID \subseteq Account
  /\ site \in [Account -> Site]
  /\ disabled \in [Account -> BOOLEAN]
  /\ sessionDead \in [Account -> 0 .. SessionDeadThreshold - 1]
  /\ cool \in [Account -> Cool]
  /\ breaker \in [Account -> Breaker]
  /\ degrade \in [Account -> Degrade]
  /\ lastUsed \in [Account -> 0 .. MaxTime]
  /\ inFlight \in [Account -> Nat]

PoolInit ==
  /\ now = 1
  /\ byUID \in SUBSET Account
  /\ site \in [Account -> Site]
  /\ disabled = [u \in Account |-> FALSE]
  /\ sessionDead = [u \in Account |-> 0]
  /\ cool = [u \in Account |-> NoCool]
  /\ breaker = [u \in Account |-> NoBreaker]
  /\ degrade = [u \in Account |-> NoDegrade]
  /\ lastUsed = [u \in Account |-> 0]
  /\ inFlight = [u \in Account |-> 0]

-----------------------------------------------------------------------------
(* Health *)

Healthy(u) ==
  /\ ~disabled[u]
  /\ ~Active(cool[u].until, now)
  /\ ~Active(breaker[u].until, now)
  /\ ~Active(degrade[u].until, now)

\* A 6004 benches its own model only.  An empty request model is never exempt.
HealthyForModel(u, m) ==
  \/ Healthy(u)
  \/ /\ m # NoModel /\ cool[u].model \notin {NoModel, m}
     /\ cool[u].kind = Soft
     /\ ~disabled[u] /\ breaker[u].until = 0
     /\ ~Active(degrade[u].until, now)

ExemptThroughBreaker(u) ==
  cool[u].kind = Soft /\ cool[u].model # NoModel /\ ~disabled[u]

ModelExempt(u) ==
  /\ cool[u].kind = Soft /\ cool[u].model # NoModel
  /\ ~disabled[u] /\ breaker[u].until = 0

InFlightFull(u) == MaxInFlight > 0 /\ inFlight[u] >= MaxInFlight

AtSite(u, s) == s = AnySite \/ site[u] = s

\* AvailableUIDsForSiteModel: what the session router may bind to.
Available(m, s) ==
  {u \in byUID : AtSite(u, s) /\ HealthyForModel(u, m) /\ ~InFlightFull(u)}

\* The probe behind /healthz.
ServableNow(s) ==
  \E u \in byUID : /\ AtSite(u, s) /\ ~InFlightFull(u)
                   /\ \/ Healthy(u)
                      \/ ModelExempt(u) /\ now >= degrade[u].until

-----------------------------------------------------------------------------
(* Choosing an account *)

Candidates(tried, m, s) == Available(m, s) \ tried

\* Of the shortlisted, those not used within MinPickGap; if all were, the
\* least recently used.  The draw among them is free.
Drawn(short) ==
  LET rested == {u \in short : lastUsed[u] = 0 \/ now - lastUsed[u] >= MinPickGap}
  IN  IF rested # {} THEN rested
      ELSE {u \in short : \A v \in short : lastUsed[u] <= lastUsed[v]}

\* The cut to ShortList by weight: any subset of that size may be the heaviest.
ShortLists(cands) ==
  IF Cardinality(cands) <= ShortList THEN {cands}
  ELSE {S \in SUBSET cands : Cardinality(S) = ShortList}

\* expiry: the deadlines still ahead; the least of them counts.
Deadlines(u) ==
  {d \in {cool[u].until, breaker[u].until, degrade[u].until} : Active(d, now)}
Expiry(u) == CHOOSE d \in Deadlines(u) : \A x \in Deadlines(u) : d <= x

StandInsDegraded(tried, s) ==
  {u \in byUID \ tried :
     /\ ~disabled[u] /\ AtSite(u, s)
     /\ ~(cool[u].kind = Hard /\ Active(cool[u].until, now))
     /\ ~InFlightFull(u) /\ Deadlines(u) # {}}

\* Who may stand in when nobody is healthy.
StandIns(tried, s) ==
  {u \in byUID \ tried :
     /\ ~disabled[u] /\ AtSite(u, s)
     /\ ~(cool[u].kind = Hard /\ Active(cool[u].until, now))
     /\ ~Active(degrade[u].until, now)
     /\ ~InFlightFull(u)
     /\ Deadlines(u) # {}}
EarliestExpiry(tried, s) ==
  {u \in StandIns(tried, s) : \A v \in StandIns(tried, s) : Expiry(u) <= Expiry(v)}

\* The accounts pick may return; empty when it returns nil.
Pickable(tried, m, s) ==
  LET cands == Candidates(tried, m, s)
  IN  IF cands = {} THEN EarliestExpiry(tried, s)
      ELSE UNION {Drawn(short) : short \in ShortLists(cands)}

-----------------------------------------------------------------------------
(* Operations; each is a no-op when the pool does not hold u *)

CoolTo(u, c) ==
  /\ u \in byUID
  /\ cool' = [cool EXCEPT ![u] = c]
  /\ breaker' = [breaker EXCEPT ![u] = BreakerFailure(@, now)]
  /\ UNCHANGED <<now, byUID, site, disabled, sessionDead, degrade, lastUsed, inFlight>>

Cooldown(u, d) == CoolTo(u, SoftCool(cool[u], now, d))
CooldownUntilTomorrow4AM(u) == CoolTo(u, HardCool(cool[u], now))
CooldownSoftForModel(u, resetAt, m) == CoolTo(u, ModelCool(cool[u], now, resetAt, m))

NoteError(u) ==
  /\ u \in byUID
  /\ breaker' = [breaker EXCEPT ![u] = BreakerFailure(@, now)]
  /\ UNCHANGED <<now, byUID, site, disabled, sessionDead, cool, degrade, lastUsed, inFlight>>

NoteFailures(u) ==
  /\ u \in byUID
  /\ degrade' = [degrade EXCEPT ![u] = DegradeFailure(@, now)]
  /\ UNCHANGED <<now, byUID, site, disabled, sessionDead, cool, breaker, lastUsed, inFlight>>

\* A success lifts breaker, degrade and every count; the cool-down runs on.
NoteSuccess(u) ==
  /\ u \in byUID
  /\ cool' = [cool EXCEPT ![u] = EndStreak(@)]
  /\ breaker' = [breaker EXCEPT ![u] = NoBreaker]
  /\ degrade' = [degrade EXCEPT ![u] = NoDegrade]
  /\ sessionDead' = [sessionDead EXCEPT ![u] = 0]
  /\ UNCHANGED <<now, byUID, site, disabled, lastUsed, inFlight>>

Disable(u) ==
  /\ u \in byUID
  /\ disabled' = [disabled EXCEPT ![u] = TRUE]
  /\ UNCHANGED <<now, byUID, site, sessionDead, cool, breaker, degrade, lastUsed, inFlight>>

\* Only the SessionDeadThreshold-th 12153 in a row disables.
NoteSessionDead(u) ==
  /\ u \in byUID
  /\ LET dead == sessionDead[u] + 1 = SessionDeadThreshold
     IN  /\ sessionDead' = [sessionDead EXCEPT ![u] = IF dead THEN 0 ELSE @ + 1]
         /\ disabled' = [disabled EXCEPT ![u] = @ \/ dead]
  /\ UNCHANGED <<now, byUID, site, cool, breaker, degrade, lastUsed, inFlight>>

ClearSessionDead(u) ==
  /\ u \in byUID
  /\ sessionDead' = [sessionDead EXCEPT ![u] = 0]
  /\ UNCHANGED <<now, byUID, site, disabled, cool, breaker, degrade, lastUsed, inFlight>>

\* The panel's "thaw" button and a fresh login: every penalty is lifted.
Revive(u) ==
  /\ u \in byUID
  /\ disabled' = [disabled EXCEPT ![u] = FALSE]
  /\ sessionDead' = [sessionDead EXCEPT ![u] = 0]
  /\ cool' = [cool EXCEPT ![u] = NoCool]
  /\ breaker' = [breaker EXCEPT ![u] = NoBreaker]
  /\ degrade' = [degrade EXCEPT ![u] = NoDegrade]
  /\ UNCHANGED <<now, byUID, site, lastUsed, inFlight>>

\* An account wrongly disabled comes back; cool-down and breaker stand.  Nothing in the program calls
\* it: the README leaves it to operators, who do so from code of their own.
ReviveDisabled(u) ==
  /\ u \in byUID
  /\ disabled' = [disabled EXCEPT ![u] = FALSE]
  /\ sessionDead' = [sessionDead EXCEPT ![u] = 0]
  /\ degrade' = [degrade EXCEPT ![u] = NoDegrade]
  /\ UNCHANGED <<now, byUID, site, cool, breaker, lastUsed, inFlight>>

\* Check-in or balance refresh found credits: the cool-down alone is lifted,
\* and only from an account that is not disabled.
ReenableIfCredits(u) ==
  /\ u \in byUID /\ ~disabled[u]
  /\ cool' = [cool EXCEPT ![u] = NoCool]
  /\ UNCHANGED <<now, byUID, site, disabled, sessionDead, breaker, degrade, lastUsed, inFlight>>

\* Add: a new account starts clean; a known one keeps its state, and a
\* credential of another site is refused.
UpsertSite(u, s) == IF u \in byUID THEN site[u] ELSE s
Upsert(u, s) ==
  /\ byUID' = byUID \cup {u}
  /\ site' = [site EXCEPT ![u] = UpsertSite(u, s)]
  /\ UNCHANGED <<now, penalties, lastUsed, inFlight>>

\* The entry goes with all its state; a later Add makes a new one.
Remove(u) ==
  /\ u \in byUID
  /\ byUID' = byUID \ {u}
  /\ disabled' = [disabled EXCEPT ![u] = FALSE]
  /\ sessionDead' = [sessionDead EXCEPT ![u] = 0]
  /\ cool' = [cool EXCEPT ![u] = NoCool]
  /\ breaker' = [breaker EXCEPT ![u] = NoBreaker]
  /\ degrade' = [degrade EXCEPT ![u] = NoDegrade]
  /\ lastUsed' = [lastUsed EXCEPT ![u] = 0]
  /\ inFlight' = [inFlight EXCEPT ![u] = 0]
  /\ UNCHANGED <<now, site>>

Use(u) ==
  /\ lastUsed' = [lastUsed EXCEPT ![u] = now]
  /\ UNCHANGED <<now, byUID, site, penalties, inFlight>>

\* pick, returning u.
Pick(u, tried, m, s) == u \in Pickable(tried, m, s) /\ Use(u)

\* PickByUIDForSiteModel, for the account a session is bound to.
PickByUID(u, m, s) == u \in Available(m, s) /\ Use(u)

\* Acquire(u) = true, and Release(u).
Acquire(u) ==
  /\ u \in byUID /\ ~InFlightFull(u)
  /\ MaxInFlight = 0 => inFlight[u] < MaxLease
  /\ inFlight' = [inFlight EXCEPT ![u] = @ + 1]
  /\ UNCHANGED <<now, byUID, site, penalties, lastUsed>>

Release(u) ==
  /\ u \in byUID /\ inFlight[u] > 0
  /\ inFlight' = [inFlight EXCEPT ![u] = @ - 1]
  /\ UNCHANGED <<now, byUID, site, penalties, lastUsed>>

Tick ==
  /\ now < MaxTime
  /\ now' = now + 1
  /\ UNCHANGED <<byUID, site, penalties, lastUsed, inFlight>>

-----------------------------------------------------------------------------
Failure(u) ==
  \/ \E d \in SoftBase : Cooldown(u, d)
  \/ CooldownUntilTomorrow4AM(u)
  \/ \E resetAt \in Time, m \in Model : CooldownSoftForModel(u, resetAt, m)
  \/ NoteError(u)
  \/ NoteFailures(u)
  \/ Disable(u)
  \/ NoteSessionDead(u)

Recovery(u) ==
  \/ NoteSuccess(u)
  \/ ClearSessionDead(u)
  \/ Revive(u)
  \/ ReviveDisabled(u)
  \/ ReenableIfCredits(u)

Membership(u) ==
  \/ \E s \in Site : Upsert(u, s)
  \/ Remove(u)

Selection(u) ==
  \/ \E tried \in SUBSET Account, m \in Model \cup {NoModel},
        s \in Site \cup {AnySite} : Pick(u, tried, m, s)
  \/ \E m \in Model, s \in Site : PickByUID(u, m, s)
  \/ Acquire(u)
  \/ Release(u)

PoolNext ==
  \/ Tick
  \/ \E u \in Account : Failure(u) \/ Recovery(u) \/ Membership(u) \/ Selection(u)

PoolSpec == PoolInit /\ [][PoolNext]_poolVars
-----------------------------------------------------------------------------
(* Properties *)

\* The breaker has a deadline exactly when it has tripped since the last
\* success: the two clear together (NoteSuccess, Revive) and never apart.
BreakerTripped == \A u \in Account : breaker[u].until = 0 <=> breaker[u].retry = 0

\* A model is noted only on a soft cool-down that has a deadline: the exemption
\* of healthyForModel can never excuse a hard one.
ModelMarkIsSoft ==
  \A u \in Account : cool[u].model # NoModel => cool[u].kind = Soft /\ cool[u].until # 0

\* No sentence outlasts its cap, whatever sequence of failures led to it: an
\* account that is not disabled is benched for a bounded time.
CoolCap == IF SoftRateMax > Day THEN SoftRateMax ELSE Day
SentencesBounded ==
  \A u \in Account :
    /\ cool[u].until <= now + CoolCap
    /\ breaker[u].until <= now + BreakerCooldownMax
    /\ degrade[u].until <= now + AtMost(DegradeCooldown, DegradeCooldownMax)

PenaltyInv == BreakerTripped /\ ModelMarkIsSoft /\ SentencesBounded

\* /healthz promises no more than a chat request gets: when ServableNow holds
\* for a site, a request of some model finds a candidate there, so the probe and
\* the choice agree on what the 6004 exemption excuses.
ServableSound ==
  \A s \in Site \cup {AnySite} :
    ServableNow(s) => \E m \in Model : Candidates({}, m, s) # {}

\* Neither the normal choice nor the all-cooling fallback hands out an account
\* that is disabled, serves a losing-streak degrade, waits for credits, is of
\* another site, has been tried by this request, or has no lease left.
PickRespectsBars ==
  \A tried \in SUBSET Account, m \in Model \cup {NoModel}, s \in Site \cup {AnySite} :
    \A u \in Pickable(tried, m, s) :
      /\ u \in byUID \ tried /\ AtSite(u, s)
      /\ ~disabled[u] /\ ~InFlightFull(u)
      /\ ~Active(degrade[u].until, now)
      /\ ~(cool[u].kind = Hard /\ Active(cool[u].until, now))

\* A 429 without a reset time, a 404, a WAF block or a 402 is the account's, not
\* the model's: right after it the account is benched for every model, also when
\* an earlier 6004 had noted one.
AccountLevelBenches ==
  [][\A u \in Account :
       CooldownUntilTomorrow4AM(u) \/ (\E d \in SoftBase : Cooldown(u, d))
         => \A m \in Model : ~HealthyForModel(u, m)']_poolVars

\* A running sentence is served as it stands: further failures never let an
\* account out of the breaker earlier and do not move the end of a degrade window;
\* only a success, an operator or a removal lifts them, and then whole.
NoSentenceCutShort ==
  [][\A u \in Account :
       /\ breaker'[u].until < breaker[u].until => breaker'[u] = NoBreaker
       /\ Active(degrade[u].until, now) => degrade'[u].until \in {degrade[u].until, 0}]_poolVars

=============================================================================
