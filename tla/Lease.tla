------------------------------- MODULE Lease -------------------------------
(***************************************************************************)
(* Pool.Acquire and Pool.Release at the grain they run at.  Both look the  *)
(* entry up under the read lock, release the lock, and work on the entry's *)
(* atomic counter with a compare-and-swap loop; meanwhile the panel may    *)
(* change max_in_flight, remove the account, or log it in again, which     *)
(* makes a NEW entry with a counter of its own.                            *)
(*                                                                         *)
(* One uid: the counters of different uids do not meet.  entry numbers the *)
(* successive entry objects of that uid.                                   *)
(***************************************************************************)
EXTENDS Integers, FiniteSets

CONSTANTS
  Thread,      \* concurrent chat requests
  Limits,      \* values max_in_flight may be set to; 0 = unlimited
  MaxEntry,    \* bound: entry objects made for the uid
  MaxRequests  \* bound: leases a thread asks for

ASSUME LeaseAssumption ==
  /\ IsFiniteSet(Thread) /\ Limits \subseteq Nat /\ Limits # {}
  /\ MaxEntry \in Nat \ {0} /\ MaxRequests \in Nat

VARIABLES
  maxInFlight, \* pool.maxInFlight
  present,     \* the uid is in byUID ...
  current,     \* ... with this entry, or was last
  inFlight,    \* inFlight[e]: entry.inFlight
  pc,          \* where each request is
  entry,       \* the entry it looked up
  lim,         \* the limit it read with it
  cur,         \* the count it loaded
  leased,      \* the entry its lease was taken on; history, the code keeps the uid only
  requests     \* requests started, for MaxRequests

leaseVars == <<maxInFlight, present, current, inFlight, pc, entry, lim, cur, leased, requests>>
shared == <<maxInFlight, present, current>>

EntryId == 1 .. MaxEntry

\* Asking; holding; giving back.
Asking  == {"acquireAdd", "acquireLoad", "acquireCAS"}
Holding == {"held", "releaseLoad", "releaseCAS"}

LeaseTypeOK ==
  /\ maxInFlight \in Limits /\ present \in BOOLEAN /\ current \in EntryId
  /\ inFlight \in [EntryId -> Nat]
  /\ pc \in [Thread -> {"idle"} \cup Asking \cup Holding]
  /\ entry \in [Thread -> EntryId] /\ lim \in [Thread -> Nat]
  /\ cur \in [Thread -> Nat] /\ leased \in [Thread -> EntryId]
  /\ requests \in [Thread -> 0 .. MaxRequests]

LeaseInit ==
  /\ maxInFlight \in Limits /\ present = TRUE /\ current = 1
  /\ inFlight = [e \in EntryId |-> 0]
  /\ pc = [t \in Thread |-> "idle"]
  /\ entry = [t \in Thread |-> 1] /\ lim = [t \in Thread |-> 0]
  /\ cur = [t \in Thread |-> 0] /\ leased = [t \in Thread |-> 1]
  /\ requests = [t \in Thread |-> 0]

\* pc and the locals of Acquire and Release; these are gone once it returns.
Goto(t, label) == pc' = [pc EXCEPT ![t] = label]
ReturnTo(t, label) ==
  /\ Goto(t, label)
  /\ entry' = [entry EXCEPT ![t] = 1]
  /\ lim' = [lim EXCEPT ![t] = 0]
  /\ cur' = [cur EXCEPT ![t] = 0]
GiveBack(t) == leased' = [leased EXCEPT ![t] = 1]

-----------------------------------------------------------------------------
(* Acquire *)

AcquireLookup(t) ==
  /\ pc[t] = "idle" /\ requests[t] < MaxRequests
  /\ present                  \* else Acquire is false: as good as not asked
  /\ entry' = [entry EXCEPT ![t] = current]
  /\ lim' = [lim EXCEPT ![t] = maxInFlight]
  /\ requests' = [requests EXCEPT ![t] = @ + 1]
  /\ Goto(t, IF maxInFlight = 0 THEN "acquireAdd" ELSE "acquireLoad")
  /\ UNCHANGED <<shared, inFlight, cur, leased>>

Take(t) ==
  /\ inFlight' = [inFlight EXCEPT ![entry[t]] = @ + 1]
  /\ leased' = [leased EXCEPT ![t] = entry[t]]
  /\ ReturnTo(t, "held")

\* Unlimited: the count is kept and nobody is refused.
AcquireAdd(t) ==
  /\ pc[t] = "acquireAdd" /\ Take(t)
  /\ UNCHANGED <<shared, requests>>

AcquireLoad(t) ==
  /\ pc[t] = "acquireLoad"
  /\ IF inFlight[entry[t]] >= lim[t]
     THEN ReturnTo(t, "idle")
     ELSE /\ cur' = [cur EXCEPT ![t] = inFlight[entry[t]]]
          /\ Goto(t, "acquireCAS") /\ UNCHANGED <<entry, lim>>
  /\ UNCHANGED <<shared, inFlight, leased, requests>>

AcquireAddUnchecked(t) ==
  /\ pc[t] = "acquireCAS" /\ Take(t)
  /\ UNCHANGED <<shared, requests>>

AcquireCAS(t) ==
  /\ pc[t] = "acquireCAS"
  /\ IF inFlight[entry[t]] = cur[t]
     THEN Take(t)
     ELSE Goto(t, "acquireLoad") /\ UNCHANGED <<inFlight, leased, entry, lim, cur>>
  /\ UNCHANGED <<shared, requests>>

-----------------------------------------------------------------------------
(* Release: by uid, so of whatever entry the uid has by then *)

ReleaseLookup(t) ==
  /\ pc[t] = "held"
  /\ IF present
     THEN /\ Goto(t, "releaseLoad") /\ entry' = [entry EXCEPT ![t] = current]
          /\ UNCHANGED <<lim, cur, leased>>
     ELSE ReturnTo(t, "idle") /\ GiveBack(t)
  /\ UNCHANGED <<shared, inFlight, requests>>

\* The count never goes below 0.
ReleaseLoad(t) ==
  /\ pc[t] = "releaseLoad"
  /\ IF inFlight[entry[t]] <= 0
     THEN ReturnTo(t, "idle") /\ GiveBack(t)
     ELSE /\ cur' = [cur EXCEPT ![t] = inFlight[entry[t]]]
          /\ Goto(t, "releaseCAS") /\ UNCHANGED <<entry, lim, leased>>
  /\ UNCHANGED <<shared, inFlight, requests>>

ReleaseGivesUp(t) ==
  /\ pc[t] = "releaseCAS"
  /\ inFlight' = IF inFlight[entry[t]] = cur[t]
                 THEN [inFlight EXCEPT ![entry[t]] = @ - 1] ELSE inFlight
  /\ ReturnTo(t, "idle") /\ GiveBack(t)
  /\ UNCHANGED <<shared, requests>>
ReleaseRetriesStale(t) ==
  /\ pc[t] = "releaseCAS" /\ inFlight[entry[t]] = cur[t]
  /\ inFlight' = [inFlight EXCEPT ![entry[t]] = @ - 1]
  /\ ReturnTo(t, "idle") /\ GiveBack(t)
  /\ UNCHANGED <<shared, requests>>

ReleaseCAS(t) ==
  /\ pc[t] = "releaseCAS"
  /\ IF inFlight[entry[t]] = cur[t]
     THEN /\ inFlight' = [inFlight EXCEPT ![entry[t]] = @ - 1]
          /\ ReturnTo(t, "idle") /\ GiveBack(t)
     ELSE Goto(t, "releaseLoad") /\ UNCHANGED <<inFlight, leased, entry, lim, cur>>
  /\ UNCHANGED <<shared, requests>>

-----------------------------------------------------------------------------
(* The panel *)

threadVars == <<inFlight, pc, entry, lim, cur, leased, requests>>

SetMaxInFlight ==
  /\ maxInFlight' \in Limits
  /\ UNCHANGED <<present, current, threadVars>>

RemoveEntry ==
  /\ present /\ present' = FALSE
  /\ UNCHANGED <<maxInFlight, current, threadVars>>

\* Add of a uid the pool does not hold: a new entry.
Add ==
  /\ ~present /\ current < MaxEntry
  /\ present' = TRUE /\ current' = current + 1
  /\ UNCHANGED <<maxInFlight, threadVars>>

-----------------------------------------------------------------------------
Proceed(t) == \/ AcquireAdd(t) \/ AcquireLoad(t) \/ AcquireCAS(t)
              \/ ReleaseLookup(t) \/ ReleaseLoad(t) \/ ReleaseCAS(t)

LeaseNext == \/ SetMaxInFlight \/ RemoveEntry \/ Add
             \/ \E t \in Thread : AcquireLookup(t) \/ Proceed(t)

\* A request that has started runs on: Go schedules every runnable goroutine, and
\* the chat handler releases its lease on every way out (defer).
LeaseSpec == /\ LeaseInit /\ [][LeaseNext]_leaseVars
             /\ \A t \in Thread : WF_leaseVars(Proceed(t))

-----------------------------------------------------------------------------
(* Properties *)

\* The account has not been removed yet.
StableNow == current = 1 /\ present

Holders(e) == {t \in Thread : pc[t] \in Holding /\ leased[t] = e}

\* As long as the account has not been removed, its count is the number of
\* requests holding a lease on it, at every instant of every interleaving of the
\* CAS loops: no lease is lost and none is counted twice.
CountIsExact == StableNow => inFlight[1] = Cardinality(Holders(1))

\* Every request gets through: its lease is refused or granted, and given back.
\* Each asks a bounded number of times: the CAS loops are lock-free, not wait-free.
EveryLeaseReturns == <>[](\A t \in Thread : pc[t] = "idle")

\* The counter implements the leases it counts.
AskedNow  == [t \in Thread |-> IF pc[t] \in Asking THEN lim[t] ELSE -1]
HeldNow   == {t \in Thread : pc[t] \in Holding}
Counter == INSTANCE LeaseCounter WITH
  limit <- maxInFlight, asked <- AskedNow, held <- HeldNow, stable <- StableNow
ImplementsCounter == Counter!Spec
=============================================================================
