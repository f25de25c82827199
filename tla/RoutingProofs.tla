---------------------------- MODULE RoutingProofs ----------------------------
(***************************************************************************)
(* Theorems about how a request gets to an account: the lease it takes on  *)
(* it (Lease) and the binding of its conversation (Session), for any       *)
(* finite set of requests, any limits, removals and logins, any keys,      *)
(* accounts, TTL and clock.                                                *)
(*                                                                         *)
(* LeaseInv is inductive.  Beside the count it says where the locals of a  *)
(* request stand: the limit it read fits the branch it took, the count it  *)
(* loaded admitted it, and no entry it knows is newer than the pool's.     *)
(*                                                                         *)
(* SessionInv is inductive.  CallFits holds whatever the others do.  Calm  *)
(* says of a time in which nothing but resolving has happened that no      *)
(* binding is ever changed again: it is of now, to an account that is      *)
(* available, and all who have returned with its key have it.              *)
(***************************************************************************)
EXTENDS Lease, Session, FiniteSetTheorems, TLAPS

(* The lease of a request. *)

LocalsFit ==
  \A t \in Thread :
    /\ pc[t] = "acquireAdd" => lim[t] = 0
    /\ pc[t] \in {"acquireLoad", "acquireCAS"} => lim[t] # 0
    /\ pc[t] = "acquireCAS" => cur[t] < lim[t]
    /\ pc[t] = "releaseCAS" => 0 < cur[t]
    /\ entry[t] <= current /\ leased[t] <= current

LeaseInv == LeaseTypeOK /\ LocalsFit /\ CountIsExact

-----------------------------------------------------------------------------
\* While the account has not been removed every lease is on its first entry.
LEMMA HoldersAreAll ==
  ASSUME LeaseTypeOK, LocalsFit, StableNow
  PROVE  /\ Holders(1) = HeldNow
         /\ \A t \in Thread : entry[t] = 1
<1>1. \A t \in Thread : entry[t] = 1 /\ leased[t] = 1
  BY DEF LeaseTypeOK, LocalsFit, StableNow, EntryId
<1> QED
  BY <1>1 DEF Holders, HeldNow

LEMMA HoldersFinite == \A e : IsFiniteSet(Holders(e))
  BY LeaseAssumption, FS_Subset DEF Holders

LEMMA LeaseInitInv == LeaseInit => LeaseInv
<1> SUFFICES ASSUME LeaseInit PROVE LeaseInv
  OBVIOUS
<1>1. 1 \in EntryId /\ 0 \in 0 .. MaxRequests
  BY LeaseAssumption DEF EntryId
<1>2. LeaseTypeOK
  BY <1>1, LeaseAssumption DEF LeaseInit, LeaseTypeOK
<1>3. LocalsFit
  BY DEF LeaseInit, LocalsFit, Asking, Holding
<1>4. Holders(1) = {}
  BY DEF LeaseInit, Holders, Holding
<1>5. CountIsExact
  BY <1>1, <1>4, FS_EmptySet DEF LeaseInit, CountIsExact
<1> QED
  BY <1>2, <1>3, <1>5 DEF LeaseInv

-----------------------------------------------------------------------------
(* The steps of a request, by what they do to its locals and to the count.  *)

Moves(t, label, e, l, c, g, n) ==
  /\ pc' = [pc EXCEPT ![t] = label] /\ entry' = [entry EXCEPT ![t] = e]
  /\ lim' = [lim EXCEPT ![t] = l] /\ cur' = [cur EXCEPT ![t] = c]
  /\ leased' = [leased EXCEPT ![t] = g]
  /\ inFlight' = [inFlight EXCEPT ![entry[t]] = n]
  /\ requests' \in [Thread -> 0 .. MaxRequests] /\ UNCHANGED shared
Count(t) == inFlight[entry[t]]

Looked(t) ==
  /\ pc[t] = "idle"
  /\ \E label \in {"acquireAdd", "acquireLoad"} :
       /\ label = "acquireAdd" <=> maxInFlight = 0
       /\ Moves(t, label, current, maxInFlight, cur[t], leased[t], Count(t))
Retried(t) ==
  /\ pc[t] \in {"acquireLoad", "acquireCAS"}
  /\ \E label \in {"acquireLoad", "acquireCAS"}, c \in Nat :
       /\ label = "acquireCAS" => c < lim[t]
       /\ Moves(t, label, entry[t], lim[t], c, leased[t], Count(t))
Refused(t) ==
  /\ pc[t] = "acquireLoad" /\ Count(t) >= lim[t]
  /\ Moves(t, "idle", 1, 0, 0, leased[t], Count(t))
Taken(t) ==
  /\ pc[t] \in {"acquireAdd", "acquireCAS"}
  /\ pc[t] = "acquireCAS" => Count(t) = cur[t]
  /\ Moves(t, "held", 1, 0, 0, entry[t], Count(t) + 1)
Kept(t) ==
  /\ pc[t] \in Holding
  /\ \E label \in Holding, e \in {entry[t], current}, c \in Nat :
       /\ label = "releaseCAS" => 0 < c
       /\ Moves(t, label, e, lim[t], c, leased[t], Count(t))
Returned(t) ==
  /\ pc[t] \in Holding
  /\ \/ /\ (pc[t] = "held" /\ ~present) \/ (pc[t] = "releaseLoad" /\ Count(t) <= 0)
        /\ Moves(t, "idle", 1, 0, 0, 1, Count(t))
     \/ /\ pc[t] = "releaseCAS" /\ Count(t) = cur[t]
        /\ Moves(t, "idle", 1, 0, 0, 1, Count(t) - 1)

LEMMA ThreadMoves ==
  ASSUME LeaseTypeOK, NEW t \in Thread, AcquireLookup(t) \/ Proceed(t)
  PROVE  Looked(t) \/ Retried(t) \/ Refused(t) \/ Taken(t) \/ Kept(t) \/ Returned(t)
<1>1. /\ inFlight = [inFlight EXCEPT ![entry[t]] = Count(t)]
      /\ entry = [entry EXCEPT ![t] = entry[t]]
      /\ lim = [lim EXCEPT ![t] = lim[t]]
      /\ cur = [cur EXCEPT ![t] = cur[t]]
      /\ leased = [leased EXCEPT ![t] = leased[t]]
      /\ requests \in [Thread -> 0 .. MaxRequests]
      /\ Count(t) \in Nat /\ cur[t] \in Nat /\ lim[t] \in Nat
  BY DEF LeaseTypeOK, Count
<1>2. CASE AcquireLookup(t)
  <2>1. requests' \in [Thread -> 0 .. MaxRequests]
    BY <1>2, LeaseAssumption DEF AcquireLookup, LeaseTypeOK
  <2>2. CASE maxInFlight = 0
    BY <1>1, <1>2, <2>1, <2>2 DEF AcquireLookup, Goto, Looked, Moves
  <2>3. CASE maxInFlight # 0
    BY <1>1, <1>2, <2>1, <2>3 DEF AcquireLookup, Goto, Looked, Moves
  <2> QED
    BY <2>2, <2>3
<1>3. CASE AcquireAdd(t)
  BY <1>1, <1>3 DEF AcquireAdd, Take, ReturnTo, Goto, Taken, Moves, Count
<1>4. CASE AcquireLoad(t)
  <2>1. CASE Count(t) >= lim[t]
    BY <1>1, <1>4, <2>1 DEF AcquireLoad, ReturnTo, Goto, Refused, Moves, Count
  <2>2. CASE ~(Count(t) >= lim[t])
    <3>1. Count(t) < lim[t]
      BY <1>1, <2>2
    <3>2. Moves(t, "acquireCAS", entry[t], lim[t], Count(t), leased[t], Count(t))
      BY <1>1, <1>4, <2>2 DEF AcquireLoad, Goto, Moves, Count
    <3> QED
      BY <1>1, <1>4, <3>1, <3>2 DEF AcquireLoad, Retried
  <2> QED
    BY <2>1, <2>2
<1>5. CASE AcquireCAS(t)
  <2>1. CASE Count(t) = cur[t]
    BY <1>1, <1>5, <2>1 DEF AcquireCAS, Take, ReturnTo, Goto, Taken, Moves, Count
  <2>2. CASE Count(t) # cur[t]
    <3>1. Moves(t, "acquireLoad", entry[t], lim[t], cur[t], leased[t], Count(t))
      BY <1>1, <1>5, <2>2 DEF AcquireCAS, Goto, Moves, Count
    <3> QED
      BY <1>1, <1>5, <3>1 DEF AcquireCAS, Retried
  <2> QED
    BY <2>1, <2>2
<1>6. CASE ReleaseLookup(t)
  <2>1. CASE present
    <3>1. Moves(t, "releaseLoad", current, lim[t], cur[t], leased[t], Count(t))
      BY <1>1, <1>6, <2>1 DEF ReleaseLookup, Goto, Moves
    <3>2. /\ pc[t] \in Holding /\ "releaseLoad" \in Holding
          /\ "releaseLoad" # "releaseCAS" /\ current \in {entry[t], current}
      BY <1>6 DEF ReleaseLookup, Holding
    <3> QED
      BY <1>1, <3>1, <3>2 DEF Kept
  <2>2. CASE ~present
    BY <1>1, <1>6, <2>2
       DEF ReleaseLookup, ReturnTo, GiveBack, Goto, Returned, Moves, Holding
  <2> QED
    BY <2>1, <2>2
<1>7. CASE ReleaseLoad(t)
  <2>1. CASE Count(t) <= 0
    BY <1>1, <1>7, <2>1
       DEF ReleaseLoad, ReturnTo, GiveBack, Goto, Returned, Moves, Holding, Count
  <2>2. CASE ~(Count(t) <= 0)
    <3>1. 0 < Count(t)
      BY <1>1, <2>2
    <3>2. Moves(t, "releaseCAS", entry[t], lim[t], Count(t), leased[t], Count(t))
      BY <1>1, <1>7, <2>2 DEF ReleaseLoad, Goto, Moves, Count
    <3> QED
      BY <1>1, <1>7, <3>1, <3>2 DEF ReleaseLoad, Kept, Holding
  <2> QED
    BY <2>1, <2>2
<1>8. CASE ReleaseCAS(t)
  <2>1. CASE Count(t) = cur[t]
    BY <1>1, <1>8, <2>1
       DEF ReleaseCAS, ReturnTo, GiveBack, Goto, Returned, Moves, Holding, Count
  <2>2. CASE Count(t) # cur[t]
    <3>1. Moves(t, "releaseLoad", entry[t], lim[t], cur[t], leased[t], Count(t))
      BY <1>1, <1>8, <2>2 DEF ReleaseCAS, Goto, Moves, Count
    <3> QED
      BY <1>1, <1>8, <3>1 DEF ReleaseCAS, Kept, Holding
  <2> QED
    BY <2>1, <2>2
<1> QED
  BY <1>2, <1>3, <1>4, <1>5, <1>6, <1>7, <1>8 DEF Proceed

-----------------------------------------------------------------------------
\* Only the panel changes the shared fields; nothing of a request moves then.
PanelMoves ==
  /\ maxInFlight' \in Limits /\ present' \in BOOLEAN /\ current' \in EntryId
  /\ current <= current' /\ (StableNow' => StableNow)
  /\ UNCHANGED <<inFlight, pc, entry, lim, cur, leased, requests>>

LEMMA PanelStep ==
  ASSUME LeaseTypeOK, SetMaxInFlight \/ RemoveEntry \/ Add \/ UNCHANGED leaseVars
  PROVE  PanelMoves
<1>1. current \in Nat /\ current \in EntryId /\ current > 0
  BY LeaseAssumption DEF LeaseTypeOK, EntryId
<1>2. CASE SetMaxInFlight
  BY <1>1, <1>2 DEF SetMaxInFlight, PanelMoves, LeaseTypeOK, threadVars, StableNow
<1>3. CASE RemoveEntry
  <2>1. present' = FALSE /\ ~StableNow'
    BY <1>3 DEF RemoveEntry, StableNow
  <2>2. /\ maxInFlight' = maxInFlight /\ current' = current
        /\ UNCHANGED <<inFlight, pc, entry, lim, cur, leased, requests>>
    BY <1>3 DEF RemoveEntry, threadVars
  <2>3. maxInFlight \in Limits /\ present' \in BOOLEAN
    BY <2>1 DEF LeaseTypeOK
  <2> QED
    BY <1>1, <2>1, <2>2, <2>3 DEF PanelMoves
<1>4. CASE Add
  BY <1>1, <1>4, LeaseAssumption
     DEF Add, PanelMoves, LeaseTypeOK, threadVars, StableNow, EntryId
<1>5. CASE UNCHANGED leaseVars
  BY <1>1, <1>5 DEF leaseVars, PanelMoves, LeaseTypeOK, StableNow
<1> QED
  BY <1>2, <1>3, <1>4, <1>5

\* A request's own step keeps the types and its locals fitting.
LEMMA MovesKeepLocals ==
  ASSUME LeaseTypeOK, LocalsFit, NEW t \in Thread,
         NEW label \in {"idle"} \cup Asking \cup Holding, NEW e \in EntryId, NEW l \in Nat,
         NEW c \in Nat, NEW g \in EntryId, NEW n \in Nat, Moves(t, label, e, l, c, g, n),
         label = "acquireAdd" => l = 0,
         label \in {"acquireLoad", "acquireCAS"} => l # 0,
         label = "acquireCAS" => c < l,
         label = "releaseCAS" => 0 < c,
         e <= current, g <= current
  PROVE  LeaseTypeOK' /\ LocalsFit'
<1>1. LeaseTypeOK'
  BY DEF LeaseTypeOK, Moves, shared
<1>2. LocalsFit'
  BY DEF LeaseTypeOK, LocalsFit, Moves, shared
<1> QED
  BY <1>1, <1>2

\* An expired or a granted request aside, the set of holders and the count move
\* together.
LEMMA ThreadStepInv ==
  ASSUME LeaseInv, NEW t \in Thread, AcquireLookup(t) \/ Proceed(t)
  PROVE  LeaseInv'
<1> DEFINE n == Count(t)
<1>0. /\ LeaseTypeOK /\ LocalsFit /\ CountIsExact
      /\ entry[t] \in EntryId /\ leased[t] \in EntryId /\ current \in EntryId /\ 1 \in EntryId
      /\ lim[t] \in Nat /\ cur[t] \in Nat /\ n \in Nat /\ maxInFlight \in Nat
      /\ entry[t] <= current /\ leased[t] <= current /\ 1 <= current /\ current <= current
      /\ pc[t] \in {"idle"} \cup Asking \cup Holding
  <2>1. LeaseTypeOK /\ LocalsFit /\ CountIsExact
    BY DEF LeaseInv
  <2>2. /\ entry[t] \in EntryId /\ leased[t] \in EntryId /\ current \in EntryId
        /\ lim[t] \in Nat /\ cur[t] \in Nat /\ n \in Nat /\ maxInFlight \in Nat
        /\ pc[t] \in {"idle"} \cup Asking \cup Holding
    BY <2>1, LeaseAssumption DEF LeaseTypeOK, Count
  <2>3. 1 \in EntryId /\ 1 <= current /\ current <= current
    BY <2>2, LeaseAssumption DEF EntryId
  <2> QED
    BY <2>1, <2>2, <2>3 DEF LocalsFit
<1> HIDE DEF n
<1>00. n + 1 \in Nat /\ n = Count(t)
  BY <1>0 DEF n
<1>1. CASE Looked(t)
  <2>1. PICK label \in {"acquireAdd", "acquireLoad"} :
          /\ label = "acquireAdd" <=> maxInFlight = 0
          /\ Moves(t, label, current, maxInFlight, cur[t], leased[t], n)
    BY <1>1, <1>00 DEF Looked
  <2>2. LeaseTypeOK' /\ LocalsFit'
    BY <1>0, <1>00, <2>1, MovesKeepLocals DEF Asking
  <2>3. Holders(1)' = Holders(1) /\ inFlight' = inFlight /\ StableNow' = StableNow
    BY <1>0, <1>00, <1>1, <2>1
       DEF Looked, Moves, Holders, Asking, Holding, LeaseTypeOK, Count, StableNow, shared
  <2> QED
    BY <1>0, <2>2, <2>3 DEF LeaseInv, CountIsExact
<1>2. CASE Retried(t)
  <2>1. PICK label \in {"acquireLoad", "acquireCAS"}, c \in Nat :
          /\ label = "acquireCAS" => c < lim[t]
          /\ Moves(t, label, entry[t], lim[t], c, leased[t], n)
    BY <1>2, <1>00 DEF Retried
  <2>2. lim[t] # 0
    BY <1>0, <1>2 DEF Retried, LocalsFit
  <2>3. LeaseTypeOK' /\ LocalsFit'
    BY <1>0, <2>1, <2>2, MovesKeepLocals DEF Asking
  <2>4. Holders(1)' = Holders(1) /\ inFlight' = inFlight /\ StableNow' = StableNow
    BY <1>0, <1>00, <1>2, <2>1
       DEF Retried, Moves, Holders, Asking, Holding, LeaseTypeOK, Count, StableNow, shared
  <2> QED
    BY <1>0, <2>3, <2>4 DEF LeaseInv, CountIsExact
<1>3. CASE Refused(t)
  <2>1. Moves(t, "idle", 1, 0, 0, leased[t], n)
    BY <1>3, <1>00 DEF Refused
  <2>2. LeaseTypeOK' /\ LocalsFit'
    <3>1. "idle" \in {"idle"} \cup Asking \cup Holding /\ 0 \in Nat
      OBVIOUS
    <3>2. "idle" \notin {"acquireAdd", "acquireLoad", "acquireCAS", "releaseCAS"}
      OBVIOUS
    <3> QED
      BY <1>0, <2>1, <3>1, <3>2, MovesKeepLocals
  <2>3. Holders(1)' = Holders(1) /\ inFlight' = inFlight /\ StableNow' = StableNow
    BY <1>0, <1>00, <1>3, <2>1
       DEF Refused, Moves, Holders, Holding, LeaseTypeOK, Count, StableNow, shared
  <2> QED
    BY <1>0, <2>2, <2>3 DEF LeaseInv, CountIsExact
<1>4. CASE Taken(t)
  <2>1. Moves(t, "held", 1, 0, 0, entry[t], n + 1)
    BY <1>4, <1>00 DEF Taken
  <2>2. LeaseTypeOK' /\ LocalsFit'
    <3>1. "held" \in {"idle"} \cup Asking \cup Holding /\ 0 \in Nat
      BY DEF Holding
    <3> QED
      BY <1>0, <1>00, <2>1, <3>1, MovesKeepLocals
  <2>3. ASSUME StableNow'
        PROVE  inFlight'[1] = Cardinality(Holders(1)')
    <3>1. StableNow /\ entry[t] = 1
      BY <1>0, <2>1, <2>3, HoldersAreAll DEF Moves, shared, StableNow
    <3>2. t \notin Holders(1) /\ Holders(1)' = Holders(1) \cup {t}
      BY <1>0, <1>4, <2>1, <3>1 DEF Taken, Moves, Holders, Holding, LeaseTypeOK
    <3>3. /\ Cardinality(Holders(1)') = Cardinality(Holders(1)) + 1
      BY <3>2, HoldersFinite, FS_AddElement
    <3>4. inFlight'[1] = inFlight[1] + 1
      BY <1>0, <1>00, <2>1, <3>1 DEF Moves, LeaseTypeOK, Count
    <3> QED
      BY <1>0, <3>1, <3>3, <3>4 DEF CountIsExact
  <2> QED
    BY <2>2, <2>3 DEF LeaseInv, CountIsExact
<1>5. CASE Kept(t)
  <2>1. PICK label \in Holding, e \in {entry[t], current}, c \in Nat :
          /\ label = "releaseCAS" => 0 < c
          /\ Moves(t, label, e, lim[t], c, leased[t], n)
    BY <1>5, <1>00 DEF Kept
  <2>2. LeaseTypeOK' /\ LocalsFit'
    BY <1>0, <1>00, <2>1, MovesKeepLocals DEF Holding
  <2>3. Holders(1)' = Holders(1) /\ inFlight' = inFlight /\ StableNow' = StableNow
    BY <1>0, <1>00, <1>5, <2>1
       DEF Kept, Moves, Holders, Holding, LeaseTypeOK, Count, StableNow, shared
  <2> QED
    BY <1>0, <2>2, <2>3 DEF LeaseInv, CountIsExact
<1>6. CASE Returned(t)
  <2>1. PICK k \in Nat :
          /\ Moves(t, "idle", 1, 0, 0, 1, k)
          /\ \/ k = n - 1 /\ n > 0
             \/ k = n /\ (n <= 0 \/ ~present)
    <3>1. CASE pc[t] = "releaseCAS"
      <4>1. n = cur[t] /\ 0 < cur[t] /\ Moves(t, "idle", 1, 0, 0, 1, n - 1)
        BY <1>0, <1>00, <1>6, <3>1 DEF Returned, LocalsFit
      <4>2. n - 1 \in Nat /\ n > 0
        BY <1>0, <4>1
      <4> QED
        BY <4>1, <4>2
    <3>2. CASE pc[t] # "releaseCAS"
      BY <1>0, <1>00, <1>6, <3>2 DEF Returned
    <3> QED
      BY <3>1, <3>2
  <2>2. LeaseTypeOK' /\ LocalsFit'
    <3>1. "idle" \in {"idle"} \cup Asking \cup Holding /\ 0 \in Nat
      OBVIOUS
    <3>2. Moves(t, "idle", 1, 0, 0, 1, k)
      BY <2>1
    <3> QED
      BY <1>0, <3>1, <3>2, MovesKeepLocals
  <2>3. ASSUME StableNow'
        PROVE  inFlight'[1] = Cardinality(Holders(1)')
    <3>1. StableNow /\ entry[t] = 1 /\ Holders(1) = HeldNow
      BY <1>0, <2>1, <2>3, HoldersAreAll DEF Moves, shared, StableNow
    <3>2. t \in Holders(1) /\ Holders(1)' = Holders(1) \ {t}
      <4>1. t \in Holders(1)
        BY <1>6, <3>1 DEF Returned, HeldNow
      <4> QED
        BY <1>0, <2>1, <4>1 DEF Moves, Holders, Holding, LeaseTypeOK
    <3>3. /\ Cardinality(Holders(1)') = Cardinality(Holders(1)) - 1
          /\ Cardinality(Holders(1)) \in Nat
      BY <3>2, HoldersFinite, FS_RemoveElement, FS_CardinalityType
    <3>4. n = Cardinality(Holders(1)) /\ n > 0
      <4>1. Holders(1) # {}
        BY <3>2
      <4>2. Cardinality(Holders(1)) # 0
        BY <4>1, HoldersFinite, FS_EmptySet
      <4> QED
        BY <1>0, <1>00, <3>1, <3>3, <4>2 DEF CountIsExact, Count
    <3>5. inFlight'[1] = n - 1
      BY <1>0, <2>1, <3>1, <3>4 DEF Moves, LeaseTypeOK, StableNow
    <3> QED
      BY <3>3, <3>4, <3>5
  <2> QED
    BY <2>2, <2>3 DEF LeaseInv, CountIsExact
<1> QED
  BY <1>0, <1>1, <1>2, <1>3, <1>4, <1>5, <1>6, ThreadMoves

LEMMA LeaseStepInv == LeaseInv /\ [LeaseNext]_leaseVars => LeaseInv'
<1> SUFFICES ASSUME LeaseInv, [LeaseNext]_leaseVars PROVE LeaseInv'
  OBVIOUS
<1>1. CASE PanelMoves
  <2>1. LeaseTypeOK'
    BY <1>1 DEF PanelMoves, LeaseInv, LeaseTypeOK
  <2>2. LocalsFit'
    <3>1. /\ current \in Nat /\ current' \in Nat /\ current <= current'
          /\ entry \in [Thread -> EntryId] /\ leased \in [Thread -> EntryId] /\ EntryId \subseteq Nat
      BY <1>1, LeaseAssumption DEF PanelMoves, LeaseInv, LeaseTypeOK, EntryId
    <3>2. UNCHANGED <<pc, lim, cur, entry, leased>>
      BY <1>1 DEF PanelMoves
    <3>3. ASSUME NEW t \in Thread PROVE entry'[t] <= current' /\ leased'[t] <= current'
      <4>1. entry[t] \in Nat /\ leased[t] \in Nat
        BY <3>1
      <4>2. entry[t] <= current /\ leased[t] <= current
        BY DEF LeaseInv, LocalsFit
      <4> QED
        BY <3>1, <3>2, <4>1, <4>2
    <3> QED
      BY <3>2, <3>3 DEF LeaseInv, LocalsFit
  <2>3. Holders(1)' = Holders(1)
    BY <1>1 DEF PanelMoves, Holders
  <2> QED
    BY <1>1, <2>1, <2>2, <2>3 DEF PanelMoves, LeaseInv, CountIsExact
<1>2. ASSUME NEW t \in Thread, AcquireLookup(t) \/ Proceed(t) PROVE LeaseInv'
  BY <1>2, ThreadStepInv
<1> QED
  BY <1>1, <1>2, PanelStep DEF LeaseNext, LeaseInv

LEMMA LeaseInvariance == LeaseSpec => []LeaseInv
  BY LeaseInitInv, LeaseStepInv, PTL DEF LeaseSpec
-----------------------------------------------------------------------------
\* As long as the account is in the pool, the atomic counter is the number of
\* requests that hold a lease on it.
THEOREM CountExact == LeaseSpec => []CountIsExact
<1>1. LeaseInv => CountIsExact
  BY DEF LeaseInv
<1> QED
  BY <1>1, LeaseInvariance, PTL

-----------------------------------------------------------------------------
(* Refinement: each step is a step of LeaseCounter or leaves it alone.      *)

\* The instance's Cardinality is the one of FiniteSets.
LEMMA SameCardinality == \A S : Counter!Cardinality(S) = Cardinality(S)
  BY DEF Counter!Cardinality, Cardinality

\* What a request's step does to the two mapped variables.
LEMMA MovesMapped ==
  ASSUME LeaseTypeOK, NEW t \in Thread, NEW label, NEW e, NEW l, NEW c, NEW g, NEW n,
         Moves(t, label, e, l, c, g, n)
  PROVE  /\ AskedNow' = [AskedNow EXCEPT ![t] = IF label \in Asking THEN l ELSE -1]
         /\ HeldNow' = IF label \in Holding THEN HeldNow \cup {t} ELSE HeldNow \ {t}
         /\ maxInFlight' = maxInFlight /\ StableNow' = StableNow
<1>1. /\ pc' = [pc EXCEPT ![t] = label] /\ lim' = [lim EXCEPT ![t] = l]
      /\ pc \in [Thread -> {"idle"} \cup Asking \cup Holding] /\ lim \in [Thread -> Nat]
      /\ UNCHANGED shared
  BY DEF Moves, LeaseTypeOK
<1>2. \A u \in Thread : pc'[u] = IF u = t THEN label ELSE pc[u]
  BY <1>1
<1>3. \A u \in Thread : lim'[u] = IF u = t THEN l ELSE lim[u]
  BY <1>1
<1>4. AskedNow' = [AskedNow EXCEPT ![t] = IF label \in Asking THEN l ELSE -1]
  <2>1. AskedNow' = [u \in Thread |-> IF pc'[u] \in Asking THEN lim'[u] ELSE -1]
    BY DEF AskedNow
  <2>2. \A u \in Thread :
          AskedNow'[u] = IF u = t THEN IF label \in Asking THEN l ELSE -1 ELSE AskedNow[u]
    BY <1>2, <1>3, <2>1 DEF AskedNow
  <2> QED
    BY <2>1, <2>2 DEF AskedNow
<1>5. HeldNow' = IF label \in Holding THEN HeldNow \cup {t} ELSE HeldNow \ {t}
  BY <1>2 DEF HeldNow
<1> QED
  BY <1>1, <1>4, <1>5 DEF shared, StableNow

LEMMA InitMapped == LeaseInit => Counter!Init
<1> SUFFICES ASSUME LeaseInit PROVE Counter!Init
  OBVIOUS
<1>1. \A t \in Thread : pc[t] = "idle"
  BY DEF LeaseInit
<1>2. AskedNow = [t \in Thread |-> -1] /\ HeldNow = {}
  BY <1>1 DEF AskedNow, HeldNow, Asking, Holding
<1>3. StableNow = TRUE
  BY DEF LeaseInit, StableNow
<1> QED
  BY <1>2, <1>3 DEF Counter!Init, Counter!NoAsk, LeaseInit

LEMMA ThreadMapped ==
  ASSUME LeaseInv, NEW t \in Thread, AcquireLookup(t) \/ Proceed(t)
  PROVE  [Counter!Next]_(Counter!counterVars)
<1> USE DEF Counter!NoAsk
<1>0. /\ LeaseTypeOK /\ LocalsFit
      /\ AskedNow[t] = IF pc[t] \in Asking THEN lim[t] ELSE -1
      /\ t \in HeldNow <=> pc[t] \in Holding
      /\ lim[t] \in Nat
  BY DEF LeaseInv, LeaseTypeOK, AskedNow, HeldNow
<1>1. StableNow => Count(t) = Counter!Cardinality(HeldNow)
  BY HoldersAreAll, SameCardinality DEF LeaseInv, CountIsExact, Count
<1>2. AskedNow = [AskedNow EXCEPT ![t] = AskedNow[t]]
  BY DEF AskedNow
<1>3. CASE Looked(t)
  <2>1. PICK label \in {"acquireAdd", "acquireLoad"} :
          Moves(t, label, current, maxInFlight, cur[t], leased[t], Count(t))
    BY <1>3 DEF Looked
  <2>2. label \in Asking /\ label \notin Holding
    BY DEF Asking, Holding
  <2>3. t \notin HeldNow /\ AskedNow[t] = -1
    BY <1>0, <1>3 DEF Looked, Asking, Holding
  <2>4. Counter!Ask(t)
    BY <1>0, <2>1, <2>2, <2>3, MovesMapped DEF Counter!Ask
  <2> QED
    BY <2>4 DEF Counter!Next
<1>4. CASE Retried(t)
  <2>1. PICK label \in {"acquireLoad", "acquireCAS"}, c \in Nat :
          Moves(t, label, entry[t], lim[t], c, leased[t], Count(t))
    BY <1>4 DEF Retried
  <2>2. /\ label \in Asking /\ label \notin Holding
        /\ pc[t] \in Asking /\ pc[t] \notin Holding
    BY <1>4 DEF Retried, Asking, Holding
  <2>3. AskedNow' = AskedNow /\ HeldNow' = HeldNow
        /\ maxInFlight' = maxInFlight /\ StableNow' = StableNow
    BY <1>0, <1>2, <2>1, <2>2, MovesMapped
  <2> QED
    BY <2>3 DEF Counter!counterVars
<1>5. CASE Refused(t)
  <2>1. /\ Moves(t, "idle", 1, 0, 0, leased[t], Count(t)) /\ Count(t) >= lim[t]
        /\ pc[t] \in Asking /\ pc[t] \notin Holding /\ lim[t] # 0
    BY <1>0, <1>5 DEF Refused, Asking, Holding, LocalsFit
  <2>2. "idle" \notin Asking /\ "idle" \notin Holding
    BY DEF Asking, Holding
  <2>3. Counter!Refuse(t)
    BY <1>0, <1>1, <2>1, <2>2, MovesMapped DEF Counter!Refuse
  <2> QED
    BY <2>3 DEF Counter!Next
<1>6. CASE Taken(t)
  <2>1. /\ Moves(t, "held", 1, 0, 0, entry[t], Count(t) + 1)
        /\ pc[t] \in Asking /\ pc[t] \notin Holding
        /\ lim[t] = 0 \/ Count(t) < lim[t]
    BY <1>0, <1>6 DEF Taken, Asking, Holding, LocalsFit
  <2>2. "held" \notin Asking /\ "held" \in Holding
    BY DEF Asking, Holding
  <2>3. Counter!Grant(t)
    BY <1>0, <1>1, <2>1, <2>2, MovesMapped DEF Counter!Grant
  <2> QED
    BY <2>3 DEF Counter!Next
<1>7. CASE Kept(t)
  <2>1. PICK label \in Holding, e \in {entry[t], current}, c \in Nat :
          Moves(t, label, e, lim[t], c, leased[t], Count(t))
    BY <1>7 DEF Kept
  <2>2. /\ label \in Holding /\ label \notin Asking
        /\ pc[t] \in Holding /\ pc[t] \notin Asking
    BY <1>7 DEF Kept, Asking, Holding
  <2>3. AskedNow' = AskedNow /\ HeldNow' = HeldNow
        /\ maxInFlight' = maxInFlight /\ StableNow' = StableNow
    BY <1>0, <1>2, <2>1, <2>2, MovesMapped
  <2> QED
    BY <2>3 DEF Counter!counterVars
<1>8. CASE Returned(t)
  <2>1. PICK k : Moves(t, "idle", 1, 0, 0, 1, k)
    BY <1>8 DEF Returned
  <2>2. /\ "idle" \notin Asking /\ "idle" \notin Holding
        /\ pc[t] \in Holding /\ pc[t] \notin Asking
    BY <1>8 DEF Returned, Asking, Holding
  <2>3. Counter!Drop(t)
    BY <1>0, <1>2, <2>1, <2>2, MovesMapped DEF Counter!Drop
  <2> QED
    BY <2>3 DEF Counter!Next
<1> QED
  BY <1>0, <1>3, <1>4, <1>5, <1>6, <1>7, <1>8, ThreadMoves

LEMMA PanelMapped ==
  ASSUME LeaseInv, SetMaxInFlight \/ RemoveEntry \/ Add \/ UNCHANGED leaseVars
  PROVE  [Counter!Next]_(Counter!counterVars)
<1>1. current \in Nat /\ current > 0
  BY LeaseAssumption DEF LeaseInv, LeaseTypeOK, EntryId
<1>2. AskedNow' = AskedNow /\ HeldNow' = HeldNow
  BY DEF SetMaxInFlight, RemoveEntry, Add, leaseVars, threadVars, AskedNow, HeldNow
<1>3. CASE SetMaxInFlight
  <2>1. StableNow' = StableNow /\ maxInFlight' \in Limits
    BY <1>3 DEF SetMaxInFlight, StableNow
  <2> QED
    BY <1>2, <2>1 DEF Counter!Next, Counter!SetLimit
<1>4. CASE RemoveEntry
  <2>1. maxInFlight' = maxInFlight /\ StableNow' = FALSE
    BY <1>4 DEF RemoveEntry, StableNow
  <2> QED
    BY <1>2, <2>1 DEF Counter!Next, Counter!Disturb, Counter!counterVars, StableNow
<1>5. CASE Add
  <2>1. maxInFlight' = maxInFlight /\ StableNow' = FALSE /\ StableNow = FALSE
    BY <1>1, <1>5 DEF Add, StableNow
  <2> QED
    BY <1>2, <2>1 DEF Counter!counterVars
<1>6. CASE UNCHANGED leaseVars
  <2>1. maxInFlight' = maxInFlight /\ StableNow' = StableNow
    BY <1>6 DEF leaseVars, StableNow
  <2> QED
    BY <1>2, <2>1 DEF Counter!counterVars
<1> QED
  BY <1>3, <1>4, <1>5, <1>6

\* The lock-free counter implements leases that are granted only below the limit
\* and refused only at it.
THEOREM LeaseImplementsCounter == LeaseSpec => ImplementsCounter
<1>1. LeaseInv /\ [LeaseNext]_leaseVars => [Counter!Next]_(Counter!counterVars)
  BY ThreadMapped, PanelMapped DEF LeaseNext
<1> QED
  BY <1>1, InitMapped, LeaseInvariance, PTL DEF LeaseSpec, ImplementsCounter, Counter!Spec

-----------------------------------------------------------------------------
(* The binding of a conversation. *)

UnderWay == {"lookup", "touch", "slow"}

CallFits(r) ==
  LET c == call[r]
  IN  /\ c.pc \in UnderWay => c.available \subseteq witnessed[r] /\ avail \subseteq witnessed[r]
      /\ c.pc = "touch" => c.uid \in witnessed[r]
      /\ c.pc = "done" => c.uid \in witnessed[r] \cup {NoUid}

\* The request has taken the account of its session, and goes on with it.
Took(r) == call[r].pc = "touch" \/ (call[r].pc = "done" /\ call[r].uid # NoUid)

CallCalm(r) ==
  LET c == call[r]
  IN  /\ c.pc \in UnderWay => c.at = 0 /\ c.available = avail
      /\ Took(r) => Bound(c.key) /\ entries[c.key].uid = c.uid

Spread ==
  \A j, k \in Key : Bound(j) /\ j # k /\ entries[j].uid = entries[k].uid
                      => avail \subseteq {entries[i].uid : i \in Key}

Calm ==
  calm =>
    /\ now = 0
    /\ \A k \in Key : Bound(k) => entries[k].lastActive = 0 /\ entries[k].uid \in avail
    /\ \A r \in Request : CallCalm(r)
    /\ Spread

SessionInv == SessionTypeOK /\ (\A r \in Request : CallFits(r)) /\ Calm


-----------------------------------------------------------------------------
(* What the types say, and the shape of a request's step.                    *)

LEMMA Facts ==
  ASSUME SessionInv
  PROVE  /\ SessionTypeOK /\ Calm /\ \A r \in Request : CallFits(r)
         /\ now \in Nat /\ 0 \in 0 .. MaxClock /\ now \in 0 .. MaxClock /\ TTL \in Nat
         /\ avail \subseteq Uid /\ NoUid \notin Uid
         /\ \A k \in Key : entries[k] \in Entry \cup {Unbound}
         /\ \A k \in Key : Bound(k) => entries[k] \in Entry
         /\ \A r \in Request : call[r] \in Call \cup Answer \cup {NoCall}
         /\ \A r \in Request : witnessed[r] \subseteq Uid
BY SessionAssumption DEF SessionInv, SessionTypeOK, Bound

LEMMA CallKinds ==
  ASSUME SessionInv, NEW r \in Request
  PROVE  /\ call[r].pc \in UnderWay => call[r] \in Call
         /\ call[r].pc \in UnderWay =>
              /\ call[r].key \in Key /\ call[r].at \in 0 .. MaxClock
              /\ call[r].available \in SUBSET Uid /\ call[r].uid \in Uid \cup {NoUid}
         /\ call[r].pc = "done" => call[r].key \in Key /\ call[r].uid \in Uid \cup {NoUid}
<1>1. call[r] \in Call \cup Answer \cup {NoCall}
  BY Facts
<1>2. CASE call[r] \in Call
  BY <1>2 DEF Call, UnderWay
<1>3. CASE call[r] \in Answer
  BY <1>3 DEF Answer, UnderWay
<1>4. CASE call[r] = NoCall
  <2>1. NoCall.pc = "idle"
    BY DEF NoCall
  <2> QED
    BY <1>4, <2>1 DEF UnderWay
<1> QED
  BY <1>1, <1>2, <1>3, <1>4

\* A step of one request that leaves the bindings alone.
LEMMA CallMoves ==
  ASSUME SessionInv, NEW r \in Request, NEW x \in Call \cup Answer,
         call' = [call EXCEPT ![r] = x],
         witnessed' \in [Request -> SUBSET Uid],
         \A q \in Request \ {r} : witnessed'[q] = witnessed[q],
         UNCHANGED <<now, avail, entries, mirrored, calm>>,
         CallFits(r)', calm => CallCalm(r)'
  PROVE  SessionInv'
<1>1. \A q \in Request \ {r} : call'[q] = call[q]
  BY Facts DEF SessionTypeOK
<1>2. SessionTypeOK'
  BY Facts DEF SessionTypeOK
<1>3. \A q \in Request : CallFits(q)'
  <2>1. \A q \in Request \ {r} : CallFits(q)'
    BY <1>1, Facts DEF CallFits
  <2> QED
    BY <2>1
<1>4. Calm'
  <2> SUFFICES ASSUME calm PROVE Calm'
    BY DEF Calm
  <2>1. now = 0 /\ (\A k \in Key : Bound(k) => entries[k].lastActive = 0 /\ entries[k].uid \in avail)
        /\ (\A q \in Request : CallCalm(q)) /\ Spread
    BY Facts DEF Calm
  <2>2. \A q \in Request \ {r} : CallCalm(q)'
    BY <1>1, <2>1 DEF CallCalm, Took, Bound
  <2>3. Spread'
    BY <2>1 DEF Spread, Bound
  <2> QED
    BY <2>1, <2>2, <2>3 DEF Calm, Bound
<1> QED
  BY <1>2, <1>3, <1>4 DEF SessionInv

\* What calm means for a request at work: a binding it finds is live, and to an
\* account it may have.
LEMMA CalmIsLive ==
  ASSUME SessionInv, calm, NEW r \in Request, call[r].pc \in UnderWay, Bound(call[r].key)
  PROVE  Live(call[r].key, call[r].at) /\ entries[call[r].key].uid \in call[r].available
<1>1. call[r].key \in Key
  BY CallKinds
<1>2. call[r].at = 0 /\ call[r].available = avail
  BY Facts DEF Calm, CallCalm
<1>3. entries[call[r].key].lastActive = 0 /\ entries[call[r].key].uid \in avail
  BY <1>1, Facts DEF Calm
<1> QED
  BY <1>2, <1>3, Facts DEF Live

\* A step that settles a request's session: it returns with what it leaves in the
\* binding, or with nothing where there is none to be had.
LEMMA Settles ==
  ASSUME SessionInv, NEW r \in Request, NEW k \in Key, NEW u \in Uid \cup {NoUid},
         NEW e \in Entry \cup {Unbound},
         call[r].pc \in UnderWay, call[r].key = k,
         call' = [call EXCEPT ![r] = [pc |-> "done", key |-> k, uid |-> u]],
         entries' = [entries EXCEPT ![k] = e],
         mirrored' \subseteq Key \X Uid,
         UNCHANGED <<now, avail, witnessed, calm>>,
         u \in witnessed[r] \cup {NoUid},
         calm /\ Bound(k) => e = entries[k] /\ u = e.uid,
         calm /\ ~Bound(k) /\ u = NoUid => e = Unbound,
         calm /\ ~Bound(k) /\ u # NoUid =>
           /\ e.uid = u /\ e \in Entry /\ e.lastActive = 0 /\ u \in avail
           /\ \/ \A j \in Key : Bound(j) => entries[j].uid # u
              \/ avail \subseteq {entries[j].uid : j \in Key}
  PROVE  SessionInv'
<1> DEFINE x == [pc |-> "done", key |-> k, uid |-> u]
<1>1. x \in Answer /\ x.pc = "done" /\ x.key = k /\ x.uid = u
  BY DEF Answer
<1> HIDE DEF x
<1>2. call' \in [Request -> Call \cup Answer \cup {NoCall}]
  BY <1>1, Facts DEF SessionTypeOK, x
<1>3. call'[r] = x /\ \A q \in Request \ {r} : call'[q] = call[q]
  BY Facts DEF SessionTypeOK, x
<1>4. entries' \in [Key -> Entry \cup {Unbound}]
      /\ entries'[k] = e /\ \A j \in Key \ {k} : entries'[j] = entries[j]
  BY Facts DEF SessionTypeOK
<1>5. SessionTypeOK'
  BY <1>2, <1>4, Facts DEF SessionTypeOK
<1>6. \A q \in Request : CallFits(q)'
  <2>1. CallFits(r)'
    BY <1>1, <1>3 DEF CallFits, UnderWay
  <2>2. \A q \in Request \ {r} : CallFits(q)'
    BY <1>3, Facts DEF CallFits
  <2> QED
    BY <2>1, <2>2
<1>7. Calm'
  <2> SUFFICES ASSUME calm PROVE Calm'
    BY DEF Calm
  <2>1. now = 0 /\ (\A j \in Key : Bound(j) => entries[j].lastActive = 0 /\ entries[j].uid \in avail)
        /\ (\A q \in Request : CallCalm(q)) /\ Spread
    BY Facts DEF Calm
  <2>2. Unbound.uid = NoUid /\ \A f \in Entry : f.uid \in Uid /\ f # Unbound
    BY Facts DEF Entry, Unbound
  <2>3. CASE Bound(k)
    <3>1. \A j \in Key : entries'[j] = entries[j]
      BY <1>4, <2>3
    <3>2. \A j \in Key : Bound(j)' <=> Bound(j)
      BY <3>1 DEF Bound
    <3>3. CallCalm(r)'
      BY <1>1, <1>3, <2>3, <3>1, <3>2 DEF CallCalm, UnderWay
    <3>4. ASSUME NEW q \in Request \ {r} PROVE CallCalm(q)'
      <4>1. CallCalm(q) /\ call'[q] = call[q]
        BY <1>3, <2>1
      <4>2. Took(q) => call[q].key \in Key
        BY CallKinds DEF Took, UnderWay
      <4> QED
        BY <3>1, <3>2, <4>1, <4>2 DEF CallCalm, Took
    <3>5. Spread'
      BY <2>1, <3>1, <3>2 DEF Spread
    <3> QED
      BY <2>1, <3>1, <3>2, <3>3, <3>4, <3>5 DEF Calm
  <2>4. CASE ~Bound(k)
    <3>1. entries[k] = Unbound
      BY <2>4 DEF Bound
    <3>2. \/ u = NoUid /\ e = Unbound
          \/ u # NoUid /\ e.uid = u /\ e \in Entry /\ e.lastActive = 0 /\ u \in avail
      BY <2>4
    <3>3. \A j \in Key \ {k} : Bound(j)' <=> Bound(j)
      BY <1>4 DEF Bound
    <3>4. Bound(k)' <=> u # NoUid
      BY <1>4, <2>2, <3>2 DEF Bound
    <3>5. \A j \in Key : Bound(j)' => entries'[j].lastActive = 0 /\ entries'[j].uid \in avail
      BY <1>4, <2>1, <3>2, <3>3, <3>4
    <3>6. CallCalm(r)'
      BY <1>1, <1>3, <1>4, <3>2, <3>4 DEF CallCalm, Took, UnderWay
    <3>7. ASSUME NEW q \in Request \ {r} PROVE CallCalm(q)'
      <4>1. CallCalm(q) /\ call'[q] = call[q]
        BY <1>3, <2>1
      <4>2. Took(q) => call[q].key \in Key \ {k}
        BY <2>4, <4>1, CallKinds DEF Took, UnderWay, CallCalm
      <4> QED
        BY <1>4, <3>3, <4>1, <4>2 DEF CallCalm, Took
    <3>8. Spread'
      <4> SUFFICES ASSUME NEW i \in Key, NEW j \in Key, Bound(i)', i # j,
                          entries'[i].uid = entries'[j].uid
                   PROVE  avail \subseteq {entries'[l].uid : l \in Key}
        BY DEF Spread
      <4>1. ASSUME NEW v \in avail, v \in {entries[l].uid : l \in Key}
            PROVE  v \in {entries'[l].uid : l \in Key}
        <5>1. PICK l \in Key : v = entries[l].uid
          BY <4>1
        <5>2. v # NoUid
          BY Facts
        <5>3. l # k
          BY <2>2, <3>1, <5>1, <5>2
        <5> QED
          BY <1>4, <5>1, <5>3
      <4>2. CASE i # k /\ j # k
        <5>1. avail \subseteq {entries[l].uid : l \in Key}
          BY <1>4, <2>1, <3>3, <4>2 DEF Spread
        <5> QED
          BY <4>1, <5>1
      <4>3. CASE i = k \/ j = k
        <5>1. entries'[i].uid \in Uid
          BY <1>4, <2>2, <3>5, Facts
        <5>2. u # NoUid /\ entries'[k].uid = u
          BY <1>4, <2>2, <3>2, <3>4, <4>3, <5>1, Facts
        <5>3. \E l \in Key \ {k} : entries[l].uid = u
          BY <1>4, <4>3, <5>2
        <5>4. \E l \in Key : Bound(l) /\ entries[l].uid = u
          BY <2>2, <5>2, <5>3 DEF Bound
        <5>5. avail \subseteq {entries[l].uid : l \in Key}
          BY <2>4, <5>2, <5>4
        <5> QED
          BY <4>1, <5>5
      <4> QED
        BY <4>2, <4>3
    <3> QED
      BY <2>1, <3>5, <3>6, <3>7, <3>8 DEF Calm
  <2> QED
    BY <2>3, <2>4
<1> QED
  BY <1>5, <1>6, <1>7 DEF SessionInv

-----------------------------------------------------------------------------
(* Each action keeps the invariant.                                          *)

LEMMA KeepsResolve ==
  ASSUME SessionInv, NEW r \in Request, NEW k \in Key, Resolve(r, k)
  PROVE  SessionInv'
<1> DEFINE x == [pc |-> "lookup", key |-> k, at |-> now, available |-> avail, uid |-> NoUid]
<1>1. call' = [call EXCEPT ![r] = x] /\ witnessed' = [witnessed EXCEPT ![r] = avail]
      /\ UNCHANGED <<now, avail, entries, mirrored, calm>>
  BY DEF Resolve
<1>2. x \in Call /\ x.pc = "lookup" /\ x.at = now /\ x.available = avail
  BY Facts DEF Call
<1> HIDE DEF x
<1>3. call'[r] = x
  BY <1>1, Facts DEF SessionTypeOK
<1>4. witnessed' \in [Request -> SUBSET Uid] /\ witnessed'[r] = avail
      /\ \A q \in Request \ {r} : witnessed'[q] = witnessed[q]
  BY <1>1, Facts DEF SessionTypeOK
<1>5. CallFits(r)'
  BY <1>1, <1>2, <1>3, <1>4 DEF CallFits
<1>6. calm => CallCalm(r)'
  BY <1>1, <1>2, <1>3, Facts DEF CallCalm, Calm, Took
<1> QED
  BY <1>1, <1>2, <1>4, <1>5, <1>6, CallMoves

LEMMA KeepsLookup ==
  ASSUME SessionInv, NEW r \in Request, Lookup(r)
  PROVE  SessionInv'
<1> DEFINE c == call[r]
           found == Live(c.key, c.at) /\ entries[c.key].uid \in c.available
           x == IF found THEN [c EXCEPT !.pc = "touch", !.uid = entries[c.key].uid]
                         ELSE [c EXCEPT !.pc = "slow"]
<1>1. c.pc = "lookup" /\ UNCHANGED <<now, avail, entries, mirrored, witnessed, calm>>
  BY DEF Lookup
<1>2. c \in Call /\ c.key \in Key /\ c.available \subseteq Uid
  BY <1>1, CallKinds DEF UnderWay
<1>3. call' = [call EXCEPT ![r] = x]
  <2>1. CASE found
    BY <2>1 DEF Lookup
  <2>2. CASE ~found
    BY <2>2 DEF Lookup
  <2> QED
    BY <2>1, <2>2
<1>4. /\ x \in Call /\ x.key = c.key /\ x.at = c.at /\ x.available = c.available
      /\ \/ found /\ x.pc = "touch" /\ x.uid = entries[c.key].uid
         \/ x.pc = "slow"
  BY <1>2 DEF Call
<1>5. found => Bound(c.key)
  BY DEF Live
<1>6. c.available \subseteq witnessed[r] /\ avail \subseteq witnessed[r]
  BY <1>1, Facts DEF CallFits, UnderWay
<1>7. calm => c.at = 0 /\ c.available = avail
  BY <1>1, Facts DEF Calm, CallCalm, UnderWay
<1>8. found => entries[c.key].uid \in c.available
  OBVIOUS
<1>9. witnessed \in [Request -> SUBSET Uid] /\ call \in [Request -> Call \cup Answer \cup {NoCall}]
  BY Facts DEF SessionTypeOK
<1> HIDE DEF x, found
<1>10. call'[r] = x
  BY <1>3, <1>9
<1>11. CallFits(r)'
  BY <1>1, <1>4, <1>6, <1>8, <1>10 DEF CallFits, UnderWay
<1>12. calm => CallCalm(r)'
  BY <1>1, <1>4, <1>5, <1>7, <1>10 DEF CallCalm, Took, Bound
<1> QED
  BY <1>1, <1>3, <1>4, <1>9, <1>11, <1>12, CallMoves

LEMMA KeepsTouch ==
  ASSUME SessionInv, NEW r \in Request, Touch(r)
  PROVE  SessionInv'
<1> DEFINE c == call[r]  k == c.key  u == c.uid
           e == [uid |-> u, lastActive |-> c.at]
<1>1. c.pc = "touch" /\ entries' = [entries EXCEPT ![k] = e]
      /\ mirrored' = mirrored \cup {<<k, u>>}
      /\ call' = [call EXCEPT ![r] = [pc |-> "done", key |-> k, uid |-> u]]
      /\ UNCHANGED <<now, avail, witnessed, calm>>
  BY DEF Touch, SetBind, Return
<1>2. k \in Key /\ c.at \in 0 .. MaxClock
  BY <1>1, CallKinds DEF UnderWay
<1>3. u \in witnessed[r] /\ u \in Uid
  BY <1>1, Facts DEF CallFits
<1>4. e \in Entry /\ e.uid = u /\ e.lastActive = c.at
  BY <1>2, <1>3 DEF Entry
<1>5. calm => Bound(k) /\ entries[k].uid = u /\ c.at = 0
  BY <1>1, Facts DEF Calm, CallCalm, Took, UnderWay
<1>6. calm => entries[k] \in Entry /\ entries[k].lastActive = 0
  BY <1>2, <1>5, Facts DEF Calm
<1>7. calm => e = entries[k]
  BY <1>4, <1>5, <1>6 DEF Entry
<1>8. mirrored' \subseteq Key \X Uid
  BY <1>1, <1>2, <1>3, Facts DEF SessionTypeOK
<1> HIDE DEF e
<1> QED
  BY <1>1, <1>2, <1>3, <1>4, <1>5, <1>7, <1>8, Settles DEF UnderWay

LEMMA KeepsSlow ==
  ASSUME SessionInv, NEW r \in Request, Slow(r)
  PROVE  SessionInv'
<1> DEFINE c == call[r]  k == c.key
           may == Live(k, c.at) /\ entries[k].uid \in c.available
<1>1. c.pc = "slow" /\ UNCHANGED <<now, avail, witnessed, calm>>
  BY DEF Slow
<1>2. k \in Key /\ c.at \in 0 .. MaxClock /\ c.pc \in UnderWay
  BY <1>1, CallKinds DEF UnderWay
<1>3. c.available \subseteq witnessed[r] /\ avail \subseteq witnessed[r]
  BY <1>2, Facts DEF CallFits
<1>4. calm => (Bound(k) <=> may)
  BY <1>2, CalmIsLive DEF Live
<1>5. calm => c.at = 0
  BY <1>2, Facts DEF Calm, CallCalm
<1>6. CASE /\ may
           /\ entries' = [entries EXCEPT ![k].lastActive = c.at]
           /\ Return(r, entries[k].uid)
           /\ UNCHANGED mirrored
  <2> DEFINE e == [entries[k] EXCEPT !.lastActive = c.at]
  <2>1. entries[k] \in Entry
    BY <1>2, <1>6, Facts DEF Live
  <2>2. e \in Entry /\ e.uid = entries[k].uid /\ e.lastActive = c.at
    BY <1>2, <2>1 DEF Entry
  <2>3. entries' = [entries EXCEPT ![k] = e]
    BY <1>6
  <2>4. calm => entries[k].lastActive = c.at
    BY <1>2, <1>4, <1>5, <1>6, Facts DEF Calm
  <2>5. calm => e = entries[k]
    BY <2>1, <2>2, <2>4 DEF Entry
  <2>6. call' = [call EXCEPT ![r] = [pc |-> "done", key |-> k, uid |-> entries[k].uid]]
    BY <1>6 DEF Return
  <2>7. entries[k].uid \in witnessed[r] /\ entries[k].uid \in Uid /\ Bound(k)
    BY <1>3, <1>6, <2>1 DEF Entry, Live
  <2>8. mirrored' \subseteq Key \X Uid
    BY <1>6, Facts DEF SessionTypeOK
  <2> HIDE DEF e
  <2> QED
    BY <1>1, <1>2, <2>2, <2>3, <2>5, <2>6, <2>7, <2>8, Settles
<1>7. CASE /\ ~may /\ avail = {}
           /\ entries' = [entries EXCEPT ![k] = IF Live(k, c.at) THEN Unbound ELSE @]
           /\ Return(r, NoUid)
           /\ UNCHANGED mirrored
  <2> DEFINE e == IF Live(k, c.at) THEN Unbound ELSE entries[k]
  <2>1. e \in Entry \cup {Unbound} /\ entries' = [entries EXCEPT ![k] = e]
    BY <1>2, <1>7, Facts
  <2>2. calm => ~Bound(k)
    BY <1>4, <1>7
  <2>3. calm => e = Unbound
    BY <2>2 DEF Bound
  <2>4. call' = [call EXCEPT ![r] = [pc |-> "done", key |-> k, uid |-> NoUid]]
    BY <1>7 DEF Return
  <2>5. mirrored' \subseteq Key \X Uid
    BY <1>7, Facts DEF SessionTypeOK
  <2> HIDE DEF e
  <2> QED
    BY <1>1, <1>2, <2>1, <2>2, <2>3, <2>4, <2>5, Settles
<1>8. ASSUME ~may, NEW u \in Assignable(k, c.at),
             entries' = [entries EXCEPT ![k] = [uid |-> u, lastActive |-> c.at]],
             SetBind(k, u), Return(r, u)
      PROVE  SessionInv'
  <2> DEFINE e == [uid |-> u, lastActive |-> c.at]
             others == {j \in Key : Bound(j) /\ ~(j = k /\ Live(k, c.at))}
             used == {entries[j].uid : j \in others}
  <2>1. u \in avail /\ (u \notin used \/ avail \subseteq used)
    BY <1>8 DEF Assignable
  <2>2. u \in Uid /\ u # NoUid
    BY <2>1, Facts
  <2>3. e \in Entry /\ e.uid = u /\ e.lastActive = c.at
    BY <1>2, <2>2 DEF Entry
  <2>4. call' = [call EXCEPT ![r] = [pc |-> "done", key |-> k, uid |-> u]]
        /\ mirrored' = mirrored \cup {<<k, u>>}
    BY <1>8 DEF Return, SetBind
  <2>5. calm => ~Bound(k)
    BY <1>4, <1>8
  <2>6. ASSUME calm
        PROVE  \/ \A j \in Key : Bound(j) => entries[j].uid # u
               \/ avail \subseteq {entries[j].uid : j \in Key}
    <3>1. others = {j \in Key : Bound(j)}
      BY <2>5, <2>6
    <3> QED
      BY <2>1, <3>1
  <2>7. mirrored' \subseteq Key \X Uid
    BY <1>2, <2>2, <2>4, Facts DEF SessionTypeOK
  <2>8. entries' = [entries EXCEPT ![k] = e]
    BY <1>8
  <2> HIDE DEF e, others, used
  <2> QED
    BY <1>1, <1>2, <1>3, <1>5, <2>1, <2>2, <2>3, <2>4, <2>5, <2>6, <2>7, <2>8, Settles
<1> QED
  BY <1>6, <1>7, <1>8 DEF Slow

\* What the others do ends the calm.
LEMMA Disturbed ==
  ASSUME SessionInv, SessionTypeOK', ~calm', \A r \in Request : CallFits(r)'
  PROVE  SessionInv'
BY DEF SessionInv, Calm

LEMMA KeepsWorld ==
  ASSUME SessionInv,
         \/ \E k \in Key : Unbind(k) \/ \E u \in Uid : Bind(k, u)
         \/ Gc \/ PoolChanges \/ Tick
  PROVE  SessionInv'
<1>1. ASSUME NEW k \in Key, Unbind(k) PROVE SessionInv'
  <2>1. SessionTypeOK' /\ ~calm'
    BY <1>1, Facts DEF Unbind, SessionTypeOK
  <2>2. \A r \in Request : CallFits(r)'
    BY <1>1, Facts DEF Unbind, CallFits
  <2> QED
    BY <2>1, <2>2, Disturbed
<1>2. ASSUME NEW k \in Key, NEW u \in Uid, Bind(k, u) PROVE SessionInv'
  <2>1. [uid |-> u, lastActive |-> now] \in Entry
    BY Facts DEF Entry
  <2>2. /\ entries' = [entries EXCEPT ![k] = [uid |-> u, lastActive |-> now]]
        /\ mirrored' = mirrored \cup {<<k, u>>}
        /\ calm' = FALSE /\ UNCHANGED <<now, avail, call, witnessed>>
    BY <1>2 DEF Bind, SetBind
  <2>3. entries' \in [Key -> Entry \cup {Unbound}]
    BY <2>1, <2>2, Facts DEF SessionTypeOK
  <2>4. mirrored' \subseteq Key \X Uid
    BY <2>2, Facts DEF SessionTypeOK
  <2>5. calm' \in BOOLEAN /\ ~calm'
    BY <2>2
  <2>6. SessionTypeOK' /\ ~calm'
    BY <2>2, <2>3, <2>4, <2>5, Facts DEF SessionTypeOK
  <2>7. \A r \in Request : CallFits(r)'
    BY <2>2, Facts DEF CallFits
  <2> QED
    BY <2>6, <2>7, Disturbed
<1>3. CASE Gc
  <2>1. entries' \in [Key -> Entry \cup {Unbound}]
    BY <1>3, Facts DEF Gc
  <2>2. SessionTypeOK' /\ ~calm'
    BY <1>3, <2>1, Facts DEF Gc, SessionTypeOK
  <2>3. \A r \in Request : CallFits(r)'
    BY <1>3, Facts DEF Gc, CallFits
  <2> QED
    BY <2>2, <2>3, Disturbed
<1>4. CASE PoolChanges
  <2>1. witnessed' \in [Request -> SUBSET Uid]
        /\ \A r \in Request : witnessed'[r] =
             IF call[r].pc \in UnderWay THEN witnessed[r] \cup avail' ELSE witnessed[r]
    BY <1>4, Facts DEF PoolChanges, UnderWay
  <2>2. avail' \in SUBSET Uid /\ ~calm' /\ UNCHANGED <<now, entries, mirrored, call>>
    BY <1>4 DEF PoolChanges
  <2>3. calm' \in BOOLEAN
    BY <1>4 DEF PoolChanges
  <2>4. SessionTypeOK'
    BY <2>1, <2>2, <2>3, Facts DEF SessionTypeOK
  <2>5. \A r \in Request : CallFits(r)'
    BY <2>1, <2>2, Facts DEF CallFits, UnderWay
  <2> QED
    BY <2>2, <2>4, <2>5, Disturbed
<1>5. CASE Tick
  <2>1. now' \in 0 .. MaxClock
    BY <1>5, SessionAssumption, Facts DEF Tick
  <2>2. SessionTypeOK' /\ ~calm'
    BY <1>5, <2>1, Facts DEF Tick, SessionTypeOK
  <2>3. \A r \in Request : CallFits(r)'
    BY <1>5, Facts DEF Tick, CallFits
  <2> QED
    BY <2>2, <2>3, Disturbed
<1> QED
  BY <1>1, <1>2, <1>3, <1>4, <1>5

\* The next process has no calls, and what it finds in Redis.
LEMMA KeepsRestart ==
  ASSUME SessionInv, Restart
  PROVE  SessionInv'
<1>1. call' = [r \in Request |-> NoCall] /\ witnessed' = [r \in Request |-> {}]
      /\ calm' = FALSE /\ UNCHANGED <<now, avail, mirrored>>
  BY DEF Restart
<1>2. PICK held \in [Key -> Uid \cup {NoUid}] :
        entries' = [k \in Key |-> IF held[k] = NoUid THEN Unbound
                                  ELSE [uid |-> held[k], lastActive |-> now]]
  BY DEF Restart
<1>3. \A k \in Key : held[k] # NoUid => [uid |-> held[k], lastActive |-> now] \in Entry
  BY Facts DEF Entry
<1>4. entries' \in [Key -> Entry \cup {Unbound}]
  BY <1>2, <1>3
<1>5. SessionTypeOK'
  BY <1>1, <1>4, Facts DEF SessionTypeOK
<1>6. \A r \in Request : call'[r] = NoCall
  BY <1>1
<1>7. NoCall.pc = "idle"
  BY DEF NoCall
<1>8. \A r \in Request : CallFits(r)'
  BY <1>6, <1>7 DEF CallFits, UnderWay
<1> QED
  BY <1>1, <1>5, <1>8, Disturbed

LEMMA SessionInitInv == SessionInit => SessionInv
<1> SUFFICES ASSUME SessionInit PROVE SessionInv
  OBVIOUS
<1> USE DEF SessionInit
<1>1. 0 \in 0 .. MaxClock
  BY SessionAssumption
<1>2. SessionTypeOK
  BY <1>1 DEF SessionTypeOK
<1>3. \A r \in Request : call[r].pc = "idle"
  BY DEF NoCall
<1>4. \A k \in Key : ~Bound(k)
  BY DEF Bound
<1>5. \A r \in Request : CallFits(r)
  BY <1>3 DEF CallFits, UnderWay
<1>6. Calm
  BY <1>3, <1>4 DEF Calm, CallCalm, Took, Spread, UnderWay
<1> QED
  BY <1>2, <1>5, <1>6 DEF SessionInv

LEMMA SessionStepInv == SessionInv /\ [SessionNext]_vars => SessionInv'
<1> SUFFICES ASSUME SessionInv, [SessionNext]_vars PROVE SessionInv'
  OBVIOUS
<1>1. ASSUME NEW r \in Request, Resolving(r) PROVE SessionInv'
  BY <1>1, KeepsLookup, KeepsTouch, KeepsSlow DEF Resolving
<1>2. CASE UNCHANGED vars
  BY <1>2, Facts DEF vars, SessionInv, SessionTypeOK, CallFits, Calm, CallCalm, Took, Spread, Bound
<1> QED
  BY <1>1, <1>2, KeepsResolve, KeepsWorld, KeepsRestart DEF SessionNext

LEMMA SessionInvariance == SessionSpec => []SessionInv
BY SessionInitInv, SessionStepInv, PTL DEF SessionSpec

-----------------------------------------------------------------------------
(* The theorems.                                                             *)

\* Whatever happens between the three lock regions of ResolveForSiteModel, it
\* answers only with an account the pool had offered for the site and model at
\* some time of the call.
THEOREM ResultsWereAvailable == SessionSpec => []ResultWasAvailable
<1>1. SessionInv => ResultWasAvailable
  BY Facts DEF ResultWasAvailable, Result, CallFits
<1> QED
  BY <1>1, SessionInvariance, PTL

\* Any number of first requests of one conversation that arrive together get the
\* same account: the second look under the write lock takes over the winner's.
THEOREM RacersAgree == SessionSpec => []SameSessionAgrees
<1>1. SessionInv => SameSessionAgrees
  <2> SUFFICES ASSUME SessionInv, calm, NEW r \in Request, NEW s \in Request,
                      Result(r) # NoUid, Result(s) # NoUid, call[r].key = call[s].key
               PROVE  Result(r) = Result(s)
    BY DEF SameSessionAgrees
  <2>1. call[r].pc = "done" /\ call[s].pc = "done" /\ Took(r) /\ Took(s)
    BY DEF Result, Took
  <2>2. CallCalm(r) /\ CallCalm(s)
    BY Facts DEF Calm
  <2> QED
    BY <2>1, <2>2 DEF CallCalm, Result
<1> QED
  BY <1>1, SessionInvariance, PTL

\* Any number of conversations that start together share an account only when
\* none that is available is left without one.
THEOREM ConversationsSpread == SessionSpec => []SessionsSpread
<1>1. SessionInv => SessionsSpread
  BY Facts DEF SessionsSpread, Calm, Spread
<1> QED
  BY <1>1, SessionInvariance, PTL

=============================================================================
