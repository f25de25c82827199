------------------------------ MODULE Session ------------------------------
(***************************************************************************)
(* The session router of internal/session: which account a conversation    *)
(* sticks to.  A request resolves its session in steps: it asks the pool   *)
(* who is available, reads the binding under the read lock, and renews it, *)
(* or assigns an account, under the write lock.  Meanwhile other requests  *)
(* bind and unbind, the pool's answer changes, bindings are mirrored to    *)
(* Redis by goroutines in no order, and the process may restart.           *)
(*                                                                         *)
(* One site and one model: keys carry the site, and what differs per site  *)
(* and model is the pool's answer alone.                                   *)
(***************************************************************************)
EXTENDS Integers, FiniteSets

CONSTANTS
  Key,        \* session keys, with their site prefix
  Uid,
  NoUid,      \* no account: not bound, no result
  Request,    \* requests resolving concurrently
  TTL,        \* session_sticky.ttl, in ticks
  MaxClock    \* bound: the clock stops here

ASSUME SessionAssumption ==
  NoUid \notin Uid /\ TTL \in Nat /\ MaxClock \in Nat

VARIABLES
  now,
  avail,      \* what AvailableUIDsForSiteModel answers
  entries,    \* r.entries: the uid each key is bound to, and lastActive
  mirrored,   \* the bindings SetBind was called with, in Redis or not
  call,       \* each request's locals in ResolveForSiteModel
  witnessed,  \* history: who was available at some time of the call
  calm        \* history: nothing but resolving has happened

vars == <<now, avail, entries, mirrored, call, witnessed, calm>>

Unbound == [uid |-> NoUid, lastActive |-> 0]
Entry   == [uid : Uid, lastActive : 0 .. MaxClock]
Bound(k) == entries[k] # Unbound

\* A call under way; one that has returned; a request that has not called yet.
Call   == [pc : {"lookup", "touch", "slow"}, key : Key, at : 0 .. MaxClock,
           available : SUBSET Uid, uid : Uid \cup {NoUid}]
Answer == [pc : {"done"}, key : Key, uid : Uid \cup {NoUid}]
NoCall == [pc |-> "idle"]

SessionTypeOK ==
  /\ now \in 0 .. MaxClock /\ avail \subseteq Uid
  /\ entries \in [Key -> Entry \cup {Unbound}]
  /\ mirrored \subseteq Key \X Uid
  /\ call \in [Request -> Call \cup Answer \cup {NoCall}]
  /\ witnessed \in [Request -> SUBSET Uid] /\ calm \in BOOLEAN

SessionInit ==
  /\ now = 0 /\ avail \in SUBSET Uid
  /\ entries = [k \in Key |-> Unbound]
  /\ mirrored = {}
  /\ call = [r \in Request |-> NoCall]
  /\ witnessed = [r \in Request |-> {}] /\ calm = TRUE

Live(k, t) == Bound(k) /\ t - entries[k].lastActive <= TTL

\* SetBind and DelBind run in goroutines of their own, in no order, each of
\* which may fail: whatever was ever set may be what Redis holds in the end, and
\* it may hold nothing.
SetBind(k, u) == mirrored' = mirrored \cup {<<k, u>>}

Return(r, u) == call' = [call EXCEPT ![r] = [pc |-> "done", key |-> @.key, uid |-> u]]

-----------------------------------------------------------------------------
(* ResolveForSiteModel *)

Resolve(r, k) ==
  /\ call[r].pc = "idle"      \* a request resolves its session once
  /\ call' = [call EXCEPT ![r] = [pc |-> "lookup", key |-> k, at |-> now,
                                  available |-> avail, uid |-> NoUid]]
  /\ witnessed' = [witnessed EXCEPT ![r] = avail]
  /\ UNCHANGED <<now, avail, entries, mirrored, calm>>

\* The fast path: a live binding to an available account.
LookupTrusting(r) ==
  /\ call[r].pc = "lookup"
  /\ LET c == call[r]
     IN  call' = IF Live(c.key, c.at)
                 THEN [call EXCEPT ![r].pc = "touch", ![r].uid = entries[c.key].uid]
                 ELSE [call EXCEPT ![r].pc = "slow"]
  /\ UNCHANGED <<now, avail, entries, mirrored, witnessed, calm>>

Lookup(r) ==
  /\ call[r].pc = "lookup"
  /\ LET c == call[r]
     IN  call' = IF Live(c.key, c.at) /\ entries[c.key].uid \in c.available
                 THEN [call EXCEPT ![r].pc = "touch", ![r].uid = entries[c.key].uid]
                 ELSE [call EXCEPT ![r].pc = "slow"]
  /\ UNCHANGED <<now, avail, entries, mirrored, witnessed, calm>>

\* touch: written back whatever the binding has become since.
Touch(r) ==
  /\ call[r].pc = "touch"
  /\ LET c == call[r]
     IN  /\ entries' = [entries EXCEPT ![c.key] = [uid |-> c.uid, lastActive |-> c.at]]
         /\ SetBind(c.key, c.uid)
         /\ Return(r, c.uid)
  /\ UNCHANGED <<now, avail, witnessed, calm>>

AssignableAny(k, t) == avail

\* Accounts no session is bound to come first, then all; the hash of the key
\* picks one of them.
Assignable(k, t) ==
  LET others == {j \in Key : Bound(j) /\ ~(j = k /\ Live(k, t))}
      idle   == avail \ {entries[j].uid : j \in others}
  IN  IF idle # {} THEN idle ELSE avail

SlowBlind(r) ==
  /\ call[r].pc = "slow"
  /\ LET c == call[r]
     IN  \E u \in avail :
           /\ entries' = [entries EXCEPT ![c.key] = [uid |-> u, lastActive |-> c.at]]
           /\ SetBind(c.key, u)
           /\ Return(r, u)
  /\ UNCHANGED <<now, avail, witnessed, calm>>

\* Under the write lock: keep the binding another request has made meanwhile, or
\* drop it and assign.
Slow(r) ==
  /\ call[r].pc = "slow"
  /\ LET c    == call[r]
         e    == entries[c.key]
         live == Live(c.key, c.at)
     IN  \/ /\ live /\ e.uid \in c.available
            /\ entries' = [entries EXCEPT ![c.key].lastActive = c.at]
            /\ Return(r, e.uid)
            /\ UNCHANGED mirrored
         \/ /\ ~(live /\ e.uid \in c.available) /\ avail = {}
            /\ entries' = [entries EXCEPT ![c.key] = IF live THEN Unbound ELSE @]
            /\ Return(r, NoUid)
            /\ UNCHANGED mirrored
         \/ /\ ~(live /\ e.uid \in c.available)
            /\ \E u \in Assignable(c.key, c.at) :
                 /\ entries' = [entries EXCEPT ![c.key] = [uid |-> u, lastActive |-> c.at]]
                 /\ SetBind(c.key, u)
                 /\ Return(r, u)
  /\ UNCHANGED <<now, avail, witnessed, calm>>

-----------------------------------------------------------------------------
(* What the other requests, the collector and the world do *)

\* A request on the session succeeded with u.
Bind(k, u) ==
  /\ entries' = [entries EXCEPT ![k] = [uid |-> u, lastActive |-> now]]
  /\ SetBind(k, u) /\ calm' = FALSE
  /\ UNCHANGED <<now, avail, call, witnessed>>

\* A request on the session failed with its account.
Unbind(k) ==
  /\ Bound(k)
  /\ entries' = [entries EXCEPT ![k] = Unbound]
  /\ calm' = FALSE
  /\ UNCHANGED <<now, avail, mirrored, call, witnessed>>

\* gcOnce
Gc ==
  /\ \E k \in Key : Bound(k) /\ ~Live(k, now)
  /\ entries' = [k \in Key |-> IF Live(k, now) THEN entries[k] ELSE Unbound]
  /\ calm' = FALSE
  /\ UNCHANGED <<now, avail, mirrored, call, witnessed>>

\* LoadFromStore of the next process: keys whose Get fails are passed over.
Restart ==
  /\ call' = [r \in Request |-> NoCall] /\ witnessed' = [r \in Request |-> {}]
  /\ \E held \in [Key -> Uid \cup {NoUid}] :
       /\ \A k \in Key : <<k, held[k]>> \in mirrored \/ held[k] = NoUid
       /\ entries' = [k \in Key |-> IF held[k] = NoUid THEN Unbound
                                    ELSE [uid |-> held[k], lastActive |-> now]]
  /\ calm' = FALSE
  /\ UNCHANGED <<now, avail, mirrored>>

\* Accounts cool down, recover, fill up, come and go.
PoolChanges ==
  /\ avail' \in SUBSET Uid
  /\ witnessed' = [r \in Request |->
       IF call[r].pc \in {"lookup", "touch", "slow"} THEN witnessed[r] \cup avail' ELSE witnessed[r]]
  /\ calm' = FALSE
  /\ UNCHANGED <<now, entries, mirrored, call>>

Tick ==
  /\ now < MaxClock /\ now' = now + 1 /\ calm' = FALSE
  /\ UNCHANGED <<avail, entries, mirrored, call, witnessed>>

-----------------------------------------------------------------------------
Resolving(r) == Lookup(r) \/ Touch(r) \/ Slow(r)

SessionNext ==
  \/ \E r \in Request : Resolving(r) \/ \E k \in Key : Resolve(r, k)
  \/ \E k \in Key : Unbind(k) \/ \E u \in Uid : Bind(k, u)
  \/ Gc \/ Restart \/ PoolChanges \/ Tick

SessionSpec == SessionInit /\ [][SessionNext]_vars

-----------------------------------------------------------------------------
(* Properties *)

Result(r) == IF call[r].pc = "done" THEN call[r].uid ELSE NoUid

\* Whatever the binding's age and origin (another request's success, Redis after
\* a restart), resolving answers only with an account that was available for the
\* site and model at some time during the call.
ResultWasAvailable ==
  /\ SessionTypeOK
  /\ \A r \in Request : Result(r) \in witnessed[r] \cup {NoUid}

\* The first requests of one conversation, arriving together, all get the same
\* account: the one who loses the race takes over the winner's choice.
SameSessionAgrees ==
  calm => \A r, s \in Request :
    /\ Result(r) # NoUid /\ Result(s) # NoUid
    /\ call[r].key = call[s].key
    => Result(r) = Result(s)

\* Conversations starting together share an account only when no account is left
\* without one.
SessionsSpread ==
  calm => \A j, k \in Key :
    Bound(j) /\ j # k /\ entries[j].uid = entries[k].uid
      => avail \subseteq {entries[i].uid : i \in Key}

=============================================================================
