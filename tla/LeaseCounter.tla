---------------------------- MODULE LeaseCounter ----------------------------
(***************************************************************************)
(* What the in-flight leases of one account promise, with no counter: a    *)
(* request that asks under some limit is granted a lease only while fewer  *)
(* than that many are held, and is refused only when as many are.  The     *)
(* promise stands for as long as the account stays in the pool; after it   *)
(* has been removed (stable = FALSE) nothing is promised.                  *)
(***************************************************************************)
EXTENDS Integers, FiniteSets

CONSTANTS Thread, \* requests in progress
          Limits  \* values of pool.max_in_flight; 0 = unlimited

VARIABLES limit,  \* the limit in force
          asked,  \* asked[t]: the limit t asks under, NoAsk when it does not ask
          held,   \* the requests that hold a lease
          stable

counterVars == <<limit, asked, held, stable>>
NoAsk == -1

Init == /\ limit \in Limits /\ asked = [t \in Thread |-> NoAsk]
        /\ held = {} /\ stable = TRUE

Ask(t) ==
  /\ t \notin held /\ asked[t] = NoAsk
  /\ asked' = [asked EXCEPT ![t] = limit]
  /\ UNCHANGED <<limit, held, stable>>

Grant(t) ==
  /\ asked[t] # NoAsk
  /\ stable => asked[t] = 0 \/ Cardinality(held) < asked[t]
  /\ held' = held \cup {t}
  /\ asked' = [asked EXCEPT ![t] = NoAsk]
  /\ UNCHANGED <<limit, stable>>

Refuse(t) ==
  /\ asked[t] # NoAsk
  /\ stable => asked[t] # 0 /\ Cardinality(held) >= asked[t]
  /\ asked' = [asked EXCEPT ![t] = NoAsk]
  /\ UNCHANGED <<limit, held, stable>>

Drop(t) ==
  /\ t \in held /\ held' = held \ {t}
  /\ UNCHANGED <<limit, asked, stable>>

SetLimit == limit' \in Limits /\ UNCHANGED <<asked, held, stable>>
Disturb  == stable /\ stable' = FALSE /\ UNCHANGED <<limit, asked, held>>

Next == \/ SetLimit \/ Disturb
        \/ \E t \in Thread : Ask(t) \/ Grant(t) \/ Refuse(t) \/ Drop(t)

Spec == Init /\ [][Next]_counterVars
=============================================================================
