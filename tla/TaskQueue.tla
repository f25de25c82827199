------------------------------- MODULE TaskQueue -------------------------------
(***************************************************************************)
(* The task centre of internal/panel: a request starts the queue, which    *)
(* runs one goroutine per account with pending tasks under a semaphore;    *)
(* each takes the account's task lock and works its items off by index.    *)
(* The same lock serves the single task and the "complete all" buttons.    *)
(*                                                                         *)
(* Which task an item is, what the upstream says of it and the throttling  *)
(* pauses are left out: an item is pending or not, an action ends.  So is  *)
(* seq: only the page reads it, to know its own round.                     *)
(* Every stretch under q.mu is a step; the lock and the slot are taken in  *)
(* one, and given back in one.                                             *)
(***************************************************************************)
EXTENDS Integers, Sequences, FiniteSets

CONSTANTS
  Account,   \* enabled accounts of the CN site
  Request,   \* requests that start the queue, at once or one after the other
  Asked,     \* values of "concurrency" in the requests
  MaxItems   \* bound: pending tasks of an account

MaxConc == 4

ASSUME QueueAssumption ==
  /\ IsFiniteSet(Account) /\ Asked \subseteq Int /\ MaxItems \in Nat \ {0}

VARIABLES
  running,    \* q.running
  items,      \* q.items
  starter,    \* each request of tasksRunQueue and the run it started
  worker,     \* the goroutine of a run for an account
  locked,     \* taskLocks
  other,      \* who else acts on the account: a button's handler or pipeline
  overlapped  \* history: the last run was started while another was on

vars == <<running, items, starter, worker, locked, other, overlapped>>

Settled == {"done", "skipped"}   \* done: with success or with an error
Item    == [uid : Account, status : {"pending", "running"} \cup Settled]
Idle    == [pc |-> "off", i |-> 1, n |-> 0]

QueueTypeOK ==
  /\ running \in BOOLEAN /\ overlapped \in BOOLEAN
  /\ items \in Seq(Item) /\ Len(items) <= MaxItems * Cardinality(Account)
  /\ starter \in [Request -> [pc : {"idle", "scan", "run"}, conc : 1 .. MaxConc]]
  /\ worker \in [Request -> [Account ->
       [pc : {"off", "sem", "skip", "range", "loop", "mark", "act"},
        i : Nat \ {0}, n : Nat]]]
  /\ locked \in [Account -> BOOLEAN]
  /\ other \in [Account -> {"none", "attended", "late"}]

Init ==
  /\ running = FALSE /\ items = <<>> /\ overlapped = FALSE
  /\ starter = [s \in Request |-> [pc |-> "idle", conc |-> 1]]
  /\ worker = [s \in Request |-> [a \in Account |-> Idle]]
  /\ locked = [a \in Account |-> FALSE]
  /\ other = [a \in Account |-> "none"]

-----------------------------------------------------------------------------
(* The start of a run. *)

Clamp(k) == IF k < 1 THEN 1 ELSE IF k > MaxConc THEN MaxConc ELSE k

\* The queue does not run: the request goes on to scan, without the lock.
RunQueue(s) ==
  /\ starter[s].pc = "idle" /\ ~running
  /\ starter' = [starter EXCEPT ![s].pc = "scan"]
  /\ UNCHANGED <<running, items, worker, locked, other, overlapped>>

\* What the scans can append: the pending tasks of the accounts that have any, each account's
\* together, the accounts in the order in which their scans ended.
Listings ==
  {list \in UNION {[1 .. n -> [uid : Account, status : {"pending"}]] :
                     n \in 1 .. MaxItems * Cardinality(Account)} :
     \A a \in Account :
       LET own == {i \in DOMAIN list : list[i].uid = a}
       IN  /\ Cardinality(own) <= MaxItems
           /\ \A i, k \in own : i .. k \subseteq own}

NothingToDo(s) ==
  /\ starter[s].pc = "scan"
  /\ starter' = [starter EXCEPT ![s].pc = "idle"]
  /\ UNCHANGED <<running, items, worker, locked, other, overlapped>>

\* The scan has ended: the run replaces whatever items there are.  The
\* concurrency the request has asked for is chosen here, where it is first used.
Start(s) ==
  /\ starter[s].pc = "scan"
  /\ \E list \in Listings :
       /\ items' = list
       /\ worker' = [worker EXCEPT ![s] = [a \in Account |->
            IF \E i \in DOMAIN list : list[i].uid = a
            THEN [Idle EXCEPT !.pc = "sem"] ELSE worker[s][a]]]
  /\ running' = TRUE
  /\ overlapped' = \E r \in Request \ {s} : starter[r].pc = "run"
  /\ \E k \in Asked : starter' = [starter EXCEPT ![s] = [pc |-> "run", conc |-> Clamp(k)]]
  /\ UNCHANGED <<locked, other>>

\* The goroutines have all ended.
Finish(s) ==
  /\ starter[s].pc = "run" /\ \A a \in Account : worker[s][a].pc = "off"
  /\ running' = FALSE
  /\ starter' = [starter EXCEPT ![s] = [pc |-> "idle", conc |-> 1]]
  /\ UNCHANGED <<items, worker, locked, other, overlapped>>

-----------------------------------------------------------------------------
(* The goroutine of one account. *)

\* tryLockAccount, by whoever finds the lock free, and unlockAccount.
Lock(a)   == locked' = [locked EXCEPT ![a] = TRUE]
Unlock(a) == locked' = [locked EXCEPT ![a] = FALSE]

At(s, a, pc)   == worker[s][a].pc = pc
Goto(s, a, pc) == worker' = [worker EXCEPT ![s][a].pc = pc]
End(s, a)      == worker' = [worker EXCEPT ![s][a] = Idle]

InSemaphore(s) == {a \in Account : worker[s][a].pc \notin {"off", "sem"}}

\* A slot, and at once the try of the account's lock.
Enter(s, a) ==
  /\ At(s, a, "sem") /\ Cardinality(InSemaphore(s)) < starter[s].conc
  /\ Lock(a)
  /\ Goto(s, a, IF locked[a] THEN "skip" ELSE "range")
  /\ UNCHANGED <<running, items, starter, other, overlapped>>

\* queueSet: every item of the account, whichever run it is of.
SkipItems(a) ==
  items' = [i \in DOMAIN items |->
    IF items[i].uid = a THEN [items[i] EXCEPT !.status = "skipped"] ELSE items[i]]

\* The account has moved to the other site since it was listed.
SkipForeign(s, a) ==
  /\ At(s, a, "sem") /\ SkipItems(a)
  /\ End(s, a)
  /\ UNCHANGED <<running, starter, locked, other, overlapped>>

\* Changes of SkipAccount: the goroutine that does not get the lock returns without a word.
SkipInSilence(s, a) ==
  /\ At(s, a, "skip") /\ End(s, a)
  /\ UNCHANGED <<running, items, starter, locked, other, overlapped>>

\* ... or does not give back its slot.
SkipKeepsSlot(s, a) ==
  /\ At(s, a, "skip")
  /\ SkipItems(a)
  /\ UNCHANGED <<running, starter, worker, locked, other, overlapped>>

\* The lock is held by another.
SkipAccount(s, a) ==
  /\ At(s, a, "skip")
  /\ SkipItems(a)
  /\ End(s, a)
  /\ UNCHANGED <<running, starter, locked, other, overlapped>>

\* acceptPendingTasks, then the range: its length is taken once, without q.mu.
BeginLoop(s, a) ==
  /\ At(s, a, "range")
  /\ worker' = [worker EXCEPT ![s][a] = [pc |-> "loop", i |-> 1, n |-> Len(items)]]
  /\ UNCHANGED <<running, items, starter, locked, other, overlapped>>

\* An index out of range in a goroutine ends the process; a new one starts.
Crash ==
  /\ running' = FALSE /\ items' = <<>> /\ overlapped' = FALSE
  /\ starter' = [s \in Request |-> [pc |-> "idle", conc |-> 1]]
  /\ worker' = [s \in Request |-> [a \in Account |-> Idle]]
  /\ locked' = [a \in Account |-> FALSE]
  /\ other' = [a \in Account |-> "none"]

Index(s, a) == worker[s][a].i

\* A change of Snapshot: the goroutine does not look whose item it is.
SnapshotOfAny(s, a) ==
  /\ At(s, a, "loop") /\ Index(s, a) \in 1 .. worker[s][a].n \cap DOMAIN items
  /\ Goto(s, a, "mark")
  /\ UNCHANGED <<running, items, starter, locked, other, overlapped>>

\* snapshotAt and the test of the item's account.
Snapshot(s, a) ==
  /\ At(s, a, "loop") /\ Index(s, a) \in 1 .. worker[s][a].n \cap DOMAIN items
  /\ IF items[Index(s, a)].uid = a
     THEN Goto(s, a, "mark")
     ELSE worker' = [worker EXCEPT ![s][a].i = @ + 1]
  /\ UNCHANGED <<running, items, starter, locked, other, overlapped>>

OutOfRange(s, a) ==
  /\ worker[s][a].pc \in {"loop", "mark", "act"}
  /\ Index(s, a) \in 1 .. worker[s][a].n \ DOMAIN items
  /\ Crash

\* queueMarkAt: by index, whatever item is there by now.
MarkAt(s, a, status) ==
  /\ Index(s, a) \in DOMAIN items
  /\ items' = [items EXCEPT ![Index(s, a)].status = status]

MarkRunning(s, a) ==
  /\ At(s, a, "mark") /\ MarkAt(s, a, "running")
  /\ Goto(s, a, "act")
  /\ UNCHANGED <<running, starter, locked, other, overlapped>>

\* runGrowthQueued or runSchoolQueued has returned.
Record(s, a) ==
  /\ At(s, a, "act") /\ MarkAt(s, a, "done")
  /\ worker' = [worker EXCEPT ![s][a].pc = "loop", ![s][a].i = @ + 1]
  /\ UNCHANGED <<running, starter, locked, other, overlapped>>

\* The loop is over: the deferred calls give back the lock and the slot.
Leave(s, a) ==
  /\ At(s, a, "loop") /\ Index(s, a) > worker[s][a].n
  /\ Unlock(a)
  /\ End(s, a)
  /\ UNCHANGED <<running, items, starter, other, overlapped>>

-----------------------------------------------------------------------------
(* The buttons of one account: a held lock is answered 409. *)

Button(a) ==
  /\ ~locked[a]
  /\ Lock(a)
  /\ other' = [other EXCEPT ![a] = "attended"]
  /\ UNCHANGED <<running, items, starter, worker, overlapped>>

\* A change of Timeout: the handler unlocks when it returns, and the pipeline again.
TimeoutUnlocks(a) ==
  /\ other[a] = "attended"
  /\ other' = [other EXCEPT ![a] = "late"]
  /\ Unlock(a)
  /\ UNCHANGED <<running, items, starter, worker, overlapped>>

\* "Complete all" after five minutes, or when the client goes: the handler returns, its pipeline goes on.
Timeout(a) ==
  /\ other[a] = "attended"
  /\ other' = [other EXCEPT ![a] = "late"]
  /\ UNCHANGED <<running, items, starter, worker, locked, overlapped>>

\* The single task's handler, or the pipeline, ends.
ButtonEnds(a) ==
  /\ other[a] # "none"
  /\ other' = [other EXCEPT ![a] = "none"]
  /\ Unlock(a)
  /\ UNCHANGED <<running, items, starter, worker, overlapped>>

-----------------------------------------------------------------------------
Work(s, a) ==
  \/ Enter(s, a) \/ SkipForeign(s, a) \/ SkipAccount(s, a) \/ BeginLoop(s, a)
  \/ Snapshot(s, a) \/ OutOfRange(s, a) \/ MarkRunning(s, a) \/ Record(s, a) \/ Leave(s, a)

Next ==
  \/ \E s \in Request : RunQueue(s) \/ NothingToDo(s) \/ Start(s) \/ Finish(s)
  \/ \E s \in Request, a \in Account : Work(s, a)
  \/ \E a \in Account : Button(a) \/ Timeout(a) \/ ButtonEnds(a)

\* Calls to the upstream return: of a run that is on, something goes on.
Fairness == \A s \in Request : WF_vars(Finish(s) \/ \E a \in Account : Work(s, a))

Spec == Init /\ [][Next]_vars /\ Fairness

-----------------------------------------------------------------------------
(* Properties. *)

\* No account is acted on by two at a time: a goroutine of a run, a single
\* task and a pipeline whose handler has timed out exclude one another, in
\* overlapping runs too.
Acting(s) == {a \in Account : worker[s][a].pc \in {"range", "loop", "mark", "act"}}
OneActionPerAccount ==
  /\ QueueTypeOK
  /\ \A a \in Account :
       LET runs == {s \in Request : a \in Acting(s)}
       IN  /\ Cardinality(runs) + (IF other[a] = "none" THEN 0 ELSE 1) <= 1
           /\ locked[a] <=> (runs # {} \/ other[a] # "none")

\* The page is never left with an item that waits or runs when no run is on:
\* of runs that do not overlap, each settles every item it queued.
NothingLeftBehind ==
  ~overlapped /\ ~running => \A i \in DOMAIN items : items[i].status \in Settled

\* While a run that overlaps no other is on, an item that is settled stays as
\* it is: no item is acted on twice, or by another account's goroutine.
EachItemOnce ==
  [][running /\ running' /\ ~overlapped' =>
       \A i \in DOMAIN items : items[i].status \in Settled => items'[i] = items[i]]_vars

\* A run comes to its end, whoever holds its accounts, and the queue can be
\* started again: no goroutine waits for a slot that is never given back.
RunEnds == \A s \in Request : starter[s].pc = "run" ~> starter[s].pc = "idle"

=============================================================================
