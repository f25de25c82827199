--------------------------- MODULE TaskQueueProofs ---------------------------
(***************************************************************************)
(* Theorems about TaskQueue for any accounts, requests and bounds.         *)
(*                                                                         *)
(* QueueInv is inductive.  Exclusive and Started hold whatever overlaps;   *)
(* RunFits says, of a run that overlaps no other, which of its items its   *)
(* goroutines have still ahead of them, at each place they can be.         *)
(***************************************************************************)
EXTENDS TaskQueue, FiniteSetTheorems, SequenceTheorems, TLAPS

Acts(s, a) == worker[s][a].pc \in {"range", "loop", "mark", "act"}
Runs(s)    == starter[s].pc = "run"

\* The account's lock is held exactly while somebody acts on it, and that is one.
Exclusive ==
  \A a \in Account :
    /\ \A r, s \in Request : Acts(r, a) /\ Acts(s, a) => r = s
    /\ \A s \in Request : Acts(s, a) => other[a] = "none"
    /\ locked[a] <=> (other[a] # "none" \/ \E s \in Request : Acts(s, a))

\* Goroutines are of a run that is on, and the flag is not up without one.
Started ==
  /\ \A s \in Request, a \in Account : worker[s][a].pc # "off" => Runs(s)
  /\ running => \E s \in Request : Runs(s)

\* The goroutine has the account's item i still to settle.
Ahead(s, a, i) ==
  \/ worker[s][a].pc \in {"sem", "skip", "range"}
  \/ worker[s][a].pc \in {"loop", "mark", "act"} /\ worker[s][a].i <= i

ItemsFit(s, a) ==
  /\ worker[s][a].pc \in {"loop", "mark", "act"} => worker[s][a].n = Len(items)
  /\ worker[s][a].pc \in {"mark", "act"} =>
       worker[s][a].i \in DOMAIN items /\ items[worker[s][a].i].uid = a
  /\ \A i \in DOMAIN items :
       items[i].uid = a => (items[i].status \notin Settled <=> Ahead(s, a, i))

RunFits ==
  ~overlapped =>
    /\ \A r, s \in Request : Runs(r) /\ Runs(s) => r = s
    /\ \A s \in Request : Runs(s) => running
    /\ ~running => \A i \in DOMAIN items : items[i].status \in Settled
    /\ \A s \in Request, a \in Account : Runs(s) => ItemsFit(s, a)

QueueInv == QueueTypeOK /\ Exclusive /\ Started /\ RunFits

-----------------------------------------------------------------------------
(* What the types say, and the shape of a goroutine's step.                  *)

Place   == {"off", "sem", "skip", "range", "loop", "mark", "act"}
Working == [pc : Place, i : Nat \ {0}, n : Nat]
Starter == [pc : {"idle", "scan", "run"}, conc : 1 .. MaxConc]

LEMMA Facts ==
  ASSUME QueueInv
  PROVE  /\ items \in Seq(Item) /\ Len(items) \in Nat /\ DOMAIN items = 1 .. Len(items)
         /\ \A i \in DOMAIN items :
              items[i] \in Item /\ items[i].uid \in Account
         /\ starter \in [Request -> Starter]
         /\ worker \in [Request -> [Account -> Working]]
         /\ \A s \in Request, a \in Account : worker[s][a] \in Working
         /\ locked \in [Account -> BOOLEAN] /\ running \in BOOLEAN /\ overlapped \in BOOLEAN
<1>1. QueueTypeOK
  BY DEF QueueInv
<1>2. items \in Seq(Item) /\ Len(items) \in Nat /\ DOMAIN items = 1 .. Len(items)
  BY <1>1 DEF QueueTypeOK
<1>3. \A i \in DOMAIN items : items[i] \in Item
  BY <1>2, ElementOfSeq
<1>4. \A i \in DOMAIN items : items[i].uid \in Account
  BY <1>3 DEF Item
<1>5. worker \in [Request -> [Account -> Working]]
  BY <1>1 DEF QueueTypeOK, Working, Place
<1>6. \A s \in Request, a \in Account : worker[s][a] \in Working
  BY <1>5
<1> QED
  BY <1>1, <1>2, <1>3, <1>4, <1>5, <1>6 DEF QueueTypeOK, Starter

\* Items that keep their place and their account keep their type.
LEMMA SameItems ==
  ASSUME QueueInv, items' = items
  PROVE  items' \in Seq(Item) /\ DOMAIN items' = DOMAIN items /\ Len(items') = Len(items)
         /\ \A i \in DOMAIN items : items'[i] = items[i]
BY Facts

\* A step of one goroutine, with what it does to the lock and to the items of
\* its account.
LEMMA WorkerStep ==
  ASSUME QueueInv, NEW s \in Request, NEW a \in Account, NEW x \in Working,
         worker[s][a].pc # "off", worker' = [worker EXCEPT ![s][a] = x],
         UNCHANGED <<running, starter, other, overlapped>>,
         items' \in Seq(Item), Len(items') = Len(items),
         \A i \in DOMAIN items : items'[i].uid = items[i].uid,
         ~overlapped => (\A i \in DOMAIN items : items[i].uid # a => items'[i] = items[i]),
         locked' \in [Account -> BOOLEAN],
         \A b \in Account \ {a} : locked'[b] <=> locked[b],
         locked'[a] <=> \/ x.pc \in {"range", "loop", "mark", "act"}
                        \/ locked[a] /\ ~Acts(s, a),
         x.pc \in {"range", "loop", "mark", "act"} => (Acts(s, a) \/ ~locked[a]),
         ~overlapped => ItemsFit(s, a)'
  PROVE  QueueInv'
<1>1. worker'[s][a] = x /\ worker' \in [Request -> [Account -> Working]]
  BY Facts
<1>2. \A r \in Request, b \in Account : r # s \/ b # a => worker'[r][b] = worker[r][b]
  BY Facts
<1>3. DOMAIN items' = DOMAIN items
  BY Facts
<1>4. QueueTypeOK'
  BY <1>1 DEF QueueInv, QueueTypeOK, Working, Place
<1>5. Exclusive'
  <2> SUFFICES ASSUME NEW b \in Account
               PROVE  /\ \A p, q \in Request : Acts(p, b)' /\ Acts(q, b)' => p = q
                      /\ \A p \in Request : Acts(p, b)' => other'[b] = "none"
                      /\ locked'[b] <=> (other'[b] # "none" \/ \E p \in Request : Acts(p, b)')
    BY DEF Exclusive
  <2>1. \A p, q \in Request : Acts(p, b) /\ Acts(q, b) => p = q
    BY DEF QueueInv, Exclusive
  <2>2. \A p \in Request : Acts(p, b) => other[b] = "none"
    BY DEF QueueInv, Exclusive
  <2>3. locked[b] <=> (other[b] # "none" \/ \E p \in Request : Acts(p, b))
    BY DEF QueueInv, Exclusive
  <2>4. other'[b] = other[b]
    OBVIOUS
  <2>5. CASE b # a
    <3>1. \A p \in Request : Acts(p, b)' <=> Acts(p, b)
      BY <1>2, <2>5 DEF Acts
    <3>2. locked'[b] <=> locked[b]
      BY <2>5
    <3> QED
      BY <2>1, <2>2, <2>3, <2>4, <3>1, <3>2
  <2>6. CASE b = a
    <3>1. Acts(s, b)' <=> x.pc \in {"range", "loop", "mark", "act"}
      BY <1>1, <2>6 DEF Acts
    <3>2. \A p \in Request \ {s} : Acts(p, b)' <=> Acts(p, b)
      BY <1>2, <2>6 DEF Acts
    <3>3. locked'[b] <=> Acts(s, b)' \/ (locked[b] /\ ~Acts(s, b))
      BY <2>6, <3>1
    <3>4. Acts(s, b)' => Acts(s, b) \/ ~locked[b]
      BY <2>6, <3>1
    <3> QED
      BY <2>1, <2>2, <2>3, <2>4, <3>2, <3>3, <3>4
  <2> QED
    BY <2>5, <2>6
<1>6. Runs(s) /\ \A r \in Request : Runs(r)' <=> Runs(r)
  BY DEF QueueInv, Started, Runs
<1>7. Started'
  BY <1>2, <1>6 DEF QueueInv, Started, Runs
<1>8. RunFits'
  <2> SUFFICES ASSUME ~overlapped PROVE RunFits'
    BY DEF RunFits
  <2>1. \A r \in Request : Runs(r) => r = s
    BY <1>6 DEF QueueInv, RunFits
  <2>2. running
    BY <1>6 DEF QueueInv, RunFits
  <2>3. ASSUME NEW b \in Account, b # a PROVE ItemsFit(s, b)'
    <3>1. ItemsFit(s, b)
      BY <1>6 DEF QueueInv, RunFits
    <3>2. worker'[s][b] = worker[s][b]
      BY <1>2, <2>3
    <3>3. \A i \in DOMAIN items : items[i].uid = b => items'[i] = items[i]
      BY <2>3
    <3> QED
      BY <1>3, <3>1, <3>2, <3>3 DEF ItemsFit, Ahead
  <2> QED
    BY <1>6, <2>1, <2>2, <2>3 DEF RunFits
<1> QED
  BY <1>4, <1>5, <1>7, <1>8 DEF QueueInv

\* The fields of a goroutine that has moved on.
LEMMA Moved ==
  ASSUME QueueInv, NEW s \in Request, NEW a \in Account, NEW pc \in Place
  PROVE  /\ [worker[s][a] EXCEPT !.pc = pc] \in Working
         /\ [worker[s][a] EXCEPT !.pc = pc].pc = pc
         /\ [worker[s][a] EXCEPT !.pc = pc].i = worker[s][a].i
         /\ [worker[s][a] EXCEPT !.pc = pc].n = worker[s][a].n
<1>1. worker[s][a] \in Working
  BY Facts
<1> QED
  BY <1>1 DEF Working

LEMMA IdleWorks == Idle \in Working /\ Idle.pc = "off"
BY DEF Idle, Working, Place

\* queueSet: the items of the account are settled, the others are as they were.
LEMMA ItemsSkipped ==
  ASSUME QueueInv, NEW a \in Account, SkipItems(a)
  PROVE  /\ items' \in Seq(Item) /\ Len(items') = Len(items) /\ DOMAIN items' = DOMAIN items
         /\ \A i \in DOMAIN items : items'[i].uid = items[i].uid
         /\ \A i \in DOMAIN items : items[i].uid # a => items'[i] = items[i]
         /\ \A i \in DOMAIN items : items[i].uid = a => items'[i].status = "skipped"
<1>1. \A i \in DOMAIN items : items[i] \in Item
  BY Facts
<1>2. \A i \in DOMAIN items :
        [items[i] EXCEPT !.status = "skipped"] \in Item
        /\ [items[i] EXCEPT !.status = "skipped"].uid = items[i].uid
        /\ [items[i] EXCEPT !.status = "skipped"].status = "skipped"
  BY <1>1 DEF Item, Settled
<1>3. items' = [i \in 1 .. Len(items) |->
        IF items[i].uid = a THEN [items[i] EXCEPT !.status = "skipped"] ELSE items[i]]
  BY Facts DEF SkipItems
<1>4. \A i \in DOMAIN items :
        items'[i] = IF items[i].uid = a THEN [items[i] EXCEPT !.status = "skipped"] ELSE items[i]
  BY <1>3, Facts
<1>5. items' \in [1 .. Len(items) -> Item]
  BY <1>1, <1>2, <1>3, Facts
<1>6. items' \in Seq(Item) /\ Len(items') = Len(items)
  BY <1>5, Facts
<1>7. DOMAIN items' = DOMAIN items
  BY <1>6, Facts
<1>8. ASSUME NEW i \in DOMAIN items
      PROVE  /\ items'[i].uid = items[i].uid
             /\ items[i].uid # a => items'[i] = items[i]
             /\ items[i].uid = a => items'[i].status = "skipped"
  BY <1>2, <1>4, <1>8
<1> QED
  BY <1>6, <1>7, <1>8

\* queueMarkAt: one item's status.
LEMMA ItemMarked ==
  ASSUME QueueInv, NEW s \in Request, NEW a \in Account,
         NEW status \in {"pending", "running"} \cup Settled, MarkAt(s, a, status)
  PROVE  /\ items' \in Seq(Item) /\ Len(items') = Len(items) /\ DOMAIN items' = DOMAIN items
         /\ \A i \in DOMAIN items : items'[i].uid = items[i].uid
         /\ Index(s, a) \in DOMAIN items
         /\ \A i \in DOMAIN items \ {Index(s, a)} : items'[i] = items[i]
         /\ items'[Index(s, a)].status = status
<1> DEFINE k == Index(s, a)  it == [items[k] EXCEPT !.status = status]
<1>1. k \in 1 .. Len(items) /\ items[k] \in Item
  BY Facts DEF MarkAt
<1>2. it \in Item /\ it.uid = items[k].uid /\ it.status = status
  BY <1>1 DEF Item
<1>3. items' = [items EXCEPT ![k] = it]
  BY DEF MarkAt
<1> HIDE DEF it, k
<1>4. items' \in Seq(Item) /\ Len(items') = Len(items)
      /\ \A j \in 1 .. Len(items) : items'[j] = IF j = k THEN it ELSE items[j]
  BY <1>1, <1>2, <1>3, Facts, ExceptSeq
<1>5. DOMAIN items' = DOMAIN items
  BY <1>4, Facts
<1> QED
  BY <1>1, <1>2, <1>4, <1>5, Facts DEF k


-----------------------------------------------------------------------------
(* Each action keeps the invariant.                                          *)

\* What the invariant says of a goroutine whose run overlaps no other.
LEMMA OwnItems ==
  ASSUME QueueInv, NEW s \in Request, NEW a \in Account, worker[s][a].pc # "off"
  PROVE  Runs(s) /\ (~overlapped => running /\ ItemsFit(s, a))
BY DEF QueueInv, Started, RunFits

LEMMA KeepsEnter ==
  ASSUME QueueInv, NEW s \in Request, NEW a \in Account, Enter(s, a)
  PROVE  QueueInv'
<1> DEFINE pc == IF locked[a] THEN "skip" ELSE "range"
           x == [worker[s][a] EXCEPT !.pc = pc]
<1>1. pc \in Place /\ (pc = "range" <=> ~locked[a]) /\ (pc # "range" => pc = "skip")
  BY Facts DEF Place
<1>2. x \in Working /\ x.pc = pc
  BY <1>1, Moved
<1>3. worker[s][a].pc = "sem" /\ worker' = [worker EXCEPT ![s][a] = x]
  BY DEF Enter, At, Goto
<1> HIDE DEF x, pc
<1>4. UNCHANGED <<running, items, starter, other, overlapped>>
  BY DEF Enter
<1>5. locked' = [locked EXCEPT ![a] = TRUE]
  BY DEF Enter, Lock
<1>6. locked' \in [Account -> BOOLEAN] /\ locked'[a] = TRUE
      /\ \A b \in Account \ {a} : locked'[b] = locked[b]
  BY <1>5, Facts
<1>7. ~Acts(s, a)
  BY <1>3 DEF Acts
<1>8. worker'[s][a] = x
  BY <1>3, Facts
<1>9. ~overlapped => ItemsFit(s, a)'
  BY <1>1, <1>2, <1>3, <1>4, <1>8, OwnItems DEF ItemsFit, Ahead
<1> QED
  BY <1>1, <1>2, <1>3, <1>4, <1>6, <1>7, <1>9, SameItems, WorkerStep

LEMMA KeepsSkip ==
  ASSUME QueueInv, NEW s \in Request, NEW a \in Account,
         SkipForeign(s, a) \/ SkipAccount(s, a)
  PROVE  QueueInv'
<1>1. worker[s][a].pc \in {"sem", "skip"} /\ SkipItems(a) /\ End(s, a)
      /\ UNCHANGED <<running, starter, locked, other, overlapped>>
  BY DEF SkipForeign, SkipAccount, At
<1>2. worker' = [worker EXCEPT ![s][a] = Idle] /\ worker'[s][a] = Idle
  BY <1>1, Facts DEF End
<1>3. ~Acts(s, a)
  BY <1>1 DEF Acts
<1>4. ItemsFit(s, a)'
  BY <1>1, <1>2, IdleWorks, ItemsSkipped DEF ItemsFit, Ahead, Settled
<1>5. /\ items' \in Seq(Item) /\ Len(items') = Len(items)
      /\ \A i \in DOMAIN items : items'[i].uid = items[i].uid
      /\ \A i \in DOMAIN items : items[i].uid # a => items'[i] = items[i]
  BY <1>1, ItemsSkipped
<1> QED
  BY <1>1, <1>2, <1>3, <1>4, <1>5, IdleWorks, Facts, WorkerStep

LEMMA KeepsBeginLoop ==
  ASSUME QueueInv, NEW s \in Request, NEW a \in Account, BeginLoop(s, a)
  PROVE  QueueInv'
<1> DEFINE x == [pc |-> "loop", i |-> 1, n |-> Len(items)]
<1>1. worker[s][a].pc = "range" /\ worker' = [worker EXCEPT ![s][a] = x]
      /\ UNCHANGED <<running, items, starter, locked, other, overlapped>>
  BY DEF BeginLoop, At
<1>2. x \in Working /\ x.pc = "loop" /\ x.i = 1 /\ x.n = Len(items)
  BY Facts DEF Working, Place
<1> HIDE DEF x
<1>3. worker'[s][a] = x
  BY <1>1, Facts
<1>4. Acts(s, a)
  BY <1>1 DEF Acts
<1>5. ~overlapped => ItemsFit(s, a)'
  BY <1>1, <1>2, <1>3, OwnItems, Facts DEF ItemsFit, Ahead
<1>6. locked[a] = TRUE
  BY <1>4, Facts DEF QueueInv, Exclusive
<1> QED
  BY <1>1, <1>2, <1>4, <1>5, <1>6, Facts, SameItems, WorkerStep

LEMMA KeepsSnapshot ==
  ASSUME QueueInv, NEW s \in Request, NEW a \in Account, Snapshot(s, a)
  PROVE  QueueInv'
<1> DEFINE k == Index(s, a)
           own == items[k].uid = a
           x == IF own THEN [worker[s][a] EXCEPT !.pc = "mark"]
                       ELSE [worker[s][a] EXCEPT !.i = @ + 1]
<1>1. worker[s][a].pc = "loop" /\ k \in DOMAIN items /\ k = worker[s][a].i
      /\ UNCHANGED <<running, items, starter, locked, other, overlapped>>
  BY DEF Snapshot, At, Index
<1>2. worker[s][a] \in Working
  BY Facts
<1>3. worker' = [worker EXCEPT ![s][a] = x]
  BY DEF Snapshot, Goto
<1>4. x \in Working /\ x.n = worker[s][a].n
      /\ (own => x.pc = "mark" /\ x.i = k)
      /\ (~own => x.pc = "loop" /\ x.i = k + 1)
  BY <1>1, <1>2 DEF Working, Place
<1>5. k \in Nat \ {0}
  BY <1>1, <1>2 DEF Working
<1> HIDE DEF x
<1>6. worker'[s][a] = x
  BY <1>3, Facts
<1>7. Acts(s, a)
  BY <1>1 DEF Acts
<1>8. locked[a] = TRUE
  BY <1>7, Facts DEF QueueInv, Exclusive
<1>9. ASSUME ~overlapped PROVE ItemsFit(s, a)'
  <2>1. ItemsFit(s, a)
    BY <1>1, <1>9, OwnItems
  <2>2. \A i \in DOMAIN items : items[i].uid = a => (items[i].status \notin Settled <=> k <= i)
    BY <1>1, <2>1 DEF ItemsFit, Ahead
  <2>3. \A i \in DOMAIN items : i \in Nat
    BY Facts
  <2>4. CASE own
    BY <1>1, <1>4, <1>6, <2>1, <2>2, <2>4 DEF ItemsFit, Ahead
  <2>5. CASE ~own
    <3>1. \A i \in DOMAIN items : items[i].uid = a => (k <= i <=> k + 1 <= i)
      BY <1>5, <2>3, <2>5
    <3> QED
      BY <1>1, <1>4, <1>6, <2>1, <2>2, <2>5, <3>1 DEF ItemsFit, Ahead
  <2> QED
    BY <2>4, <2>5
<1> QED
  BY <1>1, <1>3, <1>4, <1>7, <1>8, <1>9, Facts, SameItems, WorkerStep

LEMMA KeepsMarkRunning ==
  ASSUME QueueInv, NEW s \in Request, NEW a \in Account, MarkRunning(s, a)
  PROVE  QueueInv'
<1> DEFINE k == Index(s, a)
           x == [worker[s][a] EXCEPT !.pc = "act"]
<1>1. worker[s][a].pc = "mark" /\ MarkAt(s, a, "running")
      /\ UNCHANGED <<running, starter, locked, other, overlapped>>
  BY DEF MarkRunning, At
<1>2. worker' = [worker EXCEPT ![s][a] = x]
  BY DEF MarkRunning, Goto
<1>3. x \in Working /\ x.pc = "act" /\ x.i = worker[s][a].i /\ x.n = worker[s][a].n
  <2>1. "act" \in Place
    BY DEF Place
  <2> QED
    BY <2>1, Moved
<1>4. k = worker[s][a].i
  BY DEF Index
<1> HIDE DEF x, k
<1>5. worker'[s][a] = x
  BY <1>2, Facts
<1>6. Acts(s, a) /\ locked[a] = TRUE
  BY <1>1, Facts DEF Acts, QueueInv, Exclusive
<1>7. /\ items' \in Seq(Item) /\ Len(items') = Len(items) /\ DOMAIN items' = DOMAIN items
      /\ \A i \in DOMAIN items : items'[i].uid = items[i].uid
      /\ k \in DOMAIN items
      /\ \A i \in DOMAIN items \ {k} : items'[i] = items[i]
      /\ items'[k].status = "running"
  BY <1>1, ItemMarked DEF k
<1>8. ASSUME ~overlapped PROVE ItemsFit(s, a)' /\ items[k].uid = a
  <2>1. ItemsFit(s, a)
    BY <1>1, <1>8, OwnItems
  <2>2. items[k].uid = a /\ k <= k /\ "running" \notin Settled
    BY <1>1, <1>4, <1>7, <2>1, Facts DEF ItemsFit, Settled
  <2>3. ASSUME NEW i \in DOMAIN items, items[i].uid = a
        PROVE  items'[i].status \notin Settled <=> k <= i
    <3>1. items[i].status \notin Settled <=> k <= i
      BY <1>1, <1>4, <2>1, <2>3 DEF ItemsFit, Ahead
    <3> QED
      BY <1>7, <2>2, <3>1
  <2> QED
    BY <1>1, <1>3, <1>4, <1>5, <1>7, <2>1, <2>2, <2>3 DEF ItemsFit, Ahead
<1>9. ~overlapped => \A i \in DOMAIN items : items[i].uid # a => items'[i] = items[i]
  BY <1>7, <1>8
<1> QED
  BY <1>1, <1>2, <1>3, <1>6, <1>7, <1>8, <1>9, Facts, WorkerStep

LEMMA KeepsRecord ==
  ASSUME QueueInv, NEW s \in Request, NEW a \in Account, Record(s, a)
  PROVE  QueueInv'
<1> DEFINE k == Index(s, a)
           x == [worker[s][a] EXCEPT !.pc = "loop", !.i = k + 1]
<1>1. worker[s][a].pc = "act" /\ MarkAt(s, a, "done")
      /\ UNCHANGED <<running, starter, locked, other, overlapped>>
  BY DEF Record, At
<1>2. worker[s][a] \in Working /\ k = worker[s][a].i
  BY Facts DEF Index
<1>3. k \in Nat \ {0} /\ k + 1 \in Nat \ {0}
  BY <1>2 DEF Working
<1>4. worker' = [worker EXCEPT ![s][a] = x]
  BY <1>2, Facts DEF Record
<1>5. x \in Working /\ x.pc = "loop" /\ x.i = k + 1 /\ x.n = worker[s][a].n
  BY <1>2, <1>3 DEF Working, Place
<1> HIDE DEF x, k
<1>6. worker'[s][a] = x
  BY <1>4, Facts
<1>7. Acts(s, a) /\ locked[a] = TRUE
  BY <1>1, Facts DEF Acts, QueueInv, Exclusive
<1>8. /\ items' \in Seq(Item) /\ Len(items') = Len(items) /\ DOMAIN items' = DOMAIN items
      /\ \A i \in DOMAIN items : items'[i].uid = items[i].uid
      /\ k \in DOMAIN items
      /\ \A i \in DOMAIN items \ {k} : items'[i] = items[i]
      /\ items'[k].status = "done"
  BY <1>1, ItemMarked DEF k, Settled
<1>9. ASSUME ~overlapped PROVE ItemsFit(s, a)' /\ items[k].uid = a
  <2>1. ItemsFit(s, a)
    BY <1>1, <1>9, OwnItems
  <2>2. items[k].uid = a /\ ~(k + 1 <= k) /\ "done" \in Settled
    BY <1>1, <1>2, <1>3, <2>1 DEF ItemsFit, Settled
  <2>3. ASSUME NEW i \in DOMAIN items, items[i].uid = a
        PROVE  items'[i].status \notin Settled <=> k + 1 <= i
    <3>1. items[i].status \notin Settled <=> k <= i
      BY <1>1, <1>2, <2>1, <2>3 DEF ItemsFit, Ahead
    <3>2. CASE i = k
      BY <1>8, <2>2, <3>2
    <3>3. CASE i # k
      <4>1. i \in Nat
        BY Facts
      <4>2. k <= i <=> k + 1 <= i
        BY <1>3, <3>3, <4>1
      <4> QED
        BY <1>8, <3>1, <3>3, <4>2
    <3> QED
      BY <3>2, <3>3
  <2> QED
    BY <1>1, <1>2, <1>5, <1>6, <1>8, <2>1, <2>2, <2>3 DEF ItemsFit, Ahead
<1>10. ~overlapped => \A i \in DOMAIN items : items[i].uid # a => items'[i] = items[i]
  BY <1>8, <1>9
<1> QED
  BY <1>1, <1>4, <1>5, <1>7, <1>8, <1>9, <1>10, Facts, WorkerStep

LEMMA KeepsLeave ==
  ASSUME QueueInv, NEW s \in Request, NEW a \in Account, Leave(s, a)
  PROVE  QueueInv'
<1>1. worker[s][a].pc = "loop" /\ worker[s][a].i > worker[s][a].n
      /\ worker' = [worker EXCEPT ![s][a] = Idle]
      /\ locked' = [locked EXCEPT ![a] = FALSE]
      /\ UNCHANGED <<running, items, starter, other, overlapped>>
  BY DEF Leave, At, Index, Unlock, End
<1>2. worker'[s][a] = Idle
  BY <1>1, Facts
<1>3. Acts(s, a)
  BY <1>1 DEF Acts
<1>4. locked' \in [Account -> BOOLEAN] /\ locked'[a] = FALSE
      /\ \A b \in Account \ {a} : locked'[b] = locked[b]
  BY <1>1, Facts
<1>5. ASSUME ~overlapped PROVE ItemsFit(s, a)'
  <2>1. ItemsFit(s, a)
    BY <1>1, <1>5, OwnItems
  <2>2. worker[s][a] \in Working /\ worker[s][a].n = Len(items)
    BY <1>1, <2>1, Facts DEF ItemsFit
  <2>3. \A i \in DOMAIN items : ~(worker[s][a].i <= i)
    BY <1>1, <2>2, Facts DEF Working
  <2>4. \A i \in DOMAIN items : items[i].uid = a => items[i].status \in Settled
    BY <1>1, <2>1, <2>3 DEF ItemsFit, Ahead
  <2> QED
    BY <1>1, <1>2, <2>4, IdleWorks DEF ItemsFit, Ahead
<1> QED
  BY <1>1, <1>3, <1>4, <1>5, IdleWorks, SameItems, WorkerStep


\* All goroutines are gone, nobody acts, nothing runs.
LEMMA QueueInitInv == Init => QueueInv
<1> SUFFICES ASSUME Init PROVE QueueInv
  OBVIOUS
<1>1. \A s \in Request, a \in Account : worker[s][a] = Idle
  BY DEF Init
<1>2. \A s \in Request : starter[s].pc = "idle"
  BY DEF Init
<1>3. 0 <= MaxItems * Cardinality(Account)
  <2>1. Cardinality(Account) \in Nat /\ MaxItems \in Nat
    BY QueueAssumption, FS_CardinalityType
  <2> QED
    BY <2>1
<1>4. items \in Seq(Item) /\ Len(items) = 0
  BY DEF Init
<1>5. worker \in [Request -> [Account -> Working]]
  BY IdleWorks DEF Init
<1>6. starter \in [Request -> Starter]
  BY DEF Init, Starter, MaxConc
<1>7. QueueTypeOK
  BY <1>3, <1>4, <1>5, <1>6 DEF Init, QueueTypeOK, Working, Place, Starter
<1>8. Exclusive
  BY <1>1, IdleWorks DEF Init, Exclusive, Acts
<1>9. Started
  BY <1>1, IdleWorks DEF Init, Started
<1>10. RunFits
  BY <1>2 DEF Init, RunFits, Runs
<1> QED
  BY <1>7, <1>8, <1>9, <1>10 DEF QueueInv

\* The process that follows a crash starts the same way.
LEMMA KeepsOutOfRange ==
  ASSUME NEW s \in Request, NEW a \in Account, OutOfRange(s, a)
  PROVE  QueueInv'
<1>1. Init'
  BY DEF OutOfRange, Crash, Init
<1> QED
  BY <1>1, QueueInitInv, PTL

\* A request that looks at the flag, or finds nothing to do.
LEMMA KeepsScan ==
  ASSUME QueueInv, NEW s \in Request, RunQueue(s) \/ NothingToDo(s)
  PROVE  QueueInv'
<1>1. UNCHANGED <<running, items, worker, locked, other, overlapped>>
      /\ starter[s].pc # "run"
  BY DEF RunQueue, NothingToDo
<1>2. PICK pc \in {"idle", "scan"} : starter' = [starter EXCEPT ![s].pc = pc]
  BY DEF RunQueue, NothingToDo
<1>3. starter' \in [Request -> Starter]
  BY <1>2, Facts DEF Starter
<1>4. \A r \in Request : Runs(r)' <=> Runs(r)
  BY <1>1, <1>2, Facts DEF Runs, Starter
<1>5. QueueTypeOK'
  BY <1>1, <1>3 DEF QueueInv, QueueTypeOK, Starter
<1>6. Exclusive'
  BY <1>1 DEF QueueInv, Exclusive, Acts
<1>7. Started'
  BY <1>1, <1>4 DEF QueueInv, Started
<1>8. \A r \in Request, a \in Account : ItemsFit(r, a)' <=> ItemsFit(r, a)
  BY <1>1 DEF ItemsFit, Ahead
<1>9. RunFits'
  BY <1>1, <1>4, <1>8 DEF QueueInv, RunFits
<1> QED
  BY <1>5, <1>6, <1>7, <1>9 DEF QueueInv

LEMMA ClampsToRange ==
  ASSUME NEW k \in Int
  PROVE  Clamp(k) \in 1 .. MaxConc
BY DEF Clamp, MaxConc

LEMMA KeepsStart ==
  ASSUME QueueInv, NEW s \in Request, Start(s)
  PROVE  QueueInv'
<1>1. UNCHANGED <<locked, other>> /\ running' = TRUE /\ ~Runs(s)
      /\ (overlapped' <=> \E r \in Request \ {s} : Runs(r))
  BY DEF Start, Runs
<1>2. overlapped' \in BOOLEAN
  BY DEF Start
<1>3. PICK list \in Listings :
        /\ items' = list
        /\ worker' = [worker EXCEPT ![s] = [a \in Account |->
             IF \E i \in DOMAIN list : list[i].uid = a
             THEN [Idle EXCEPT !.pc = "sem"] ELSE worker[s][a]]]
  BY DEF Start
<1>4. PICK k \in Asked : starter' = [starter EXCEPT ![s] = [pc |-> "run", conc |-> Clamp(k)]]
  BY DEF Start
<1>5. starter' \in [Request -> Starter]
  <2>1. Clamp(k) \in 1 .. MaxConc
    BY QueueAssumption, ClampsToRange
  <2>2. [pc |-> "run", conc |-> Clamp(k)] \in Starter
    BY <2>1 DEF Starter
  <2> QED
    BY <1>4, <2>2, Facts
<1>6. Runs(s)' /\ \A r \in Request \ {s} : Runs(r)' <=> Runs(r)
  BY <1>4, Facts DEF Runs
<1>7. [Idle EXCEPT !.pc = "sem"] \in Working /\ [Idle EXCEPT !.pc = "sem"].pc = "sem"
  BY DEF Idle, Working, Place
<1>8. worker' \in [Request -> [Account -> Working]]
  BY <1>3, <1>7, Facts
<1>9. \A r \in Request \ {s} : worker'[r] = worker[r]
  BY <1>3, Facts
<1>10. \A a \in Account : worker'[s][a] =
         IF \E i \in DOMAIN list : list[i].uid = a
         THEN [Idle EXCEPT !.pc = "sem"] ELSE worker[s][a]
  BY <1>3, Facts
<1>11. \A a \in Account : worker[s][a].pc = "off"
  BY <1>1 DEF QueueInv, Started
<1>12. PICK n \in 1 .. MaxItems * Cardinality(Account) :
         list \in [1 .. n -> [uid : Account, status : {"pending"}]]
  BY DEF Listings
<1>13. MaxItems * Cardinality(Account) \in Nat
  <2>1. Cardinality(Account) \in Nat /\ MaxItems \in Nat
    BY QueueAssumption, FS_CardinalityType
  <2> QED
    BY <2>1
<1>14. items' \in Seq(Item) /\ Len(items') <= MaxItems * Cardinality(Account)
  <2>1. [uid : Account, status : {"pending"}] \subseteq Item
    BY DEF Item
  <2>2. list \in [1 .. n -> Item]
    BY <1>12, <2>1
  <2> HIDE DEF Item
  <2>3. n \in Nat /\ n <= MaxItems * Cardinality(Account)
    BY <1>13
  <2>4. list \in Seq(Item) /\ Len(list) = n
    BY <2>2, <2>3
  <2> QED
    BY <1>3, <2>3, <2>4
<1>15. \A i \in DOMAIN items' : items'[i].status = "pending"
  BY <1>3, <1>12
<1>16. QueueTypeOK'
  BY <1>1, <1>2, <1>5, <1>8, <1>14 DEF QueueInv, QueueTypeOK, Working, Place, Starter
<1>17. \A r \in Request, a \in Account : Acts(r, a)' <=> Acts(r, a)
  <2>1. ASSUME NEW r \in Request, NEW a \in Account PROVE Acts(r, a)' <=> Acts(r, a)
    <3>1. CASE r = s
      BY <1>7, <1>10, <1>11, <3>1 DEF Acts
    <3>2. CASE r # s
      BY <1>9, <3>2 DEF Acts
    <3> QED
      BY <3>1, <3>2
  <2> QED
    BY <2>1
<1>18. Exclusive'
  BY <1>1, <1>17 DEF QueueInv, Exclusive
<1>19. Started'
  BY <1>6, <1>9 DEF QueueInv, Started
<1>20. \A a \in Account : ItemsFit(s, a)'
  <2>1. ASSUME NEW a \in Account PROVE ItemsFit(s, a)'
    <3>1. CASE \E i \in DOMAIN list : list[i].uid = a
      BY <1>7, <1>10, <1>15, <3>1 DEF ItemsFit, Ahead, Settled
    <3>2. CASE ~\E i \in DOMAIN list : list[i].uid = a
      BY <1>3, <1>10, <1>11, <3>2 DEF ItemsFit
    <3> QED
      BY <3>1, <3>2
  <2> QED
    BY <2>1
<1>21. RunFits'
  <2> SUFFICES ASSUME ~overlapped' PROVE RunFits'
    BY DEF RunFits
  <2>1. \A r \in Request : Runs(r)' => r = s
    BY <1>1, <1>6
  <2> QED
    BY <1>1, <1>20, <2>1 DEF RunFits
<1> QED
  BY <1>16, <1>18, <1>19, <1>21 DEF QueueInv

LEMMA KeepsFinish ==
  ASSUME QueueInv, NEW s \in Request, Finish(s)
  PROVE  QueueInv'
<1>1. Runs(s) /\ running' = FALSE
      /\ UNCHANGED <<items, worker, locked, other, overlapped>>
      /\ starter' = [starter EXCEPT ![s] = [pc |-> "idle", conc |-> 1]]
      /\ \A a \in Account : worker[s][a].pc = "off"
  BY DEF Finish, Runs
<1>2. starter' \in [Request -> Starter]
  <2>1. [pc |-> "idle", conc |-> 1] \in Starter
    BY DEF Starter, MaxConc
  <2> QED
    BY <1>1, <2>1, Facts
<1>3. ~Runs(s)' /\ \A r \in Request \ {s} : Runs(r)' <=> Runs(r)
  BY <1>1, Facts DEF Runs
<1>4. QueueTypeOK'
  BY <1>1, <1>2 DEF QueueInv, QueueTypeOK, Starter
<1>5. Exclusive'
  BY <1>1 DEF QueueInv, Exclusive, Acts
<1>6. Started'
  BY <1>1, <1>3 DEF QueueInv, Started
<1>7. RunFits'
  <2> SUFFICES ASSUME ~overlapped PROVE RunFits'
    BY <1>1 DEF RunFits
  <2>1. \A r \in Request : Runs(r) => r = s
    BY <1>1 DEF QueueInv, RunFits
  <2>2. \A r \in Request : ~Runs(r)'
    BY <1>3, <2>1
  <2>3. \A a \in Account : ItemsFit(s, a)
    BY <1>1 DEF QueueInv, RunFits
  <2>4. \A i \in DOMAIN items : items[i].uid \in Account
    BY Facts
  <2>5. \A i \in DOMAIN items : items[i].status \in Settled
    BY <1>1, <2>3, <2>4 DEF ItemsFit, Ahead
  <2> QED
    BY <1>1, <2>2, <2>5 DEF RunFits
<1> QED
  BY <1>4, <1>5, <1>6, <1>7 DEF QueueInv

\* The buttons: only the lock and who holds it change.
LEMMA KeepsButtons ==
  ASSUME QueueInv, NEW a \in Account, Button(a) \/ Timeout(a) \/ ButtonEnds(a)
  PROVE  QueueInv'
<1>1. UNCHANGED <<running, items, starter, worker, overlapped>>
  BY DEF Button, Timeout, ButtonEnds
<1>2. \A b \in Account :
        /\ \A r, s \in Request : Acts(r, b) /\ Acts(s, b) => r = s
        /\ \A s \in Request : Acts(s, b) => other[b] = "none"
        /\ locked[b] <=> (other[b] # "none" \/ \E s \in Request : Acts(s, b))
  BY DEF QueueInv, Exclusive
<1>3. \A s \in Request, b \in Account : Acts(s, b)' <=> Acts(s, b)
  BY <1>1 DEF Acts
<1>4. locked \in [Account -> BOOLEAN] /\ other \in [Account -> {"none", "attended", "late"}]
  BY DEF QueueInv, QueueTypeOK
<1>5. locked' \in [Account -> BOOLEAN] /\ other' \in [Account -> {"none", "attended", "late"}]
      /\ \A b \in Account \ {a} : other'[b] = other[b] /\ locked'[b] = locked[b]
  BY <1>4 DEF Button, Timeout, ButtonEnds, Lock, Unlock
<1>6. \/ ~locked[a] /\ locked'[a] /\ other'[a] # "none"
      \/ other[a] # "none" /\ other'[a] # "none" /\ locked'[a] = locked[a]
      \/ other[a] # "none" /\ other'[a] = "none" /\ ~locked'[a]
  BY <1>4 DEF Button, Timeout, ButtonEnds, Lock, Unlock
<1>7. QueueTypeOK'
  BY <1>1, <1>5 DEF QueueInv, QueueTypeOK
<1>8. ASSUME NEW b \in Account
      PROVE  /\ \A s \in Request : Acts(s, b)' => other'[b] = "none"
             /\ locked'[b] <=> (other'[b] # "none" \/ \E s \in Request : Acts(s, b)')
  <2>1. CASE b # a
    BY <1>2, <1>3, <1>5, <2>1
  <2>2. CASE b = a
    BY <1>2, <1>3, <1>6, <2>2
  <2> QED
    BY <2>1, <2>2
<1>9. Exclusive'
  BY <1>2, <1>3, <1>8 DEF Exclusive
<1>10. Started'
  BY <1>1 DEF QueueInv, Started, Runs
<1>11. \A s \in Request, b \in Account : ItemsFit(s, b)' <=> ItemsFit(s, b)
  BY <1>1 DEF ItemsFit, Ahead
<1>12. RunFits'
  BY <1>1, <1>11 DEF QueueInv, RunFits, Runs
<1> QED
  BY <1>7, <1>9, <1>10, <1>12 DEF QueueInv

LEMMA QueueStepInv ==
  ASSUME QueueInv, [Next]_vars
  PROVE  QueueInv'
<1>1. ASSUME NEW s \in Request, RunQueue(s) \/ NothingToDo(s) \/ Start(s) \/ Finish(s)
      PROVE  QueueInv'
  BY <1>1, KeepsScan, KeepsStart, KeepsFinish
<1>2. ASSUME NEW s \in Request, NEW a \in Account, Work(s, a)
      PROVE  QueueInv'
  BY <1>2, KeepsEnter, KeepsSkip, KeepsBeginLoop, KeepsSnapshot, KeepsOutOfRange,
     KeepsMarkRunning, KeepsRecord, KeepsLeave DEF Work
<1>3. ASSUME NEW a \in Account, Button(a) \/ Timeout(a) \/ ButtonEnds(a)
      PROVE  QueueInv'
  BY <1>3, KeepsButtons
<1>4. ASSUME UNCHANGED vars PROVE QueueInv'
  BY <1>4 DEF vars, QueueInv, QueueTypeOK, Exclusive, Acts, Started, Runs, RunFits, ItemsFit, Ahead
<1> QED
  BY <1>1, <1>2, <1>3, <1>4 DEF Next


-----------------------------------------------------------------------------
(* The theorems.                                                             *)

LEMMA QueueInvariance == Spec => []QueueInv
<1>1. Init => QueueInv
  BY QueueInitInv
<1>2. QueueInv /\ [Next]_vars => QueueInv'
  BY QueueStepInv
<1> QED
  BY <1>1, <1>2, PTL DEF Spec

LEMMA ExclusiveSuffices == QueueInv => OneActionPerAccount
<1> SUFFICES ASSUME QueueInv, NEW a \in Account
             PROVE  LET runs == {s \in Request : a \in Acting(s)}
                    IN  /\ Cardinality(runs) + (IF other[a] = "none" THEN 0 ELSE 1) <= 1
                        /\ locked[a] <=> (runs # {} \/ other[a] # "none")
  BY DEF QueueInv, OneActionPerAccount
<1> DEFINE runs == {s \in Request : a \in Acting(s)}
<1>1. \A s \in Request : s \in runs <=> Acts(s, a)
  BY DEF Acting, Acts
<1>2. \A r, s \in runs : r = s
  BY <1>1 DEF QueueInv, Exclusive
<1>3. runs # {} => other[a] = "none"
  BY <1>1 DEF QueueInv, Exclusive
<1>4. locked[a] <=> (runs # {} \/ other[a] # "none")
  BY <1>1 DEF QueueInv, Exclusive
<1> HIDE DEF runs
<1>5. CASE runs = {}
  <2>1. Cardinality(runs) = 0
    BY <1>5, FS_EmptySet
  <2> QED
    BY <1>4, <2>1 DEF runs
<1>6. CASE runs # {}
  <2>1. PICK s : runs = {s}
    BY <1>2, <1>6
  <2>2. Cardinality(runs) = 1
    BY <2>1, FS_Singleton
  <2> QED
    BY <1>3, <1>4, <1>6, <2>2 DEF runs
<1> QED
  BY <1>5, <1>6

\* An account is acted on by one at a time, and its task lock is held exactly
\* then: goroutines of overlapping runs, the single task's handler, and the
\* "complete all" pipeline that goes on after its handler has timed out, for any
\* number of accounts and of starts at once.
THEOREM OneActorPerAccount == Spec => []OneActionPerAccount
BY QueueInvariance, ExclusiveSuffices, PTL

\* When no run is on and the last overlapped no other, every item of the queue
\* has been settled: the lock that was held, the account that moved to the other
\* site and the loop by index leave none waiting.
THEOREM EveryItemIsSettled == Spec => []NothingLeftBehind
<1>1. QueueInv => NothingLeftBehind
  BY DEF QueueInv, RunFits, NothingLeftBehind
<1> QED
  BY <1>1, QueueInvariance, PTL

LEMMA SettledStays ==
  ASSUME QueueInv, [Next]_vars, running, running', ~overlapped',
         NEW i \in DOMAIN items, items[i].status \in Settled
  PROVE  items'[i] = items[i]
<1>1. ASSUME NEW s \in Request, RunQueue(s) \/ NothingToDo(s) \/ Finish(s)
      PROVE  items'[i] = items[i]
  BY <1>1 DEF RunQueue, NothingToDo, Finish
<1>2. ASSUME NEW s \in Request, Start(s)
      PROVE  FALSE
  BY <1>2 DEF Start, QueueInv, Started, Runs
<1>3. ASSUME NEW s \in Request, NEW a \in Account, SkipForeign(s, a) \/ SkipAccount(s, a)
      PROVE  items'[i] = items[i]
  <2>1. SkipItems(a) /\ ~overlapped /\ worker[s][a].pc \in {"sem", "skip"}
    BY <1>3 DEF SkipForeign, SkipAccount, At
  <2>2. ItemsFit(s, a)
    BY <2>1, OwnItems
  <2>3. items[i].uid # a
    BY <2>1, <2>2 DEF ItemsFit, Ahead
  <2> QED
    BY <2>1, <2>3, ItemsSkipped
<1>4. ASSUME NEW s \in Request, NEW a \in Account, MarkRunning(s, a) \/ Record(s, a)
      PROVE  items'[i] = items[i]
  <2>1. ~overlapped /\ worker[s][a].pc \in {"mark", "act"}
        /\ \E st \in {"running", "done"} : MarkAt(s, a, st)
    BY <1>4 DEF MarkRunning, Record, At
  <2>2. ItemsFit(s, a)
    BY <2>1, OwnItems
  <2>3. Index(s, a) \in DOMAIN items /\ items[Index(s, a)].uid = a
    BY <2>1, <2>2 DEF ItemsFit, Index
  <2>4. Index(s, a) <= Index(s, a)
    BY <2>3, Facts
  <2>5. items[Index(s, a)].status \notin Settled
    BY <2>1, <2>2, <2>3, <2>4 DEF ItemsFit, Ahead, Index
  <2>6. i # Index(s, a)
    BY <2>5
  <2> QED
    BY <2>1, <2>6, ItemMarked DEF Settled
<1>5. ASSUME NEW s \in Request, NEW a \in Account,
             \/ Enter(s, a) \/ BeginLoop(s, a) \/ Snapshot(s, a) \/ Leave(s, a)
      PROVE  items'[i] = items[i]
  BY <1>5 DEF Enter, BeginLoop, Snapshot, Leave
<1>6. ASSUME NEW s \in Request, NEW a \in Account, OutOfRange(s, a)
      PROVE  FALSE
  BY <1>6 DEF OutOfRange, Crash
<1>7. ASSUME NEW a \in Account, Button(a) \/ Timeout(a) \/ ButtonEnds(a)
      PROVE  items'[i] = items[i]
  BY <1>7 DEF Button, Timeout, ButtonEnds
<1>8. ASSUME UNCHANGED vars PROVE items'[i] = items[i]
  BY <1>8 DEF vars
<1> QED
  BY <1>1, <1>2, <1>3, <1>4, <1>5, <1>6, <1>7, <1>8 DEF Next, Work

\* While a run that overlaps no other is on, an item once settled is never
\* touched again: neither queueSet, which goes by account, nor queueMarkAt,
\* which goes by index, reaches an item that its own goroutine has done with.
THEOREM SettledItemsStay == Spec => EachItemOnce
<1>1. QueueInv /\ [Next]_vars =>
        [running /\ running' /\ ~overlapped' =>
           \A i \in DOMAIN items : items[i].status \in Settled => items'[i] = items[i]]_vars
  BY SettledStays
<1> QED
  BY <1>1, QueueInvariance, PTL DEF Spec, EachItemOnce

=============================================================================
