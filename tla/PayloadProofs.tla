---------------------------- MODULE PayloadProofs ----------------------------
(***************************************************************************)
(* Theorems about the body of a request (Payload) for any messages, any    *)
(* number of calls and results, any choice of tools and any efforts, and    *)
(* that no other body waits to be sent (Exchange).                         *)
(*                                                                         *)
(* repackToolResultBlocks and cleanupOrphanToolCalls are one pass each.    *)
(* What a pass has done after the first n messages is Taken (nothing       *)
(* comes, goes or changes, and what is said stays in its order) and, where *)
(* only interruptions damaged the history, Placed: what is out of the      *)
(* group under way stands together, and the group has its results so far   *)
(* and nothing between them.                                               *)
(***************************************************************************)
EXTENDS Exchange, FiniteSetTheorems, WellFoundedInduction, SequenceTheorems, TLAPS

\* Every set of naturals that is not empty has a least element: among the finite
\* sets of its elements up to a bound, one has no smaller one within.
LEMMA LeastNumber ==
  ASSUME NEW S, S \subseteq Nat, S # {}
  PROVE  \E x \in S : \A y \in S : x <= y
<1> DEFINE below(k) == {m \in S : m <= k}
           T == {below(k) : k \in S}
<1>1. T \subseteq FiniteSubsetsOf(Nat)
  <2>1. ASSUME NEW k \in S PROVE below(k) \in FiniteSubsetsOf(Nat)
    <3>1. below(k) \in SUBSET Nat /\ \A m \in below(k) : m <= k
      OBVIOUS
    <3>2. k \in Nat
      OBVIOUS
    <3> HIDE DEF below
    <3> QED
      BY <3>1, <3>2, FS_BoundedSetOfNaturals DEF FiniteSubsetsOf
  <2> QED
    BY <2>1
<1>2. T # {}
  OBVIOUS
<1>3. PICK x \in T : \A y \in T : ~ (<<y, x>> \in StrictSubsetOrdering(Nat))
  <2> HIDE DEF T
  <2> QED
    BY <1>1, <1>2, FS_StrictSubsetOrderingWellFounded, WFMin
<1>4. PICK k \in S : x = below(k)
  BY <1>3
<1>5. ASSUME NEW y \in S, ~(k <= y) PROVE FALSE
  <2>1. y \in Nat /\ k \in Nat
    OBVIOUS
  <2>2. \A m \in Nat : m <= y => m <= k
    BY <1>5, <2>1
  <2>3. below(y) \in T /\ below(y) \subseteq below(k)
    BY <2>2
  <2>4. k \in below(k) /\ k \notin below(y)
    BY <1>5, <2>1
  <2> HIDE DEF below, T
  <2>5. below(y) \in SUBSET Nat /\ x \in SUBSET Nat
    BY <1>1, <2>3 DEF FiniteSubsetsOf
  <2> QED
    BY <1>3, <1>4, <2>3, <2>4, <2>5 DEF StrictSubsetOrdering
<1> QED
  BY <1>5

-----------------------------------------------------------------------------
(* Passes over sequences. The laws of folds in the libraries take the       *)
(* operator as a parameter, which the provers cannot instantiate; here it   *)
(* is a value which of the passes is meant, so that the laws are proved     *)
(* once.                                                                    *)

Step(which, K, r, x) ==
  CASE which = "those" -> IF x \in K THEN Append(r, x) ELSE r
    [] which = "repack" -> Repack1(r, x)
    [] which = "line" -> MergeLine(r, x)
    [] which = "call" -> MergeToolCall(r, x)
Passed(which, K, base, s) == FoldLeft(LAMBDA r, x : Step(which, K, r, x), base, s)

\* A set of sequences that has the empty one, and with each sequence the longer ones, has all.
LEMMA GrowingSeq ==
  ASSUME NEW S, NEW G, <<>> \in G, \A s \in Seq(S) : s \in G => \A x \in S : Append(s, x) \in G
  PROVE  Seq(S) \subseteq G
<1> DEFINE bad == {Len(s) : s \in Seq(S) \ G}
<1> SUFFICES ASSUME bad # {} PROVE FALSE
  OBVIOUS
<1>1. bad \subseteq Nat
  OBVIOUS
<1>2. PICK s \in Seq(S) \ G : \A t \in Seq(S) \ G : Len(s) <= Len(t)
  <2>1. PICK n \in bad : \A m \in bad : n <= m
    <3> HIDE DEF bad
    <3> QED
      BY <1>1, LeastNumber
  <2> QED
    BY <2>1
<1>3. PICK t \in Seq(S), x \in S : s = Append(t, x)
  BY <1>2, SequenceEmptyOrAppend
<1>4. Len(t) < Len(s)
  BY <1>3, AppendProperties
<1>5. t \in G
  BY <1>2, <1>4
<1> QED
  BY <1>2, <1>3, <1>5

\* The greatest of some of the first numbers.
LEMMA MaxOfFirst ==
  ASSUME NEW n \in Nat, NEW d \in SUBSET (0 .. n), d # {}
  PROVE  /\ Max(d) \in d /\ \A i \in d : i <= Max(d)
         /\ n \in d => Max(d) = n
<1> DEFINE bounds == {m \in 0 .. n : \A i \in d : i <= m}
<1>1. bounds \subseteq Nat /\ n \in bounds
  OBVIOUS
<1>2. PICK m \in bounds : \A k \in bounds : m <= k
  BY <1>1, LeastNumber
<1>3. m \in d
  <2>1. CASE m \notin d
    <3>1. \A i \in d : i <= m - 1
      BY <1>2, <2>1
    <3>2. PICK i \in d : TRUE
      OBVIOUS
    <3>3. m - 1 \in bounds
      BY <1>2, <3>1, <3>2
    <3> QED
      BY <1>2, <3>3
  <2> QED
    BY <2>1
<1>4. \E x \in d : \A y \in d : x >= y
  BY <1>2, <1>3
<1>5. Max(d) \in d /\ \A i \in d : Max(d) >= i
  BY <1>4 DEF Max
<1>6. n \in d => Max(d) >= n /\ Max(d) \in 0 .. n
  BY <1>5
<1> QED
  BY <1>5, <1>6

\* What agrees on nothing, and on a step further wherever it agrees, agrees throughout.
LEMMA AgreeThroughout ==
  ASSUME NEW f, NEW g, NEW n \in Nat, f[{}] = g[{}],
         \A k \in 1 .. n : f[1 .. k - 1] = g[1 .. k - 1] => f[1 .. k] = g[1 .. k]
  PROVE  f[1 .. n] = g[1 .. n]
<1> DEFINE bad == {i \in 0 .. n : f[1 .. i] # g[1 .. i]}
<1> SUFFICES ASSUME bad # {} PROVE FALSE
  OBVIOUS
<1>1. PICK i \in bad : \A j \in bad : i <= j
  <2>1. bad \subseteq Nat
    OBVIOUS
  <2> HIDE DEF bad
  <2> QED
    BY <2>1, LeastNumber
<1>2. i # 0
  <2>1. 1 .. 0 = {}
    OBVIOUS
  <2> QED
    BY <1>1, <2>1
<1>3. i - 1 \in 0 .. n /\ i - 1 \notin bad /\ i \in 1 .. n
  BY <1>1, <1>2
<1> QED
  BY <1>1, <1>3

LEMMA PassLaw ==
  ASSUME NEW S, NEW which, NEW K, NEW base
  PROVE  \A s \in Seq(S), x \in S : Passed(which, K, base, Append(s, x)) = Step(which, K, Passed(which, K, base, s), x)
<1> DEFINE Op(r, x) == Step(which, K, r, x)
           F(s) == Passed(which, K, base, s)
           Sol(s, f) == f = [d \in SUBSET DOMAIN s |-> IF d = {} THEN base ELSE Op(f[d \ {Max(d)}], s[Max(d)])]
           Fold(s) == CHOOSE f : Sol(s, f)
           G == {s \in Seq(S) : \E f : Sol(s, f)}
<1>1. \A s : F(s) = Fold(s)[DOMAIN s]
  BY DEF Passed, FoldLeft, MapThenFoldSet
<1> HIDE DEF Op, F
<1>2. <<>> \in G
  <2>1. Sol(<<>>, [d \in SUBSET DOMAIN <<>> |-> base])
    OBVIOUS
  <2> QED
    BY <2>1
<1>3. ASSUME NEW s \in Seq(S), NEW x \in S, NEW f, Sol(s, f) PROVE \E g : Sol(Append(s, x), g)
  <2> DEFINE n == Len(s) + 1
             t == Append(s, x)
             g == [d \in SUBSET DOMAIN t |-> IF n \in d THEN Op(f[d \ {n}], x) ELSE f[d]]
  <2>1. n \in Nat /\ DOMAIN s = 1 .. n - 1 /\ DOMAIN t = 1 .. n /\ t[n] = x
             /\ \A i \in 1 .. n - 1 : t[i] = s[i]
    BY AppendProperties
  <2>2. ASSUME NEW d \in SUBSET DOMAIN t
        PROVE  g[d] = IF d = {} THEN base ELSE Op(g[d \ {Max(d)}], t[Max(d)])
    <3> HIDE DEF n, t
    <3>1. CASE d = {}
      BY <1>3, <2>1, <3>1
    <3>2. CASE d # {} /\ n \notin d
      <4>1. d \in SUBSET (1 .. n - 1) /\ n - 1 \in Nat
        BY <2>1, <3>2
      <4>2. Max(d) \in d
        BY <3>2, <4>1, MaxOfFirst
      <4>3. d \ {Max(d)} \in SUBSET DOMAIN t /\ n \notin d \ {Max(d)} /\ t[Max(d)] = s[Max(d)]
        BY <2>1, <3>2, <4>1, <4>2
      <4>4. f[d] = Op(f[d \ {Max(d)}], s[Max(d)])
        BY <1>3, <2>1, <3>2, <4>1
      <4> QED
        BY <3>2, <4>3, <4>4
    <3>3. CASE n \in d
      <4>1. Max(d) = n
        BY <2>1, <3>3, MaxOfFirst
      <4>2. d \ {n} \in SUBSET DOMAIN t /\ n \notin d \ {n}
        OBVIOUS
      <4> QED
        BY <2>1, <3>3, <4>1, <4>2
    <3> QED
      BY <3>1, <3>2, <3>3
  <2>3. g = [d \in SUBSET DOMAIN t |-> g[d]]
    OBVIOUS
  <2>4. Sol(t, g)
    BY <2>2, <2>3
  <2> QED
    BY <2>4
<1>4. \A s \in Seq(S) : Sol(s, Fold(s))
  <2> HIDE DEF Sol
  <2>1. \A s \in Seq(S) : s \in G => \A x \in S : Append(s, x) \in G
    BY <1>3
  <2>2. Seq(S) \subseteq G
    <3> HIDE DEF G
    <3> QED
      BY <1>2, <2>1, GrowingSeq
  <2> QED
    BY <2>2
<1> HIDE DEF Fold, G
<1>5. ASSUME NEW s \in Seq(S)
      PROVE  /\ Fold(s)[{}] = base
             /\ \A k \in 1 .. Len(s) : Fold(s)[1 .. k] = Op(Fold(s)[1 .. k - 1], s[k])
  <2>1. ASSUME NEW d \in SUBSET (1 .. Len(s))
        PROVE  Fold(s)[d] = IF d = {} THEN base ELSE Op(Fold(s)[d \ {Max(d)}], s[Max(d)])
    <3>1. Sol(s, Fold(s))
      <4> HIDE DEF Sol
      <4> QED
        BY <1>4
    <3>2. d \in SUBSET DOMAIN s
      OBVIOUS
    <3> QED
      BY <3>1, <3>2
  <2>2. ASSUME NEW k \in 1 .. Len(s) PROVE Fold(s)[1 .. k] = Op(Fold(s)[1 .. k - 1], s[k])
    <3>1. k \in 1 .. k /\ k \in Nat /\ 1 .. k \in SUBSET (0 .. k)
      OBVIOUS
    <3>2. 1 .. k \in SUBSET (1 .. Len(s))
      OBVIOUS
    <3>3. Max(1 .. k) = k
      BY <3>1, MaxOfFirst
    <3>4. (1 .. k) \ {k} = 1 .. k - 1
      OBVIOUS
    <3> HIDE DEF Sol
    <3> QED
      BY <2>1, <3>1, <3>2, <3>3, <3>4
  <2>3. Fold(s)[{}] = base
    BY <2>1
  <2> QED
    BY <2>2, <2>3
<1> HIDE DEF Sol
<1>6. ASSUME NEW s \in Seq(S), NEW x \in S PROVE F(Append(s, x)) = Op(F(s), x)
  <2> DEFINE n == Len(s)
             t == Append(s, x)
  <2>1. /\ t \in Seq(S) /\ Len(t) = n + 1 /\ n \in Nat /\ t[n + 1] = x /\ \A i \in 1 .. n : t[i] = s[i]
        /\ DOMAIN t = 1 .. n + 1 /\ DOMAIN s = 1 .. n
    BY AppendProperties
  <2> HIDE DEF n, t
  <2>2. /\ Fold(s)[{}] = base /\ Fold(t)[{}] = base
        /\ \A k \in 1 .. n : Fold(s)[1 .. k] = Op(Fold(s)[1 .. k - 1], s[k])
        /\ \A k \in 1 .. n + 1 : Fold(t)[1 .. k] = Op(Fold(t)[1 .. k - 1], t[k])
    BY <1>5, <2>1 DEF n
  <2>3. Fold(t)[1 .. n] = Fold(s)[1 .. n]
    <3>0. n \in Nat /\ Fold(t)[{}] = Fold(s)[{}]
      BY <2>1, <2>2
    <3>1. \A k \in 1 .. n : Fold(t)[1 .. k - 1] = Fold(s)[1 .. k - 1]
               => Fold(t)[1 .. k] = Fold(s)[1 .. k]
      BY <2>1, <2>2
    <3> QED
      BY <3>0, <3>1, AgreeThroughout
  <2>4. F(t) = Op(Fold(t)[1 .. n], x)
    <3>1. n + 1 \in 1 .. n + 1 /\ (n + 1) - 1 = n
      BY <2>1
    <3>2. Fold(t)[1 .. n + 1] = Op(Fold(t)[1 .. n], x)
      BY <2>1, <2>2, <3>1
    <3> QED
      BY <1>1, <2>1, <3>2
  <2> QED
    BY <1>1, <2>1, <2>3, <2>4 DEF t
<1> QED
  BY <1>6 DEF Op, F

LEMMA PassedOfNone == \A which, K, base : Passed(which, K, base, <<>>) = base
<1> SUFFICES ASSUME NEW which, NEW K, NEW base PROVE Passed(which, K, base, <<>>) = base
  OBVIOUS
<1> DEFINE b(f, d) == Step(which, K, f[d \ {Max(d)}], <<>>[Max(d)])
           P(f) == f = [d \in SUBSET DOMAIN <<>> |-> IF d = {} THEN base ELSE b(f, d)]
<1>1. Passed(which, K, base, <<>>) = (CHOOSE f : P(f))[DOMAIN <<>>]
  BY DEF Passed, FoldLeft, MapThenFoldSet
<1>2. P([d \in SUBSET DOMAIN <<>> |-> base])
  OBVIOUS
<1>3. \A f : P(f) => f[DOMAIN <<>>] = base
  OBVIOUS
<1> HIDE DEF P
<1> QED
  BY <1>1, <1>2, <1>3

LEMMA PassedFurther ==
  ASSUME NEW S, NEW which, NEW K, NEW base, NEW s \in Seq(S), NEW x \in S
  PROVE  Passed(which, K, base, Append(s, x)) = Step(which, K, Passed(which, K, base, s), x)
BY PassLaw

LEMMA ThoseIsPass == ASSUME NEW s, NEW K PROVE Those(s, K) = Passed("those", K, <<>>, s)
<1> DEFINE a(f, d) == IF s[Max(d)] \in K THEN Append(f[d \ {Max(d)}], s[Max(d)]) ELSE f[d \ {Max(d)}]
           b(f, d) == Step("those", K, f[d \ {Max(d)}], s[Max(d)])
           P(f) == f = [d \in SUBSET DOMAIN s |-> IF d = {} THEN <<>> ELSE a(f, d)]
           Q(f) == f = [d \in SUBSET DOMAIN s |-> IF d = {} THEN <<>> ELSE b(f, d)]
<1>1. \A f, d : a(f, d) = b(f, d)
  BY DEF Step
<1>2. Those(s, K) = (CHOOSE f : P(f))[DOMAIN s]
  BY DEF Those, FoldLeft, MapThenFoldSet
<1>3. Passed("those", K, <<>>, s) = (CHOOSE f : Q(f))[DOMAIN s]
  BY DEF Passed, FoldLeft, MapThenFoldSet
<1> HIDE DEF a, b
<1>4. \A f : P(f) <=> Q(f)
  BY <1>1
<1> HIDE DEF P, Q
<1> QED
  BY <1>2, <1>3, <1>4

LEMMA RepackIsPass ==
  ASSUME NEW s
  PROVE  FoldLeft(Repack1, NoGroup, s) = Passed("repack", {}, NoGroup, s)
<1> DEFINE a(f, d) == Repack1(f[d \ {Max(d)}], s[Max(d)])
           b(f, d) == Step("repack", {}, f[d \ {Max(d)}], s[Max(d)])
           P(f) == f = [d \in SUBSET DOMAIN s |-> IF d = {} THEN NoGroup ELSE a(f, d)]
           Q(f) == f = [d \in SUBSET DOMAIN s |-> IF d = {} THEN NoGroup ELSE b(f, d)]
<1>1. \A f, d : a(f, d) = b(f, d)
  BY DEF Step
<1>2. FoldLeft(Repack1, NoGroup, s) = (CHOOSE f : P(f))[DOMAIN s]
  BY DEF FoldLeft, MapThenFoldSet
<1>3. Passed("repack", {}, NoGroup, s) = (CHOOSE f : Q(f))[DOMAIN s]
  BY DEF Passed, FoldLeft, MapThenFoldSet
<1> HIDE DEF a, b
<1>4. \A f : P(f) <=> Q(f)
  BY <1>1
<1> HIDE DEF P, Q
<1> QED
  BY <1>2, <1>3, <1>4

-----------------------------------------------------------------------------
(* Sequences with an element more. *)

LEMMA RangeFurther ==
  ASSUME NEW S, NEW s \in Seq(S), NEW x \in S
  PROVE  Range(Append(s, x)) = Range(s) \cup {x}
<1> DEFINE t == Append(s, x)
<1>1. DOMAIN s = 1 .. Len(s) /\ DOMAIN t = 1 .. Len(s) + 1 /\ Len(s) \in Nat
  BY AppendProperties
<1>2. t[Len(s) + 1] = x /\ \A i \in 1 .. Len(s) : t[i] = s[i]
  BY AppendProperties
<1> HIDE DEF t
<1>3. Range(t) = Range(s) \cup {x}
  BY <1>1, <1>2 DEF Range
<1> QED
  BY <1>3 DEF t

LEMMA InjectiveFurther ==
  ASSUME NEW S, NEW s \in Seq(S), NEW x \in S
  PROVE  IsInjective(Append(s, x)) <=> IsInjective(s) /\ x \notin Range(s)
<1> DEFINE t == Append(s, x)
<1>1. DOMAIN s = 1 .. Len(s) /\ DOMAIN t = 1 .. Len(s) + 1 /\ Len(s) \in Nat
  BY AppendProperties
<1>2. t[Len(s) + 1] = x /\ \A i \in 1 .. Len(s) : t[i] = s[i]
  BY AppendProperties
<1> HIDE DEF t
<1>3. IsInjective(t) <=> IsInjective(s) /\ x \notin Range(s)
  BY <1>1, <1>2 DEF Range, IsInjective
<1> QED
  BY <1>3 DEF t

LEMMA ConcatFurther ==
  ASSUME NEW S, NEW s \in Seq(S), NEW t \in Seq(S), NEW x \in S
  PROVE  s \o Append(t, x) = Append(s \o t, x)
<1>1. <<x>> \in Seq(S) /\ s \o t \in Seq(S)
  BY ConcatProperties
<1>2. Append(t, x) = t \o <<x>> /\ Append(s \o t, x) = (s \o t) \o <<x>>
  BY <1>1, AppendIsConcat
<1> QED
  BY <1>1, <1>2, ConcatAssociative

-----------------------------------------------------------------------------
(* Those of a sequence. *)

LEMMA ThoseOfNone == \A K : Those(<<>>, K) = <<>>
<1>1. \A s, K : Those(s, K) = Passed("those", K, <<>>, s)
  BY ThoseIsPass
<1> QED
  BY <1>1, PassedOfNone

LEMMA ThoseFurther ==
  ASSUME NEW S, NEW K, NEW s \in Seq(S), NEW x \in S
  PROVE  Those(Append(s, x), K) = IF x \in K THEN Append(Those(s, K), x) ELSE Those(s, K)
<1>1. \A t : Those(t, K) = Passed("those", K, <<>>, t)
  BY ThoseIsPass
<1>2. \A r : Step("those", K, r, x) = IF x \in K THEN Append(r, x) ELSE r
  BY DEF Step
<1>3. Passed("those", K, <<>>, Append(s, x)) = Step("those", K, Passed("those", K, <<>>, s), x)
  BY PassedFurther
<1> QED
  BY <1>1, <1>2, <1>3

\* What is kept, and in which order: an enumeration without repetitions stays one.
LEMMA ThoseKept ==
  ASSUME NEW S, NEW K
  PROVE  \A s \in Seq(S) :
           /\ Those(s, K) \in Seq(S)
           /\ Range(Those(s, K)) = Range(s) \cap K
           /\ IsInjective(s) => IsInjective(Those(s, K))
<1> DEFINE Fits(s) == /\ Those(s, K) \in Seq(S)
                      /\ Range(Those(s, K)) = Range(s) \cap K
                      /\ IsInjective(s) => IsInjective(Those(s, K))
           G == {s \in Seq(S) : Fits(s)}
<1>1. Fits(<<>>)
  <2>1. Those(<<>>, K) = <<>> /\ <<>> \in Seq(S) /\ Range(<<>>) = {} /\ IsInjective(<<>>)
    BY ThoseOfNone DEF Range, IsInjective
  <2> QED
    BY <2>1
<1>2. ASSUME NEW s \in Seq(S), Fits(s), NEW x \in S PROVE Fits(Append(s, x))
  <2> DEFINE t == Append(s, x)
             u == Those(s, K)
             v == Append(u, x)
  <2>1. t \in Seq(S) /\ u \in Seq(S) /\ v \in Seq(S) /\ Those(t, K) = IF x \in K THEN v ELSE u
    <3>1. Those(t, K) = IF x \in K THEN v ELSE u
      BY ThoseFurther
    <3> QED
      BY <1>2, <3>1, AppendProperties
  <2>2. Range(t) = Range(s) \cup {x} /\ Range(v) = Range(u) \cup {x}
    BY <2>1, RangeFurther
  <2>3. IsInjective(t) => IsInjective(s) /\ x \notin Range(s)
    BY InjectiveFurther
  <2>4. IsInjective(u) /\ x \notin Range(u) => IsInjective(v)
    BY <2>1, InjectiveFurther
  <2> QED
    BY <1>2, <2>1, <2>2, <2>3, <2>4
<1>3. Seq(S) \subseteq G
  <2>1. <<>> \in G /\ \A s \in Seq(S) : s \in G => \A x \in S : Append(s, x) \in G
    <3> HIDE DEF Fits
    <3> QED
      BY <1>1, <1>2, AppendProperties
  <2> HIDE DEF G
  <2> QED
    BY <2>1, GrowingSeq
<1> QED
  BY <1>3

\* Only whether the elements of the sequence are meant matters.
LEMMA ThoseSame ==
  ASSUME NEW S, NEW K, NEW L
  PROVE  \A s \in Seq(S) : (\A x \in Range(s) : x \in K <=> x \in L) => Those(s, K) = Those(s, L)
<1> DEFINE Fits(s) == (\A x \in Range(s) : x \in K <=> x \in L) => Those(s, K) = Those(s, L)
           G == {s \in Seq(S) : Fits(s)}
<1>1. Fits(<<>>)
  BY ThoseOfNone
<1>2. ASSUME NEW s \in Seq(S), Fits(s), NEW x \in S PROVE Fits(Append(s, x))
  <2>1. Range(Append(s, x)) = Range(s) \cup {x}
    BY RangeFurther
  <2>2. /\ Those(Append(s, x), K) = IF x \in K THEN Append(Those(s, K), x) ELSE Those(s, K)
        /\ Those(Append(s, x), L) = IF x \in L THEN Append(Those(s, L), x) ELSE Those(s, L)
    BY ThoseFurther
  <2> QED
    BY <1>2, <2>1, <2>2
<1>3. Seq(S) \subseteq G
  <2>1. <<>> \in G /\ \A s \in Seq(S) : s \in G => \A x \in S : Append(s, x) \in G
    <3> HIDE DEF Fits
    <3> QED
      BY <1>1, <1>2, AppendProperties
  <2> HIDE DEF G
  <2> QED
    BY <2>1, GrowingSeq
<1> QED
  BY <1>3

LEMMA ThoseConcat ==
  ASSUME NEW S, NEW K, NEW s \in Seq(S)
  PROVE  \A t \in Seq(S) : Those(s \o t, K) = Those(s, K) \o Those(t, K)
<1> DEFINE Fits(t) == Those(s \o t, K) = Those(s, K) \o Those(t, K)
           G == {t \in Seq(S) : Fits(t)}
<1>1. Fits(<<>>)
  BY ThoseOfNone, ThoseKept, ConcatEmptySeq
<1>2. ASSUME NEW t \in Seq(S), Fits(t), NEW x \in S PROVE Fits(Append(t, x))
  <2>1. s \o Append(t, x) = Append(s \o t, x) /\ s \o t \in Seq(S)
    BY ConcatFurther, ConcatProperties
  <2>2. Those(s, K) \o Append(Those(t, K), x) = Append(Those(s, K) \o Those(t, K), x)
    BY ConcatFurther, ThoseKept
  <2>3. Those(Append(s \o t, x), K) = IF x \in K THEN Append(Those(s \o t, K), x) ELSE Those(s \o t, K)
    <3> DEFINE u == s \o t
    <3>1. u \in Seq(S)
      BY <2>1
    <3> HIDE DEF u
    <3>2. Those(Append(u, x), K) = IF x \in K THEN Append(Those(u, K), x) ELSE Those(u, K)
      BY <3>1, ThoseFurther
    <3> QED
      BY <3>2 DEF u
  <2>4. Those(Append(t, x), K) = IF x \in K THEN Append(Those(t, K), x) ELSE Those(t, K)
    BY ThoseFurther
  <2> QED
    BY <1>2, <2>1, <2>2, <2>3, <2>4
<1>3. Seq(S) \subseteq G
  <2>1. <<>> \in G /\ \A t \in Seq(S) : t \in G => \A x \in S : Append(t, x) \in G
    <3> HIDE DEF Fits
    <3> QED
      BY <1>1, <1>2, AppendProperties
  <2> HIDE DEF G
  <2> QED
    BY <2>1, GrowingSeq
<1> QED
  BY <1>3

-----------------------------------------------------------------------------
(* Messages, cleaned and spoken. *)

LEMMA GrowingHistory ==
  ASSUME NEW G, <<>> \in G, \A X \in Seq(Message) : X \in G => \A m \in Message : Append(X, m) \in G
  PROVE  Seq(Message) \subseteq G
BY GrowingSeq

\* Two sequences of as many elements that agree at each place are one.
LEMMA SameSeq ==
  ASSUME NEW S, NEW s \in Seq(S), NEW t \in Seq(S), Len(s) = Len(t), \A i \in 1 .. Len(s) : s[i] = t[i]
  PROVE  s = t
BY SeqEqual

Bare(m) == [NormalizeRole(m) EXCEPT !.calls = <<>>]
Spoken == {m \in Message : m.role # "tool"}
Normal(X) == [i \in DOMAIN X |-> NormalizeRole(X[i])]
Trim(m, keep) == [m EXCEPT !.calls = Those(@, keep)]
Trimmed(X, keep) == [i \in DOMAIN X |-> Trim(X[i], keep)]
Kept(keep) == {m \in Message : m.role = "tool" => m.id \in keep}
Clean(X, keep) == Those(Trimmed(X, keep), Kept(keep))

LEMMA MessageFields ==
  ASSUME NEW m \in Message
  PROVE  /\ m.role \in Roles /\ m.calls \in Seq(STRING) /\ m.id \in STRING
         /\ m.role # "assistant" => m.calls = <<>>
         /\ m = [role |-> m.role, calls |-> m.calls, id |-> m.id]
BY DEF Message

LEMMA MessageMade ==
  ASSUME NEW r \in Roles, NEW c \in Seq(STRING), NEW i \in STRING, r # "assistant" => c = <<>>
  PROVE  [role |-> r, calls |-> c, id |-> i] \in Message
BY DEF Message

LEMMA BareOne ==
  ASSUME NEW m \in Message
  PROVE  /\ Bare(m) \in Message
         /\ NormalizeRole(m) \in Message
         /\ NormalizeRole(m).role = "tool" <=> m.role = "tool"
         /\ Bare(NormalizeRole(m)) = Bare(m)
<1> DEFINE n == NormalizeRole(m)
           r == IF m.role = "developer" THEN "system" ELSE m.role
<1>1. /\ <<>> \in Seq(STRING) /\ m.role \in Roles /\ m.calls \in Seq(STRING) /\ m.id \in STRING
      /\ m.role # "assistant" => m.calls = <<>>
      /\ m = [role |-> m.role, calls |-> m.calls, id |-> m.id]
  BY MessageFields
<1>2. n = [role |-> r, calls |-> m.calls, id |-> m.id]
  BY <1>1 DEF NormalizeRole
<1>3. r \in Roles /\ (r = "tool" <=> m.role = "tool") /\ r # "developer"
           /\ (r # "assistant" => m.calls = <<>>)
  <2>1. CASE m.role = "developer"
    <3>1. r = "system"
      BY <2>1
    <3>2. m.calls = <<>>
      BY <1>1, <2>1
    <3>3. "system" \in Roles
      BY DEF Roles
    <3>4. m.role # "tool"
      BY <2>1
    <3>5. "system" # "tool" /\ "system" # "developer"
      OBVIOUS
    <3> HIDE DEF r
    <3> QED
      BY <3>1, <3>2, <3>3, <3>4, <3>5
  <2>2. CASE m.role # "developer"
    BY <1>1, <2>2
  <2> QED
    BY <2>1, <2>2
<1> HIDE DEF n, r
<1>4. Bare(m) = [role |-> r, calls |-> <<>>, id |-> m.id]
  BY <1>1, <1>2 DEF Bare, n
<1>5. NormalizeRole(n) = n
  BY <1>2, <1>3 DEF NormalizeRole
<1>6. n \in Message /\ Bare(m) \in Message
  BY <1>1, <1>2, <1>3, <1>4 DEF Message
<1>7. Bare(n) = Bare(m)
  BY <1>5 DEF Bare, n
<1> QED
  BY <1>2, <1>3, <1>6, <1>7 DEF n

LEMMA TrimOne ==
  ASSUME NEW m \in Message, NEW keep
  PROVE  /\ Trim(m, keep) \in Message
         /\ Trim(m, keep).role = m.role /\ Trim(m, keep).id = m.id
         /\ Trim(m, keep).calls = Those(m.calls, keep)
         /\ Range(Trim(m, keep).calls) = Range(m.calls) \cap keep
         /\ m.calls = <<>> => Trim(m, keep) = m
         /\ Bare(Trim(m, keep)) = Bare(m)
<1> DEFINE c == Those(m.calls, keep)
<1>1. c \in Seq(STRING) /\ Range(c) = Range(m.calls) \cap keep
  BY ThoseKept DEF Message
<1>2. m.calls = <<>> => c = <<>>
  BY ThoseOfNone
<1>3. Trim(m, keep) = [role |-> m.role, calls |-> c, id |-> m.id]
  BY DEF Trim, Message
<1> HIDE DEF c
<1>4. Trim(m, keep) \in Message
  BY <1>1, <1>2, <1>3 DEF Message
<1>5. Bare(Trim(m, keep)) = Bare(m)
  BY <1>3 DEF Bare, NormalizeRole, Message
<1>6. m.calls = <<>> => Trim(m, keep) = m
  BY <1>2, <1>3 DEF Message
<1> QED
  BY <1>1, <1>3, <1>4, <1>5, <1>6 DEF c

LEMMA NormalSeq ==
  ASSUME NEW X \in Seq(Message)
  PROVE  /\ Normal(X) \in Seq(Message)
         /\ Len(Normal(X)) = Len(X) /\ DOMAIN Normal(X) = DOMAIN X
         /\ \A i \in 1 .. Len(X) : Normal(X)[i] = NormalizeRole(X[i])
<1>1. \A i \in 1 .. Len(X) : X[i] \in Message /\ NormalizeRole(X[i]) \in Message
  BY BareOne
<1> QED
  BY <1>1 DEF Normal

LEMMA NormalFurther ==
  ASSUME NEW X \in Seq(Message), NEW m \in Message
  PROVE  Normal(Append(X, m)) = Append(Normal(X), NormalizeRole(m))
<1> DEFINE Y == Append(X, m)
           x == NormalizeRole(m)
<1>1. x \in Message /\ Y \in Seq(Message)
  BY BareOne
<1>2. /\ Len(Y) = Len(X) + 1 /\ Y[Len(X) + 1] = m /\ \A i \in 1 .. Len(X) : Y[i] = X[i]
  BY AppendProperties
<1>3. Normal(X) \in Seq(Message) /\ Len(Normal(X)) = Len(X)
           /\ \A i \in 1 .. Len(X) : Normal(X)[i] = NormalizeRole(X[i])
  BY NormalSeq
<1> HIDE DEF Y
<1>4. Normal(Y) \in Seq(Message) /\ Len(Normal(Y)) = Len(Y)
           /\ \A i \in 1 .. Len(Y) : Normal(Y)[i] = NormalizeRole(Y[i])
  BY <1>1, NormalSeq
<1> DEFINE N == Normal(X)
           L == Append(N, x)
<1>5. L \in Seq(Message) /\ Len(L) = Len(N) + 1 /\ L[Len(N) + 1] = x
           /\ \A i \in 1 .. Len(N) : L[i] = N[i]
  BY <1>1, <1>3, AppendProperties
<1> HIDE DEF N, L
<1>6. \A i \in 1 .. Len(Y) : Normal(Y)[i] = L[i]
  <2> SUFFICES ASSUME NEW i \in 1 .. Len(Y) PROVE Normal(Y)[i] = L[i]
    OBVIOUS
  <2>1. Len(X) \in Nat /\ Len(N) = Len(X) /\ Normal(Y)[i] = NormalizeRole(Y[i])
    BY <1>3, <1>4 DEF N
  <2>2. CASE i = Len(X) + 1
    BY <1>2, <1>5, <2>1, <2>2
  <2>3. CASE i \in 1 .. Len(X)
    <3>1. Y[i] = X[i] /\ L[i] = N[i]
      BY <1>2, <1>5, <2>1, <2>3
    <3>2. N[i] = NormalizeRole(X[i])
      BY <1>3, <2>3 DEF N
    <3> QED
      BY <2>1, <3>1, <3>2
  <2> QED
    BY <1>2, <2>1, <2>2, <2>3
<1>7. Len(Normal(Y)) = Len(L)
  <2>1. Len(Normal(Y)) = Len(X) + 1
    BY <1>2, <1>4
  <2>2. Len(N) = Len(X)
    BY <1>3 DEF N
  <2> QED
    BY <1>5, <2>1, <2>2
<1>8. Normal(Y) = L
  BY <1>4, <1>5, <1>6, <1>7, SameSeq
<1> QED
  BY <1>8 DEF L, N, Y

LEMMA TrimmedSeq ==
  ASSUME NEW X \in Seq(Message), NEW keep
  PROVE  /\ Trimmed(X, keep) \in Seq(Message)
         /\ Len(Trimmed(X, keep)) = Len(X) /\ DOMAIN Trimmed(X, keep) = DOMAIN X
         /\ \A i \in 1 .. Len(X) : Trimmed(X, keep)[i] = Trim(X[i], keep)
<1>1. \A i \in 1 .. Len(X) : X[i] \in Message /\ Trim(X[i], keep) \in Message
  BY TrimOne
<1> QED
  BY <1>1 DEF Trimmed

LEMMA TrimmedConcat ==
  ASSUME NEW X \in Seq(Message), NEW Y \in Seq(Message), NEW keep
  PROVE  Trimmed(X \o Y, keep) = Trimmed(X, keep) \o Trimmed(Y, keep)
<1> DEFINE Z == X \o Y
           T == Trimmed(X, keep)
           U == Trimmed(Y, keep)
           V == T \o U
<1>1. Z \in Seq(Message) /\ Len(Z) = Len(X) + Len(Y) /\ \A i \in 1 .. Len(Z) : Z[i] = IF i <= Len(X)
           THEN X[i] ELSE Y[i - Len(X)]
  OBVIOUS
<1>2. /\ T \in Seq(Message) /\ Len(T) = Len(X) /\ \A i \in 1 .. Len(X) : T[i] = Trim(X[i], keep)
      /\ U \in Seq(Message) /\ Len(U) = Len(Y) /\ \A i \in 1 .. Len(Y) : U[i] = Trim(Y[i], keep)
  BY TrimmedSeq
<1> HIDE DEF Z, T, U
<1>3. V \in Seq(Message) /\ Len(V) = Len(T) + Len(U) /\ \A i \in 1 .. Len(V) : V[i] = IF i <= Len(T)
           THEN T[i] ELSE U[i - Len(T)]
  <2>1. T \in Seq(Message) /\ U \in Seq(Message)
    BY <1>2
  <2> QED
    BY <2>1, ConcatProperties
<1> HIDE DEF V
<1>4. Trimmed(Z, keep) \in Seq(Message) /\ Len(Trimmed(Z, keep)) = Len(Z)
           /\ \A i \in 1 .. Len(Z) : Trimmed(Z, keep)[i] = Trim(Z[i], keep)
  BY <1>1, TrimmedSeq
<1>5. Len(X) \in Nat /\ Len(Y) \in Nat
  BY LenProperties
<1>6. \A i \in 1 .. Len(Z) : Trimmed(Z, keep)[i] = V[i]
  <2> SUFFICES ASSUME NEW i \in 1 .. Len(Z) PROVE Trimmed(Z, keep)[i] = V[i]
    OBVIOUS
  <2>1. CASE i <= Len(X)
    <3>1. i \in 1 .. Len(X) /\ i \in 1 .. Len(V) /\ Z[i] = X[i]
      BY <1>1, <1>2, <1>3, <1>5, <2>1
    <3> QED
      BY <1>2, <1>3, <1>4, <2>1, <3>1
  <2>2. CASE ~(i <= Len(X))
    <3>1. i - Len(X) \in 1 .. Len(Y)
      BY <1>1, <1>5, <2>2
    <3> QED
      BY <1>1, <1>2, <1>3, <1>4, <1>5, <2>2, <3>1
  <2> QED
    BY <2>1, <2>2
<1>7. Trimmed(Z, keep) = V
  BY <1>1, <1>2, <1>3, <1>4, <1>6, SameSeq
<1> QED
  BY <1>7 DEF V, T, U, Z

LEMMA CleanConcat ==
  ASSUME NEW X \in Seq(Message), NEW Y \in Seq(Message), NEW keep
  PROVE  Clean(X \o Y, keep) = Clean(X, keep) \o Clean(Y, keep)
<1>1. Trimmed(X, keep) \in Seq(Message) /\ Trimmed(Y, keep) \in Seq(Message)
  BY TrimmedSeq
<1>2. Trimmed(X \o Y, keep) = Trimmed(X, keep) \o Trimmed(Y, keep)
  BY TrimmedConcat
<1> QED
  BY <1>1, <1>2, ThoseConcat DEF Clean

LEMMA CleanOne ==
  ASSUME NEW m \in Message, NEW keep
  PROVE  Clean(<<m>>, keep) = IF m.role = "tool" => m.id \in keep THEN <<Trim(m, keep)>> ELSE <<>>
<1> DEFINE x == Trim(m, keep)
<1>1. x \in Message /\ x.role = m.role /\ x.id = m.id
  BY TrimOne
<1>2. Trimmed(<<m>>, keep) = <<x>>
  BY DEF Trimmed
<1> HIDE DEF x
<1>3. <<x>> = Append(<<>>, x) /\ <<>> \in Seq(Message)
  OBVIOUS
<1>4. Those(Append(<<>>, x), Kept(keep)) = IF x \in Kept(keep) THEN Append(Those(<<>>, Kept(keep)), x)
           ELSE Those(<<>>, Kept(keep))
  <2>1. \A e \in Seq(Message) : Those(Append(e, x), Kept(keep)) = IF x \in Kept(keep)
             THEN Append(Those(e, Kept(keep)), x) ELSE Those(e, Kept(keep))
    BY <1>1, ThoseFurther
  <2> QED
    BY <1>3, <2>1
<1>5. Those(<<>>, Kept(keep)) = <<>>
  BY ThoseOfNone
<1>6. x \in Kept(keep) <=> (m.role = "tool" => m.id \in keep)
  BY <1>1 DEF Kept
<1>7. Clean(<<m>>, keep) = IF x \in Kept(keep) THEN <<x>> ELSE <<>>
  BY <1>2, <1>3, <1>4, <1>5 DEF Clean
<1> QED
  BY <1>6, <1>7 DEF x

LEMMA CleanFurther ==
  ASSUME NEW X \in Seq(Message), NEW m \in Message, NEW keep
  PROVE  Clean(Append(X, m), keep) = IF m.role = "tool" => m.id \in keep
       THEN Append(Clean(X, keep), Trim(m, keep)) ELSE Clean(X, keep)
<1>1. Append(X, m) = X \o <<m>> /\ <<m>> \in Seq(Message)
  BY AppendIsConcat
<1>2. Clean(Append(X, m), keep) = Clean(X, keep) \o Clean(<<m>>, keep)
  <2>1. \A e \in Seq(Message) : Clean(X \o e, keep) = Clean(X, keep) \o Clean(e, keep)
    BY CleanConcat
  <2> QED
    BY <1>1, <2>1
<1>3. Clean(X, keep) \in Seq(Message) /\ Trim(m, keep) \in Message
  BY TrimmedSeq, ThoseKept, TrimOne DEF Clean
<1>4. Clean(X, keep) \o <<Trim(m, keep)>> = Append(Clean(X, keep), Trim(m, keep))
           /\ Clean(X, keep) \o <<>> = Clean(X, keep)
  BY <1>3, AppendIsConcat, ConcatEmptySeq
<1> QED
  BY <1>2, <1>4, CleanOne

LEMMA CleanKept ==
  ASSUME NEW X \in Seq(Message), NEW keep
  PROVE  /\ Clean(X, keep) \in Seq(Message)
         /\ Range(Clean(X, keep)) = {Trim(m, keep) : m \in {x \in Range(X) : x.role = "tool" => x.id \in keep}}
<1>1. /\ Trimmed(X, keep) \in Seq(Message) /\ DOMAIN Trimmed(X, keep) = DOMAIN X
      /\ \A i \in DOMAIN X : Trimmed(X, keep)[i] = Trim(X[i], keep)
  BY TrimmedSeq
<1>2. Clean(X, keep) \in Seq(Message) /\ Range(Clean(X, keep)) = Range(Trimmed(X, keep)) \cap Kept(keep)
  BY <1>1, ThoseKept DEF Clean
<1>3. Range(Trimmed(X, keep)) = {Trim(m, keep) : m \in Range(X)}
  BY <1>1 DEF Range
<1>4. \A m \in Range(X) : m \in Message
           /\ (Trim(m, keep) \in Kept(keep) <=> (m.role = "tool" => m.id \in keep))
  BY TrimOne DEF Range, Kept
<1> QED
  BY <1>2, <1>3, <1>4
-----------------------------------------------------------------------------
(* What is said. *)

LEMMA SpeechIs ==
  ASSUME NEW X \in Seq(Message)
  PROVE  LET u == Those(X, Spoken) IN u \in Seq(Message) /\ Speech(X) = [i \in DOMAIN u |-> Bare(u[i])]
<1> DEFINE K == {m \in Range(X) : m.role # "tool"}
           u == Those(X, Spoken)
<1>1. \A m \in Range(X) : m \in Message
  BY DEF Range
<1>2. \A m \in Range(X) : m \in K <=> m \in Spoken
  BY <1>1 DEF Spoken
<1>3. Those(X, K) = u
  <2> HIDE DEF K
  <2> QED
    BY <1>2, ThoseSame
<1>4. u \in Seq(Message)
  BY ThoseKept
<1> QED
  BY <1>3, <1>4 DEF Speech, Bare

LEMMA SpeechNone == Speech(<<>>) = <<>>
<1>1. <<>> \in Seq(Message) /\ Those(<<>>, Spoken) = <<>>
  BY ThoseOfNone
<1>2. Speech(<<>>) = [i \in DOMAIN <<>> |-> Bare(<<>>[i])]
  <2>1. \A X \in Seq(Message) : LET u == Those(X, Spoken) IN Speech(X) = [i \in DOMAIN u |-> Bare(u[i])]
    BY SpeechIs
  <2> QED
    BY <1>1, <2>1
<1> QED
  BY <1>2

LEMMA SpeechSeq ==
  ASSUME NEW X \in Seq(Message)
  PROVE  Speech(X) \in Seq(Message)
<1> DEFINE u == Those(X, Spoken)
<1>1. u \in Seq(Message) /\ Speech(X) = [i \in DOMAIN u |-> Bare(u[i])]
  BY SpeechIs
<1> HIDE DEF u
<1>2. \A i \in 1 .. Len(u) : u[i] \in Message /\ Bare(u[i]) \in Message
  BY <1>1, BareOne
<1> QED
  BY <1>1, <1>2

LEMMA SpeechFurther ==
  ASSUME NEW X \in Seq(Message), NEW m \in Message
  PROVE  Speech(Append(X, m)) = IF m.role = "tool" THEN Speech(X) ELSE Append(Speech(X), Bare(m))
<1> DEFINE u == Those(X, Spoken)
           Y == Append(X, m)
           v == Those(Y, Spoken)
           w == Append(u, m)
           x == Bare(m)
           T == Speech(X)
           L == Append(T, x)
<1>1. u \in Seq(Message) /\ T = [i \in DOMAIN u |-> Bare(u[i])]
  BY SpeechIs
<1>2. v = IF m \in Spoken THEN w ELSE u
  BY ThoseFurther
<1>3. Y \in Seq(Message) /\ x \in Message /\ T \in Seq(Message)
  BY BareOne, SpeechSeq
<1> HIDE DEF Y
<1>4. v \in Seq(Message) /\ Speech(Y) = [i \in DOMAIN v |-> Bare(v[i])]
  BY <1>3, SpeechIs
<1> HIDE DEF u, v, T, x
<1>5. /\ w \in Seq(Message) /\ Len(w) = Len(u) + 1 /\ w[Len(u) + 1] = m
           /\ \A i \in 1 .. Len(u) : w[i] = u[i]
      /\ DOMAIN w = 1 .. Len(u) + 1 /\ DOMAIN u = 1 .. Len(u) /\ Len(u) \in Nat
  BY <1>1, AppendProperties
<1>6. /\ L \in Seq(Message) /\ Len(L) = Len(T) + 1 /\ L[Len(T) + 1] = x
           /\ \A i \in 1 .. Len(T) : L[i] = T[i]
  BY <1>3, AppendProperties
<1>7. Len(T) = Len(u) /\ \A i \in 1 .. Len(u) : T[i] = Bare(u[i])
  BY <1>1, <1>3, <1>5
<1> HIDE DEF w, L
<1>8. CASE m \in Spoken
  <2>1. Speech(Y) = [i \in 1 .. Len(u) + 1 |-> Bare(w[i])]
    BY <1>2, <1>4, <1>5, <1>8
  <2>2. Speech(Y) \in Seq(Message)
    BY <1>3, SpeechSeq
  <2>3. Len(Speech(Y)) = Len(u) + 1
    BY <1>5, <2>1, <2>2
  <2>4. \A i \in 1 .. Len(u) + 1 : Speech(Y)[i] = L[i]
    <3> SUFFICES ASSUME NEW i \in 1 .. Len(u) + 1 PROVE Speech(Y)[i] = L[i]
      OBVIOUS
    <3>1. CASE i = Len(u) + 1
      BY <1>5, <1>6, <1>7, <2>1, <3>1 DEF x
    <3>2. CASE i \in 1 .. Len(u)
      BY <1>5, <1>6, <1>7, <2>1, <3>2
    <3> QED
      BY <1>5, <3>1, <3>2
  <2>5. Speech(Y) = L
    <3> DEFINE Z == Speech(Y)
    <3> HIDE DEF Z
    <3> QED
      BY <1>6, <1>7, <2>2, <2>3, <2>4, SameSeq DEF Z
  <2> QED
    BY <1>8, <2>5 DEF Spoken, L, T, x, Y
<1>9. CASE m \notin Spoken
  BY <1>1, <1>2, <1>4, <1>9 DEF Spoken, Y, T
<1> QED
  BY <1>8, <1>9

LEMMA SpeechConcat ==
  ASSUME NEW X \in Seq(Message)
  PROVE  \A Y \in Seq(Message) : Speech(X \o Y) = Speech(X) \o Speech(Y)
<1> DEFINE Fits(Y) == Speech(X \o Y) = Speech(X) \o Speech(Y)
           G == {Y \in Seq(Message) : Fits(Y)}
<1>1. Fits(<<>>)
  BY SpeechNone, SpeechSeq, ConcatEmptySeq
<1>2. ASSUME NEW Y \in Seq(Message), Fits(Y), NEW m \in Message PROVE Fits(Append(Y, m))
  <2> DEFINE Z == X \o Y
             x == Bare(m)
  <2>1. X \o Append(Y, m) = Append(Z, m) /\ Z \in Seq(Message)
    BY ConcatFurther, ConcatProperties
  <2>2. Speech(Append(Y, m)) = IF m.role = "tool" THEN Speech(Y) ELSE Append(Speech(Y), x)
    BY SpeechFurther
  <2> HIDE DEF Z
  <2>3. Speech(Append(Z, m)) = IF m.role = "tool" THEN Speech(Z) ELSE Append(Speech(Z), x)
    BY <2>1, SpeechFurther
  <2>4. x \in Message /\ Speech(X) \in Seq(Message) /\ Speech(Y) \in Seq(Message)
    BY BareOne, SpeechSeq
  <2> HIDE DEF x
  <2>5. Speech(X) \o Append(Speech(Y), x) = Append(Speech(X) \o Speech(Y), x)
    BY <2>4, ConcatFurther
  <2>6. Speech(Z) = Speech(X) \o Speech(Y)
    BY <1>2 DEF Z
  <2> QED
    BY <2>1, <2>2, <2>3, <2>5, <2>6
<1>3. Seq(Message) \subseteq G
  <2>1. <<>> \in G /\ \A Y \in Seq(Message) : Y \in G => \A m \in Message : Append(Y, m) \in G
    <3> HIDE DEF Fits
    <3> QED
      BY <1>1, <1>2, AppendProperties
  <2> HIDE DEF G
  <2> QED
    BY <2>1, GrowingHistory
<1> QED
  BY <1>3

LEMMA SpeechOfTools ==
  ASSUME NEW X \in Seq(Message), \A m \in Range(X) : m.role = "tool"
  PROVE  Speech(X) = <<>>
<1> DEFINE u == Those(X, Spoken)
<1>1. u \in Seq(Message) /\ Speech(X) = [i \in DOMAIN u |-> Bare(u[i])]
           /\ Range(u) = Range(X) \cap Spoken
  BY SpeechIs, ThoseKept
<1>2. Range(X) \cap Spoken = {}
  BY DEF Spoken
<1> HIDE DEF u
<1>3. DOMAIN u = 1 .. Len(u) /\ Len(u) \in Nat
  BY <1>1
<1>4. Len(u) = 0
  BY <1>1, <1>2, <1>3 DEF Range
<1>5. DOMAIN u = {}
  BY <1>3, <1>4
<1> QED
  BY <1>1, <1>5

LEMMA SpeechOfClean ==
  ASSUME NEW keep
  PROVE  \A X \in Seq(Message) : Speech(Clean(X, keep)) = Speech(X)
<1> DEFINE Fits(X) == Speech(Clean(X, keep)) = Speech(X)
           G == {X \in Seq(Message) : Fits(X)}
<1>1. Fits(<<>>)
  <2>1. Trimmed(<<>>, keep) = <<>>
    BY DEF Trimmed
  <2> QED
    BY <2>1, ThoseOfNone DEF Clean
<1>2. ASSUME NEW X \in Seq(Message), Fits(X), NEW m \in Message PROVE Fits(Append(X, m))
  <2> DEFINE C == Clean(X, keep)
             x == Trim(m, keep)
  <2>1. Clean(Append(X, m), keep) = IF m.role = "tool" => m.id \in keep THEN Append(C, x) ELSE C
    BY CleanFurther
  <2>2. C \in Seq(Message) /\ x \in Message /\ x.role = m.role /\ Bare(x) = Bare(m)
    BY CleanKept, TrimOne
  <2> HIDE DEF C, x
  <2>3. Speech(Append(C, x)) = IF x.role = "tool" THEN Speech(C) ELSE Append(Speech(C), Bare(x))
    BY <2>2, SpeechFurther
  <2>4. Speech(Append(X, m)) = IF m.role = "tool" THEN Speech(X) ELSE Append(Speech(X), Bare(m))
    BY SpeechFurther
  <2>5. Speech(C) = Speech(X)
    BY <1>2 DEF C
  <2>6. CASE m.role = "tool" /\ m.id \notin keep
    BY <2>1, <2>4, <2>5, <2>6
  <2>7. CASE m.role = "tool" => m.id \in keep
    BY <2>1, <2>2, <2>3, <2>4, <2>5, <2>7
  <2> QED
    BY <2>6, <2>7
<1>3. Seq(Message) \subseteq G
  <2>1. <<>> \in G /\ \A Y \in Seq(Message) : Y \in G => \A m \in Message : Append(Y, m) \in G
    <3> HIDE DEF Fits
    <3> QED
      BY <1>1, <1>2, AppendProperties
  <2> HIDE DEF G
  <2> QED
    BY <2>1, GrowingHistory
<1> QED
  BY <1>3

LEMMA SpeechOfNormal == \A X \in Seq(Message) : Speech(Normal(X)) = Speech(X)
<1> DEFINE Fits(X) == Speech(Normal(X)) = Speech(X)
           G == {X \in Seq(Message) : Fits(X)}
<1>1. Fits(<<>>)
  BY DEF Normal
<1>2. ASSUME NEW X \in Seq(Message), Fits(X), NEW m \in Message PROVE Fits(Append(X, m))
  <2> DEFINE N == Normal(X)
             x == NormalizeRole(m)
  <2>1. Normal(Append(X, m)) = Append(N, x)
    BY NormalFurther
  <2>2. N \in Seq(Message) /\ x \in Message /\ (x.role = "tool" <=> m.role = "tool")
             /\ Bare(x) = Bare(m)
    BY NormalSeq, BareOne
  <2> HIDE DEF N, x
  <2>3. Speech(Append(N, x)) = IF x.role = "tool" THEN Speech(N) ELSE Append(Speech(N), Bare(x))
    BY <2>2, SpeechFurther
  <2>4. Speech(Append(X, m)) = IF m.role = "tool" THEN Speech(X) ELSE Append(Speech(X), Bare(m))
    BY SpeechFurther
  <2>5. Speech(N) = Speech(X)
    BY <1>2 DEF N
  <2> QED
    BY <2>1, <2>2, <2>3, <2>4, <2>5
<1>3. Seq(Message) \subseteq G
  <2>1. <<>> \in G /\ \A Y \in Seq(Message) : Y \in G => \A m \in Message : Append(Y, m) \in G
    <3> HIDE DEF Fits
    <3> QED
      BY <1>1, <1>2, AppendProperties
  <2> HIDE DEF G
  <2> QED
    BY <2>1, GrowingHistory
<1> QED
  BY <1>3

-----------------------------------------------------------------------------
(* Repacked: nothing comes, goes or changes, and what is said stays in its order. *)

Grouping == [out : Seq(Message), results : Seq(Message), between : Seq(Message), open : BOOLEAN, want : SUBSET STRING]

\* What a fold over the history Y holds.
Taken(s, Y) ==
  /\ s \in Grouping
  /\ Range(s.out) \cup Range(s.results) \cup Range(s.between) = Range(Y)
  /\ \A m \in Range(s.results) : m.role = "tool"
  /\ Speech(s.out) \o Speech(s.between) = Speech(Y)
  /\ ~s.open => s.results = <<>> /\ s.between = <<>>

LEMMA GroupingFields ==
  ASSUME NEW s \in Grouping
  PROVE  /\ s.out \in Seq(Message) /\ s.results \in Seq(Message) /\ s.between \in Seq(Message)
         /\ s.open \in BOOLEAN /\ s.want \in SUBSET STRING
BY DEF Grouping

LEMMA Closed ==
  ASSUME NEW s \in Grouping
  PROVE  /\ CloseGroup(s) \in Grouping
         /\ CloseGroup(s).out = s.out \o s.results \o s.between
         /\ CloseGroup(s).results = <<>> /\ CloseGroup(s).between = <<>> /\ CloseGroup(s).open = FALSE
         /\ CloseGroup(s).want = s.want
<1> DEFINE o == s.out \o s.results \o s.between
<1>1. o \in Seq(Message) /\ <<>> \in Seq(Message)
  <2>1. s.out \o s.results \in Seq(Message)
    BY GroupingFields, ConcatProperties
  <2> QED
    BY <2>1, GroupingFields, ConcatProperties
<1>2. CloseGroup(s) = [s EXCEPT !.out = o, !.results = <<>>, !.between = <<>>, !.open = FALSE]
  BY DEF CloseGroup, Grouping
<1> HIDE DEF o
<1>3. CloseGroup(s) = [out |-> o, results |-> <<>>, between |-> <<>>, open |-> FALSE, want |-> s.want]
  BY <1>2 DEF Grouping
<1>4. CloseGroup(s) \in Grouping
  BY <1>1, <1>3, GroupingFields DEF Grouping
<1>5. /\ CloseGroup(s).out = o /\ CloseGroup(s).results = <<>> /\ CloseGroup(s).between = <<>>
      /\ CloseGroup(s).open = FALSE /\ CloseGroup(s).want = s.want
  BY <1>3
<1> QED
  BY <1>4, <1>5 DEF o

LEMMA Opened ==
  ASSUME NEW s \in Grouping, NEW m \in Message
  PROVE  /\ Outside(s, m) \in Grouping
         /\ Outside(s, m).out = Append(s.out, m) /\ Outside(s, m).open = MakesCalls(m)
         /\ Outside(s, m).results = s.results /\ Outside(s, m).between = s.between
         /\ Outside(s, m).want = Range(m.calls) \ {NoId}
<1> DEFINE o == Append(s.out, m)
           w == Range(m.calls) \ {NoId}
           b == MakesCalls(m)
<1>1. o \in Seq(Message) /\ w \in SUBSET STRING /\ b \in BOOLEAN
  <2>1. s.out \in Seq(Message) /\ m.calls \in Seq(STRING)
    BY GroupingFields, MessageFields
  <2>2. w \in SUBSET STRING
    BY <2>1 DEF Range
  <2> QED
    BY <2>1, <2>2, AppendProperties DEF MakesCalls
<1>2. Outside(s, m) = [s EXCEPT !.out = o, !.open = b, !.want = w]
  BY DEF Outside, Grouping
<1> HIDE DEF o, w, b
<1>3. Outside(s, m) = [out |-> o, results |-> s.results, between |-> s.between, open |-> b, want |-> w]
  BY <1>2 DEF Grouping
<1>4. Outside(s, m) \in Grouping
  BY <1>1, <1>3, GroupingFields DEF Grouping
<1> QED
  BY <1>3, <1>4 DEF o, w, b

LEMMA CloseTaken ==
  ASSUME NEW s, NEW Y \in Seq(Message), Taken(s, Y)
  PROVE  Taken(CloseGroup(s), Y)
<1> DEFINE c == CloseGroup(s)
           O == s.out
           R == s.results
           B == s.between
           P == O \o R
<1>1. s \in Grouping /\ O \in Seq(Message) /\ R \in Seq(Message) /\ B \in Seq(Message)
  BY GroupingFields DEF Taken
<1>2. c \in Grouping /\ c.out = P \o B /\ c.results = <<>> /\ c.between = <<>> /\ c.open = FALSE
  BY <1>1, Closed
<1>3. Range(O) \cup Range(R) \cup Range(B) = Range(Y) /\ Speech(O) \o Speech(B) = Speech(Y)
           /\ \A m \in Range(R) : m.role = "tool"
  BY DEF Taken
<1> HIDE DEF c, O, R, B
<1>4. P \in Seq(Message) /\ Range(P) = Range(O) \cup Range(R)
  BY <1>1, ConcatProperties, RangeConcatenation
<1>5. Speech(P) = Speech(O)
  <2>1. Speech(P) = Speech(O) \o Speech(R) /\ Speech(R) = <<>>
    BY <1>1, <1>3, SpeechConcat, SpeechOfTools
  <2> QED
    BY <1>1, <2>1, SpeechSeq, ConcatEmptySeq
<1> HIDE DEF P
<1>6. P \o B \in Seq(Message) /\ Range(P \o B) = Range(P) \cup Range(B)
           /\ Speech(P \o B) = Speech(P) \o Speech(B)
  <2>1. P \o B \in Seq(Message)
    BY <1>1, <1>4, ConcatProperties
  <2>2. Range(P \o B) = Range(P) \cup Range(B)
    BY <1>1, <1>4, RangeConcatenation
  <2> QED
    BY <1>1, <1>4, <2>1, <2>2, SpeechConcat
<1>7. Speech(P \o B) \o <<>> = Speech(P \o B) /\ Range(<<>>) = {}
  BY <1>6, SpeechSeq, ConcatEmptySeq DEF Range
<1>8. Range(c.out) \cup Range(c.results) \cup Range(c.between) = Range(Y)
  BY <1>2, <1>3, <1>4, <1>6, <1>7
<1>9. Speech(c.out) \o Speech(c.between) = Speech(Y)
  BY <1>2, <1>3, <1>5, <1>6, <1>7, SpeechNone
<1>10. \A m \in Range(c.results) : m.role = "tool"
  BY <1>2, <1>7
<1>11. Taken(c, Y)
  BY <1>2, <1>8, <1>9, <1>10 DEF Taken
<1> QED
  BY <1>11 DEF c

LEMMA OpenTaken ==
  ASSUME NEW s, NEW Y \in Seq(Message), NEW m \in Message, Taken(s, Y), s.results = <<>>,
         s.between = <<>>
  PROVE  Taken(Outside(s, m), Append(Y, m))
<1> DEFINE c == Outside(s, m)
           O == s.out
           P == Append(O, m)
<1>1. s \in Grouping /\ O \in Seq(Message)
  BY GroupingFields DEF Taken
<1>2. c \in Grouping /\ c.out = P /\ c.results = <<>> /\ c.between = <<>>
  BY <1>1, Opened
<1>3. Range(<<>>) = {} /\ Speech(<<>>) = <<>>
  BY SpeechNone DEF Range
<1>4. Range(O) = Range(Y) /\ Speech(O) = Speech(Y)
  <2>1. Speech(O) \o <<>> = Speech(O)
    BY <1>1, SpeechSeq, ConcatEmptySeq
  <2> QED
    BY <1>3, <2>1 DEF Taken
<1> HIDE DEF c, O
<1>5. Range(P) = Range(O) \cup {m} /\ Range(Append(Y, m)) = Range(Y) \cup {m}
  BY <1>1, RangeFurther
<1>6. Speech(P) = Speech(Append(Y, m))
  BY <1>1, <1>4, SpeechFurther
<1>7. P \in Seq(Message) /\ Speech(P) \o <<>> = Speech(P)
  BY <1>1, AppendProperties, SpeechSeq, ConcatEmptySeq
<1> HIDE DEF P
<1>8. Taken(c, Append(Y, m))
  BY <1>2, <1>3, <1>4, <1>5, <1>6, <1>7 DEF Taken
<1> QED
  BY <1>8 DEF c

LEMMA ResultTaken ==
  ASSUME NEW s, NEW Y \in Seq(Message), NEW m \in Message, Taken(s, Y), s.open, m.role = "tool"
  PROVE  Taken([s EXCEPT !.results = Append(@, m)], Append(Y, m))
<1> DEFINE R == s.results
           Q == Append(R, m)
           c == [s EXCEPT !.results = Q]
<1>1. s \in Grouping /\ R \in Seq(Message)
  BY GroupingFields DEF Taken
<1>2. Q \in Seq(Message) /\ Range(Q) = Range(R) \cup {m} /\ Range(Append(Y, m)) = Range(Y) \cup {m}
  BY <1>1, RangeFurther, AppendProperties
<1>3. Speech(Append(Y, m)) = Speech(Y)
  BY SpeechFurther
<1> HIDE DEF Q, R
<1>4. c \in Grouping /\ c.out = s.out /\ c.results = Q /\ c.between = s.between /\ c.open = s.open
  BY <1>1, <1>2 DEF Grouping
<1> HIDE DEF c
<1>5. Taken(c, Append(Y, m))
  BY <1>2, <1>3, <1>4 DEF Taken, R
<1> QED
  BY <1>5 DEF c, Q, R

LEMMA BetweenTaken ==
  ASSUME NEW s, NEW Y \in Seq(Message), NEW m \in Message, Taken(s, Y), s.open, m.role # "tool"
  PROVE  Taken([s EXCEPT !.between = Append(@, m)], Append(Y, m))
<1> DEFINE B == s.between
           Q == Append(B, m)
           c == [s EXCEPT !.between = Q]
<1>1. s \in Grouping /\ B \in Seq(Message) /\ s.out \in Seq(Message)
  BY GroupingFields DEF Taken
<1>2. Q \in Seq(Message) /\ Range(Q) = Range(B) \cup {m} /\ Range(Append(Y, m)) = Range(Y) \cup {m}
  BY <1>1, RangeFurther, AppendProperties
<1>3. Speech(Append(Y, m)) = Append(Speech(Y), Bare(m)) /\ Speech(Q) = Append(Speech(B), Bare(m))
  BY <1>1, SpeechFurther
<1>4. Bare(m) \in Message /\ Speech(s.out) \in Seq(Message) /\ Speech(B) \in Seq(Message)
  BY <1>1, BareOne, SpeechSeq
<1>5. Speech(s.out) \o Append(Speech(B), Bare(m)) = Append(Speech(s.out) \o Speech(B), Bare(m))
  BY <1>4, ConcatFurther
<1> HIDE DEF Q, B
<1>6. c \in Grouping /\ c.out = s.out /\ c.results = s.results /\ c.between = Q /\ c.open = s.open
  BY <1>1, <1>2 DEF Grouping
<1> HIDE DEF c
<1>7. Speech(c.out) \o Speech(c.between) = Speech(Append(Y, m))
  BY <1>3, <1>5, <1>6 DEF Taken, B
<1>8. Taken(c, Append(Y, m))
  BY <1>2, <1>6, <1>7 DEF Taken, B
<1> QED
  BY <1>8 DEF c, Q, B

LEMMA NextTaken ==
  ASSUME NEW s, NEW Y \in Seq(Message), NEW m \in Message, Taken(s, Y)
  PROVE  Taken(Repack1(s, m), Append(Y, m))
<1> DEFINE c == CloseGroup(s)
<1>1. s \in Grouping
  BY DEF Taken
<1>2. Taken(Outside(c, m), Append(Y, m))
  <2>1. Taken(c, Y) /\ c.results = <<>> /\ c.between = <<>>
    BY <1>1, CloseTaken, Closed
  <2> HIDE DEF c
  <2> QED
    BY <2>1, OpenTaken
<1>3. CASE ~s.open
  <2>1. s.results = <<>> /\ s.between = <<>>
    BY <1>3 DEF Taken
  <2>2. Repack1(s, m) = Outside(s, m)
    BY <1>3 DEF Repack1
  <2> QED
    BY <2>1, <2>2, OpenTaken
<1>4. CASE s.open /\ m.role = "tool" /\ m.id \in s.want
  BY <1>4, ResultTaken DEF Repack1
<1>5. CASE s.open /\ m.role # "tool" /\ ~(s.results = <<>> \/ MakesCalls(m))
  BY <1>5, BetweenTaken DEF Repack1
<1>6. CASE s.open /\ (IF m.role = "tool" THEN m.id \notin s.want ELSE s.results = <<>> \/ MakesCalls(m))
  BY <1>2, <1>6 DEF Repack1
<1> QED
  BY <1>3, <1>4, <1>5, <1>6

LEMMA AllTaken == \A Y \in Seq(Message) : Taken(FoldLeft(Repack1, NoGroup, Y), Y)
<1> DEFINE F(Y) == FoldLeft(Repack1, NoGroup, Y)
           G == {Y \in Seq(Message) : Taken(F(Y), Y)}
<1>1. Taken(F(<<>>), <<>>)
  <2>1. F(<<>>) = NoGroup
    BY RepackIsPass, PassedOfNone
  <2>2. Speech(<<>>) \o Speech(<<>>) = Speech(<<>>) /\ Range(<<>>) = {}
    <3>1. <<>> \o <<>> = <<>>
      OBVIOUS
    <3>2. Range(<<>>) = {}
      BY DEF Range
    <3> QED
      BY <3>1, <3>2, SpeechNone
  <2>3. NoGroup \in Grouping
    BY DEF NoGroup, Grouping
  <2> QED
    BY <2>1, <2>2, <2>3 DEF Taken, NoGroup
<1>2. ASSUME NEW Y \in Seq(Message), NEW m \in Message PROVE F(Append(Y, m)) = Repack1(F(Y), m)
  <2>1. Passed("repack", {}, NoGroup, Append(Y, m)) = Step("repack", {}, Passed("repack", {}, NoGroup, Y), m)
    BY PassedFurther
  <2>2. \A r : Step("repack", {}, r, m) = Repack1(r, m)
    BY DEF Step
  <2> QED
    BY <2>1, <2>2, RepackIsPass
<1> HIDE DEF F
<1>3. Seq(Message) \subseteq G
  <2>1. <<>> \in G /\ \A Y \in Seq(Message) : Y \in G => \A m \in Message : Append(Y, m) \in G
    BY <1>1, <1>2, NextTaken, AppendProperties
  <2> HIDE DEF G
  <2> QED
    BY <2>1, GrowingHistory
<1> QED
  BY <1>3 DEF F

LEMMA RepackKeeps ==
  ASSUME NEW X \in Seq(Message)
  PROVE  Repack(X) \in Seq(Message) /\ Range(Repack(X)) = Range(X) /\ Speech(Repack(X)) = Speech(X)
<1> DEFINE s == FoldLeft(Repack1, NoGroup, X)
           c == CloseGroup(s)
<1>1. Taken(s, X)
  BY AllTaken
<1>2. Taken(c, X) /\ c.results = <<>> /\ c.between = <<>>
  <2> HIDE DEF s
  <2> QED
    BY <1>1, CloseTaken, Closed DEF Taken
<1>3. Repack(X) = c.out
  BY DEF Repack
<1> HIDE DEF c
<1>4. Range(<<>>) = {} /\ c.out \in Seq(Message)
  BY <1>2, GroupingFields DEF Taken, Range
<1>5. Speech(c.out) \o Speech(<<>>) = Speech(c.out)
  BY <1>4, SpeechNone, SpeechSeq, ConcatEmptySeq
<1> QED
  BY <1>2, <1>3, <1>4, <1>5 DEF Taken
-----------------------------------------------------------------------------
(* Cleaned up: calls and results answer each other, and a group that stands together still does. *)

\* Two enumerations of one set without repetitions are as long.
LEMMA SameCount ==
  ASSUME NEW S, NEW T, NEW s \in Seq(S), NEW t \in Seq(T), IsInjective(s), IsInjective(t),
         Range(s) = Range(t)
  PROVE  Len(s) = Len(t)
<1> DEFINE R == Range(s)
<1>1. Len(s) \in Nat /\ Len(t) \in Nat /\ DOMAIN s = 1 .. Len(s) /\ DOMAIN t = 1 .. Len(t)
  OBVIOUS
<1>2. s \in [1 .. Len(s) -> R] /\ t \in [1 .. Len(t) -> R]
  <2>1. \A i \in 1 .. Len(s) : s[i] \in R
    BY <1>1 DEF Range
  <2>2. \A i \in 1 .. Len(t) : t[i] \in R
    BY <1>1 DEF Range
  <2> HIDE DEF R
  <2> QED
    BY <1>1, <2>1, <2>2
<1>3. s \in Bijection(1 .. Len(s), R)
  BY <1>1, <1>2 DEF Bijection, Injection, Surjection, IsInjective, Range
<1>4. t \in Bijection(1 .. Len(t), R)
  BY <1>1, <1>2 DEF Bijection, Injection, Surjection, IsInjective, Range
<1>5. ExistsBijection(1 .. Len(s), R) /\ ExistsBijection(1 .. Len(t), R)
  BY <1>3, <1>4 DEF ExistsBijection
<1> QED
  BY <1>1, <1>5, FS_CountingElements

\* All of a sequence.
LEMMA ThoseAll ==
  ASSUME NEW S, NEW K
  PROVE  \A s \in Seq(S) : Range(s) \subseteq K => Those(s, K) = s
<1> DEFINE Fits(s) == Range(s) \subseteq K => Those(s, K) = s
           G == {s \in Seq(S) : Fits(s)}
<1>1. Fits(<<>>)
  BY ThoseOfNone
<1>2. ASSUME NEW s \in Seq(S), Fits(s), NEW x \in S PROVE Fits(Append(s, x))
  <2>1. Range(Append(s, x)) = Range(s) \cup {x}
    BY RangeFurther
  <2>2. Those(Append(s, x), K) = IF x \in K THEN Append(Those(s, K), x) ELSE Those(s, K)
    BY ThoseFurther
  <2> QED
    BY <1>2, <2>1, <2>2
<1>3. Seq(S) \subseteq G
  <2>1. <<>> \in G /\ \A s \in Seq(S) : s \in G => \A x \in S : Append(s, x) \in G
    <3> HIDE DEF Fits
    <3> QED
      BY <1>1, <1>2, AppendProperties
  <2> HIDE DEF G
  <2> QED
    BY <2>1, GrowingSeq
<1> QED
  BY <1>3

LEMMA CleanTools ==
  ASSUME NEW X \in Seq(Message), NEW keep, \A m \in Range(X) : m.role = "tool" /\ m.id \in keep
  PROVE  Clean(X, keep) = X
<1>1. \A i \in 1 .. Len(X) : X[i] \in Message /\ X[i] \in Range(X)
  BY DEF Range
<1>2. \A m \in Message : m.role = "tool" => m.calls = <<>>
  BY MessageFields
<1>3. \A i \in 1 .. Len(X) : Trim(X[i], keep) = X[i]
  BY <1>1, <1>2, TrimOne
<1>4. Trimmed(X, keep) = X
  BY <1>3, TrimmedSeq, SameSeq
<1>5. Range(X) \subseteq Kept(keep)
  BY <1>1 DEF Kept, Range
<1> QED
  BY <1>4, <1>5, ThoseAll DEF Clean

LEMMA CleanupIs ==
  ASSUME NEW X \in Seq(Message), CallIds(X) \cup ResultIds(X) # {}
  PROVE  Cleanup(X) = Clean(X, CallIds(X) \cap ResultIds(X))
<1> DEFINE keep == CallIds(X) \cap ResultIds(X)
           T == [i \in DOMAIN X |-> [X[i] EXCEPT !.calls = Those(@, keep)]]
           K == {m \in Range(T) : m.role = "tool" => m.id \in keep}
<1>1. Cleanup(X) = Those(T, K)
  BY DEF Cleanup
<1> HIDE DEF keep
<1>2. T = Trimmed(X, keep)
  BY DEF Trimmed, Trim
<1>3. T \in Seq(Message)
  BY <1>2, TrimmedSeq
<1> HIDE DEF T
<1>4. \A m \in Range(T) : m \in Message
  BY <1>3 DEF Range
<1>5. \A m \in Range(T) : m \in K <=> m \in Kept(keep)
  BY <1>4 DEF Kept
<1> HIDE DEF K
<1>6. Those(T, K) = Those(T, Kept(keep))
  BY <1>3, <1>5, ThoseSame
<1> QED
  BY <1>1, <1>2, <1>6 DEF Clean, keep

LEMMA CallIdsOf ==
  ASSUME NEW X, NEW c
  PROVE  c \in CallIds(X) <=> (c # NoId /\ \E m \in Range(X) : c \in Range(m.calls))
<1> DEFINE A == {Range(m.calls) : m \in Range(X)}
<1>1. c \in CallIds(X) <=> (c # NoId /\ c \in UNION A)
  <2>1. CallIds(X) = (UNION A) \ {NoId}
    BY DEF CallIds
  <2> HIDE DEF A
  <2> QED
    BY <2>1
<1>2. c \in UNION A <=> \E a \in A : c \in a
  <2> HIDE DEF A
  <2> QED
    OBVIOUS
<1>3. (\E a \in A : c \in a) <=> \E m \in Range(X) : c \in Range(m.calls)
  OBVIOUS
<1> QED
  BY <1>1, <1>2, <1>3

LEMMA ResultIdsOf ==
  ASSUME NEW X, NEW c
  PROVE  c \in ResultIds(X) <=> (c # NoId /\ \E m \in Range(X) : m.role = "tool" /\ m.id = c)
BY DEF ResultIds

LEMMA CleanupPairs ==
  ASSUME NEW X \in Seq(Message)
  PROVE  Paired(Cleanup(X)) /\ Cleanup(X) \in Seq(Message) /\ Speech(Cleanup(X)) = Speech(X)
<1> DEFINE keep == CallIds(X) \cap ResultIds(X)
           C == Clean(X, keep)
<1>1. CASE CallIds(X) \cup ResultIds(X) = {}
  <2>1. Cleanup(X) = X
    BY <1>1 DEF Cleanup
  <2> QED
    BY <1>1, <2>1 DEF Paired
<1>2. CASE CallIds(X) \cup ResultIds(X) # {}
  <2>1. Cleanup(X) = C
    BY <1>2, CleanupIs
  <2>2. \A c \in keep : c # NoId /\ (\E m \in Range(X) : c \in Range(m.calls))
             /\ \E m \in Range(X) : m.role = "tool" /\ m.id = c
    BY CallIdsOf, ResultIdsOf
  <2> HIDE DEF keep
  <2>3. C \in Seq(Message)
             /\ Range(C) = {Trim(m, keep) : m \in {x \in Range(X) : x.role = "tool" => x.id \in keep}}
    BY CleanKept
  <2>4. Speech(C) = Speech(X)
    BY SpeechOfClean
  <2> HIDE DEF C
  <2>5. ASSUME NEW m \in Range(X)
        PROVE  /\ Trim(m, keep).role = m.role /\ Trim(m, keep).id = m.id
               /\ Range(Trim(m, keep).calls) = Range(m.calls) \cap keep
               /\ m.role = "tool" => Range(m.calls) = {}
    <3>1. m \in Message
      BY DEF Range
    <3>2. m.role = "tool" => m.calls = <<>>
      BY <3>1, MessageFields
    <3> QED
      BY <3>1, <3>2, TrimOne DEF Range
  <2>6. ASSUME NEW c PROVE c \in CallIds(C) <=> c \in keep
    <3>1. ASSUME c \in CallIds(C) PROVE c \in keep
      <4>1. PICK m \in Range(C) : c \in Range(m.calls)
        BY <3>1, CallIdsOf, ResultIdsOf
      <4>2. PICK x \in Range(X) : m = Trim(x, keep)
        BY <2>3, <4>1
      <4> QED
        BY <2>5, <4>1, <4>2
    <3>2. ASSUME c \in keep PROVE c \in CallIds(C)
      <4>1. PICK x \in Range(X) : c \in Range(x.calls)
        BY <2>2, <3>2
      <4>2. x.role # "tool"
        BY <2>5, <4>1
      <4>3. Trim(x, keep) \in Range(C)
        BY <2>3, <4>2
      <4>4. c \in Range(Trim(x, keep).calls)
        BY <2>5, <3>2, <4>1
      <4> QED
        BY <2>2, <3>2, <4>3, <4>4, CallIdsOf, ResultIdsOf
    <3> QED
      BY <3>1, <3>2
  <2>7. ASSUME NEW c PROVE c \in ResultIds(C) <=> c \in keep
    <3>1. ASSUME c \in ResultIds(C) PROVE c \in keep
      <4>1. PICK m \in Range(C) : m.role = "tool" /\ m.id = c
        BY <3>1, CallIdsOf, ResultIdsOf
      <4>2. PICK x \in Range(X) : m = Trim(x, keep) /\ (x.role = "tool" => x.id \in keep)
        BY <2>3, <4>1
      <4> QED
        BY <2>5, <4>1, <4>2
    <3>2. ASSUME c \in keep PROVE c \in ResultIds(C)
      <4>1. PICK x \in Range(X) : x.role = "tool" /\ x.id = c
        BY <2>2, <3>2
      <4>2. Trim(x, keep) \in Range(C)
        BY <2>3, <3>2, <4>1
      <4> QED
        BY <2>2, <2>5, <3>2, <4>1, <4>2, CallIdsOf, ResultIdsOf
    <3> QED
      BY <3>1, <3>2
  <2> QED
    BY <2>1, <2>3, <2>4, <2>6, <2>7 DEF Paired
<1> QED
  BY <1>1, <1>2

\* The results r answer the calls of h, each once.
Answer(h, r) ==
  /\ Len(r) = Len(h.calls)
  /\ {r[i].id : i \in 1 .. Len(r)} = Range(h.calls)
  /\ \A i \in 1 .. Len(r) : r[i].role = "tool"
Callless(b) == \A i \in 1 .. Len(b) : b[i].calls = <<>>

LEMMA TwoJoined ==
  ASSUME NEW S, NEW s \in Seq(S), NEW t \in Seq(S), NEW f, f = s \o t
  PROVE  /\ f \in Seq(S) /\ Len(f) = Len(s) + Len(t) /\ Len(s) \in Nat /\ Len(t) \in Nat
              /\ DOMAIN f = 1 .. Len(f)
         /\ \A i \in 1 .. Len(s) : f[i] = s[i]
         /\ \A i \in 1 .. Len(t) : f[Len(s) + i] = t[i]
<1> DEFINE g == s \o t
<1>1. /\ g \in Seq(S) /\ Len(g) = Len(s) + Len(t)
      /\ \A i \in 1 .. Len(s) + Len(t) : g[i] = IF i <= Len(s) THEN s[i] ELSE t[i - Len(s)]
  BY ConcatProperties
<1>2. Len(s) \in Nat /\ Len(t) \in Nat
  BY LenProperties
<1> HIDE DEF g
<1>3. \A i \in 1 .. Len(s) : g[i] = s[i]
  BY <1>1, <1>2
<1>4. \A i \in 1 .. Len(t) : g[Len(s) + i] = t[i]
  <2> SUFFICES ASSUME NEW i \in 1 .. Len(t) PROVE g[Len(s) + i] = t[i]
    OBVIOUS
  <2>1. Len(s) + i \in 1 .. Len(s) + Len(t) /\ ~(Len(s) + i <= Len(s)) /\ (Len(s) + i) - Len(s) = i
    BY <1>2
  <2> QED
    BY <1>1, <2>1
<1>5. DOMAIN g = 1 .. Len(g)
  BY <1>1
<1> QED
  BY <1>1, <1>2, <1>3, <1>4, <1>5 DEF g

\* A group behind what stands together, and behind it what makes no calls.
LEMMA GroupContiguous ==
  ASSUME NEW c \in Seq(Message), NEW h \in Message, NEW r \in Seq(Message),
         NEW b \in Seq(Message), Contiguous(c),
         Answer(h, r), Callless(b)
  PROVE  Contiguous(Append(c, h) \o r \o b)
<1> DEFINE d == Append(c, h)
           e == d \o r
           f == e \o b
           n == Len(c) + 1
           l == Len(r)
<1>1. /\ d \in Seq(Message) /\ Len(d) = Len(c) + 1 /\ d[n] = h /\ \A i \in 1 .. Len(c) : d[i] = c[i]
  BY AppendProperties
<1>2. Len(c) \in Nat /\ Len(r) \in Nat /\ Len(b) \in Nat /\ DOMAIN c = 1 .. Len(c)
  BY LenProperties
<1> HIDE DEF d
<1>e. e = d \o r
  OBVIOUS
<1>f. f = e \o b
  OBVIOUS
<1> HIDE DEF e, f
<1>3. /\ e \in Seq(Message) /\ Len(e) = Len(d) + l
      /\ \A i \in 1 .. Len(d) : e[i] = d[i]
      /\ \A i \in 1 .. l : e[Len(d) + i] = r[i]
  <2>1. d \in Seq(Message)
    BY <1>1
  <2> QED
    BY <1>e, <2>1, TwoJoined
<1>4. /\ f \in Seq(Message) /\ Len(f) = Len(e) + Len(b) /\ DOMAIN f = 1 .. Len(f)
      /\ \A i \in 1 .. Len(e) : f[i] = e[i]
      /\ \A i \in 1 .. Len(b) : f[Len(e) + i] = b[i]
  <2>1. e \in Seq(Message)
    BY <1>3
  <2> QED
    BY <1>f, <2>1, TwoJoined
<1>5. Len(d) = n /\ Len(e) = n + l /\ Len(f) = n + l + Len(b) /\ n \in Nat \ {0} /\ l \in Nat
  BY <1>1, <1>2, <1>3, <1>4
<1>6. \A i \in 1 .. Len(c) : f[i] = c[i]
  BY <1>1, <1>2, <1>3, <1>4, <1>5
<1>7. f[n] = h
  <2>1. n \in 1 .. Len(d) /\ n \in 1 .. Len(e)
    BY <1>5
  <2> QED
    BY <1>1, <1>3, <1>4, <2>1
<1>8. \A i \in 1 .. l : f[n + i] = r[i]
  BY <1>3, <1>4, <1>5
<1>9. \A i \in 1 .. Len(b) : f[(n + l) + i] = b[i]
  BY <1>4, <1>5
<1>10. Len(c) = n - 1
  BY <1>2
<1> HIDE DEF n, l
<1> DEFINE Stands(i) ==
             LET k == Len(f[i].calls) IN
               /\ i + k <= Len(f)
               /\ {f[j].id : j \in i + 1 .. i + k} = Range(f[i].calls)
               /\ \A j \in i + 1 .. i + k : f[j].role = "tool"
<1>11. ASSUME NEW i \in 1 .. Len(c), MakesCalls(f[i]) PROVE Stands(i)
  <2> DEFINE k == Len(f[i].calls)
  <2>1. f[i] = c[i] /\ c[i] \in Message
    BY <1>6, <1>11
  <2>2. /\ i + k <= Len(c)
        /\ {c[j].id : j \in i + 1 .. i + k} = Range(f[i].calls)
        /\ \A j \in i + 1 .. i + k : c[j].role = "tool"
    BY <1>2, <1>11, <2>1 DEF Contiguous
  <2>3. k \in Nat
    BY <2>1, MessageFields, LenProperties
  <2> HIDE DEF k
  <2>4. \A j \in i + 1 .. i + k : j \in 1 .. Len(c)
    BY <1>2, <2>2, <2>3
  <2>5. {f[j].id : j \in i + 1 .. i + k} = {c[j].id : j \in i + 1 .. i + k}
    BY <1>6, <2>4
  <2>6. i + k <= Len(f)
    BY <1>2, <1>5, <1>10, <2>2, <2>3
  <2>7. \A j \in i + 1 .. i + k : f[j].role = "tool"
    BY <1>6, <2>2, <2>4
  <2> QED
    BY <2>2, <2>5, <2>6, <2>7 DEF k
<1>12. Stands(n)
  <2>1. Len(f[n].calls) = l /\ Range(f[n].calls) = {r[i].id : i \in 1 .. l}
    BY <1>7 DEF Answer, l
  <2>2. \A j \in n + 1 .. n + l : j - n \in 1 .. l /\ f[j] = r[j - n]
    <3> SUFFICES ASSUME NEW j \in n + 1 .. n + l PROVE j - n \in 1 .. l /\ f[j] = r[j - n]
      OBVIOUS
    <3>1. j - n \in 1 .. l /\ n + (j - n) = j
      BY <1>5
    <3> QED
      BY <1>8, <3>1
  <2>3. \A j \in 1 .. l : n + j \in n + 1 .. n + l /\ f[n + j] = r[j]
    BY <1>5, <1>8
  <2>4. {f[j].id : j \in n + 1 .. n + l} = {r[j].id : j \in 1 .. l}
    <3> DEFINE A == {f[j].id : j \in n + 1 .. n + l}
               B == {r[j].id : j \in 1 .. l}
    <3>1. \A x \in A : x \in B
      BY <2>2
    <3>2. \A x \in B : x \in A
      <4> SUFFICES ASSUME NEW j \in 1 .. l PROVE r[j].id \in A
        OBVIOUS
      <4> QED
        BY <2>3
    <3> QED
      BY <3>1, <3>2
  <2>5. n + l <= Len(f)
    BY <1>2, <1>5
  <2>6. \A j \in n + 1 .. n + l : f[j].role = "tool"
    BY <2>2 DEF Answer, l
  <2> QED
    BY <2>1, <2>4, <2>5, <2>6
<1>13. ASSUME NEW i \in n + 1 .. n + l PROVE ~MakesCalls(f[i])
  <2>1. i - n \in 1 .. l /\ n + (i - n) = i
    BY <1>5
  <2>2. f[i].role = "tool"
    BY <1>8, <2>1 DEF Answer, l
  <2> QED
    BY <2>2 DEF MakesCalls
<1>14. ASSUME NEW i \in (n + l) + 1 .. Len(f) PROVE ~MakesCalls(f[i])
  <2>1. i - (n + l) \in 1 .. Len(b) /\ (n + l) + (i - (n + l)) = i
    BY <1>2, <1>5
  <2>2. f[i].calls = <<>>
    BY <1>9, <2>1 DEF Callless
  <2> QED
    BY <2>2 DEF MakesCalls
<1>15. ASSUME NEW i \in 1 .. Len(f), MakesCalls(f[i]) PROVE Stands(i)
  <2>1. i \in 1 .. Len(c) \/ i = n \/ i \in n + 1 .. n + l \/ i \in (n + l) + 1 .. Len(f)
    BY <1>2, <1>5, <1>10
  <2> HIDE DEF Stands
  <2> QED
    BY <1>11, <1>12, <1>13, <1>14, <1>15, <2>1
<1>16. Contiguous(f)
  BY <1>4, <1>15 DEF Contiguous
<1> QED
  BY <1>16 DEF f, e, d
-----------------------------------------------------------------------------
(* Where only interruptions damaged the history, every group that is closed is complete. *)

Answers(X, p) == {j \in DOMAIN X : X[j].role = "tool" /\ X[j].id \in Range(X[p].calls)}
Both(X) == CallIds(X) \cap ResultIds(X)

\* What makes a history one that only interruptions have damaged.
LEMMA InterruptedIs ==
  ASSUME NEW X \in Seq(Message), Interrupted(X)
  PROVE  /\ \A i \in 1 .. Len(X) : IsInjective(X[i].calls) /\ NoId \notin Range(X[i].calls)
         /\ \A i, j \in 1 .. Len(X) : i # j =>
              /\ Range(X[i].calls) \cap Range(X[j].calls) = {}
              /\ X[i].role = "tool" /\ X[j].role = "tool" => X[i].id # X[j].id
         /\ \A i \in 1 .. Len(X) : Answers(X, i) # {} =>
              /\ i + 1 \in Answers(X, i)
              /\ \A j \in Answers(X, i) : j > i /\ \A k \in i + 1 .. j - 1 :
                   /\ ~MakesCalls(X[k])
                   /\ X[k].role = "tool" => X[k].id \in CallIds(X)
<1>1. DOMAIN X = 1 .. Len(X)
  OBVIOUS
<1> QED
  BY <1>1 DEF Interrupted, Answers

\* The group of the calls at p is open after n messages: it holds the results there are of them.
Pending(X, keep, n, s, p, o) ==
  /\ p \in 1 .. n /\ o \in Seq(Message) /\ s.out = Append(o, X[p]) /\ MakesCalls(X[p])
  /\ Contiguous(Clean(o, keep))
  /\ s.want = Range(X[p].calls)
  /\ \A m \in Range(s.results) : \E j \in Answers(X, p) : j <= n /\ m = X[j]
  /\ \A j \in Answers(X, p) : j <= n => X[j] \in Range(s.results)
  /\ \A i, j \in DOMAIN s.results : s.results[i].id = s.results[j].id => i = j
  /\ \A m \in Range(s.between) : ~MakesCalls(m)

Placed(X, keep, n, s) ==
  /\ s \in Grouping
  /\ ~s.open => s.results = <<>> /\ s.between = <<>> /\ Contiguous(Clean(s.out, keep))
  /\ s.open => \E p, o : Pending(X, keep, n, s, p, o)

\* Closed with all the results there are of its calls, a group stands together.
LEMMA ClosingPlaced ==
  ASSUME NEW X \in Seq(Message), Interrupted(X), NEW n \in 0 .. Len(X), NEW s \in Grouping, NEW p,
         NEW o,
         Pending(X, Both(X), n, s, p, o), \A j \in Answers(X, p) : j <= n
  PROVE  Contiguous(Clean(CloseGroup(s).out, Both(X)))
<1> DEFINE keep == Both(X)
           R == s.results
           B == s.between
           C == Clean(o, keep)
           h == Trim(X[p], keep)
           b == Clean(B, keep)
           ids == [i \in 1 .. Len(R) |-> R[i].id]
           L == Append(o, X[p])
<1>1. /\ R \in Seq(Message) /\ B \in Seq(Message) /\ o \in Seq(Message) /\ p \in 1 .. Len(X)
           /\ X[p] \in Message
      /\ n \in Nat /\ Len(X) \in Nat
  <2>1. n \in Nat /\ Len(X) \in Nat /\ n <= Len(X)
    OBVIOUS
  <2>2. p \in 1 .. n
    BY DEF Pending
  <2>3. p \in 1 .. Len(X)
    BY <2>1, <2>2
  <2>4. X[p] \in Message
    BY <2>3
  <2>5. o \in Seq(Message)
    BY DEF Pending
  <2> QED
    BY <2>1, <2>3, <2>4, <2>5, GroupingFields
<1>2. C \in Seq(Message) /\ b \in Seq(Message) /\ h \in Message
  BY <1>1, CleanKept, TrimOne
<1>3. /\ X[p].role = "assistant" /\ Contiguous(C)
      /\ CloseGroup(s).out = L \o R \o B
  BY Closed DEF Pending, MakesCalls
<1>4. \A j \in Answers(X, p) : j \in 1 .. Len(X) /\ X[j] \in Message /\ X[j] \in Range(X)
           /\ X[j].role = "tool" /\ X[j].id \in Range(X[p].calls)
  BY DEF Answers, Range
<1>5. NoId \notin Range(X[p].calls) /\ IsInjective(X[p].calls)
  BY <1>1, InterruptedIs
<1>6. \A c \in Range(X[p].calls) : c \in CallIds(X)
  <2>1. X[p] \in Range(X)
    BY <1>1 DEF Range
  <2> QED
    BY <1>5, <2>1, CallIdsOf
<1>7. \A j \in Answers(X, p) : X[j].id \in keep
  BY <1>4, <1>5, <1>6, ResultIdsOf DEF Both
<1>8. \A m \in Range(R) : \E j \in Answers(X, p) : m = X[j]
  BY DEF Pending
<1>9. \A m \in Range(R) : m.role = "tool" /\ m.id \in keep /\ m.id \in Range(X[p].calls)
  BY <1>4, <1>7, <1>8
<1>10. \A j \in Answers(X, p) : X[j] \in Range(R)
  BY DEF Pending
<1>11. \A c \in Range(X[p].calls) : c \in keep => \E m \in Range(R) : m.id = c
  <2> SUFFICES ASSUME NEW c \in Range(X[p].calls), c \in keep PROVE \E m \in Range(R) : m.id = c
    OBVIOUS
  <2>1. PICK m \in Range(X) : m.role = "tool" /\ m.id = c
    BY ResultIdsOf DEF Both
  <2>2. PICK j \in DOMAIN X : X[j] = m
    BY DEF Range
  <2>3. j \in Answers(X, p)
    BY <2>1, <2>2 DEF Answers
  <2> QED
    BY <1>10, <2>1, <2>2, <2>3
<1>12. \A i, j \in 1 .. Len(R) : R[i].id = R[j].id => i = j
  BY <1>1 DEF Pending
<1>13. \A m \in Range(B) : m \in Message /\ m.calls = <<>>
  <2>1. \A m \in Range(B) : m \in Message /\ ~MakesCalls(m)
    BY <1>1 DEF Pending, Range
  <2> QED
    BY <2>1, MessageFields DEF MakesCalls
<1> HIDE DEF keep, R, B
<1>14. Clean(R, keep) = R
  BY <1>1, <1>9, CleanTools
<1>15. Clean(L \o R \o B, keep) = Append(C, h) \o R \o b
  <2>1. Clean(L, keep) = Append(C, h)
    <3> DEFINE x == X[p]
    <3>1. x \in Message /\ x.role # "tool"
      BY <1>1, <1>3
    <3>2. o \in Seq(Message)
      BY <1>1
    <3> HIDE DEF x
    <3>3. Clean(Append(o, x), keep) = Append(Clean(o, keep), Trim(x, keep))
      BY <3>1, <3>2, CleanFurther
    <3> QED
      BY <3>3 DEF x
  <2>2. L \in Seq(Message)
    BY <1>1, AppendProperties
  <2>3. R \in Seq(Message) /\ B \in Seq(Message)
    BY <1>1
  <2> DEFINE LR == L \o R
  <2> HIDE DEF L, C, h
  <2>4. LR \in Seq(Message)
    BY <2>2, <2>3, ConcatProperties
  <2>5. Clean(LR, keep) = Clean(L, keep) \o Clean(R, keep)
    BY <2>2, <2>3, CleanConcat
  <2>6. Clean(LR \o B, keep) = Clean(LR, keep) \o Clean(B, keep)
    <3> HIDE DEF LR
    <3>1. \A e \in Seq(Message) : Clean(LR \o e, keep) = Clean(LR, keep) \o Clean(e, keep)
      BY <2>4, CleanConcat
    <3> QED
      BY <2>3, <3>1
  <2> QED
    BY <1>14, <2>1, <2>5, <2>6
<1>16. Callless(b)
  <2>1. Range(b) = {Trim(m, keep) : m \in {x \in Range(B) : x.role = "tool" => x.id \in keep}}
    BY <1>1, CleanKept
  <2>2. \A m \in Range(B) : Trim(m, keep).calls = <<>>
    BY <1>13, TrimOne
  <2>3. \A i \in 1 .. Len(b) : b[i] \in Range(b)
    BY <1>2 DEF Range
  <2> HIDE DEF b
  <2> QED
    BY <2>1, <2>2, <2>3 DEF Callless
<1>17. Answer(h, R)
  <2>1. h.calls = Those(X[p].calls, keep) /\ X[p].calls \in Seq(STRING)
    BY <1>1, TrimOne, MessageFields
  <2>2. h.calls \in Seq(STRING) /\ IsInjective(h.calls) /\ Range(h.calls) = Range(X[p].calls) \cap keep
    BY <1>5, <2>1, ThoseKept
  <2>3. \A i \in 1 .. Len(R) : R[i] \in Range(R) /\ R[i] \in Message
    BY <1>1 DEF Range
  <2>4. ids \in Seq(STRING) /\ Len(ids) = Len(R) /\ DOMAIN ids = 1 .. Len(R)
    BY <1>1, <2>3, MessageFields
  <2>5. IsInjective(ids)
    BY <1>12, <2>4 DEF IsInjective
  <2>6. \A m \in Range(R) : \E i \in 1 .. Len(R) : m = R[i]
    BY <1>1 DEF Range
  <2>7. {R[i].id : i \in 1 .. Len(R)} = Range(h.calls)
    <3> HIDE DEF h
    <3>1. \A i \in 1 .. Len(R) : R[i].id \in Range(h.calls)
      BY <1>9, <2>2, <2>3
    <3>2. \A c \in Range(h.calls) : \E i \in 1 .. Len(R) : R[i].id = c
      BY <1>11, <2>2, <2>6
    <3> QED
      BY <3>1, <3>2
  <2>8. Range(ids) = {R[i].id : i \in 1 .. Len(R)}
    BY <2>4 DEF Range
  <2>9. Len(ids) = Len(h.calls)
    <3> HIDE DEF h, ids
    <3> QED
      BY <2>2, <2>4, <2>5, <2>7, <2>8, SameCount
  <2> HIDE DEF h
  <2> QED
    BY <1>9, <2>3, <2>4, <2>7, <2>9 DEF Answer
<1> HIDE DEF C, h, b, L
<1>18. Contiguous(Append(C, h) \o R \o b)
  BY <1>1, <1>2, <1>3, <1>16, <1>17, GroupContiguous
<1>19. Contiguous(Clean(CloseGroup(s).out, keep))
  BY <1>3, <1>15, <1>18
<1> QED
  BY <1>19 DEF keep

LEMMA OpenPlaced ==
  ASSUME NEW X \in Seq(Message), Interrupted(X), NEW n \in 0 .. Len(X) - 1, NEW s \in Grouping,
         s.results = <<>>, s.between = <<>>, Contiguous(Clean(s.out, Both(X)))
  PROVE  Placed(X, Both(X), n + 1, Outside(s, X[n + 1]))
<1> DEFINE keep == Both(X)
           k == n + 1
           m == X[k]
           t == Outside(s, m)
           C == Clean(s.out, keep)
           h == Trim(m, keep)
<1>1. n \in Nat /\ Len(X) \in Nat /\ k \in 1 .. Len(X) /\ k \in 1 .. k /\ k \in Nat
  OBVIOUS
<1>2. m \in Message /\ s.out \in Seq(Message)
  BY <1>1, GroupingFields
<1>3. /\ t \in Grouping /\ t.out = Append(s.out, m) /\ t.open = MakesCalls(m)
      /\ t.results = <<>> /\ t.between = <<>> /\ t.want = Range(m.calls) \ {NoId}
  BY <1>2, Opened
<1> HIDE DEF t, k, keep
<1>4. CASE MakesCalls(m)
  <2>1. t.want = Range(m.calls)
    BY <1>1, <1>3, InterruptedIs
  <2>2. \A j \in Answers(X, k) : j > k /\ j \in Nat
    <3>1. Answers(X, k) # {} => \A j \in Answers(X, k) : j > k
      BY <1>1, InterruptedIs
    <3>2. \A j \in Answers(X, k) : j \in 1 .. Len(X)
      BY DEF Answers
    <3> QED
      BY <3>1, <3>2
  <2>3. \A j \in Answers(X, k) : ~(j <= k)
    BY <1>1, <2>2
  <2>4. Range(<<>>) = {} /\ DOMAIN <<>> = {}
    BY DEF Range
  <2>5. Pending(X, keep, k, t, k, s.out)
    BY <1>1, <1>2, <1>3, <1>4, <2>1, <2>3, <2>4 DEF Pending, keep
  <2>6. Placed(X, keep, k, t)
    BY <1>3, <1>4, <2>5 DEF Placed
  <2> QED
    BY <2>6 DEF keep, k, t
<1>5. CASE ~MakesCalls(m)
  <2>1. m.calls = <<>>
    BY <1>2, <1>5, MessageFields DEF MakesCalls
  <2>2. C \in Seq(Message) /\ h \in Message /\ h.calls = <<>> /\ Contiguous(C)
    <3>1. h = m
      BY <1>2, <2>1, TrimOne
    <3> QED
      BY <1>2, <2>1, <3>1, CleanKept DEF keep
  <2> HIDE DEF m
  <2>3. Clean(t.out, keep) = C \/ Clean(t.out, keep) = Append(C, h)
    BY <1>2, <1>3, CleanFurther
  <2> HIDE DEF C, h
  <2>4. Contiguous(Append(C, h) \o <<>> \o <<>>)
    <3>1. Answer(h, <<>>) /\ Callless(<<>>) /\ <<>> \in Seq(Message)
      BY <2>2 DEF Answer, Callless, Range
    <3> QED
      BY <2>2, <3>1, GroupContiguous
  <2>5. Append(C, h) \o <<>> \o <<>> = Append(C, h)
    <3>1. Append(C, h) \in Seq(Message)
      BY <2>2, AppendProperties
    <3> QED
      BY <3>1, ConcatEmptySeq
  <2>6. Contiguous(Clean(t.out, keep))
    BY <2>2, <2>3, <2>4, <2>5
  <2>7. Placed(X, keep, k, t)
    BY <1>3, <1>5, <2>6 DEF Placed
  <2> QED
    BY <2>7 DEF keep, k, t, m
<1> QED
  BY <1>4, <1>5

\* A result that belongs to no open group, or a message that ends the waiting for results, comes
\* behind all of them.
LEMMA AllAnswered ==
  ASSUME NEW X \in Seq(Message), Interrupted(X), NEW n \in 0 .. Len(X) - 1, NEW s \in Grouping, NEW p,
         NEW o,
         Pending(X, Both(X), n, s, p, o),
         IF X[n + 1].role = "tool" THEN X[n + 1].id \notin s.want ELSE s.results = <<>>
              \/ MakesCalls(X[n + 1])
  PROVE  \A j \in Answers(X, p) : j <= n
<1> DEFINE k == n + 1
<1>1. n \in Nat /\ Len(X) \in Nat /\ k \in 1 .. Len(X)
  OBVIOUS
<1>2. p \in 1 .. n /\ p \in 1 .. Len(X) /\ s.want = Range(X[p].calls) /\ MakesCalls(X[p])
  BY <1>1 DEF Pending
<1> SUFFICES ASSUME NEW j \in Answers(X, p), ~(j <= n) PROVE FALSE
  OBVIOUS
<1>3. j \in 1 .. Len(X)
  BY DEF Answers
<1>4. j > n
  BY <1>1, <1>3
<1>5. /\ p + 1 \in Answers(X, p)
      /\ \A i \in p + 1 .. j - 1 : ~MakesCalls(X[i]) /\ (X[i].role = "tool" => X[i].id \in CallIds(X))
  BY <1>2, InterruptedIs
<1>6. CASE X[k].role = "tool"
  <2>1. X[k].id \notin Range(X[p].calls)
    BY <1>2, <1>6
  <2>2. k # j
    BY <2>1 DEF Answers
  <2>3. k \in p + 1 .. j - 1
    BY <1>1, <1>2, <1>3, <1>4, <2>2
  <2>4. X[k].id \in CallIds(X)
    BY <1>5, <1>6, <2>3
  <2>5. PICK x \in Range(X) : X[k].id \in Range(x.calls)
    BY <2>4, CallIdsOf
  <2>6. PICK i \in 1 .. Len(X) : x = X[i]
    BY DEF Range
  <2>7. k \in Answers(X, i)
    BY <1>1, <1>6, <2>5, <2>6 DEF Answers
  <2>8. i < k /\ \A l \in i + 1 .. k - 1 : ~MakesCalls(X[l])
    BY <2>7, InterruptedIs
  <2>9. i # p
    BY <2>1, <2>5, <2>6
  <2>10. MakesCalls(X[i])
    <3>1. X[i] \in Message /\ X[i].calls # <<>>
      BY <2>5, <2>6 DEF Range
    <3> QED
      BY <3>1, MessageFields DEF MakesCalls
  <2>11. CASE i > p
    <3>1. i \in p + 1 .. j - 1
      BY <1>1, <1>2, <1>3, <1>4, <2>8, <2>11
    <3> QED
      BY <1>5, <2>10, <3>1
  <2>12. CASE i < p
    <3>1. p \in i + 1 .. k - 1
      BY <1>1, <1>2, <2>12
    <3> QED
      BY <1>2, <2>8, <3>1
  <2> QED
    BY <1>1, <1>2, <2>9, <2>11, <2>12
<1>7. CASE X[k].role # "tool" /\ MakesCalls(X[k])
  <2>1. k # j
    BY <1>7 DEF Answers
  <2>2. k \in p + 1 .. j - 1
    BY <1>1, <1>2, <1>3, <1>4, <2>1
  <2> QED
    BY <1>5, <1>7, <2>2
<1>8. CASE X[k].role # "tool" /\ s.results = <<>>
  <2>1. p + 1 # k
    BY <1>5, <1>8 DEF Answers
  <2>2. p + 1 <= n
    BY <1>1, <1>2, <2>1
  <2>3. X[p + 1] \in Range(s.results)
    BY <1>5, <2>2 DEF Pending
  <2> QED
    BY <1>8, <2>3 DEF Range
<1> QED
  BY <1>6, <1>7, <1>8

LEMMA ResultPlaced ==
  ASSUME NEW X \in Seq(Message), Interrupted(X), NEW n \in 0 .. Len(X) - 1, NEW s \in Grouping, s.open,
         NEW p, NEW o,
         Pending(X, Both(X), n, s, p, o), X[n + 1].role = "tool", X[n + 1].id \in s.want
  PROVE  Placed(X, Both(X), n + 1, [s EXCEPT !.results = Append(@, X[n + 1])])
<1> DEFINE keep == Both(X)
           k == n + 1
           m == X[k]
           R == s.results
           Q == Append(R, m)
           t == [s EXCEPT !.results = Q]
<1>1. n \in Nat /\ Len(X) \in Nat /\ k \in 1 .. Len(X) /\ k \in Nat
  OBVIOUS
<1>2. m \in Message /\ R \in Seq(Message)
  BY <1>1, GroupingFields
<1>3. /\ Q \in Seq(Message) /\ Range(Q) = Range(R) \cup {m} /\ Len(Q) = Len(R) + 1 /\ Q[Len(R) + 1] = m
      /\ \A i \in 1 .. Len(R) : Q[i] = R[i]
      /\ Len(R) \in Nat /\ DOMAIN R = 1 .. Len(R) /\ DOMAIN Q = 1 .. Len(R) + 1
  BY <1>2, RangeFurther, AppendProperties
<1> HIDE DEF Q
<1>4. t \in Grouping /\ t.out = s.out /\ t.results = Q /\ t.between = s.between /\ t.open = s.open
           /\ t.want = s.want
  BY <1>3 DEF Grouping
<1>5. /\ p \in 1 .. n /\ o \in Seq(Message) /\ s.out = Append(o, X[p]) /\ MakesCalls(X[p])
      /\ Contiguous(Clean(o, keep)) /\ s.want = Range(X[p].calls)
  BY DEF Pending
<1>6. /\ \A x \in Range(R) : \E j \in Answers(X, p) : j <= n /\ x = X[j]
      /\ \A j \in Answers(X, p) : j <= n => X[j] \in Range(R)
      /\ \A i, j \in 1 .. Len(R) : R[i].id = R[j].id => i = j
      /\ \A x \in Range(s.between) : ~MakesCalls(x)
  BY <1>3 DEF Pending
<1>7. k \in Answers(X, p) /\ \A j \in Answers(X, p) : j \in 1 .. Len(X) /\ X[j].role = "tool"
  BY <1>1, <1>5 DEF Answers
<1> HIDE DEF R
<1>8. \A i \in 1 .. Len(R) : R[i].id # m.id
  <2> SUFFICES ASSUME NEW i \in 1 .. Len(R) PROVE R[i].id # m.id
    OBVIOUS
  <2>1. R[i] \in Range(R)
    BY <1>3 DEF Range
  <2>2. PICK j \in Answers(X, p) : j <= n /\ R[i] = X[j]
    BY <1>6, <2>1
  <2>3. j # k /\ j \in 1 .. Len(X) /\ X[j].role = "tool"
    BY <1>1, <1>7, <2>2
  <2> QED
    BY <1>1, <2>2, <2>3, InterruptedIs
<1>9. \A x \in Range(Q) : \E j \in Answers(X, p) : j <= k /\ x = X[j]
  <2>1. \A j \in Answers(X, p) : j <= n => j <= k
    BY <1>1, <1>7
  <2>2. k <= k
    BY <1>1
  <2> HIDE DEF k
  <2> QED
    BY <1>3, <1>6, <1>7, <2>1, <2>2
<1>10. \A j \in Answers(X, p) : j <= k => X[j] \in Range(Q)
  <2> SUFFICES ASSUME NEW j \in Answers(X, p), j <= k PROVE X[j] \in Range(Q)
    OBVIOUS
  <2>1. j <= n \/ j = k
    BY <1>1, <1>7
  <2> QED
    BY <1>3, <1>6, <2>1
<1>11. \A i, j \in 1 .. Len(R) + 1 : Q[i].id = Q[j].id => i = j
  <2> SUFFICES ASSUME NEW i \in 1 .. Len(R) + 1, NEW j \in 1 .. Len(R) + 1, Q[i].id = Q[j].id
               PROVE  i = j
    OBVIOUS
  <2>1. (i \in 1 .. Len(R) \/ i = Len(R) + 1) /\ (j \in 1 .. Len(R) \/ j = Len(R) + 1)
    BY <1>3
  <2>2. Q[Len(R) + 1].id = m.id
    BY <1>3
  <2> HIDE DEF m
  <2> QED
    BY <1>3, <1>6, <1>8, <2>1, <2>2
<1>12. p \in 1 .. k
  BY <1>1, <1>5
<1> HIDE DEF t, k, m, keep
<1>13. Pending(X, keep, k, t, p, o)
  BY <1>3, <1>4, <1>5, <1>6, <1>9, <1>10, <1>11, <1>12 DEF Pending
<1>14. Placed(X, keep, k, t)
  BY <1>4, <1>13 DEF Placed
<1> QED
  BY <1>14 DEF keep, k, t, Q, R, m

LEMMA BetweenPlaced ==
  ASSUME NEW X \in Seq(Message), NEW n \in 0 .. Len(X) - 1, NEW s \in Grouping, s.open, NEW p, NEW o,
         Pending(X, Both(X), n, s, p, o), X[n + 1].role # "tool", ~MakesCalls(X[n + 1])
  PROVE  Placed(X, Both(X), n + 1, [s EXCEPT !.between = Append(@, X[n + 1])])
<1> DEFINE keep == Both(X)
           k == n + 1
           m == X[k]
           B == s.between
           Q == Append(B, m)
           t == [s EXCEPT !.between = Q]
<1>1. n \in Nat /\ Len(X) \in Nat /\ k \in 1 .. Len(X) /\ k \in Nat
  OBVIOUS
<1>2. m \in Message /\ B \in Seq(Message)
  BY <1>1, GroupingFields
<1>3. Q \in Seq(Message) /\ Range(Q) = Range(B) \cup {m}
  BY <1>2, RangeFurther, AppendProperties
<1> HIDE DEF Q
<1>4. t \in Grouping /\ t.out = s.out /\ t.results = s.results /\ t.between = Q /\ t.open = s.open
           /\ t.want = s.want
  BY <1>3 DEF Grouping
<1>5. /\ p \in 1 .. n /\ o \in Seq(Message) /\ s.out = Append(o, X[p]) /\ MakesCalls(X[p])
      /\ Contiguous(Clean(o, keep)) /\ s.want = Range(X[p].calls)
  BY DEF Pending
<1>6. /\ \A x \in Range(s.results) : \E j \in Answers(X, p) : j <= n /\ x = X[j]
      /\ \A j \in Answers(X, p) : j <= n => X[j] \in Range(s.results)
      /\ \A i, j \in DOMAIN s.results : s.results[i].id = s.results[j].id => i = j
      /\ \A x \in Range(B) : ~MakesCalls(x)
  BY DEF Pending
<1>7. \A j \in Answers(X, p) : j \in 1 .. Len(X) /\ X[j].role = "tool"
  BY DEF Answers
<1>8. \A j \in Answers(X, p) : j <= n <=> j <= k
  <2> SUFFICES ASSUME NEW j \in Answers(X, p) PROVE j <= n <=> j <= k
    OBVIOUS
  <2>1. j # k /\ j \in Nat
    BY <1>7
  <2> QED
    BY <1>1, <2>1
<1>9. p \in 1 .. k
  BY <1>1, <1>5
<1>10. \A x \in Range(Q) : ~MakesCalls(x)
  BY <1>3, <1>6
<1> HIDE DEF t, k, m, keep, B
<1>11. /\ \A x \in Range(s.results) : \E j \in Answers(X, p) : j <= k /\ x = X[j]
       /\ \A j \in Answers(X, p) : j <= k => X[j] \in Range(s.results)
  BY <1>6, <1>8
<1>12. Pending(X, keep, k, t, p, o)
  BY <1>4, <1>5, <1>6, <1>9, <1>10, <1>11 DEF Pending
<1>13. Placed(X, keep, k, t)
  BY <1>4, <1>12 DEF Placed
<1> QED
  BY <1>13 DEF keep, k, t, Q, B, m

LEMMA NextPlaced ==
  ASSUME NEW X \in Seq(Message), Interrupted(X), NEW n \in 0 .. Len(X) - 1, NEW s,
         Placed(X, Both(X), n, s)
  PROVE  Placed(X, Both(X), n + 1, Repack1(s, X[n + 1]))
<1> DEFINE keep == Both(X)
           m == X[n + 1]
           c == CloseGroup(s)
<1>1. s \in Grouping /\ n \in 0 .. Len(X)
  BY DEF Placed
<1>2. CASE ~s.open
  <2>1. s.results = <<>> /\ s.between = <<>> /\ Contiguous(Clean(s.out, keep))
    BY <1>2 DEF Placed
  <2>2. Repack1(s, m) = Outside(s, m)
    BY <1>2 DEF Repack1
  <2> QED
    BY <1>1, <2>1, <2>2, OpenPlaced
<1>3. CASE s.open
  <2>1. PICK p, o : Pending(X, keep, n, s, p, o)
    BY <1>3 DEF Placed
  <2>2. CASE m.role = "tool" /\ m.id \in s.want
    <3>1. Repack1(s, m) = [s EXCEPT !.results = Append(@, m)]
      BY <1>3, <2>2 DEF Repack1
    <3> QED
      BY <1>1, <1>3, <2>1, <2>2, <3>1, ResultPlaced
  <2>3. CASE m.role # "tool" /\ ~(s.results = <<>> \/ MakesCalls(m))
    <3>1. Repack1(s, m) = [s EXCEPT !.between = Append(@, m)]
      BY <1>3, <2>3 DEF Repack1
    <3> QED
      BY <1>1, <1>3, <2>1, <2>3, <3>1, BetweenPlaced
  <2>4. CASE IF m.role = "tool" THEN m.id \notin s.want ELSE s.results = <<>> \/ MakesCalls(m)
    <3>1. Repack1(s, m) = Outside(c, m)
      BY <1>3, <2>4 DEF Repack1
    <3>2. \A j \in Answers(X, p) : j <= n
      BY <1>1, <2>1, <2>4, AllAnswered
    <3>3. c \in Grouping /\ c.results = <<>> /\ c.between = <<>>
      BY <1>1, Closed
    <3>4. Contiguous(Clean(c.out, keep))
      BY <1>1, <2>1, <3>2, ClosingPlaced
    <3> HIDE DEF c
    <3> QED
      BY <3>1, <3>3, <3>4, OpenPlaced
  <2> QED
    BY <2>2, <2>3, <2>4
<1> QED
  BY <1>2, <1>3

\* What holds at first, and with each of the first numbers at the next, holds at all of them.
LEMMA CountingUp ==
  ASSUME NEW n \in Nat, NEW G, 0 \in G, \A k \in 0 .. n - 1 : k \in G => k + 1 \in G
  PROVE  0 .. n \subseteq G
<1> DEFINE bad == {i \in 0 .. n : i \notin G}
<1> SUFFICES ASSUME bad # {} PROVE FALSE
  OBVIOUS
<1>1. PICK i \in bad : \A j \in bad : i <= j
  <2>1. bad \subseteq Nat
    OBVIOUS
  <2> HIDE DEF bad
  <2> QED
    BY <2>1, LeastNumber
<1>2. i # 0
  BY <1>1
<1>3. i - 1 \in 0 .. n - 1 /\ i - 1 \notin bad /\ (i - 1) + 1 = i
  BY <1>1, <1>2
<1> QED
  BY <1>1, <1>3

LEMMA AllPlaced ==
  ASSUME NEW X \in Seq(Message), Interrupted(X)
  PROVE  Placed(X, Both(X), Len(X), FoldLeft(Repack1, NoGroup, X))
<1> DEFINE F(Y) == FoldLeft(Repack1, NoGroup, Y)
           P(n) == SubSeq(X, 1, n)
           keep == Both(X)
           G == {n \in 0 .. Len(X) : Placed(X, keep, n, F(P(n)))}
<1>1. F(<<>>) = NoGroup
  BY RepackIsPass, PassedOfNone
<1>2. ASSUME NEW Y \in Seq(Message), NEW m \in Message PROVE F(Append(Y, m)) = Repack1(F(Y), m)
  <2>1. Passed("repack", {}, NoGroup, Append(Y, m)) = Step("repack", {}, Passed("repack", {}, NoGroup, Y), m)
    BY PassedFurther
  <2>2. \A r : Step("repack", {}, r, m) = Repack1(r, m)
    BY DEF Step
  <2> QED
    BY <2>1, <2>2, RepackIsPass
<1> HIDE DEF F
<1>3. 0 \in G
  <2>1. P(0) = <<>> /\ 0 \in 0 .. Len(X)
    BY SubSeqEmpty
  <2>2. NoGroup \in Grouping
    BY DEF NoGroup, Grouping
  <2>3. Clean(<<>>, keep) = <<>>
    <3>1. Trimmed(<<>>, keep) = <<>>
      BY DEF Trimmed
    <3> QED
      BY <3>1, ThoseOfNone DEF Clean
  <2>4. Contiguous(<<>>)
    BY DEF Contiguous
  <2>5. Placed(X, keep, 0, NoGroup)
    <3> HIDE DEF keep
    <3> QED
      BY <2>2, <2>3, <2>4 DEF Placed, NoGroup
  <2> QED
    BY <1>1, <2>1, <2>5
<1>4. \A k \in 0 .. Len(X) - 1 : k \in G => k + 1 \in G
  <2> SUFFICES ASSUME NEW k \in 0 .. Len(X) - 1, Placed(X, keep, k, F(P(k)))
               PROVE  Placed(X, keep, k + 1, F(P(k + 1))) /\ k + 1 \in 0 .. Len(X)
    OBVIOUS
  <2>1. k \in Nat /\ k + 1 \in 1 .. Len(X) /\ 1 \in 1 .. Len(X) /\ k + 1 \in 0 .. Len(X)
             /\ (k + 1) - 1 = k
    OBVIOUS
  <2>2. X[k + 1] \in Message /\ P(k) \in Seq(Message)
    <3>1. \A i \in 1 .. k : X[i] \in Message
      BY <2>1
    <3> QED
      BY <2>1, <3>1, SubSeqProperties
  <2>3. P(k + 1) = Append(P(k), X[k + 1])
    <3>1. SubSeq(X, 1, k + 1) = SubSeq(X, 1, (k + 1) - 1) \o <<X[k + 1]>>
      BY <2>1, SubSeqRecursiveSecond
    <3> QED
      BY <2>1, <2>2, <3>1, AppendIsConcat
  <2>4. F(P(k + 1)) = Repack1(F(P(k)), X[k + 1])
    BY <1>2, <2>2, <2>3
  <2> HIDE DEF P
  <2> QED
    BY <2>1, <2>4, NextPlaced
<1>5. 0 .. Len(X) \subseteq G
  <2>1. Len(X) \in Nat
    OBVIOUS
  <2> HIDE DEF G
  <2> QED
    BY <1>3, <1>4, <2>1, CountingUp
<1>6. Len(X) \in 0 .. Len(X)
  OBVIOUS
<1>7. Placed(X, keep, Len(X), F(P(Len(X))))
  BY <1>5, <1>6
<1>8. P(Len(X)) = X
  BY SubSeqFull
<1> QED
  BY <1>7, <1>8 DEF F

LEMMA CleanupContiguous ==
  ASSUME NEW X \in Seq(Message), Interrupted(X)
  PROVE  Contiguous(Cleanup(Repack(X)))
<1> DEFINE R == Repack(X)
           s == FoldLeft(Repack1, NoGroup, X)
<1>1. R \in Seq(Message) /\ Range(R) = Range(X)
  BY RepackKeeps
<1>2. CallIds(R) = CallIds(X) /\ ResultIds(R) = ResultIds(X)
  BY <1>1 DEF CallIds, ResultIds
<1>3. R = CloseGroup(s).out
  BY DEF Repack
<1>4. Placed(X, Both(X), Len(X), s)
  BY AllPlaced
<1> HIDE DEF R, s
<1>5. Contiguous(Clean(R, Both(X)))
  <2>1. s \in Grouping
    BY <1>4 DEF Placed
  <2>2. CASE ~s.open
    <3>1. s.results = <<>> /\ s.between = <<>> /\ Contiguous(Clean(s.out, Both(X)))
      BY <1>4, <2>2 DEF Placed
    <3>2. s.out \o <<>> \o <<>> = s.out
      BY <2>1, GroupingFields, ConcatEmptySeq
    <3>3. R = s.out
      BY <1>3, <2>1, <3>1, <3>2, Closed
    <3> QED
      BY <3>1, <3>3
  <2>3. CASE s.open
    <3>1. PICK p, o : Pending(X, Both(X), Len(X), s, p, o)
      BY <1>4, <2>3 DEF Placed
    <3>2. \A j \in Answers(X, p) : j <= Len(X)
      BY DEF Answers
    <3>3. Len(X) \in 0 .. Len(X)
      OBVIOUS
    <3> QED
      BY <1>3, <2>1, <3>1, <3>2, <3>3, ClosingPlaced
  <2> QED
    BY <2>2, <2>3
<1> SUFFICES Contiguous(Cleanup(R))
  BY DEF R
<1>6. CASE CallIds(R) \cup ResultIds(R) # {}
  <2>1. Cleanup(R) = Clean(R, CallIds(R) \cap ResultIds(R))
    BY <1>1, <1>6, CleanupIs
  <2> QED
    BY <1>2, <1>5, <2>1 DEF Both
<1>7. CASE CallIds(R) \cup ResultIds(R) = {}
  <2>1. Cleanup(R) = R
    BY <1>7 DEF Cleanup
  <2>2. \A i \in DOMAIN R : ~MakesCalls(R[i])
    <3> SUFFICES ASSUME NEW i \in DOMAIN R, R[i].calls # <<>> PROVE FALSE
      BY DEF MakesCalls
    <3>1. R[i] \in Range(R) /\ R[i] \in Message
      BY <1>1 DEF Range
    <3>2. PICK j \in 1 .. Len(X) : R[i] = X[j]
      <4>1. R[i] \in Range(X)
        BY <1>1, <3>1
      <4> QED
        BY <4>1 DEF Range
    <3>3. NoId \notin Range(X[j].calls)
      BY InterruptedIs
    <3>4. X[j].calls \in Seq(STRING) /\ X[j].calls # <<>>
      BY <3>1, <3>2, MessageFields
    <3>5. PICK c : c \in Range(X[j].calls)
      <4>1. Len(X[j].calls) \in Nat \ {0}
        BY <3>4, EmptySeq
      <4>2. 1 \in DOMAIN X[j].calls
        BY <3>4, <4>1
      <4> QED
        BY <4>2 DEF Range
    <3>6. c \in CallIds(R)
      BY <3>1, <3>2, <3>3, <3>5, CallIdsOf
    <3> QED
      BY <1>7, <3>6
  <2> QED
    BY <2>1, <2>2 DEF Contiguous
<1> QED
  BY <1>6, <1>7

\* The normalised role is no matter to the calls and their results.
LEMMA NormalInterrupted ==
  ASSUME NEW X \in Seq(Message), Interrupted(X)
  PROVE  Interrupted(Normal(X))
<1> DEFINE N == Normal(X)
<1>1. /\ N \in Seq(Message) /\ DOMAIN N = DOMAIN X /\ DOMAIN X = 1 .. Len(X)
      /\ \A i \in DOMAIN X : N[i] = NormalizeRole(X[i]) /\ X[i] \in Message
  BY NormalSeq
<1>2. \A m \in Message : /\ NormalizeRole(m).role = "tool" <=> m.role = "tool"
                         /\ NormalizeRole(m).role = "assistant" <=> m.role = "assistant"
                         /\ NormalizeRole(m).calls = m.calls /\ NormalizeRole(m).id = m.id
  BY DEF NormalizeRole, Message
<1>3. \A i \in DOMAIN X : /\ N[i].role = "tool" <=> X[i].role = "tool"
                          /\ MakesCalls(N[i]) <=> MakesCalls(X[i])
                          /\ N[i].calls = X[i].calls /\ N[i].id = X[i].id
  BY <1>1, <1>2 DEF MakesCalls
<1>4. CallIds(N) = CallIds(X)
  <2>1. {Range(m.calls) : m \in Range(N)} = {Range(m.calls) : m \in Range(X)}
    BY <1>1, <1>3 DEF Range
  <2> QED
    BY <2>1 DEF CallIds
<1>5. \A i \in DOMAIN X : Answers(N, i) = Answers(X, i)
  BY <1>1, <1>3 DEF Answers
<1>6. /\ \A i \in 1 .. Len(X) : IsInjective(X[i].calls) /\ NoId \notin Range(X[i].calls)
      /\ \A i, j \in 1 .. Len(X) : i # j =>
           /\ Range(X[i].calls) \cap Range(X[j].calls) = {}
           /\ X[i].role = "tool" /\ X[j].role = "tool" => X[i].id # X[j].id
      /\ \A i \in 1 .. Len(X) : Answers(X, i) # {} =>
           /\ i + 1 \in Answers(X, i)
           /\ \A j \in Answers(X, i) : j > i /\ \A k \in i + 1 .. j - 1 :
                /\ ~MakesCalls(X[k])
                /\ X[k].role = "tool" => X[k].id \in CallIds(X)
  BY InterruptedIs
<1> HIDE DEF N
<1>7. \A i \in DOMAIN N : IsInjective(N[i].calls) /\ NoId \notin Range(N[i].calls)
  BY <1>1, <1>3, <1>6
<1>8. \A i, j \in DOMAIN N : i # j =>
           /\ Range(N[i].calls) \cap Range(N[j].calls) = {}
           /\ N[i].role = "tool" /\ N[j].role = "tool" => N[i].id # N[j].id
  <2> SUFFICES ASSUME NEW i \in DOMAIN N, NEW j \in DOMAIN N, i # j
               PROVE  /\ Range(N[i].calls) \cap Range(N[j].calls) = {}
                      /\ N[i].role = "tool" /\ N[j].role = "tool" => N[i].id # N[j].id
    OBVIOUS
  <2>1. i \in DOMAIN X /\ j \in DOMAIN X /\ i \in 1 .. Len(X) /\ j \in 1 .. Len(X)
    BY <1>1
  <2>2. /\ Range(X[i].calls) \cap Range(X[j].calls) = {}
        /\ X[i].role = "tool" /\ X[j].role = "tool" => X[i].id # X[j].id
    BY <1>6, <2>1
  <2>3. /\ N[i].role = "tool" <=> X[i].role = "tool"
        /\ N[i].calls = X[i].calls /\ N[i].id = X[i].id
    BY <1>3, <2>1
  <2>4. /\ N[j].role = "tool" <=> X[j].role = "tool"
        /\ N[j].calls = X[j].calls /\ N[j].id = X[j].id
    BY <1>3, <2>1
  <2> QED
    BY <2>2, <2>3, <2>4
<1>9. \A i \in DOMAIN N : Answers(N, i) # {} =>
           /\ i + 1 \in Answers(N, i)
           /\ \A j \in Answers(N, i) : j > i /\ \A k \in i + 1 .. j - 1 :
                /\ ~MakesCalls(N[k])
                /\ N[k].role = "tool" => N[k].id \in CallIds(N)
  <2> SUFFICES ASSUME NEW i \in DOMAIN N, Answers(N, i) # {}
               PROVE  /\ i + 1 \in Answers(N, i)
                      /\ \A j \in Answers(N, i) : j > i /\ \A k \in i + 1 .. j - 1 :
                           /\ ~MakesCalls(N[k])
                           /\ N[k].role = "tool" => N[k].id \in CallIds(N)
    OBVIOUS
  <2>1. /\ i + 1 \in Answers(X, i)
        /\ \A j \in Answers(X, i) : j > i /\ \A k \in i + 1 .. j - 1 :
             /\ ~MakesCalls(X[k])
             /\ X[k].role = "tool" => X[k].id \in CallIds(X)
    BY <1>1, <1>5, <1>6
  <2>2. ASSUME NEW j \in Answers(X, i), NEW k \in i + 1 .. j - 1 PROVE k \in DOMAIN X
    <3>1. j \in 1 .. Len(X) /\ i \in 1 .. Len(X)
      BY <1>1 DEF Answers
    <3> QED
      BY <1>1, <3>1
  <2> QED
    BY <1>1, <1>3, <1>4, <1>5, <2>1, <2>2
<1>10. Interrupted(N)
  BY <1>7, <1>8, <1>9 DEF Interrupted, Answers
<1> QED
  BY <1>10 DEF N

LEMMA ChoiceFits ==
  ASSUME NEW c \in [shape : STRING, word : STRING]
  PROVE  /\ NormalizeToolChoice(c).shape \in {"absent", "string"}
         /\ NormalizeToolChoice(c).word = "none" <=> c = [shape |-> "function", word |-> "none"]
         /\ SuppressesTools(c) => NormalizeToolChoice(c) = Absent
<1>1. \A w : Word(w).shape = "string" /\ Word(w).word = w
  BY DEF Word
<1>2. Absent.shape = "absent" /\ Absent.word # "none"
  BY DEF Absent
<1>3. c = [shape |-> "function", word |-> "none"] <=> c.shape = "function" /\ c.word = "none"
  OBVIOUS
<1>4. CASE SuppressesTools(c)
  <2>1. NormalizeToolChoice(c) = Absent /\ c.shape # "function"
    BY <1>4 DEF NormalizeToolChoice, SuppressesTools
  <2> QED
    BY <1>2, <1>3, <2>1
<1>5. CASE c.shape = "string" /\ c.word # "none"
  <2>1. NormalizeToolChoice(c) = c
    BY <1>5 DEF NormalizeToolChoice, SuppressesTools
  <2> QED
    BY <1>3, <1>5, <2>1 DEF SuppressesTools
<1>6. CASE c.shape = "object" /\ c.word \in {"auto", "required"}
  <2>1. NormalizeToolChoice(c) = Word(c.word)
    BY <1>6 DEF NormalizeToolChoice, SuppressesTools
  <2> QED
    BY <1>1, <1>3, <1>6, <2>1 DEF SuppressesTools
<1>7. CASE c.shape = "function"
  <2>1. NormalizeToolChoice(c) = Word(IF c.word = "" THEN "auto" ELSE c.word)
    BY <1>7 DEF NormalizeToolChoice, SuppressesTools
  <2>2. NormalizeToolChoice(c).shape = "string"
        /\ NormalizeToolChoice(c).word = (IF c.word = "" THEN "auto" ELSE c.word)
    BY <1>1, <2>1
  <2> QED
    BY <1>3, <1>7, <2>2 DEF SuppressesTools
<1>8. CASE ~SuppressesTools(c) /\ ~(c.shape = "object" /\ c.word \in {"auto", "required"})
           /\ c.shape # "function" /\ ~(c.shape = "string" /\ c.word # "none")
  <2>1. NormalizeToolChoice(c) = Absent
    BY <1>8 DEF NormalizeToolChoice
  <2> QED
    BY <1>2, <1>3, <1>8, <2>1
<1> QED
  BY <1>4, <1>5, <1>6, <1>7, <1>8

\* A deepseek model thinks unless it was told not to, and then an effort goes with it.
LEMMA ThinkingFits ==
  ASSUME NEW b \in Body
  PROVE  LET k == InjectThinking(b)
         IN  /\ k.thinking = IF b.deepseek /\ b.thinking = "" THEN "enabled" ELSE b.thinking
             /\ k.effort \in Int
             /\ b.deepseek => (k.thinking = "disabled" <=> k.effort = Unset)
             /\ k.effort = CASE b.deepseek /\ k.thinking = "disabled" -> Unset
                             [] b.deepseek /\ k.thinking # "disabled" /\ b.effort = Unset -> High
                             [] OTHER -> b.effort
<1> DEFINE k == InjectThinking(b)
<1>1. b.deepseek \in BOOLEAN /\ b.thinking \in STRING /\ b.effort \in Int /\ Unset \in Int /\ High \in Int
      /\ Unset # High /\ b = [messages |-> b.messages, choice |-> b.choice, tools |-> b.tools,
                             deepseek |-> b.deepseek, thinking |-> b.thinking, effort |-> b.effort]
  BY DEF Body, Unset, High
<1>2. CASE ~b.deepseek
  <2>1. k = b
    BY <1>2 DEF InjectThinking
  <2> QED
    BY <1>1, <1>2, <2>1
<1>3. CASE b.deepseek /\ b.thinking = "disabled"
  <2>1. k = [b EXCEPT !.effort = Unset]
    BY <1>3 DEF InjectThinking
  <2>2. k.thinking = "disabled" /\ k.effort = Unset
    BY <1>1, <1>3, <2>1
  <2> QED
    BY <1>1, <1>3, <2>2
<1>4. CASE b.deepseek /\ b.thinking # "disabled"
  <2>1. k = [b EXCEPT !.thinking = IF @ = "" THEN "enabled" ELSE @,
                      !.effort = IF @ = Unset THEN High ELSE @]
    BY <1>4 DEF InjectThinking
  <2>2. /\ k.thinking = (IF b.thinking = "" THEN "enabled" ELSE b.thinking)
        /\ k.effort = (IF b.effort = Unset THEN High ELSE b.effort)
    BY <1>1, <2>1
  <2>3. k.thinking # "disabled" /\ k.effort # Unset
    BY <1>1, <1>4, <2>2
  <2> HIDE DEF k
  <2> QED
    BY <1>1, <1>4, <2>2, <2>3 DEF k
<1> QED
  BY <1>1, <1>2, <1>3, <1>4

LEMMA EffortFits ==
  ASSUME NEW requested \in Int, NEW efforts \in Seq(Nat \cup {Unknown})
  PROVE  LET known == Range(efforts) \ {Unknown}
             e == NormalizeEffort(requested, efforts)
         IN  /\ e = Unset <=> requested = Unset
             /\ IF requested \in {Unknown, Unset} \/ known = {} THEN e = requested
                ELSE /\ e \in known
                     /\ \A s \in known : s <= requested => s <= e /\ e <= requested
                     /\ e > requested => \A s \in known : e <= s
<1> DEFINE known == Range(efforts) \ {Unknown}
           below == {s \in known : s <= requested}
           e == NormalizeEffort(requested, efforts)
<1>1. known \subseteq Nat /\ Unset \notin Nat
  BY DEF Range, Unset
<1>2. e = CASE requested \in {Unknown, Unset} \/ known = {} -> requested
            [] requested \notin {Unknown, Unset} /\ below # {} -> Max(below)
            [] requested \notin {Unknown, Unset} /\ known # {} /\ below = {} -> Min(known)
  BY DEF NormalizeEffort
<1> HIDE DEF known, e
<1>3. CASE requested \in {Unknown, Unset} \/ known = {}
  <2>1. e = requested
    BY <1>2, <1>3
  <2> QED
    BY <1>1, <1>3, <2>1 DEF known, e
<1>4. CASE requested \notin {Unknown, Unset} /\ below # {}
  <2>1. e = Max(below)
    BY <1>2, <1>4
  <2>2. requested \in Nat /\ below \in SUBSET (0 .. requested)
    <3>1. \A s \in below : s \in Nat /\ s <= requested
      BY <1>1
    <3>2. PICK s \in below : TRUE
      BY <1>4
    <3>3. requested \in Nat
      BY <3>1, <3>2
    <3>4. \A x \in below : x \in 0 .. requested
      BY <3>1, <3>3
    <3> HIDE DEF below
    <3> QED
      BY <3>3, <3>4
  <2> DEFINE b == below
  <2>3. b \in SUBSET (0 .. requested) /\ b # {} /\ requested \in Nat
    BY <1>4, <2>2
  <2>4. Max(b) \in b /\ \A i \in b : i <= Max(b)
    <3> HIDE DEF b
    <3> QED
      BY <2>3, MaxOfFirst
  <2>5. e \in known /\ e <= requested /\ \A s \in known : s <= requested => s <= e
    BY <2>1, <2>4
  <2>6. requested \notin {Unknown, Unset} /\ known # {} /\ e \in Nat
    BY <1>1, <1>4, <2>5
  <2>7. ~(e > requested)
    BY <2>5, <2>6
  <2> QED
    BY <1>1, <2>5, <2>6, <2>7 DEF known, e
<1>5. CASE requested \notin {Unknown, Unset} /\ known # {} /\ below = {}
  <2>1. e = Min(known)
    BY <1>2, <1>5
  <2>2. \E x \in known : \A y \in known : x <= y
    BY <1>1, <1>5, LeastNumber
  <2>3. Min(known) \in known /\ \A y \in known : Min(known) <= y
    BY <2>2 DEF Min
  <2>4. e \in known /\ (\A s \in known : e <= s) /\ \A s \in known : ~(s <= requested)
    BY <1>5, <2>1, <2>3
  <2> QED
    BY <1>1, <1>5, <2>4 DEF known, e
<1> QED
  BY <1>3, <1>4, <1>5

\* Whatever body a client sends and whatever efforts a model knows, the body that goes out is
\* acceptable: calls and results answer each other, groups that were only interrupted stand together,
\* nothing said is lost, tool_choice is a word, a deepseek model thinks with an effort unless told not
\* to, and the effort is one of the model's (PrepareBody).
THEOREM PreparedIsAcceptable ==
  ASSUME NEW b \in Body, NEW efforts \in Seq(Nat \cup {Unknown})
  PROVE  Acceptable(b, PrepareBody(b, efforts), efforts)
<1> DEFINE X == b.messages
           N == Normal(X)
           R == Repack(N)
           k == InjectThinking(b)
           after == PrepareBody(b, efforts)
<1>1. X \in Seq(Message) /\ b.choice \in [shape : STRING, word : STRING] /\ b.tools \in BOOLEAN
      /\ k.effort \in Int
  BY ThinkingFits DEF Body
<1>2. /\ after.messages = Cleanup(R) /\ after.choice = NormalizeToolChoice(b.choice)
      /\ after.tools = (b.tools /\ ~SuppressesTools(b.choice))
      /\ after.thinking = k.thinking /\ after.effort = NormalizeEffort(k.effort, efforts)
  BY DEF PrepareBody, Normal, Body
<1> HIDE DEF X, k, after
<1>3. N \in Seq(Message)
  BY <1>1, NormalSeq
<1>4. R \in Seq(Message) /\ Speech(R) = Speech(X)
  BY <1>1, <1>3, RepackKeeps, SpeechOfNormal
<1>5. Paired(after.messages) /\ Speech(after.messages) = Speech(X)
  BY <1>2, <1>4, CleanupPairs
<1>6. Interrupted(X) => Contiguous(after.messages)
  BY <1>1, <1>2, <1>3, NormalInterrupted, CleanupContiguous
<1>7. /\ after.choice.shape \in {"absent", "string"}
      /\ after.choice.word = "none" <=> b.choice = [shape |-> "function", word |-> "none"]
      /\ SuppressesTools(b.choice) => after.choice = Absent
  BY <1>1, <1>2, ChoiceFits
<1>8. after.tools # b.tools => after.choice = Absent
  BY <1>1, <1>2, <1>7
<1>9. /\ after.thinking = IF b.deepseek /\ b.thinking = "" THEN "enabled" ELSE b.thinking
      /\ b.deepseek => (after.thinking = "disabled" <=> after.effort = Unset)
  <2>1. after.effort = Unset <=> k.effort = Unset
    BY <1>1, <1>2, EffortFits
  <2> QED
    BY <1>2, <2>1, ThinkingFits DEF k
<1>10. LET known == Range(efforts) \ {Unknown}
           asked == CASE b.deepseek /\ after.thinking = "disabled" -> Unset
                      [] b.deepseek /\ after.thinking # "disabled" /\ b.effort = Unset -> High
                      [] OTHER -> b.effort
       IN  IF asked \in {Unknown, Unset} \/ known = {} THEN after.effort = asked
           ELSE /\ after.effort \in known
                /\ \A s \in known : s <= asked => s <= after.effort /\ after.effort <= asked
                /\ after.effort > asked => \A s \in known : after.effort <= s
  <2> DEFINE asked == CASE b.deepseek /\ after.thinking = "disabled" -> Unset
                        [] b.deepseek /\ after.thinking # "disabled" /\ b.effort = Unset -> High
                        [] OTHER -> b.effort
  <2>1. k.effort = asked
    BY <1>2, ThinkingFits DEF k
  <2> HIDE DEF asked
  <2>2. asked \in Int /\ after.effort = NormalizeEffort(asked, efforts)
    BY <1>1, <1>2, <2>1
  <2>3. LET known == Range(efforts) \ {Unknown}
        IN  IF asked \in {Unknown, Unset} \/ known = {} THEN after.effort = asked
            ELSE /\ after.effort \in known
                 /\ \A s \in known : s <= asked => s <= after.effort /\ after.effort <= asked
                 /\ after.effort > asked => \A s \in known : after.effort <= s
    BY <2>2, EffortFits
  <2> QED
    BY <2>3 DEF asked
<1>11. Acceptable(b, after, efforts)
  BY <1>5, <1>6, <1>7, <1>8, <1>9, <1>10 DEF Acceptable, X
<1> QED
  BY <1>11 DEF after

-----------------------------------------------------------------------------
(* What goes out. *)

\* Whatever the client sent and whatever efforts the model knows, the body that waits to be sent is
\* one the upstream takes (PrepareBody): it is made of the request that is kept beside it, and
\* neither changes until it is sent.
THEOREM BodiesAreAcceptable == ExchangeSpec => []GoesOutAcceptable
<1>1. ExchangeInit => GoesOutAcceptable
  BY DEF ExchangeInit, GoesOutAcceptable
<1>2. GoesOutAcceptable /\ [ExchangeNext]_exchangeVars => GoesOutAcceptable'
  <2> SUFFICES ASSUME GoesOutAcceptable, [ExchangeNext]_exchangeVars PROVE GoesOutAcceptable'
    OBVIOUS
  <2>1. CASE Prepare
    <3>1. request' \in Body /\ body' = PrepareBody(request', Supported)
      BY <2>1, ExchangeAssumption DEF Prepare
    <3>2. Supported \in Seq(Nat \cup {Unknown})
      BY ExchangeAssumption
    <3> QED
      BY <3>1, <3>2, PreparedIsAcceptable DEF GoesOutAcceptable
  <2>2. CASE Open
    BY <2>2 DEF Open, GoesOutAcceptable
  <2>3. CASE Emit \/ Hangup \/ Tick
    BY <2>3 DEF Emit, Hangup, Tick, GoesOutAcceptable
  <2>4. CASE Reader
    <3>1. CASE Read \/ ReadFails \/ ReadEof
      BY <3>1 DEF Read, ReadFails, ReadEof, Waiting, GoesOutAcceptable
    <3>4. CASE Note
      <4>1. phase' \in {phase, "ended"} /\ request' = request /\ body' = body
        BY <3>4 DEF Note, HandleLines, bodyVars
      <4> QED
        BY <4>1 DEF GoesOutAcceptable
    <3>2. CASE PassOn \/ Finish \/ WriteFails
      BY <3>2 DEF PassOn, Finish, WriteFails, Handling, GoesOutAcceptable
    <3>3. CASE CloseBody
      BY <3>3 DEF CloseBody, GoesOutAcceptable
    <3> QED
      BY <2>4, <3>1, <3>2, <3>3, <3>4 DEF Reader
  <2>5. CASE ClientGone \/ MonitorLook \/ MonitorCut
    BY <2>5 DEF ClientGone, MonitorLook, MonitorCut, bodyVars, GoesOutAcceptable
  <2>6. CASE UNCHANGED exchangeVars
    BY <2>6 DEF exchangeVars, GoesOutAcceptable
  <2> QED
    BY <2>1, <2>2, <2>3, <2>4, <2>5, <2>6 DEF ExchangeNext
<1> QED
  BY <1>1, <1>2, PTL DEF ExchangeSpec

=============================================================================
