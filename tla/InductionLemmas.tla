--------------------------- MODULE InductionLemmas ---------------------------
(* What the proofs use in the place of induction: of any set of finite sets   *)
(* some are least, so that a counterexample is a least one.  From that come   *)
(* extreme numbers, the existence of folds, what a sum is and what a filtered *)
(* sequence is.                                                               *)
EXTENDS Integers, Sequences, FiniteSets, Functions, FiniteSetsExt,
        FiniteSetTheorems, SequenceTheorems, WellFoundedInduction, TLAPS

-----------------------------------------------------------------------------
(* Extreme elements.                                                          *)

(* Inclusion of finite sets is well founded.                                  *)
LEMMA LeastSet ==
  ASSUME NEW S, IsFiniteSet(S), NEW T, T \subseteq SUBSET S, T # {}
  PROVE  \E s \in T : \A u \in T : u \subseteq s => u = s
<1>1. IsWellFoundedOn(StrictSubsetOrdering(S), SUBSET S)
  BY FS_StrictSubsetOrderingWellFounded, FS_FiniteSubsetsOfFinite
<1>2. PICK s \in T : \A u \in T : ~ (<<u, s>> \in StrictSubsetOrdering(S))
  BY <1>1, WFMin
<1>3. \A u \in T : <<u, s>> \in (SUBSET S) \X (SUBSET S)
  OBVIOUS
<1> QED BY <1>2, <1>3 DEF StrictSubsetOrdering

(* A set of numbers up to N has a greatest one, *)
LEMMA GreatestUpTo ==
  ASSUME NEW N \in Nat, NEW T \in SUBSET (0..N), T # {}
  PROVE  \E k \in T : \A j \in T : j =< k
<1> DEFINE Above == {k..N : k \in T}
<1>0. \A k \in T : k \in Nat /\ k =< N
  OBVIOUS
<1>1. Above # {} /\ \A k \in T : k..N \subseteq 0..N
  <2>1. PICK k \in T : TRUE
    OBVIOUS
  <2>2. k..N \in Above
    BY <2>1
  <2> QED BY <1>0, <2>2
<1>2. IsFiniteSet(0..N)
  BY FS_Interval
<1>3. PICK s \in Above : \A u \in Above : u \subseteq s => u = s
  <2>1. Above \subseteq SUBSET (0..N)
    BY <1>1
  <2>2. \A S : IsFiniteSet(S) /\ Above \subseteq SUBSET S =>
          \E s \in Above : \A u \in Above : u \subseteq s => u = s
    <3> HIDE DEF Above
    <3> QED BY <1>1, LeastSet
  <2> QED BY <1>2, <2>1, <2>2
<1>4. PICK k \in T : s = k..N
  OBVIOUS
<1>5. \A j \in T : j > k => j..N \subseteq k..N /\ j..N # k..N
  BY <1>0
<1>6. \A j \in T : ~ (j > k)
  BY <1>3, <1>4, <1>5
<1> QED BY <1>0, <1>6

(* and a least one.                                                           *)
LEMMA LeastUpTo ==
  ASSUME NEW N \in Nat, NEW T \in SUBSET (0..N), T # {}
  PROVE  \E k \in T : \A j \in T : k =< j
<1> DEFINE back == {N - k : k \in T}
<1>0. \A k \in T : k \in Nat /\ k =< N
  OBVIOUS
<1>1. back \in SUBSET (0..N) /\ back # {}
  <2>1. \A k \in T : N - k \in 0..N
    BY <1>0
  <2> QED BY <2>1
<1>2. PICK m \in back : \A j \in back : j =< m
  <2> HIDE DEF back
  <2> QED BY <1>1, GreatestUpTo
<1>3. PICK k \in T : m = N - k
  OBVIOUS
<1>4. \A j \in T : N - j \in back
  OBVIOUS
<1>5. \A j \in T : N - j =< N - k
  BY <1>2, <1>3, <1>4
<1> HIDE DEF back
<1> QED BY <1>0, <1>5

(* The least and the greatest element of the community modules.               *)
LEMMA MinMaxAre ==
  ASSUME NEW N \in Nat, NEW T \in SUBSET (0..N), T # {}
  PROVE  /\ Min(T) \in T /\ \A j \in T : Min(T) =< j
         /\ Max(T) \in T /\ \A j \in T : j =< Max(T)
<1>1. Min(T) \in T /\ \A j \in T : Min(T) =< j
  BY LeastUpTo DEF Min
<1>2. Max(T) \in T /\ \A j \in T : j =< Max(T)
  <2>1. PICK k \in T : \A j \in T : j =< k
    BY GreatestUpTo
  <2>2. \A j \in T : j \in Nat
    OBVIOUS
  <2>3. \A j \in T : k >= j
    BY <2>1, <2>2
  <2>4. Max(T) \in T /\ \A j \in T : Max(T) >= j
    BY <2>3 DEF Max
  <2> QED BY <2>2, <2>4
<1> QED BY <1>1, <1>2

-----------------------------------------------------------------------------
(* Folds over the subsets of a finite set, one picked element after another;  *)
(* step takes the value so far and the element.                               *)

Picks(pick, S) == \A s \in SUBSET S : s # {} => pick[s] \in s

FoldStep(g, pick, base, step, s) ==
  IF s = {} THEN base ELSE step[<<g[s \ {pick[s]}], pick[s]>>]

Folded(g, pick, base, step, V, S) ==
  /\ g \in [SUBSET S -> V]
  /\ \A s \in SUBSET S : g[s] = FoldStep(g, pick, base, step, s)

LEMMA FoldsAgree ==
  ASSUME NEW S, IsFiniteSet(S), NEW V, NEW pick, NEW base, NEW step, Picks(pick, S),
         NEW s \in SUBSET S, NEW t \in SUBSET S, NEW g, NEW h,
         Folded(g, pick, base, step, V, s), Folded(h, pick, base, step, V, t)
  PROVE  \A u \in (SUBSET s) \cap (SUBSET t) : g[u] = h[u]
<1> DEFINE T == {u \in (SUBSET s) \cap (SUBSET t) : g[u] # h[u]}
<1>1. SUFFICES ASSUME T # {} PROVE FALSE
  OBVIOUS
<1>2. PICK u \in T : \A v \in T : v \subseteq u => v = u
  <2>1. T \subseteq SUBSET S
    OBVIOUS
  <2> HIDE DEF T
  <2> QED BY <1>1, <2>1, LeastSet
<1>3. u # {}
  BY DEF Folded, FoldStep
<1>4. pick[u] \in u
  BY <1>3 DEF Picks
<1>5. u \ {pick[u]} \in (SUBSET s) \cap (SUBSET t) /\ u \ {pick[u]} # u
  BY <1>4
<1>6. g[u \ {pick[u]}] = h[u \ {pick[u]}]
  BY <1>2, <1>5
<1> QED BY <1>3, <1>6 DEF Folded, FoldStep

LEMMA FoldExists ==
  ASSUME NEW S, IsFiniteSet(S), NEW V, NEW pick, Picks(pick, S),
         NEW base \in V, NEW step \in [V \X S -> V]
  PROVE  \E g : Folded(g, pick, base, step, V, S)
<1> DEFINE T == {s \in SUBSET S : ~ \E g : Folded(g, pick, base, step, V, s)}
<1>1. SUFFICES ASSUME T # {} PROVE FALSE
  OBVIOUS
<1>2. PICK s \in T : \A u \in T : u \subseteq s => u = s
  <2>1. T \subseteq SUBSET S
    OBVIOUS
  <2> HIDE DEF T
  <2> QED BY <1>1, <2>1, LeastSet
<1> DEFINE before(u) == CHOOSE g : Folded(g, pick, base, step, V, u)
<1>3. \A u \in SUBSET s : u # s => Folded(before(u), pick, base, step, V, u)
  BY <1>2
<1> HIDE DEF before
<1> DEFINE rest(u) == u \ {pick[u]}
           val(u) == IF u = {} THEN base ELSE step[<<before(rest(u))[rest(u)], pick[u]>>]
           g == [u \in SUBSET s |-> val(u)]
<1>4. \A u \in SUBSET s : u # {} =>
        /\ pick[u] \in u /\ pick[u] \in S
        /\ rest(u) \in SUBSET s /\ rest(u) # s /\ rest(u) \in SUBSET u
  BY DEF Picks
<1>5. \A u \in SUBSET s : u # s => before(u)[u] \in V
  <2> TAKE u \in SUBSET s
  <2> HAVE u # s
  <2>1. before(u) \in [SUBSET u -> V]
    BY <1>3 DEF Folded
  <2> QED BY <2>1
<1>6. \A u \in SUBSET s : val(u) \in V
  <2> TAKE u \in SUBSET s
  <2>1. CASE u # {}
    <3>1. before(rest(u))[rest(u)] \in V /\ pick[u] \in S
      <4> HIDE DEF rest
      <4> QED BY <1>4, <1>5, <2>1
    <3> QED BY <2>1, <3>1
  <2> QED BY <2>1
<1>7. \A u \in SUBSET s : u # s => before(u)[u] = val(u)
  <2> TAKE u \in SUBSET s
  <2> HAVE u # s
  <2>1. Folded(before(u), pick, base, step, V, u)
    BY <1>3
  <2>2. CASE u = {}
    BY <2>1, <2>2 DEF Folded, FoldStep
  <2>3. CASE u # {}
    <3>1. rest(u) \in SUBSET s /\ rest(u) # s /\ rest(u) \in SUBSET u
      BY <1>4, <2>3
    <3>2. Folded(before(rest(u)), pick, base, step, V, rest(u))
      <4> HIDE DEF rest
      <4> QED BY <1>3, <3>1
    <3>3. before(u)[rest(u)] = before(rest(u))[rest(u)]
      <4>1. u \in SUBSET S /\ rest(u) \in SUBSET S
        OBVIOUS
      <4> HIDE DEF rest
      <4> QED BY <2>1, <3>1, <3>2, <4>1, FoldsAgree
    <3> QED BY <2>1, <2>3, <3>3 DEF Folded, FoldStep
  <2> QED BY <2>2, <2>3
<1>8. \A u \in SUBSET s : g[u] = FoldStep(g, pick, base, step, u)
  <2> TAKE u \in SUBSET s
  <2>1. CASE u = {}
    BY <2>1 DEF FoldStep
  <2>2. CASE u # {}
    <3>1. rest(u) \in SUBSET s /\ rest(u) # s
      BY <1>4, <2>2
    <3>2. g[rest(u)] = before(rest(u))[rest(u)]
      <4>1. g[rest(u)] = val(rest(u))
        BY <3>1
      <4>2. before(rest(u))[rest(u)] = val(rest(u))
        <5> HIDE DEF rest, val
        <5> QED BY <3>1, <1>7
      <4> QED BY <4>1, <4>2
    <3> QED BY <2>2, <3>2 DEF FoldStep
  <2> QED BY <2>1, <2>2
<1>9. Folded(g, pick, base, step, V, s)
  <2> HIDE DEF val
  <2> QED BY <1>6, <1>8 DEF Folded
<1> QED BY <1>9

-----------------------------------------------------------------------------
(* The sum of a function over a finite set.                                   *)

SumTotal(f, S) == FoldFunctionOnSet(LAMBDA x, sum : x + sum, 0, f, S)

PickAny(S) == [s \in SUBSET S |-> CHOOSE x \in s : TRUE]
AddStep(f, S) == [p \in Int \X S |-> f[p[2]] + p[1]]

LEMMA PickAnyPicks ==
  ASSUME NEW S
  PROVE  Picks(PickAny(S), S)
BY DEF Picks, PickAny

(* The library's definition of the sum is the fold.                           *)
LEMMA SumIsFold ==
  ASSUME NEW S, IsFiniteSet(S), NEW f, \A x \in S : f[x] \in Int
  PROVE  \E g : /\ Folded(g, PickAny(S), 0, AddStep(f, S), Int, S)
                /\ SumTotal(f, S) = g[S]
<1> DEFINE any(s) == CHOOSE x \in s : TRUE
           D(g) == g = [s \in SUBSET S |-> IF s = {} THEN 0 ELSE f[any(s)] + g[s \ {any(s)}]]
           it == CHOOSE g : D(g)
<1>1. AddStep(f, S) \in [Int \X S -> Int]
      /\ \A v \in Int, x \in S : AddStep(f, S)[<<v, x>>] = f[x] + v
  BY DEF AddStep
<1>2. PICK g : Folded(g, PickAny(S), 0, AddStep(f, S), Int, S)
  BY <1>1, PickAnyPicks, FoldExists
<1>3. \A s \in SUBSET S : s # {} =>
        any(s) \in s /\ any(s) \in S /\ s \ {any(s)} \in SUBSET S /\ PickAny(S)[s] = any(s)
  BY DEF PickAny
<1>4. \A s \in SUBSET S : g[s] = IF s = {} THEN 0 ELSE f[any(s)] + g[s \ {any(s)}]
  <2> HIDE DEF any
  <2>1. \A s \in SUBSET S : g[s] \in Int
    BY <1>2 DEF Folded
  <2> QED BY <1>1, <1>2, <1>3, <2>1 DEF Folded, FoldStep
<1>5. D(g)
  <2> HIDE DEF any
  <2>1. g \in [SUBSET S -> Int]
    BY <1>2 DEF Folded
  <2> QED BY <1>4, <2>1
<1>6. D(it)
  BY <1>5
<1>7. SumTotal(f, S) = it[S]
  BY DEF SumTotal, FoldFunctionOnSet, MapThenFoldSet
<1> HIDE DEF it
<1>8. it = g
  <2> DEFINE T == {s \in SUBSET S : it[s] # g[s]}
  <2>1. T = {}
    <3> SUFFICES ASSUME T # {} PROVE FALSE
      OBVIOUS
    <3>1. PICK s \in T : \A u \in T : u \subseteq s => u = s
      <4>1. T \subseteq SUBSET S
        OBVIOUS
      <4> HIDE DEF T
      <4> QED BY <4>1, LeastSet
    <3> HIDE DEF any
    <3>2. s # {}
      BY <1>4, <1>6
    <3>3. any(s) \in s /\ s \ {any(s)} \in SUBSET S /\ s \ {any(s)} # s
      BY <1>3, <3>2
    <3>4. it[s \ {any(s)}] = g[s \ {any(s)}]
      BY <3>1, <3>3
    <3>5. it[s] = f[any(s)] + it[s \ {any(s)}]
      BY <1>6, <3>2
    <3>6. g[s] = f[any(s)] + g[s \ {any(s)}]
      BY <1>4, <3>2
    <3> QED BY <3>4, <3>5, <3>6
  <2>2. DOMAIN it = SUBSET S /\ it = [s \in SUBSET S |-> it[s]]
    <3> HIDE DEF any
    <3> QED BY <1>6
  <2>3. DOMAIN g = SUBSET S /\ g = [s \in SUBSET S |-> g[s]]
    BY <1>2 DEF Folded
  <2> QED BY <2>1, <2>2, <2>3
<1> QED BY <1>2, <1>7, <1>8

(* The elements can be taken out in any order.                                *)
Takes(g, f, S) ==
  /\ g[{}] = 0
  /\ \A s \in SUBSET S : \A x \in s : g[s] = f[x] + g[s \ {x}]

LEMMA FoldTakes ==
  ASSUME NEW S, IsFiniteSet(S), NEW f, \A x \in S : f[x] \in Int,
         NEW g, Folded(g, PickAny(S), 0, AddStep(f, S), Int, S)
  PROVE  Takes(g, f, S)
<1>0. \A s \in SUBSET S : g[s] \in Int
  BY DEF Folded
<1>1. g[{}] = 0
  BY DEF Folded, FoldStep
<1>2. \A s \in SUBSET S : s # {} =>
        \E y \in s : g[s] = f[y] + g[s \ {y}]
  <2> TAKE s \in SUBSET S
  <2> HAVE s # {}
  <2> DEFINE y == PickAny(S)[s]
  <2>1. y \in s
    BY DEF PickAny
  <2>2. g[s] = AddStep(f, S)[<<g[s \ {y}], y>>]
    BY DEF Folded, FoldStep
  <2>3. g[s \ {y}] \in Int /\ y \in S
    BY <1>0, <2>1
  <2> HIDE DEF y
  <2>4. AddStep(f, S)[<<g[s \ {y}], y>>] = f[y] + g[s \ {y}]
    BY <2>3 DEF AddStep
  <2> QED BY <2>1, <2>2, <2>4
<1> DEFINE T == {s \in SUBSET S : ~ \A x \in s : g[s] = f[x] + g[s \ {x}]}
<1>3. T = {}
  <2> SUFFICES ASSUME T # {} PROVE FALSE
    OBVIOUS
  <2>1. PICK s \in T : \A u \in T : u \subseteq s => u = s
    <3>1. T \subseteq SUBSET S
      OBVIOUS
    <3> HIDE DEF T
    <3> QED BY <3>1, LeastSet
  <2>2. PICK x \in s : g[s] # f[x] + g[s \ {x}]
    OBVIOUS
  <2>3. PICK y \in s : g[s] = f[y] + g[s \ {y}]
    BY <1>2
  <2>4. x # y
    BY <2>2, <2>3
  <2>5. \A u \in SUBSET s : u # s => \A z \in u : g[u] = f[z] + g[u \ {z}]
    BY <2>1
  <2>6. /\ s \ {y} \in SUBSET s /\ s \ {y} # s /\ x \in s \ {y}
        /\ s \ {x} \in SUBSET s /\ s \ {x} # s /\ y \in s \ {x}
        /\ (s \ {x}) \ {y} = (s \ {y}) \ {x}
    BY <2>4
  <2>7. g[s \ {y}] = f[x] + g[(s \ {y}) \ {x}]
    BY <2>5, <2>6
  <2>8. g[s \ {x}] = f[y] + g[(s \ {y}) \ {x}]
    BY <2>5, <2>6
  <2>9. f[x] \in Int /\ f[y] \in Int /\ g[(s \ {y}) \ {x}] \in Int
    BY <1>0
  <2> QED BY <2>2, <2>3, <2>7, <2>8, <2>9
<1> QED BY <1>1, <1>3 DEF Takes

LEMMA SumEmpty ==
  ASSUME NEW f
  PROVE  SumTotal(f, {}) = 0
<1>1. IsFiniteSet({})
  BY FS_EmptySet
<1>2. PICK g : Folded(g, PickAny({}), 0, AddStep(f, {}), Int, {}) /\ SumTotal(f, {}) = g[{}]
  BY <1>1, SumIsFold
<1> QED BY <1>1, <1>2, FoldTakes DEF Takes

LEMMA SumIsInt ==
  ASSUME NEW S, IsFiniteSet(S), NEW f, \A x \in S : f[x] \in Int
  PROVE  SumTotal(f, S) \in Int
<1>1. PICK g : Folded(g, PickAny(S), 0, AddStep(f, S), Int, S) /\ SumTotal(f, S) = g[S]
  BY SumIsFold
<1> QED BY <1>1 DEF Folded

(* A fold contains the sums of the subsets.                                   *)
LEMMA FoldHasSums ==
  ASSUME NEW S, IsFiniteSet(S), NEW f, \A x \in S : f[x] \in Int,
         NEW g, Folded(g, PickAny(S), 0, AddStep(f, S), Int, S),
         NEW A \in SUBSET S
  PROVE  SumTotal(f, A) = g[A]
<1> DEFINE r == [u \in SUBSET A |-> g[u]]
<1>1. IsFiniteSet(A) /\ \A x \in A : f[x] \in Int
  BY FS_Subset
<1>2. PICK h : Folded(h, PickAny(A), 0, AddStep(f, A), Int, A) /\ SumTotal(f, A) = h[A]
  BY <1>1, SumIsFold
<1>3. Folded(r, PickAny(A), 0, AddStep(f, A), Int, A)
  <2>1. \A u \in SUBSET A : u # {} =>
          PickAny(A)[u] = PickAny(S)[u] /\ PickAny(A)[u] \in u
    BY DEF PickAny
  <2>2. r \in [SUBSET A -> Int]
    BY DEF Folded
  <2>3. \A u \in SUBSET A : r[u] = FoldStep(r, PickAny(A), 0, AddStep(f, A), u)
    <3> TAKE u \in SUBSET A
    <3> DEFINE y == PickAny(A)[u]
    <3>1. CASE u = {}
      BY <3>1 DEF Folded, FoldStep
    <3>2. CASE u # {}
      <4>1. g[u] = AddStep(f, S)[<<g[u \ {y}], y>>]
        BY <2>1, <3>2 DEF Folded, FoldStep
      <4>2. y \in A /\ y \in S /\ u \ {y} \in SUBSET S /\ g[u \ {y}] \in Int
        BY <2>1, <3>2 DEF Folded
      <4>3. r[u \ {y}] = g[u \ {y}] /\ r[u] = g[u]
        OBVIOUS
      <4> HIDE DEF y, r
      <4>4. AddStep(f, S)[<<g[u \ {y}], y>>] = AddStep(f, A)[<<g[u \ {y}], y>>]
        BY <4>2 DEF AddStep
      <4> QED BY <3>2, <4>1, <4>3, <4>4 DEF FoldStep, y
    <3> QED BY <3>1, <3>2
  <2> QED BY <2>2, <2>3 DEF Folded
<1>4. r[A] = h[A]
  <2>1. Picks(PickAny(A), A) /\ A \in SUBSET A
    BY PickAnyPicks
  <2> HIDE DEF r
  <2> QED BY <1>1, <1>2, <1>3, <2>1, FoldsAgree
<1> QED BY <1>2, <1>4

(* A sum over a set is one term and the sum over the others.                  *)
LEMMA SumTakes ==
  ASSUME NEW S, IsFiniteSet(S), NEW f, \A x \in S : f[x] \in Int, NEW x \in S
  PROVE  SumTotal(f, S) = f[x] + SumTotal(f, S \ {x})
<1>1. PICK g : Folded(g, PickAny(S), 0, AddStep(f, S), Int, S) /\ SumTotal(f, S) = g[S]
  BY SumIsFold
<1>2. SumTotal(f, S \ {x}) = g[S \ {x}]
  BY <1>1, FoldHasSums
<1>3. g[S] = f[x] + g[S \ {x}]
  <2>1. Takes(g, f, S)
    BY <1>1, FoldTakes
  <2>2. S \in SUBSET S
    OBVIOUS
  <2> QED BY <2>1, <2>2 DEF Takes
<1> QED BY <1>1, <1>2, <1>3

(* Only the terms count, *)
LEMMA SumSame ==
  ASSUME NEW S, IsFiniteSet(S), NEW f, \A x \in S : f[x] \in Int,
         NEW h, \A x \in S : h[x] = f[x]
  PROVE  SumTotal(h, S) = SumTotal(f, S)
<1>1. AddStep(h, S) = AddStep(f, S)
  BY DEF AddStep
<1>2. PICK g : Folded(g, PickAny(S), 0, AddStep(f, S), Int, S) /\ SumTotal(f, S) = g[S]
  BY SumIsFold
<1>3. \A x \in S : h[x] \in Int
  OBVIOUS
<1>4. PICK k : Folded(k, PickAny(S), 0, AddStep(h, S), Int, S) /\ SumTotal(h, S) = k[S]
  BY <1>3, SumIsFold
<1>5. Folded(k, PickAny(S), 0, AddStep(f, S), Int, S) /\ S \in SUBSET S
  BY <1>1, <1>4
<1> QED BY <1>2, <1>4, <1>5, PickAnyPicks, FoldsAgree

(* and those that are zero do not.                                            *)
LEMMA SumZeros ==
  ASSUME NEW S, IsFiniteSet(S), NEW f, \A x \in S : f[x] \in Int,
         NEW A \in SUBSET S, \A x \in S \ A : f[x] = 0
  PROVE  SumTotal(f, S) = SumTotal(f, A)
<1> DEFINE T == {s \in SUBSET S : A \subseteq s /\ SumTotal(f, s) # SumTotal(f, A)}
<1>1. SUFFICES ASSUME T # {} PROVE FALSE
  BY DEF T
<1>2. PICK s \in T : \A u \in T : u \subseteq s => u = s
  <2>1. T \subseteq SUBSET S
    OBVIOUS
  <2> HIDE DEF T
  <2> QED BY <1>1, <2>1, LeastSet
<1>3. PICK x \in s : x \notin A
  BY <1>2
<1>4. IsFiniteSet(s) /\ \A y \in s : f[y] \in Int
  BY FS_Subset
<1>5. SumTotal(f, s) = f[x] + SumTotal(f, s \ {x})
  BY <1>4, SumTakes
<1>6. SumTotal(f, s \ {x}) \in Int
  <2>1. IsFiniteSet(s \ {x}) /\ \A y \in s \ {x} : f[y] \in Int
    BY <1>4, FS_RemoveElement
  <2> QED BY <2>1, SumIsInt
<1>7. SumTotal(f, s) = SumTotal(f, s \ {x})
  <2>1. f[x] = 0
    BY <1>3
  <2> QED BY <1>5, <1>6, <2>1
<1>8. s \ {x} \in T /\ s \ {x} # s /\ s \ {x} \subseteq s
  BY <1>3, <1>7
<1> QED BY <1>2, <1>8

(* A sum of natural numbers does not grow when terms are left out.            *)
LEMMA SumShrinks ==
  ASSUME NEW S, IsFiniteSet(S), NEW f, \A y \in S : f[y] \in Nat, NEW A \in SUBSET S
  PROVE  SumTotal(f, A) =< SumTotal(f, S)
<1> DEFINE T == {s \in SUBSET S : A \subseteq s /\ ~ (SumTotal(f, A) =< SumTotal(f, s))}
<1>1. SUFFICES ASSUME T # {} PROVE FALSE
  BY DEF T
<1>2. PICK s \in T : \A u \in T : u \subseteq s => u = s
  <2>1. T \subseteq SUBSET S
    OBVIOUS
  <2> HIDE DEF T
  <2> QED BY <1>1, <2>1, LeastSet
<1>3. SumTotal(f, A) \in Int
  <2>1. IsFiniteSet(A) /\ \A y \in A : f[y] \in Int
    BY FS_Subset
  <2> QED BY <2>1, SumIsInt
<1>4. PICK x \in s : x \notin A
  <2>1. s # A
    BY <1>2, <1>3
  <2> QED BY <1>2, <2>1
<1>5. IsFiniteSet(s) /\ \A y \in s : f[y] \in Int
  BY <1>2, FS_Subset
<1>6. SumTotal(f, s) = f[x] + SumTotal(f, s \ {x})
  BY <1>5, SumTakes
<1>7. SumTotal(f, s \ {x}) \in Int
  <2>1. IsFiniteSet(s \ {x}) /\ \A y \in s \ {x} : f[y] \in Int
    BY <1>5, FS_RemoveElement
  <2> QED BY <2>1, SumIsInt
<1>8. f[x] \in Nat
  BY <1>2
<1>9. SumTotal(f, A) =< SumTotal(f, s \ {x}) => SumTotal(f, A) =< SumTotal(f, s)
  BY <1>3, <1>6, <1>7, <1>8
<1>10. s \ {x} \in T /\ s \ {x} # s /\ s \ {x} \subseteq s
  BY <1>2, <1>4, <1>9
<1> QED BY <1>2, <1>10

(* When one term changes the sum changes by as much.                          *)
LEMMA SumChanges ==
  ASSUME NEW S, IsFiniteSet(S), NEW f, \A y \in S : f[y] \in Int, NEW x \in S,
         NEW h, \A y \in S : y # x => h[y] = f[y], h[x] \in Int
  PROVE  SumTotal(h, S) = SumTotal(f, S) + (h[x] - f[x])
<1>1. SumTotal(f, S) = f[x] + SumTotal(f, S \ {x})
  BY SumTakes
<1>2. \A y \in S : h[y] \in Int
  OBVIOUS
<1>3. SumTotal(h, S) = h[x] + SumTotal(h, S \ {x})
  BY <1>2, SumTakes
<1>4. IsFiniteSet(S \ {x}) /\ (\A y \in S \ {x} : f[y] \in Int)
      /\ \A y \in S \ {x} : h[y] = f[y]
  BY FS_RemoveElement
<1>5. SumTotal(h, S \ {x}) = SumTotal(f, S \ {x}) /\ SumTotal(f, S \ {x}) \in Int
  BY <1>4, SumSame, SumIsInt
<1> QED BY <1>1, <1>3, <1>5

(* When one term grows by one so does every sum that has it.                  *)
LEMMA TermGrows ==
  ASSUME NEW D, IsFiniteSet(D), NEW f \in [D -> Nat], NEW x \in D
  PROVE  /\ [f EXCEPT ![x] = @ + 1] \in [D -> Nat]
         /\ \A S \in SUBSET D :
              /\ SumTotal(f, S) \in Int
              /\ SumTotal([f EXCEPT ![x] = @ + 1], S)
                   = SumTotal(f, S) + (IF x \in S THEN 1 ELSE 0)
<1> DEFINE h == [f EXCEPT ![x] = @ + 1]
<1>1. /\ h \in [D -> Nat] /\ h[x] = f[x] + 1 /\ h[x] \in Int /\ f[x] \in Int
      /\ \A y \in D : y # x => h[y] = f[y]
      /\ \A y \in D : f[y] \in Int
  OBVIOUS
<1> HIDE DEF h
<1>2. ASSUME NEW S \in SUBSET D
      PROVE  /\ SumTotal(f, S) \in Int
             /\ SumTotal(h, S) = SumTotal(f, S) + (IF x \in S THEN 1 ELSE 0)
  <2>1. IsFiniteSet(S)
    BY FS_Subset
  <2>2. \A y \in S : f[y] \in Int
    BY <1>1
  <2>3. SumTotal(f, S) \in Int
    BY <2>1, <2>2, SumIsInt
  <2>4. CASE x \in S
    <3>1. \A y \in S : y # x => h[y] = f[y]
      BY <1>1
    <3>2. SumTotal(h, S) = SumTotal(f, S) + (h[x] - f[x])
      BY <1>1, <2>1, <2>2, <2>4, <3>1, SumChanges
    <3> QED BY <1>1, <2>3, <2>4, <3>2
  <2>5. CASE x \notin S
    <3>1. \A y \in S : h[y] = f[y]
      BY <1>1, <2>5
    <3>2. SumTotal(h, S) = SumTotal(f, S)
      BY <2>1, <2>2, <3>1, SumSame
    <3> QED BY <2>3, <2>5, <3>2
  <2> QED BY <2>4, <2>5
<1> QED BY <1>1, <1>2 DEF h

-----------------------------------------------------------------------------
(* A sequence filtered from left to right: of seq the elements at the indices *)
(* in kept.                                                                   *)

FilterStep(it, seq, kept, s) ==
  IF s = {} THEN <<>>
  ELSE IF Max(s) \in kept THEN Append(it[s \ {Max(s)}], seq[Max(s)])
  ELSE it[s \ {Max(s)}]

Filters(it, seq, kept) ==
  it = [s \in SUBSET DOMAIN seq |-> FilterStep(it, seq, kept, s)]

LEMMA MaxPicks ==
  ASSUME NEW N \in Nat, NEW s \in SUBSET (1..N), s # {}
  PROVE  Max(s) \in s /\ s \ {Max(s)} \in SUBSET (1..N) /\ s \ {Max(s)} # s
<1>1. s \in SUBSET (0..N)
  OBVIOUS
<1> QED BY <1>1, MinMaxAre

(* The filter is well defined.                                                *)
LEMMA FilterExists ==
  ASSUME NEW R, NEW seq \in Seq(R), NEW kept
  PROVE  \E it : Filters(it, seq, kept)
<1> DEFINE S == 1..Len(seq)
           V == Seq(R)
           pick == [s \in SUBSET S |-> Max(s)]
           step == [p \in V \X S |-> IF p[2] \in kept THEN Append(p[1], seq[p[2]]) ELSE p[1]]
<1>1. Len(seq) \in Nat /\ DOMAIN seq = S /\ \A i \in S : seq[i] \in R
  OBVIOUS
<1>2. IsFiniteSet(S)
  BY <1>1, FS_Interval
<1>3. Picks(pick, S)
  BY <1>1, MaxPicks DEF Picks
<1>4. step \in [V \X S -> V] /\ <<>> \in V
  <2>1. \A p \in V \X S : Append(p[1], seq[p[2]]) \in V
    BY <1>1
  <2> QED BY <2>1
<1>5. \A v \in V, i \in S :
        step[<<v, i>>] = IF i \in kept THEN Append(v, seq[i]) ELSE v
  OBVIOUS
<1>6. PICK g : Folded(g, pick, <<>>, step, V, S)
  <2> HIDE DEF S, V, pick, step
  <2> QED BY <1>2, <1>3, <1>4, FoldExists
<1>7. \A s \in SUBSET S : g[s] \in V
  <2> HIDE DEF S, V, pick, step
  <2> QED BY <1>6 DEF Folded
<1>8. \A s \in SUBSET S : s # {} =>
        Max(s) \in S /\ s \ {Max(s)} \in SUBSET S /\ pick[s] = Max(s)
  BY <1>1, MaxPicks
<1>9. \A s \in SUBSET S : g[s] = FilterStep(g, seq, kept, s)
  <2> TAKE s \in SUBSET S
  <2> HIDE DEF S, V, pick, step
  <2>1. CASE s = {}
    BY <1>6, <2>1 DEF Folded, FoldStep, FilterStep
  <2>2. CASE s # {}
    <3>1. g[s] = step[<<g[s \ {Max(s)}], Max(s)>>]
      BY <1>6, <1>8, <2>2 DEF Folded, FoldStep
    <3>2. g[s \ {Max(s)}] \in V /\ Max(s) \in S
      BY <1>7, <1>8, <2>2
    <3> QED BY <1>5, <2>2, <3>1, <3>2 DEF FilterStep
  <2> QED BY <2>1, <2>2
<1>10. g = [s \in SUBSET S |-> g[s]]
  <2> HIDE DEF S, V, pick, step
  <2> QED BY <1>6 DEF Folded
<1>11. g = [s \in SUBSET DOMAIN seq |-> FilterStep(g, seq, kept, s)]
  <2> HIDE DEF S
  <2> QED BY <1>1, <1>9, <1>10
<1> QED BY <1>11 DEF Filters

(* Each of its parts has elements of seq only, each from a kept index.        *)
LEMMA FilterParts ==
  ASSUME NEW R, NEW seq \in Seq(R), NEW kept, NEW it, Filters(it, seq, kept)
  PROVE  \A s \in SUBSET DOMAIN seq :
           /\ it[s] \in Seq(R)
           /\ \A k \in DOMAIN it[s] : \E i \in DOMAIN seq : i \in kept /\ it[s][k] = seq[i]
<1> DEFINE Good(v) == /\ v \in Seq(R)
                      /\ \A k \in DOMAIN v : \E i \in DOMAIN seq : i \in kept /\ v[k] = seq[i]
           T == {s \in SUBSET DOMAIN seq : ~ Good(it[s])}
<1>1. Len(seq) \in Nat /\ DOMAIN seq = 1..Len(seq) /\ \A i \in DOMAIN seq : seq[i] \in R
  OBVIOUS
<1>2. IsFiniteSet(DOMAIN seq)
  BY <1>1, FS_Interval
<1>3. T = {}
  <2> SUFFICES ASSUME T # {} PROVE FALSE
    OBVIOUS
  <2>1. PICK s \in T : \A u \in T : u \subseteq s => u = s
    <3>1. T \subseteq SUBSET DOMAIN seq
      OBVIOUS
    <3> HIDE DEF T
    <3> QED BY <1>2, <3>1, LeastSet
  <2>2. it[s] = FilterStep(it, seq, kept, s)
    BY DEF Filters
  <2>3. s # {}
    <3> SUFFICES ASSUME s = {} PROVE FALSE
      OBVIOUS
    <3>1. it[s] = <<>>
      BY <2>2 DEF FilterStep
    <3>2. <<>> \in Seq(R) /\ DOMAIN <<>> = {}
      OBVIOUS
    <3>3. Good(it[s])
      BY <3>1, <3>2
    <3> QED BY <2>1, <3>3
  <2>4. Max(s) \in s /\ Max(s) \in DOMAIN seq
        /\ s \ {Max(s)} \in SUBSET DOMAIN seq /\ s \ {Max(s)} # s
    <3>1. s \in SUBSET (1..Len(seq))
      BY <1>1
    <3> QED BY <1>1, <2>3, <3>1, MaxPicks
  <2>5. Good(it[s \ {Max(s)}])
    BY <2>1, <2>4
  <2> DEFINE v == it[s \ {Max(s)}]
             x == seq[Max(s)]
  <2>6. CASE Max(s) \in kept
    <3>1. it[s] = Append(v, x) /\ x \in R
      BY <1>1, <2>2, <2>3, <2>4, <2>6 DEF FilterStep
    <3>2. v \in Seq(R)
      BY <2>5
    <3>3. \A k \in DOMAIN Append(v, x) : (k \in DOMAIN v /\ Append(v, x)[k] = v[k])
                                         \/ Append(v, x)[k] = x
      <4> HIDE DEF v, x
      <4> QED BY <3>1, <3>2
    <3>4. Append(v, x) \in Seq(R)
      <4> HIDE DEF v, x
      <4> QED BY <3>1, <3>2
    <3>5. Good(Append(v, x))
      BY <2>4, <2>5, <2>6, <3>3, <3>4
    <3> QED BY <2>1, <3>1, <3>5
  <2>7. CASE Max(s) \notin kept
    <3>1. it[s] = v
      BY <2>2, <2>3, <2>7 DEF FilterStep
    <3> QED BY <2>1, <2>5, <3>1
  <2> QED BY <2>6, <2>7
<1> QED BY <1>3

LEMMA FilterKeeps ==
  ASSUME NEW R, NEW seq \in Seq(R), NEW kept, NEW it, Filters(it, seq, kept)
  PROVE  /\ it[DOMAIN seq] \in Seq(R)
         /\ \A k \in DOMAIN it[DOMAIN seq] :
              \E i \in DOMAIN seq : i \in kept /\ it[DOMAIN seq][k] = seq[i]
BY FilterParts

-----------------------------------------------------------------------------
(* How many elements of a sequence are good.                                  *)
PlacesIn(seq, good) == {k \in DOMAIN seq : seq[k] \in good}

LEMMA PlacesAreFinite ==
  ASSUME NEW R, NEW seq \in Seq(R), NEW good
  PROVE  /\ IsFiniteSet(PlacesIn(seq, good))
         /\ Cardinality(PlacesIn(seq, good)) \in Nat
         /\ Cardinality(PlacesIn(seq, good)) =< Len(seq)
<1>1. Len(seq) \in Nat /\ DOMAIN seq = 1..Len(seq)
  OBVIOUS
<1>2. IsFiniteSet(DOMAIN seq) /\ Cardinality(DOMAIN seq) = Len(seq)
  BY <1>1, FS_Interval
<1>3. PlacesIn(seq, good) \subseteq DOMAIN seq
  BY DEF PlacesIn
<1> HIDE DEF PlacesIn
<1>4. /\ IsFiniteSet(PlacesIn(seq, good))
      /\ Cardinality(PlacesIn(seq, good)) =< Cardinality(DOMAIN seq)
  BY <1>2, <1>3, FS_Subset
<1>5. Cardinality(PlacesIn(seq, good)) \in Nat
  BY <1>4, FS_CardinalityType
<1> QED BY <1>2, <1>4, <1>5

LEMMA AppendCounts ==
  ASSUME NEW R, NEW seq \in Seq(R), NEW x \in R, NEW good
  PROVE  Cardinality(PlacesIn(Append(seq, x), good))
           = Cardinality(PlacesIn(seq, good)) + (IF x \in good THEN 1 ELSE 0)
<1> DEFINE n == Len(seq) + 1
           longer == Append(seq, x)
<1>1. /\ Len(seq) \in Nat /\ DOMAIN seq = 1..Len(seq) /\ DOMAIN longer = 1..n
      /\ longer[n] = x /\ \A k \in DOMAIN seq : longer[k] = seq[k]
  OBVIOUS
<1>2. n \notin DOMAIN seq /\ DOMAIN longer = DOMAIN seq \union {n}
  BY <1>1
<1> HIDE DEF n, longer
<1>3. PlacesIn(longer, good) = IF x \in good THEN PlacesIn(seq, good) \union {n} ELSE PlacesIn(seq, good)
  BY <1>1, <1>2 DEF PlacesIn
<1>4. n \notin PlacesIn(seq, good)
  BY <1>2 DEF PlacesIn
<1>5. IsFiniteSet(PlacesIn(seq, good)) /\ Cardinality(PlacesIn(seq, good)) \in Nat
  BY PlacesAreFinite
<1>6. Cardinality(PlacesIn(seq, good) \union {n}) = Cardinality(PlacesIn(seq, good)) + 1
  BY <1>4, <1>5, FS_AddElement
<1> QED BY <1>3, <1>5, <1>6 DEF longer

(* A filter that keeps all the good elements keeps their number.              *)
LEMMA FilterCounts ==
  ASSUME NEW R, NEW seq \in Seq(R), NEW kept, NEW it, Filters(it, seq, kept),
         NEW good, \A i \in DOMAIN seq : seq[i] \in good => i \in kept
  PROVE  Cardinality(PlacesIn(it[DOMAIN seq], good)) = Cardinality(PlacesIn(seq, good))
<1> DEFINE In(s) == {i \in s : seq[i] \in good}
           T == {s \in SUBSET DOMAIN seq :
                   Cardinality(PlacesIn(it[s], good)) # Cardinality(In(s))}
<1>1. Len(seq) \in Nat /\ DOMAIN seq = 1..Len(seq) /\ \A i \in DOMAIN seq : seq[i] \in R
  OBVIOUS
<1>2. IsFiniteSet(DOMAIN seq)
  BY <1>1, FS_Interval
<1>3. T = {}
  <2> SUFFICES ASSUME T # {} PROVE FALSE
    OBVIOUS
  <2>1. PICK s \in T : \A u \in T : u \subseteq s => u = s
    <3>1. T \subseteq SUBSET DOMAIN seq
      OBVIOUS
    <3> HIDE DEF T
    <3> QED BY <1>2, <3>1, LeastSet
  <2>2. it[s] = FilterStep(it, seq, kept, s)
    BY DEF Filters
  <2>3. s # {}
    <3> SUFFICES ASSUME s = {} PROVE FALSE
      OBVIOUS
    <3>1. it[s] = <<>>
      BY <2>2 DEF FilterStep
    <3>2. DOMAIN <<>> = {}
      OBVIOUS
    <3>3. PlacesIn(it[s], good) = {}
      BY <3>1, <3>2 DEF PlacesIn
    <3>4. In(s) = {}
      OBVIOUS
    <3> QED BY <2>1, <3>3, <3>4
  <2> DEFINE m == Max(s)
             rest == s \ {m}
             v == it[rest]
             x == seq[m]
  <2>4. m \in s /\ m \in DOMAIN seq /\ rest \in SUBSET DOMAIN seq /\ rest # s
    <3>1. s \in SUBSET (1..Len(seq))
      BY <1>1
    <3> QED BY <1>1, <2>3, <3>1, MaxPicks
  <2>5. Cardinality(PlacesIn(v, good)) = Cardinality(In(rest))
    BY <2>1, <2>4
  <2>6. v \in Seq(R) /\ x \in R
    BY <1>1, <2>4, FilterParts
  <2>7. it[s] = IF m \in kept THEN Append(v, x) ELSE v
    BY <2>2, <2>3 DEF FilterStep
  <2>8. Cardinality(PlacesIn(Append(v, x), good))
          = Cardinality(PlacesIn(v, good)) + (IF x \in good THEN 1 ELSE 0)
    <3> HIDE DEF v, x
    <3> QED BY <2>6, AppendCounts
  <2>9. In(s) = IF x \in good THEN In(rest) \union {m} ELSE In(rest)
    BY <2>4
  <2>10. IsFiniteSet(In(rest)) /\ m \notin In(rest)
    <3>1. In(rest) \subseteq DOMAIN seq
      BY <2>4
    <3> QED BY <1>2, <3>1, FS_Subset
  <2>11. /\ Cardinality(In(rest) \union {m}) = Cardinality(In(rest)) + 1
         /\ Cardinality(In(rest)) \in Nat
    <3> HIDE DEF In
    <3> QED BY <2>10, FS_AddElement, FS_CardinalityType
  <2>12. x \in good => m \in kept
    BY <2>4
  <2>13. Cardinality(PlacesIn(it[s], good)) = Cardinality(In(s))
    <3> HIDE DEF In, m, v, x, rest
    <3> QED BY <2>5, <2>7, <2>8, <2>9, <2>11, <2>12
  <2> QED BY <2>1, <2>13
<1>4. In(DOMAIN seq) = PlacesIn(seq, good)
  BY DEF PlacesIn
<1> QED BY <1>3, <1>4
=============================================================================
