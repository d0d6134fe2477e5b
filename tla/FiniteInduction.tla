--------------------------- MODULE FiniteInduction ---------------------------
(***************************************************************************)
(* Induction over finite sets and what it gives for the folds of the       *)
(* community modules.  The statement is a set of counterexamples instead   *)
(* of an operator: a smallest one is enough for a contradiction.           *)
(***************************************************************************)
EXTENDS Integers, FiniteSetsExt, FiniteSetTheorems, TLAPS

\* A set of naturals with an element has a smallest.
LEMMA SmallestExists ==
    ASSUME NEW S \in SUBSET Nat, S # {}
    PROVE  \E x \in S : \A y \in S : x <= y
<1>1. PICK x \in S : \A y \in S : <<y, x>> \notin OpToRel(<, Nat)
    BY WFMin, NatLessThanWellFounded, Zenon
<1>2. \A y \in S : ~(y < x)
    BY <1>1, Zenon DEF OpToRel
<1> QED
    BY <1>2

\* One with an upper bound has a largest.
LEMMA LargestExists ==
    ASSUME NEW S \in SUBSET Nat, S # {}, NEW n \in Nat, \A x \in S : x <= n
    PROVE  \E x \in S : \A y \in S : y <= x
<1> DEFINE Gaps == {n - x : x \in S}
<1>1. Gaps \in SUBSET Nat /\ Gaps # {}
    <2>1. PICK x \in S : TRUE
        OBVIOUS
    <2>2. n - x \in Gaps
        OBVIOUS
    <2>3. Gaps \in SUBSET Nat
        OBVIOUS
    <2> QED
        BY <2>2, <2>3
<1>2. PICK gap \in Gaps : \A other \in Gaps : gap <= other
    <2> HIDE DEF Gaps
    <2> QED
        BY <1>1, SmallestExists
<1>3. PICK x \in S : gap = n - x
    OBVIOUS
<1>4. \A y \in S : n - x <= n - y
    BY <1>2, <1>3
<1> QED
    BY <1>4

\* Among bad subsets of a finite set one has no bad set strictly below it.
LEMMA SmallestSet ==
    ASSUME NEW S, IsFiniteSet(S), NEW Bad \in SUBSET SUBSET S, Bad # {}
    PROVE  \E s \in Bad : \A t \in SUBSET s : t # s => t \notin Bad
<1> DEFINE sizes == {Cardinality(s) : s \in Bad}
<1>1. \A s \in SUBSET S : IsFiniteSet(s) /\ Cardinality(s) \in Nat
    BY FS_Subset, FS_CardinalityType
<1>2. sizes \in SUBSET Nat /\ sizes # {}
    BY <1>1
<1>3. PICK n \in sizes : \A k \in sizes : n <= k
    <2> HIDE DEF sizes
    <2> QED
        BY <1>2, SmallestExists
<1>4. PICK s \in Bad : Cardinality(s) = n
    OBVIOUS
<1>5. ASSUME NEW t \in SUBSET s, t # s, t \in Bad
      PROVE  FALSE
    <2>1. IsFiniteSet(s) /\ Cardinality(s) \in Nat /\ Cardinality(t) \in Nat
        BY <1>1, <1>4, <1>5
    <2>2. Cardinality(t) <= Cardinality(s) /\ Cardinality(t) # Cardinality(s)
        BY <1>5, <2>1, FS_Subset
    <2>3. Cardinality(t) \in sizes
        BY <1>5
    <2> HIDE DEF sizes
    <2> QED
        BY <1>3, <1>4, <2>1, <2>2, <2>3
<1> QED
    BY <1>5

-----------------------------------------------------------------------------
(* Folds.  pick chooses an element of every subset, step takes the element *)
(* and the result for the others.                                          *)

Without(s, pick) == s \ {pick[s]}
FoldedAt(g, s, base, pick, step) ==
    g[s] = IF s = {} THEN base ELSE step[<<pick[s], g[Without(s, pick)]>>]
Folded(g, S, base, pick, step) ==
    DOMAIN g = SUBSET S /\ \A s \in SUBSET S : FoldedAt(g, s, base, pick, step)
Fold(S, base, pick, step) == CHOOSE g : Folded(g, S, base, pick, step)

LEMMA WithoutIsLess ==
    ASSUME NEW S, NEW pick, \A t \in SUBSET S : t # {} => pick[t] \in t,
           NEW s \in SUBSET S, s # {}
    PROVE  Without(s, pick) \in SUBSET s /\ Without(s, pick) # s /\ pick[s] \in s
BY DEF Without

\* The recursion determines what it defines.
LEMMA FoldsAgree ==
    ASSUME NEW S, NEW T, NEW base, NEW pick, NEW step,
           \A t \in SUBSET S : t # {} => pick[t] \in t,
           NEW g, NEW h, Folded(g, S, base, pick, step), Folded(h, T, base, pick, step),
           NEW s, s \in SUBSET S, s \in SUBSET T, IsFiniteSet(s)
    PROVE  g[s] = h[s]
<1> DEFINE Bad == {t \in SUBSET s : g[t] # h[t]}
<1> SUFFICES ASSUME Bad # {} PROVE FALSE
    OBVIOUS
<1>1. PICK t \in Bad : \A u \in SUBSET t : u # t => u \notin Bad
    <2>1. Bad \in SUBSET SUBSET s
        OBVIOUS
    <2> HIDE DEF Bad
    <2> QED
        BY <2>1, SmallestSet
<1>2. t \in SUBSET S /\ t \in SUBSET T /\ t \in SUBSET s /\ g[t] # h[t]
    OBVIOUS
<1>3. FoldedAt(g, t, base, pick, step) /\ FoldedAt(h, t, base, pick, step)
    BY <1>2 DEF Folded
<1>4. t # {}
    BY <1>2, <1>3 DEF FoldedAt
<1>5. Without(t, pick) \in SUBSET t /\ Without(t, pick) # t
    BY <1>2, <1>4, WithoutIsLess
<1>6. g[Without(t, pick)] = h[Without(t, pick)]
    BY <1>1, <1>2, <1>5
<1> QED
    BY <1>2, <1>3, <1>4, <1>6 DEF FoldedAt

\* It defines it.
LEMMA FoldExists ==
    ASSUME NEW S, IsFiniteSet(S), NEW base, NEW pick, NEW step,
           \A t \in SUBSET S : t # {} => pick[t] \in t
    PROVE  Folded(Fold(S, base, pick, step), S, base, pick, step)
<1> DEFINE F(t) == Fold(t, base, pick, step)
           IsFold(g, t) == Folded(g, t, base, pick, step)
           At(g, t) == FoldedAt(g, t, base, pick, step)
           W(t) == Without(t, pick)
           Bad == {t \in SUBSET S : ~IsFold(F(t), t)}
<1> SUFFICES ASSUME Bad # {} PROVE FALSE
    OBVIOUS
<1>1. PICK s \in Bad : \A t \in SUBSET s : t # s => t \notin Bad
    <2>1. Bad \in SUBSET SUBSET S
        OBVIOUS
    <2> HIDE DEF Bad
    <2> QED
        BY <2>1, SmallestSet
<1>2. s \in SUBSET S /\ ~IsFold(F(s), s)
    OBVIOUS
<1>3. ASSUME NEW t \in SUBSET s, t # s
      PROVE  IsFold(F(t), t)
    BY <1>1, <1>2, <1>3
<1>4. ASSUME NEW t \in SUBSET s, t # {}
      PROVE  W(t) \in SUBSET t /\ W(t) \in SUBSET s /\ W(t) # s /\ IsFiniteSet(W(t))
    <2>1. W(t) \in SUBSET t /\ W(t) # t
        BY <1>2, <1>4, WithoutIsLess
    <2>2. IsFiniteSet(W(t))
        BY <1>2, <2>1, FS_Subset
    <2> QED
        BY <2>1, <2>2
<1> HIDE DEF Bad
<1> DEFINE g == [t \in SUBSET s |-> IF t = {} THEN base ELSE step[<<pick[t], F(W(t))[W(t)]>>]]
<1>5. ASSUME NEW t \in SUBSET s, t # s
      PROVE  g[t] = F(t)[t]
    <2>1. IsFold(F(t), t)
        BY <1>3, <1>5
    <2>2. At(F(t), t)
        BY <2>1 DEF Folded
    <2>3. CASE t = {}
        <3>1. F(t)[t] = base
            BY <2>2, <2>3 DEF FoldedAt
        <3> HIDE DEF F
        <3> QED
            BY <2>3, <3>1
    <2>4. CASE t # {}
        <3>1. IsFold(F(W(t)), W(t))
            BY <1>3, <1>4, <2>4
        <3>2. F(t)[W(t)] = F(W(t))[W(t)]
            <4>1. \A u \in SUBSET t : u # {} => pick[u] \in u
                BY <1>2
            <4>2. W(t) \in SUBSET t /\ W(t) \in SUBSET W(t) /\ IsFiniteSet(W(t))
                BY <1>4, <2>4
            <4> HIDE DEF F, W
            <4> QED
                BY <2>1, <3>1, <4>1, <4>2, FoldsAgree
        <3>3. F(t)[t] = step[<<pick[t], F(t)[W(t)]>>]
            BY <2>2, <2>4 DEF FoldedAt
        <3>4. g[t] = step[<<pick[t], F(W(t))[W(t)]>>]
            BY <2>4
        <3> HIDE DEF F, W, g
        <3> QED
            BY <3>2, <3>3, <3>4
    <2> QED
        BY <2>3, <2>4
<1>6. ASSUME NEW t \in SUBSET s
      PROVE  At(g, t)
    <2>1. CASE t = {}
        BY <2>1 DEF FoldedAt
    <2>2. CASE t # {}
        <3>1. g[W(t)] = F(W(t))[W(t)]
            BY <1>4, <1>5, <2>2
        <3>2. g[t] = step[<<pick[t], F(W(t))[W(t)]>>]
            BY <2>2
        <3> HIDE DEF F, g
        <3> QED
            BY <2>2, <3>1, <3>2 DEF FoldedAt
    <2> QED
        BY <2>1, <2>2
<1>7. DOMAIN g = SUBSET s
    OBVIOUS
<1> HIDE DEF g
<1>8. IsFold(g, s)
    BY <1>6, <1>7 DEF Folded
<1>9. IsFold(F(s), s)
    BY <1>8 DEF Fold
<1> QED
    BY <1>2, <1>9

\* For steps within V it is a function into V that solves the recursion.
LEMMA FoldTyped ==
    ASSUME NEW S, IsFiniteSet(S), NEW V, NEW base \in V, NEW pick,
           \A t \in SUBSET S : t # {} => pick[t] \in t,
           NEW step \in [S \X V -> V]
    PROVE  \E g \in [SUBSET S -> V] : \A s \in SUBSET S : FoldedAt(g, s, base, pick, step)
<1> DEFINE g == Fold(S, base, pick, step)
<1>1. Folded(g, S, base, pick, step)
    BY FoldExists
<1> HIDE DEF g
<1> DEFINE Bad == {s \in SUBSET S : g[s] \notin V}
<1>2. Bad = {}
    <2> SUFFICES ASSUME Bad # {} PROVE FALSE
        OBVIOUS
    <2>1. PICK s \in Bad : \A t \in SUBSET s : t # s => t \notin Bad
        <3>1. Bad \in SUBSET SUBSET S
            OBVIOUS
        <3> HIDE DEF Bad
        <3> QED
            BY <3>1, SmallestSet
    <2>2. s \in SUBSET S /\ g[s] \notin V /\ FoldedAt(g, s, base, pick, step)
        BY <1>1 DEF Folded
    <2>3. s # {}
        BY <2>2 DEF FoldedAt
    <2>4. Without(s, pick) \in SUBSET s /\ Without(s, pick) # s /\ pick[s] \in S
        BY <2>2, <2>3, WithoutIsLess
    <2>5. g[Without(s, pick)] \in V
        BY <2>1, <2>2, <2>4
    <2> QED
        BY <2>2, <2>3, <2>4, <2>5 DEF FoldedAt
<1> DEFINE h == [s \in SUBSET S |-> g[s]]
<1>3. h \in [SUBSET S -> V]
    BY <1>2
<1>4. ASSUME NEW s \in SUBSET S
      PROVE  FoldedAt(h, s, base, pick, step)
    <2>1. FoldedAt(g, s, base, pick, step)
        BY <1>1 DEF Folded
    <2>2. s # {} => Without(s, pick) \in SUBSET S
        BY WithoutIsLess
    <2> QED
        BY <2>1, <2>2 DEF FoldedAt
<1> HIDE DEF h
<1> QED
    BY <1>3, <1>4

-----------------------------------------------------------------------------
(* Sums.                                                                   *)

SumOver(f, S) == MapThenSumSet(LAMBDA k : f[k], S)

SomeOf(s) == CHOOSE x \in s : TRUE
Summing(g, f, S) ==
    g = [s \in SUBSET S |-> IF s = {} THEN 0 ELSE f[SomeOf(s)] + g[s \ {SomeOf(s)}]]
PartialSums(f, S) == CHOOSE g : Summing(g, f, S)

LEMMA SumIsLast ==
    ASSUME NEW f, NEW S
    PROVE  SumOver(f, S) = PartialSums(f, S)[S]
BY DEF SumOver, MapThenSumSet, MapThenFoldSet, PartialSums, Summing, SomeOf

LEMMA PartialSumsExist ==
    ASSUME NEW S, IsFiniteSet(S), NEW f, \A x \in S : f[x] \in Nat
    PROVE  Summing(PartialSums(f, S), f, S)
<1> DEFINE pick == [s \in SUBSET S |-> SomeOf(s)]
           step == [p \in S \X Nat |-> f[p[1]] + p[2]]
<1>1. \A s \in SUBSET S : s # {} => pick[s] \in s
    BY DEF SomeOf
<1>2. step \in [S \X Nat -> Nat]
    OBVIOUS
<1>3. PICK g \in [SUBSET S -> Nat] : \A s \in SUBSET S : FoldedAt(g, s, 0, pick, step)
    <2> HIDE DEF pick, step
    <2> QED
        BY <1>1, <1>2, FoldTyped
<1>4. ASSUME NEW s \in SUBSET S
      PROVE  g[s] = IF s = {} THEN 0 ELSE f[SomeOf(s)] + g[s \ {SomeOf(s)}]
    <2>1. s # {} => SomeOf(s) \in S /\ g[s \ {SomeOf(s)}] \in Nat
        BY DEF SomeOf
    <2>2. FoldedAt(g, s, 0, pick, step)
        BY <1>3
    <2>3. Without(s, pick) = s \ {SomeOf(s)} /\ pick[s] = SomeOf(s)
        BY DEF Without
    <2>4. s # {} => step[<<SomeOf(s), g[s \ {SomeOf(s)}]>>] = f[SomeOf(s)] + g[s \ {SomeOf(s)}]
        BY <2>1
    <2> HIDE DEF pick, step
    <2> QED
        BY <2>2, <2>3, <2>4 DEF FoldedAt
<1>5. g = [s \in SUBSET S |-> g[s]]
    OBVIOUS
<1>6. Summing(g, f, S)
    BY <1>4, <1>5 DEF Summing
<1> QED
    BY <1>6 DEF PartialSums

\* A sum of naturals is one, and does not shrink when what is summed grows.
LEMMA SumGrows ==
    ASSUME NEW S, IsFiniteSet(S), NEW f, NEW g,
           \A x \in S : f[x] \in Nat /\ g[x] \in Nat /\ f[x] <= g[x]
    PROVE  SumOver(f, S) \in Nat /\ SumOver(g, S) \in Nat /\ SumOver(f, S) <= SumOver(g, S)
<1> DEFINE F == PartialSums(f, S)
           G == PartialSums(g, S)
           Good(s) == F[s] \in Nat /\ G[s] \in Nat /\ F[s] <= G[s]
           Bad == {s \in SUBSET S : ~Good(s)}
<1>1. Summing(F, f, S) /\ Summing(G, g, S)
    BY PartialSumsExist
<1> HIDE DEF F, G
<1>2. \A s \in SUBSET S :
         /\ F[s] = IF s = {} THEN 0 ELSE f[SomeOf(s)] + F[s \ {SomeOf(s)}]
         /\ G[s] = IF s = {} THEN 0 ELSE g[SomeOf(s)] + G[s \ {SomeOf(s)}]
    BY <1>1 DEF Summing
<1>3. Bad = {}
    <2> SUFFICES ASSUME Bad # {} PROVE FALSE
        OBVIOUS
    <2>1. PICK s \in Bad : \A t \in SUBSET s : t # s => t \notin Bad
        <3>1. Bad \in SUBSET SUBSET S
            OBVIOUS
        <3> HIDE DEF Bad
        <3> QED
            BY <3>1, SmallestSet
    <2>2. s \in SUBSET S /\ ~Good(s)
        OBVIOUS
    <2>3. s # {}
        <3>1. s = {} => F[s] = 0 /\ G[s] = 0
            BY <1>2
        <3>2. s = {} => Good(s)
            BY <3>1
        <3> QED
            BY <2>2, <3>2
    <2>4. SomeOf(s) \in s
        BY <2>3 DEF SomeOf
    <2>5. Good(s \ {SomeOf(s)})
        BY <2>1, <2>2, <2>4
    <2>6. f[SomeOf(s)] \in Nat /\ g[SomeOf(s)] \in Nat /\ f[SomeOf(s)] <= g[SomeOf(s)]
        BY <2>2, <2>4
    <2>7. F[s] = f[SomeOf(s)] + F[s \ {SomeOf(s)}] /\ G[s] = g[SomeOf(s)] + G[s \ {SomeOf(s)}]
        BY <1>2, <2>2, <2>3
    <2>8. Good(s)
        BY <2>5, <2>6, <2>7
    <2> QED
        BY <2>2, <2>8
<1>4. Good(S)
    BY <1>3
<1> QED
    BY <1>4, SumIsLast DEF F, G
=============================================================================
