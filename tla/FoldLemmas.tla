----------------------------- MODULE FoldLemmas -----------------------------
(***************************************************************************)
(* Induction, and what a fold of the community modules makes of its        *)
(* arguments. A fold is a function that calls itself, chosen by CHOOSE: it *)
(* has to be shown to exist before anything is known of it. A lemma cannot *)
(* have an operator as a parameter, so the step of a fold is a function    *)
(* here, and what a fold keeps is a set.                                   *)
(***************************************************************************)
EXTENDS Integers, Sequences, FiniteSets, Functions, SequencesExt, FiniteSetsExt,
        FiniteSetTheorems, WellFoundedInduction, TLAPS

-----------------------------------------------------------------------------
\* Numbers

\* A set of numbers that is not empty has a least one.
LEMMA LeastNumber ==
    ASSUME NEW N, N \subseteq Nat, N # {}
    PROVE  \E n \in N : \A k \in N : n <= k
<1>1. IsWellFoundedOn(OpToRel(<, Nat), Nat)
  BY NatLessThanWellFounded
<1>2. PICK n \in N : \A k \in N : ~ (<<k, n>> \in OpToRel(<, Nat))
  BY <1>1, WFMin, Zenon
<1>3. \A k \in N : ~(k < n)
  BY <1>2 DEF OpToRel
<1> QED BY <1>3

\* What holds of 0, and of a number if it holds of the one before, holds up to n.
LEMMA UpTo ==
    ASSUME NEW n \in Nat, NEW G, 0 \in G, \A k \in 1..n : k - 1 \in G => k \in G
    PROVE  \A k \in 0..n : k \in G
<1> DEFINE N == {k \in 0..n : k \notin G}
<1>1. N = {}
  <2> SUFFICES ASSUME N # {} PROVE FALSE
    OBVIOUS
  <2>1. N \subseteq Nat
    OBVIOUS
  <2>2. PICK k \in N : \A j \in N : k <= j
    <3> HIDE DEF N
    <3> QED BY <2>1, LeastNumber
  <2>3. k \in 1..n /\ k - 1 \in 0..n /\ k - 1 \notin N
    BY <2>2
  <2> QED BY <2>2, <2>3
<1> QED BY <1>1

\* A set of numbers from 1 to n that is not empty has a greatest one, which is Max.
LEMMA MaxIsIn ==
    ASSUME NEW n \in Nat, NEW S \in SUBSET (1..n), S # {}
    PROVE  Max(S) \in S /\ \A k \in S : k <= Max(S)
<1> DEFINE N == {n - k : k \in S}
<1>1. N \subseteq Nat /\ N # {}
  OBVIOUS
<1>2. PICK m \in N : \A j \in N : m <= j
  <2> HIDE DEF N
  <2> QED BY <1>1, LeastNumber
<1>3. PICK k \in S : m = n - k
  BY <1>2
<1>4. ASSUME NEW j \in S PROVE k >= j
  <2>1. n - j \in N
    OBVIOUS
  <2>2. n - k <= n - j
    BY <2>1, <1>2, <1>3
  <2>3. j \in Nat /\ k \in Nat
    OBVIOUS
  <2> QED BY <2>2, <2>3
<1>5. \E x \in S : \A y \in S : x >= y
  BY <1>4
<1> QED BY <1>5 DEF Max

-----------------------------------------------------------------------------
\* Finite sets, an element at a time: pick[s] is the one that is taken of s.

Picks(pick, D) == \A s \in SUBSET D : s # {} => pick[s] \in s

\* What holds of the empty set, and of a set if it holds of the set without its
\* picked element, holds of every subset of a finite set.
LEMMA ElementwiseInduction ==
    ASSUME NEW D, IsFiniteSet(D), NEW pick, Picks(pick, D), NEW G, {} \in G,
           \A s \in SUBSET D : s # {} /\ s \ {pick[s]} \in G => s \in G
    PROVE  \A s \in SUBSET D : s \in G
<1>0. \A s \in SUBSET D : IsFiniteSet(s) /\ Cardinality(s) \in Nat
  BY FS_Subset, FS_CardinalityType
<1> DEFINE N == {Cardinality(s) : s \in {t \in SUBSET D : t \notin G}}
<1>1. N = {}
  <2> SUFFICES ASSUME N # {} PROVE FALSE
    OBVIOUS
  <2>1. N \subseteq Nat
    BY <1>0
  <2>2. PICK n \in N : \A k \in N : n <= k
    <3> HIDE DEF N
    <3> QED BY <2>1, LeastNumber
  <2>3. PICK s \in SUBSET D : s \notin G /\ n = Cardinality(s)
    BY <2>2
  <2>4. s # {} /\ IsFiniteSet(s) /\ pick[s] \in s
    BY <2>3, <1>0 DEF Picks
  <2>5. Cardinality(s \ {pick[s]}) = Cardinality(s) - 1 /\ Cardinality(s) \in Nat
    BY <2>4, <1>0, FS_RemoveElement
  <2>6. Cardinality(s \ {pick[s]}) \notin N
    <3>1. \A k \in N : Cardinality(s) <= k
      BY <2>2, <2>3
    <3> HIDE DEF N
    <3> QED BY <3>1, <2>5
  <2>7. s \ {pick[s]} \in G
    BY <2>6
  <2> QED BY <2>7, <2>4, <2>3
<1> QED BY <1>1

\* A fold with step F, of the elements f, from base; g is the fold of fewer.
Folded(F, base, f, pick, T, g) ==
    [s \in T |-> IF s = {} THEN base ELSE F[<<f[pick[s]], g[s \ {pick[s]}]>>]]

IsFold(g, F, base, f, pick, D) == g = Folded(F, base, f, pick, SUBSET D, g)

Small(D, n) == {s \in SUBSET D : Cardinality(s) <= n}

\* There is a fold.
LEMMA FoldExists ==
    ASSUME NEW D, IsFiniteSet(D), NEW pick, Picks(pick, D), NEW F, NEW base, NEW f
    PROVE  \E g : IsFold(g, F, base, f, pick, D)
<1>0. \A s \in SUBSET D : IsFiniteSet(s) /\ Cardinality(s) \in Nat
  BY FS_Subset, FS_CardinalityType
<1>00. Cardinality(D) \in Nat
  BY FS_CardinalityType
<1> DEFINE G == {n \in Nat : \E g : g = Folded(F, base, f, pick, Small(D, n), g)}
<1>1. 0 \in G
  <2> DEFINE g == [s \in Small(D, 0) |-> base]
  <2>1. \A s \in Small(D, 0) : s = {}
    BY <1>0, FS_EmptySet DEF Small
  <2>2. g = Folded(F, base, f, pick, Small(D, 0), g)
    BY <2>1 DEF Folded
  <2> QED BY <2>2
<1>2. ASSUME NEW n \in 1..Cardinality(D), n - 1 \in G PROVE n \in G
  <2>0. n \in Nat /\ n - 1 \in Nat
    BY <1>2, <1>00
  <2>1. PICK g : g = Folded(F, base, f, pick, Small(D, n - 1), g)
    BY <1>2
  <2> DEFINE h == Folded(F, base, f, pick, Small(D, n), g)
  <2>2. \A s \in Small(D, n - 1) : s \in Small(D, n)
    BY <1>0, <2>0 DEF Small
  <2>3. \A s \in Small(D, n - 1) : h[s] = g[s]
    BY <2>1, <2>2, Zenon DEF Folded
  <2>4. ASSUME NEW s \in Small(D, n), s # {} PROVE s \ {pick[s]} \in Small(D, n - 1)
    <3>1. s \in SUBSET D /\ Cardinality(s) <= n /\ IsFiniteSet(s) /\ Cardinality(s) \in Nat
      BY <1>0 DEF Small
    <3>2. pick[s] \in s
      BY <3>1, <2>4 DEF Picks
    <3>3. Cardinality(s \ {pick[s]}) = Cardinality(s) - 1
      BY <3>1, <3>2, FS_RemoveElement
    <3> QED BY <3>1, <3>3, <2>0 DEF Small
  <2>5. h = Folded(F, base, f, pick, Small(D, n), h)
    BY <2>3, <2>4 DEF Folded
  <2> QED BY <2>5, <2>0
<1>3. Cardinality(D) \in G
  <2> HIDE DEF G
  <2> QED BY <1>1, <1>2, <1>00, UpTo
<1>4. \A s \in SUBSET D : Cardinality(s) <= Cardinality(D)
  BY FS_Subset
<1>5. Small(D, Cardinality(D)) = SUBSET D
  BY <1>4 DEF Small
<1> QED BY <1>3, <1>5 DEF IsFold

\* A fold stays where its step does.
LEMMA FoldStays ==
    ASSUME NEW D, IsFiniteSet(D), NEW pick, Picks(pick, D),
           NEW X, NEW A, NEW F \in [X \X A -> A], NEW base \in A, NEW f \in [D -> X],
           NEW g, IsFold(g, F, base, f, pick, D)
    PROVE  \A s \in SUBSET D : g[s] \in A
<1> DEFINE G == {s \in SUBSET D : g[s] \in A}
<1>1. \A s \in SUBSET D : g[s] = IF s = {} THEN base ELSE F[<<f[pick[s]], g[s \ {pick[s]}]>>]
  BY Zenon DEF Folded, IsFold
<1>2. {} \in G
  BY <1>1
<1>3. ASSUME NEW s \in SUBSET D, s # {}, s \ {pick[s]} \in G PROVE s \in G
  <2>1. g[s \ {pick[s]}] \in A
    BY <1>3
  <2>2. f[pick[s]] \in X
    BY <1>3 DEF Picks
  <2>3. g[s] = F[<<f[pick[s]], g[s \ {pick[s]}]>>]
    BY <1>1, <1>3, Zenon
  <2> QED BY <2>1, <2>2, <2>3
<1>4. \A s \in SUBSET D : s \in G
  <2> HIDE DEF G
  <2> QED BY <1>2, <1>3, ElementwiseInduction
<1> QED BY <1>4

-----------------------------------------------------------------------------
\* FoldFunction, of numbers: the order in which it takes them is CHOOSE's.

AnyOf(D) == [s \in SUBSET D |-> CHOOSE x \in s : TRUE]

\* A sum of natural numbers is one.
LEMMA SumIsNat ==
    ASSUME NEW D, IsFiniteSet(D), NEW f \in [D -> Nat]
    PROVE  FoldFunction(+, 0, f) \in Nat
<1> DEFINE F == [p \in Nat \X Nat |-> p[1] + p[2]]
           Sums(g) == [s \in SUBSET D |-> IF s = {} THEN 0
                        ELSE f[CHOOSE x \in s : TRUE] + g[s \ {CHOOSE x \in s : TRUE}]]
           pick == AnyOf(D)
           h == CHOOSE g : g = Sums(g)
<1>1. Picks(pick, D)
  BY DEF Picks, AnyOf
<1>2. F \in [Nat \X Nat -> Nat]
  OBVIOUS
<1>3. PICK g : IsFold(g, F, 0, f, pick, D)
  <2> HIDE DEF F, pick
  <2> QED BY <1>1, FoldExists
<1>4. \A s \in SUBSET D : g[s] \in Nat
  <2>0. 0 \in Nat
    OBVIOUS
  <2> HIDE DEF F, pick
  <2> QED BY <1>1, <1>2, <1>3, <2>0, FoldStays
<1>5. g = Sums(g)
  <2>1. ASSUME NEW s \in SUBSET D, s # {}
        PROVE  F[<<f[pick[s]], g[s \ {pick[s]}]>>] = f[pick[s]] + g[s \ {pick[s]}]
    <3>1. f[pick[s]] \in Nat /\ g[s \ {pick[s]}] \in Nat
      BY <1>1, <1>4, <2>1 DEF Picks
    <3> QED BY <3>1
  <2>2. \A s \in SUBSET D : pick[s] = CHOOSE x \in s : TRUE
    BY DEF AnyOf
  <2> HIDE DEF F, pick
  <2> QED BY <1>3, <2>1, <2>2 DEF Folded, IsFold
<1>6. h = Sums(h)
  BY <1>5
<1>7. FoldFunction(+, 0, f) = h[D]
  BY DEF FoldFunction, FoldFunctionOnSet, MapThenFoldSet
<1> HIDE DEF h
<1>8. \A s \in SUBSET D : h[s] = IF s = {} THEN 0 ELSE f[pick[s]] + h[s \ {pick[s]}]
  BY <1>6, Zenon DEF AnyOf
<1> DEFINE G == {s \in SUBSET D : h[s] \in Nat}
<1>9. {} \in G
  BY <1>8
<1>10. ASSUME NEW s \in SUBSET D, s # {}, s \ {pick[s]} \in G PROVE s \in G
  BY <1>8, <1>10, <1>1 DEF Picks
<1>11. D \in G
  <2> HIDE DEF G, pick
  <2> QED BY <1>1, <1>9, <1>10, ElementwiseInduction
<1> QED BY <1>7, <1>11

-----------------------------------------------------------------------------
\* FoldLeft: it takes the last element of what is left, so that the first one
\* is folded first.

LastOf(seq) == [s \in SUBSET DOMAIN seq |-> Max(s)]

\* The fold of the elements at the places s of seq, for every s.
LeftFolded(g, F, base, seq) ==
    g = [s \in SUBSET DOMAIN seq |->
            IF s = {} THEN base ELSE F[<<g[s \ {Max(s)}], seq[Max(s)]>>]]

LEMMA LastIsPicked ==
    ASSUME NEW X, NEW seq \in Seq(X)
    PROVE  /\ IsFiniteSet(DOMAIN seq) /\ Picks(LastOf(seq), DOMAIN seq)
           /\ \A s \in SUBSET DOMAIN seq : s # {} => Max(s) \in s
           /\ \A i \in DOMAIN seq : seq[i] \in X
<1>1. Len(seq) \in Nat /\ DOMAIN seq = 1..Len(seq) /\ \A i \in DOMAIN seq : seq[i] \in X
  OBVIOUS
<1>2. IsFiniteSet(DOMAIN seq)
  BY <1>1, FS_Interval
<1>3. \A s \in SUBSET DOMAIN seq : s # {} => Max(s) \in s
  BY <1>1, MaxIsIn
<1> QED BY <1>1, <1>2, <1>3 DEF Picks, LastOf

\* There is a fold from the left, and it stays where its step does.
LEMMA LeftFoldExists ==
    ASSUME NEW X, NEW seq \in Seq(X), NEW A, NEW base \in A, NEW F \in [A \X X -> A]
    PROVE  \E g : LeftFolded(g, F, base, seq) /\ \A s \in SUBSET DOMAIN seq : g[s] \in A
<1> DEFINE D == DOMAIN seq
           pick == LastOf(seq)
           R == [p \in X \X A |-> F[<<p[2], p[1]>>]]
<1>1. IsFiniteSet(D) /\ Picks(pick, D) /\ \A i \in D : seq[i] \in X
  BY LastIsPicked
<1>2. R \in [X \X A -> A]
  OBVIOUS
<1>3. PICK g : IsFold(g, R, base, seq, pick, D)
  <2> HIDE DEF R, pick, D
  <2> QED BY <1>1, FoldExists
<1>4. \A s \in SUBSET D : g[s] \in A
  <2>1. seq \in [D -> X]
    BY <1>1
  <2> HIDE DEF R, pick, D
  <2> QED BY <1>1, <1>2, <1>3, <2>1, FoldStays
<1>5. ASSUME NEW s \in SUBSET D, s # {}
      PROVE  R[<<seq[pick[s]], g[s \ {pick[s]}]>>] = F[<<g[s \ {Max(s)}], seq[Max(s)]>>]
  <2>1. pick[s] = Max(s) /\ Max(s) \in D
    BY <1>5, LastIsPicked DEF LastOf
  <2>2. seq[Max(s)] \in X /\ g[s \ {Max(s)}] \in A
    BY <2>1, <1>1, <1>4
  <2> QED BY <2>1, <2>2
<1>6. LeftFolded(g, F, base, seq)
  <2>1. g = [s \in SUBSET D |-> IF s = {} THEN base ELSE R[<<seq[pick[s]], g[s \ {pick[s]}]>>]]
    BY <1>3, Zenon DEF IsFold, Folded
  <2> HIDE DEF R, pick
  <2> QED BY <2>1, <1>5 DEF LeftFolded
<1> QED BY <1>4, <1>6

LEMMA LeftFoldStays ==
    ASSUME NEW X, NEW seq \in Seq(X), NEW A, NEW g, g[{}] \in A,
           \A s \in SUBSET DOMAIN seq : s # {} /\ g[s \ {Max(s)}] \in A => g[s] \in A
    PROVE  g[DOMAIN seq] \in A
<1> DEFINE D == DOMAIN seq
           pick == LastOf(seq)
           G == {s \in SUBSET D : g[s] \in A}
<1>1. IsFiniteSet(D) /\ Picks(pick, D)
  BY LastIsPicked
<1>2. \A s \in SUBSET D : pick[s] = Max(s)
  BY DEF LastOf
<1>3. {} \in G
  OBVIOUS
<1>4. \A s \in SUBSET D : s # {} /\ s \ {pick[s]} \in G => s \in G
  <2> HIDE DEF pick
  <2> QED BY <1>2
<1>5. D \in G
  <2> HIDE DEF G, pick, D
  <2> QED BY <1>1, <1>3, <1>4, ElementwiseInduction
<1> QED BY <1>5

\* The elements of more that are not there yet are put behind seq: none is there
\* twice, if none was.
Uniq(T) == {s \in Seq(T) : IsInjective(s)}
Longer(T, seq) == {s \in Uniq(T) : Len(s) >= Len(seq)}
LEMMA AppendNewStays ==
    ASSUME NEW T, NEW seq \in Uniq(T), NEW more \in Seq(T)
    PROVE  FoldLeft(LAMBDA acc, x : IF Contains(acc, x) THEN acc ELSE Append(acc, x), seq, more)
             \in Longer(T, seq)
<1> DEFINE A == Longer(T, seq)
           F == [p \in A \X T |-> IF Contains(p[1], p[2]) THEN p[1] ELSE Append(p[1], p[2])]
           Of(g) == [s \in SUBSET DOMAIN more |->
                      IF s = {} THEN seq
                      ELSE IF Contains(g[s \ {Max(s)}], more[Max(s)]) THEN g[s \ {Max(s)}]
                           ELSE Append(g[s \ {Max(s)}], more[Max(s)])]
           h == CHOOSE g : g = Of(g)
<1>0. seq \in A
  BY DEF Longer, Uniq
<1>1. ASSUME NEW a \in A, NEW x \in T, ~Contains(a, x) PROVE Append(a, x) \in A
  <2>1. Append(a, x) \in Seq(T) /\ a \in Seq(T) /\ seq \in Seq(T) /\ Len(Append(a, x)) >= Len(seq)
    BY DEF Longer, Uniq
  <2>2. \A i \in 1..Len(a) : a[i] # x
    BY <1>1 DEF Contains
  <2>3. IsInjective(Append(a, x))
    BY <2>1, <2>2 DEF IsInjective, Longer, Uniq
  <2> QED BY <2>1, <2>3 DEF Longer, Uniq
<1> HIDE DEF A
<1>2. F \in [A \X T -> A]
  BY <1>1
<1>3. PICK g : LeftFolded(g, F, seq, more) /\ \A s \in SUBSET DOMAIN more : g[s] \in A
  <2> HIDE DEF F
  <2> QED BY <1>0, <1>2, LeftFoldExists
<1>4. ASSUME NEW s \in SUBSET DOMAIN more, s # {}
      PROVE  g[s \ {Max(s)}] \in A /\ more[Max(s)] \in T
  BY <1>3, <1>4, LastIsPicked
<1>5. g = Of(g)
  BY <1>3, <1>4 DEF LeftFolded
<1>6. h = Of(h)
  BY <1>5
<1>7. FoldLeft(LAMBDA acc, x : IF Contains(acc, x) THEN acc ELSE Append(acc, x), seq, more) = h[DOMAIN more]
  BY DEF FoldLeft, MapThenFoldSet
<1> HIDE DEF h
<1>8. \A s \in SUBSET DOMAIN more : h[s] = Of(h)[s]
  BY <1>6, Zenon
<1>9. h[{}] \in A
  BY <1>0, <1>8
<1>10. ASSUME NEW s \in SUBSET DOMAIN more, s # {}, h[s \ {Max(s)}] \in A PROVE h[s] \in A
  <2>1. more[Max(s)] \in T
    BY <1>10, LastIsPicked
  <2> QED BY <1>8, <1>10, <2>1, <1>1
<1>11. h[DOMAIN more] \in A
  BY <1>9, <1>10, LeftFoldStays
<1> QED BY <1>7, <1>11 DEF A

\* Induction along a sequence: over the sets of its places, the last one taken off.
LEMMA Along ==
    ASSUME NEW X, NEW seq \in Seq(X), NEW G, {} \in G,
           \A s \in SUBSET DOMAIN seq : s # {} /\ s \ {Max(s)} \in G => s \in G
    PROVE  DOMAIN seq \in G
<1> DEFINE g == [s \in SUBSET DOMAIN seq |-> s]
<1>1. g[{}] \in G /\ \A s \in SUBSET DOMAIN seq : s # {} /\ g[s \ {Max(s)}] \in G => g[s] \in G
  OBVIOUS
<1>2. g[DOMAIN seq] = DOMAIN seq
  OBVIOUS
<1> HIDE DEF g
<1> QED BY <1>1, <1>2, LeftFoldStays

LEMMA ToSetAppend ==
    ASSUME NEW T, NEW seq \in Seq(T), NEW x \in T
    PROVE  ToSet(Append(seq, x)) = ToSet(seq) \cup {x}
<1>1. ASSUME NEW i \in DOMAIN Append(seq, x) PROVE Append(seq, x)[i] \in ToSet(seq) \cup {x}
  BY DEF ToSet
<1>2. ASSUME NEW i \in DOMAIN seq PROVE i \in DOMAIN Append(seq, x) /\ Append(seq, x)[i] = seq[i]
  OBVIOUS
<1>3. Len(seq) + 1 \in DOMAIN Append(seq, x) /\ Append(seq, x)[Len(seq) + 1] = x
  OBVIOUS
<1> QED BY <1>1, <1>2, <1>3 DEF ToSet

LEMMA ToSetConcat ==
    ASSUME NEW T, NEW s \in Seq(T), NEW t \in Seq(T)
    PROVE  s \o t \in Seq(T) /\ ToSet(s \o t) = ToSet(s) \cup ToSet(t)
<1>1. ASSUME NEW i \in DOMAIN (s \o t) PROVE (s \o t)[i] \in ToSet(s) \cup ToSet(t)
  <2>1. CASE i <= Len(s)
    BY <2>1 DEF ToSet
  <2>2. CASE i > Len(s)
    <3>1. i - Len(s) \in DOMAIN t /\ (s \o t)[i] = t[i - Len(s)]
      BY <2>2
    <3> QED BY <3>1 DEF ToSet
  <2> QED BY <2>1, <2>2
<1>2. ASSUME NEW i \in DOMAIN s PROVE i \in DOMAIN (s \o t) /\ (s \o t)[i] = s[i]
  OBVIOUS
<1>3. ASSUME NEW i \in DOMAIN t PROVE Len(s) + i \in DOMAIN (s \o t) /\ (s \o t)[Len(s) + i] = t[i]
  OBVIOUS
<1>4. ToSet(s \o t) \subseteq ToSet(s) \cup ToSet(t)
  BY <1>1, Zenon DEF ToSet
<1>5. ToSet(s) \subseteq ToSet(s \o t) /\ ToSet(t) \subseteq ToSet(s \o t)
  BY <1>2, <1>3 DEF ToSet
<1> QED BY <1>4, <1>5

\* The elements that are in K, in their order: those of seq that are.
Filtered(seq, K) == FoldLeft(LAMBDA acc, x : IF x \in K THEN Append(acc, x) ELSE acc, <<>>, seq)
LEMMA OnlyThose ==
    ASSUME NEW T, NEW seq \in Seq(T), NEW K
    PROVE  Filtered(seq, K) \in Seq(T) /\ ToSet(Filtered(seq, K)) = ToSet(seq) \cap K
<1> DEFINE A == Seq(T)
           F == [p \in A \X T |-> IF p[2] \in K THEN Append(p[1], p[2]) ELSE p[1]]
           Of(g) == [s \in SUBSET DOMAIN seq |->
                      IF s = {} THEN <<>>
                      ELSE IF seq[Max(s)] \in K THEN Append(g[s \ {Max(s)}], seq[Max(s)])
                           ELSE g[s \ {Max(s)}]]
           h == CHOOSE g : g = Of(g)
<1>1. F \in [A \X T -> A] /\ <<>> \in A
  OBVIOUS
<1>2. PICK g : LeftFolded(g, F, <<>>, seq) /\ \A s \in SUBSET DOMAIN seq : g[s] \in A
  <2> HIDE DEF F, A
  <2> QED BY <1>1, LeftFoldExists
<1>3. ASSUME NEW s \in SUBSET DOMAIN seq, s # {}
      PROVE  g[s \ {Max(s)}] \in A /\ seq[Max(s)] \in T /\ Max(s) \in s
  <2> HIDE DEF A
  <2> QED BY <1>2, <1>3, LastIsPicked
<1> HIDE DEF A
<1>4. g = Of(g)
  BY <1>2, <1>3 DEF LeftFolded
<1>5. h = Of(h)
  BY <1>4
<1>6. Filtered(seq, K) = h[DOMAIN seq]
  BY DEF Filtered, FoldLeft, MapThenFoldSet
<1> HIDE DEF h
<1>7. \A s \in SUBSET DOMAIN seq : h[s] = Of(h)[s]
  BY <1>5, Zenon
<1> DEFINE G == {s \in SUBSET DOMAIN seq : h[s] \in Seq(T) /\ ToSet(h[s]) = {seq[i] : i \in s} \cap K}
<1>8. {} \in G
  <2>1. h[{}] = <<>>
    BY <1>7
  <2>2. <<>> \in Seq(T) /\ ToSet(<<>>) = {} /\ {seq[i] : i \in {}} = {}
    BY DEF ToSet
  <2> QED BY <2>1, <2>2
<1>9. ASSUME NEW s \in SUBSET DOMAIN seq, s # {}, s \ {Max(s)} \in G PROVE s \in G
  <2> DEFINE t == s \ {Max(s)}
  <2>1. h[t] \in Seq(T) /\ ToSet(h[t]) = {seq[i] : i \in t} \cap K
    BY <1>9
  <2>2. {seq[i] : i \in s} = {seq[i] : i \in t} \cup {seq[Max(s)]} /\ seq[Max(s)] \in T
    BY <1>3, <1>9
  <2>3. h[s] = IF seq[Max(s)] \in K THEN Append(h[t], seq[Max(s)]) ELSE h[t]
    BY <1>7, <1>9
  <2> HIDE DEF t
  <2>4. ToSet(Append(h[t], seq[Max(s)])) = ToSet(h[t]) \cup {seq[Max(s)]}
    BY <2>1, <2>2, ToSetAppend
  <2>5. h[s] \in Seq(T)
    BY <2>1, <2>2, <2>3
  <2>6. ToSet(h[s]) = {seq[i] : i \in s} \cap K
    <3>1. CASE seq[Max(s)] \in K
      <4>1. ToSet(h[s]) = ToSet(h[t]) \cup {seq[Max(s)]}
        BY <3>1, <2>3, <2>4
      <4> QED BY <4>1, <3>1, <2>1, <2>2
    <3>2. CASE seq[Max(s)] \notin K
      <4>1. ToSet(h[s]) = ToSet(h[t])
        BY <3>2, <2>3
      <4> QED BY <4>1, <3>2, <2>1, <2>2
    <3> QED BY <3>1, <3>2
  <2> QED BY <2>5, <2>6
<1> HIDE DEF G
<1>10. DOMAIN seq \in G
  BY <1>8, <1>9, Along
<1>11. h[DOMAIN seq] \in Seq(T) /\ ToSet(h[DOMAIN seq]) = {seq[i] : i \in DOMAIN seq} \cap K
  BY <1>10 DEF G
<1> QED BY <1>6, <1>11 DEF ToSet

\* No two places have the same key.
Apart(key, seq) == \A i, j \in DOMAIN seq : key[seq[i]] = key[seq[j]] => i = j

\* What is kept of a sequence without repetitions has none.
LEMMA OnlyApart ==
    ASSUME NEW T, NEW seq \in Seq(T), NEW K, NEW key, Apart(key, seq)
    PROVE  Apart(key, Filtered(seq, K))
<1> DEFINE A == Seq(T)
           F == [p \in A \X T |-> IF p[2] \in K THEN Append(p[1], p[2]) ELSE p[1]]
           Of(g) == [s \in SUBSET DOMAIN seq |->
                      IF s = {} THEN <<>>
                      ELSE IF seq[Max(s)] \in K THEN Append(g[s \ {Max(s)}], seq[Max(s)])
                           ELSE g[s \ {Max(s)}]]
           h == CHOOSE g : g = Of(g)
           G == {s \in SUBSET DOMAIN seq : /\ h[s] \in Seq(T) /\ Apart(key, h[s])
                                           /\ \A i \in DOMAIN h[s] : \E k \in s : h[s][i] = seq[k]}
<1>1. F \in [A \X T -> A] /\ <<>> \in A
  OBVIOUS
<1>2. PICK g : LeftFolded(g, F, <<>>, seq) /\ \A s \in SUBSET DOMAIN seq : g[s] \in A
  <2> HIDE DEF F, A
  <2> QED BY <1>1, LeftFoldExists
<1>3. ASSUME NEW s \in SUBSET DOMAIN seq, s # {}
      PROVE  g[s \ {Max(s)}] \in A /\ seq[Max(s)] \in T /\ Max(s) \in s
  <2> HIDE DEF A
  <2> QED BY <1>2, <1>3, LastIsPicked
<1> HIDE DEF A
<1>4. g = Of(g)
  BY <1>2, <1>3 DEF LeftFolded
<1>5. h = Of(h)
  BY <1>4
<1>6. Filtered(seq, K) = h[DOMAIN seq]
  BY DEF Filtered, FoldLeft, MapThenFoldSet
<1> HIDE DEF h
<1>7. \A s \in SUBSET DOMAIN seq : h[s] = Of(h)[s]
  BY <1>5, Zenon
<1>8. {} \in G
  <2>1. h[{}] = <<>>
    BY <1>7
  <2>2. Apart(key, <<>>) /\ <<>> \in Seq(T) /\ DOMAIN <<>> = {}
    BY DEF Apart
  <2>3. Apart(key, h[{}]) /\ h[{}] \in Seq(T) /\ DOMAIN h[{}] = {}
    BY <2>1, <2>2
  <2> QED BY <2>3
<1>9. ASSUME NEW s \in SUBSET DOMAIN seq, s # {}, s \ {Max(s)} \in G PROVE s \in G
  <2> DEFINE t == s \ {Max(s)}
             x == seq[Max(s)]
             u == h[t]
             w == Append(u, x)
  <2>1. u \in Seq(T) /\ Apart(key, u) /\ (\A i \in DOMAIN u : \E k \in t : u[i] = seq[k])
    BY <1>9
  <2>2. x \in T /\ Max(s) \in DOMAIN seq /\ Max(s) \in s
    BY <1>3, <1>9
  <2>3. h[s] = IF x \in K THEN w ELSE u
    BY <1>7, <1>9
  <2>4. \A i \in DOMAIN u : key[u[i]] # key[x]
    BY <2>1, <2>2 DEF Apart
  <2>5. \A i \in DOMAIN u : \E k \in s : u[i] = seq[k]
    BY <2>1
  <2> HIDE DEF x, u, t
  <2>6. w \in Seq(T) /\ DOMAIN w = DOMAIN u \cup {Len(u) + 1} /\ w[Len(u) + 1] = x /\ \A i \in DOMAIN u : w[i] = u[i]
    BY <2>1, <2>2
  <2> HIDE DEF w
  <2>7. Apart(key, w)
    BY <2>1, <2>4, <2>6 DEF Apart
  <2>8. \A i \in DOMAIN w : \E k \in s : w[i] = seq[k]
    BY <2>2, <2>5, <2>6 DEF x
  <2>9. CASE x \in K
    <3>1. h[s] = w
      BY <2>3, <2>9
    <3> QED BY <3>1, <2>6, <2>7, <2>8
  <2>10. CASE x \notin K
    <3>1. h[s] = u
      BY <2>3, <2>10
    <3> QED BY <3>1, <2>1, <2>5
  <2> QED BY <2>9, <2>10
<1>10. DOMAIN seq \in G
  <2> HIDE DEF G
  <2> QED BY <1>8, <1>9, Along
<1> QED BY <1>6, <1>10

\* A sequence without one of its elements.
LEMMA Removed1 ==
    ASSUME NEW T, NEW seq \in Seq(T), NEW n \in DOMAIN seq
    PROVE  /\ RemoveAt(seq, n) \in Seq(T) /\ DOMAIN RemoveAt(seq, n) = 1..(Len(seq) - 1)
           /\ \A i \in DOMAIN RemoveAt(seq, n) : RemoveAt(seq, n)[i] = IF i < n THEN seq[i] ELSE seq[i + 1]
<1> DEFINE a == SubSeq(seq, 1, n - 1)
           b == SubSeq(seq, n + 1, Len(seq))
<1>1. n \in 1..Len(seq) /\ Len(seq) \in Nat
  OBVIOUS
<1>2. a \in Seq(T) /\ Len(a) = n - 1 /\ \A i \in 1..(n - 1) : a[i] = seq[i]
  BY <1>1
<1>3. b \in Seq(T) /\ Len(b) = Len(seq) - n /\ \A i \in 1..(Len(seq) - n) : b[i] = seq[n + i]
  BY <1>1
<1>4. RemoveAt(seq, n) = a \o b
  BY DEF RemoveAt
<1> HIDE DEF a, b
<1>5. Len(a \o b) = Len(seq) - 1 /\ a \o b \in Seq(T)
  BY <1>1, <1>2, <1>3
<1>6. ASSUME NEW i \in 1..(Len(seq) - 1) PROVE (a \o b)[i] = IF i < n THEN seq[i] ELSE seq[i + 1]
  <2>1. CASE i < n
    BY <1>1, <1>2, <1>3, <2>1
  <2>2. CASE ~(i < n)
    <3>1. (a \o b)[i] = b[i - (n - 1)]
      BY <1>1, <1>2, <1>3, <2>2
    <3>2. i - (n - 1) \in 1..(Len(seq) - n) /\ n + (i - (n - 1)) = i + 1
      BY <1>1, <2>2
    <3> QED BY <3>1, <3>2, <1>3, <2>2
  <2> QED BY <2>1, <2>2
<1>7. DOMAIN (a \o b) = 1..(Len(seq) - 1)
  BY <1>1, <1>5
<1> QED BY <1>4, <1>5, <1>6, <1>7

=============================================================================
