-------------------------------- MODULE Sums --------------------------------
(***************************************************************************)
(* Facts about the folds of the community modules, for the proofs about    *)
(* modules whose invariants add something up: sums over finite sets, folds *)
(* over sequences, and powers of two.  The folds are recursive functions:  *)
(* that they are defined, and that the order in which a sum takes its      *)
(* elements does not matter, is proved here by induction on finite sets,   *)
(* in the form "no set of counterexamples is without a smallest one".      *)
(***************************************************************************)
EXTENDS Sequences, FiniteSetTheorems, FiniteSetsExt, TLAPS

(* The order in which the folds of the community modules take elements.    *)
Chosen(s) == CHOOSE x \in s : TRUE

(* The recursive function behind a fold that adds the weights w.           *)
IsSumOf(h, w, S) ==
    h = [s \in SUBSET S |->
            IF s = {} THEN 0 ELSE w[Chosen(s)] + h[s \ {Chosen(s)}]]

(* The sum of w[x] for all x in S. *)
Total(w, S) == (CHOOSE h : IsSumOf(h, w, S))[S]

-----------------------------------------------------------------------------
(* Induction on finite sets, as a fact about sets of counterexamples.      *)
LEMMA NoSmallestCounterexample ==
    ASSUME NEW S, IsFiniteSet(S), NEW Counter \in SUBSET (SUBSET S),
           \A T \in Counter : \E U \in Counter : U \subseteq T /\ U # T
    PROVE  Counter = {}
<1> DEFINE R == StrictSubsetOrdering(S)
<1> SUFFICES ASSUME Counter # {} PROVE FALSE
  OBVIOUS
<1>1. IsWellFoundedOn(R, SUBSET S)
  <2>1. IsWellFoundedOn(R, FiniteSubsetsOf(S))
    BY FS_StrictSubsetOrderingWellFounded
  <2>2. FiniteSubsetsOf(S) = SUBSET S
    BY FS_FiniteSubsetsOfFinite
  <2> QED BY <2>1, <2>2
<1>2. PICK T \in Counter : \A U \in Counter : <<U, T>> \notin R
  <2> HIDE DEF R
  <2> QED BY <1>1, WFMin
<1>3. PICK U \in Counter : U \subseteq T /\ U # T
  OBVIOUS
<1>4. <<U, T>> \in R
  BY <1>3 DEF StrictSubsetOrdering
<1> QED BY <1>2, <1>4

(* A finite set of numbers has a least one. *)
LEMMA HasLeast ==
  ASSUME NEW I, IsFiniteSet(I), I \subseteq Nat, I # {}
  PROVE  Min(I) \in I /\ \A y \in I : Min(I) <= y
<1> DEFINE Counter == {T \in SUBSET I : T # {} /\ ~ \E x \in T : \A y \in T : x <= y}
<1>1. ASSUME NEW T \in Counter
      PROVE  \E U \in Counter : U \subseteq T /\ U # T
  <2>1. PICK x \in T : TRUE
    OBVIOUS
  <2> DEFINE U == {y \in T : y < x}
  <2>2. U # {} /\ U \subseteq T /\ U # T
    <3>1. PICK y \in T : ~(x <= y)
      BY <2>1
    <3> QED
      BY <3>1
  <2>3. ASSUME NEW z \in U, \A y \in U : z <= y
        PROVE  \A y \in T : z <= y
    BY <2>3
  <2>4. U \in Counter
    BY <2>2, <2>3
  <2> QED
    BY <2>2, <2>4
<1>2. Counter = {}
  <2> HIDE DEF Counter
  <2>1. Counter \in SUBSET (SUBSET I)
    BY DEF Counter
  <2> QED
    BY <1>1, <2>1, NoSmallestCounterexample
<1>3. \E x \in I : \A y \in I : x <= y
  BY <1>2
<1> QED
  BY <1>3, Zenon DEF Min

(* What a sum of a smaller set is. *)
LEMMA SumRestricts ==
    ASSUME NEW S, NEW w, NEW h, IsSumOf(h, w, S), NEW T \in SUBSET S
    PROVE  IsSumOf([s \in SUBSET T |-> h[s]], w, T)
<1> DEFINE g == [s \in SUBSET T |-> h[s]]
<1>1. ASSUME NEW s \in SUBSET T
      PROVE  g[s] = IF s = {} THEN 0 ELSE w[Chosen(s)] + g[s \ {Chosen(s)}]
  <2>1. s \in SUBSET S /\ s \ {Chosen(s)} \in SUBSET T
    OBVIOUS
  <2> QED BY <2>1 DEF IsSumOf
<1> QED BY <1>1 DEF IsSumOf

(* There is at most one such function. *)
LEMMA SumIsUnique ==
    ASSUME NEW S, IsFiniteSet(S), NEW w, NEW g, NEW h,
           IsSumOf(g, w, S), IsSumOf(h, w, S)
    PROVE  g = h
<1> DEFINE Counter == {T \in SUBSET S : g[T] # h[T]}
<1>1. ASSUME NEW T \in Counter
      PROVE  \E U \in Counter : U \subseteq T /\ U # T
  <2>1. T # {}
    BY DEF IsSumOf
  <2>2. Chosen(T) \in T
    BY <2>1 DEF Chosen
  <2>3. T \ {Chosen(T)} \in Counter
    BY <2>1 DEF IsSumOf
  <2> QED BY <2>2, <2>3
<1>2. Counter = {}
  <2> HIDE DEF Counter
  <2>1. Counter \in SUBSET (SUBSET S)
    BY DEF Counter
  <2> QED BY <1>1, <2>1, NoSmallestCounterexample
<1>3. \A T \in SUBSET S : g[T] = h[T]
  BY <1>2
<1> QED BY <1>3 DEF IsSumOf

(* There is one: the recursion is well founded. *)
LEMMA SumExists ==
    ASSUME NEW S, IsFiniteSet(S), NEW w
    PROVE  \E h : IsSumOf(h, w, S)
<1> DEFINE Counter == {T \in SUBSET S : ~ \E h : IsSumOf(h, w, T)}
<1>1. ASSUME NEW T \in Counter, \A U \in SUBSET T : U # T => U \notin Counter
      PROVE  FALSE
  <2> DEFINE G(U) == CHOOSE h : IsSumOf(h, w, U)
  <2>1. ASSUME NEW U \in SUBSET T, U # T
        PROVE  IsFiniteSet(U) /\ IsSumOf(G(U), w, U)
    <3>1. U \in SUBSET S /\ IsFiniteSet(U)
      BY FS_Subset
    <3>2. \E h : IsSumOf(h, w, U)
      BY <1>1, <2>1, <3>1
    <3> QED BY <3>1, <3>2, Zenon
  <2>2. ASSUME NEW U \in SUBSET T, U # T, NEW V \in SUBSET U
        PROVE  G(U)[V] = G(V)[V]
    <3> DEFINE g == [s \in SUBSET V |-> G(U)[s]]
    <3>0. V \in SUBSET T /\ V # T
      BY <2>2
    <3>1. IsSumOf(G(V), w, V) /\ IsFiniteSet(V) /\ IsSumOf(G(U), w, U)
      BY <2>1, <2>2, <3>0
    <3> HIDE DEF G
    <3>2. IsSumOf(g, w, V)
      BY <3>1, SumRestricts
    <3>3. g = G(V)
      <4> HIDE DEF g
      <4> QED BY <3>1, <3>2, SumIsUnique
    <3> QED BY <3>3
  <2> DEFINE rest == T \ {Chosen(T)}
             f == [s \in SUBSET T |->
                    IF s # T THEN G(s)[s]
                    ELSE IF T = {} THEN 0 ELSE w[Chosen(T)] + G(rest)[rest]]
  <2> HIDE DEF G
  <2>3. ASSUME NEW s \in SUBSET T
        PROVE  f[s] = IF s = {} THEN 0 ELSE w[Chosen(s)] + f[s \ {Chosen(s)}]
    <3>1. CASE s = {}
      <4>1. s # T => G(s)[s] = 0
        BY <2>1, <3>1 DEF IsSumOf
      <4> QED BY <3>1, <4>1
    <3>2. CASE s # {}
      <4> DEFINE u == s \ {Chosen(s)}
      <4>1. Chosen(s) \in s
        BY <3>2 DEF Chosen
      <4>2. u \in SUBSET T /\ u \in SUBSET s /\ u # T /\ f[u] = G(u)[u]
        BY <4>1
      <4>3. CASE s = T
        BY <3>2, <4>2, <4>3
      <4>4. CASE s # T
        <5>1. G(s)[s] = w[Chosen(s)] + G(s)[u]
          BY <2>1, <3>2, <4>4 DEF IsSumOf
        <5>2. G(s)[u] = G(u)[u]
          BY <2>2, <4>2, <4>4
        <5> QED BY <3>2, <4>2, <4>4, <5>1, <5>2
      <4> QED BY <4>3, <4>4
    <3> QED BY <3>1, <3>2
  <2>4. IsSumOf(f, w, T)
    BY <2>3 DEF IsSumOf
  <2> QED BY <2>4
<1>2. Counter = {}
  <2> HIDE DEF Counter
  <2>1. Counter \in SUBSET (SUBSET S)
    BY DEF Counter
  <2>2. \A T \in Counter : \E U \in Counter : U \subseteq T /\ U # T
    BY <1>1
  <2> QED BY <2>1, <2>2, NoSmallestCounterexample
<1> QED BY <1>2

-----------------------------------------------------------------------------
(* What Total computes, by its recursion. *)
LEMMA TotalIsSum ==
    ASSUME NEW S, IsFiniteSet(S), NEW w
    PROVE  \E h : IsSumOf(h, w, S) /\ \A T \in SUBSET S : Total(w, T) = h[T]
<1> DEFINE G(U) == CHOOSE h : IsSumOf(h, w, U)
<1>1. ASSUME NEW U \in SUBSET S
      PROVE  IsFiniteSet(U) /\ IsSumOf(G(U), w, U)
  <2>1. IsFiniteSet(U)
    BY FS_Subset
  <2>2. \E h : IsSumOf(h, w, U)
    BY <2>1, SumExists
  <2> QED BY <2>1, <2>2, Zenon
<1>2. ASSUME NEW T \in SUBSET S
      PROVE  Total(w, T) = G(S)[T]
  <2> DEFINE g == [s \in SUBSET T |-> G(S)[s]]
  <2>1. Total(w, T) = G(T)[T]
    BY DEF Total
  <2> HIDE DEF G
  <2>2. IsSumOf(g, w, T)
    BY <1>1, SumRestricts
  <2>3. g = G(T)
    <3> HIDE DEF g
    <3> QED BY <1>1, <2>2, SumIsUnique
  <2> QED BY <2>1, <2>3
<1> HIDE DEF G
<1> QED BY <1>1, <1>2

(* Nothing adds up to zero. *)
LEMMA TotalOfNothing == \A w : Total(w, {}) = 0
<1> TAKE w
<1>1. PICK h : IsSumOf(h, w, {}) /\ Total(w, {}) = h[{}]
  BY TotalIsSum, FS_EmptySet
<1> QED BY <1>1 DEF IsSumOf

(* Integers add up to an integer. *)
LEMMA TotalIsInteger ==
    ASSUME NEW S, IsFiniteSet(S), NEW w, \A x \in S : w[x] \in Int
    PROVE  Total(w, S) \in Int
<1>1. PICK h : IsSumOf(h, w, S) /\ \A T \in SUBSET S : Total(w, T) = h[T]
  BY TotalIsSum
<1> DEFINE Counter == {T \in SUBSET S : h[T] \notin Int}
<1>2. ASSUME NEW T \in Counter
      PROVE  \E U \in Counter : U \subseteq T /\ U # T
  <2>1. T # {}
    BY <1>1 DEF IsSumOf
  <2>2. Chosen(T) \in T
    BY <2>1 DEF Chosen
  <2>3. h[T] = w[Chosen(T)] + h[T \ {Chosen(T)}] /\ w[Chosen(T)] \in Int
    BY <1>1, <2>1, <2>2 DEF IsSumOf
  <2>4. T \ {Chosen(T)} \in Counter
    BY <2>3
  <2> QED BY <2>2, <2>4
<1>3. Counter = {}
  <2> HIDE DEF Counter
  <2>1. Counter \in SUBSET (SUBSET S)
    BY DEF Counter
  <2> QED BY <1>2, <2>1, NoSmallestCounterexample
<1> QED BY <1>1, <1>3

(* Zeros add up to zero. *)
LEMMA TotalOfZeros ==
    ASSUME NEW S, IsFiniteSet(S), NEW w, \A x \in S : w[x] = 0
    PROVE  Total(w, S) = 0
<1>1. PICK h : IsSumOf(h, w, S) /\ \A T \in SUBSET S : Total(w, T) = h[T]
  BY TotalIsSum
<1> DEFINE Counter == {T \in SUBSET S : h[T] # 0}
<1>2. ASSUME NEW T \in Counter
      PROVE  \E U \in Counter : U \subseteq T /\ U # T
  <2>1. T # {}
    BY <1>1 DEF IsSumOf
  <2>2. Chosen(T) \in T
    BY <2>1 DEF Chosen
  <2>3. h[T] = w[Chosen(T)] + h[T \ {Chosen(T)}] /\ w[Chosen(T)] = 0
    BY <1>1, <2>1, <2>2 DEF IsSumOf
  <2>4. T \ {Chosen(T)} \in Counter
    BY <2>3
  <2> QED BY <2>2, <2>4
<1>3. Counter = {}
  <2> HIDE DEF Counter
  <2>1. Counter \in SUBSET (SUBSET S)
    BY DEF Counter
  <2> QED BY <1>2, <2>1, NoSmallestCounterexample
<1> QED BY <1>1, <1>3

(* Every element may be taken first. *)
LEMMA TotalWithout ==
    ASSUME NEW S, IsFiniteSet(S), NEW w, \A x \in S : w[x] \in Int, NEW x \in S
    PROVE  Total(w, S) = w[x] + Total(w, S \ {x})
<1>1. PICK h : IsSumOf(h, w, S) /\ \A T \in SUBSET S : Total(w, T) = h[T]
  BY TotalIsSum
<1>2. \A T \in SUBSET S : h[T] \in Int
  <2> TAKE T \in SUBSET S
  <2>1. IsFiniteSet(T)
    BY FS_Subset
  <2> QED BY <1>1, <2>1, TotalIsInteger
<1> DEFINE Counter == {T \in SUBSET S : \E y \in T : h[T] # w[y] + h[T \ {y}]}
<1>3. ASSUME NEW T \in Counter, \A U \in SUBSET T : U # T => U \notin Counter
      PROVE  FALSE
  <2>1. PICK y \in T : h[T] # w[y] + h[T \ {y}]
    OBVIOUS
  <2> DEFINE z == Chosen(T)
  <2>2. z \in T /\ h[T] = w[z] + h[T \ {z}]
    BY <1>1, <2>1 DEF IsSumOf, Chosen
  <2> HIDE DEF z
  <2>3. y # z
    BY <2>1, <2>2
  <2>4. h[T \ {z}] = w[y] + h[(T \ {z}) \ {y}]
    <3>1. y \in T \ {z} /\ T \ {z} \in SUBSET T /\ T \ {z} # T /\ T \ {z} \in SUBSET S
      BY <2>2, <2>3
    <3> QED BY <1>3, <3>1
  <2>5. h[T \ {y}] = w[z] + h[(T \ {y}) \ {z}]
    <3>1. z \in T \ {y} /\ T \ {y} \in SUBSET T /\ T \ {y} # T /\ T \ {y} \in SUBSET S
      BY <2>2, <2>3
    <3> QED BY <1>3, <3>1
  <2>6. (T \ {y}) \ {z} = (T \ {z}) \ {y} /\ (T \ {z}) \ {y} \in SUBSET S
    OBVIOUS
  <2>7. w[y] \in Int /\ w[z] \in Int /\ h[(T \ {z}) \ {y}] \in Int
    BY <1>2, <2>2, <2>6
  <2> QED BY <2>1, <2>2, <2>4, <2>5, <2>6, <2>7
<1>4. Counter = {}
  <2> HIDE DEF Counter
  <2>1. Counter \in SUBSET (SUBSET S)
    BY DEF Counter
  <2>2. \A T \in Counter : \E U \in Counter : U \subseteq T /\ U # T
    BY <1>3
  <2> QED BY <2>1, <2>2, NoSmallestCounterexample
<1>5. h[S] = w[x] + h[S \ {x}]
  BY <1>4
<1> QED BY <1>1, <1>5

(* One more element adds its weight. *)
LEMMA TotalWith ==
    ASSUME NEW S, IsFiniteSet(S), NEW w, NEW x, x \notin S,
           \A y \in S \cup {x} : w[y] \in Int
    PROVE  Total(w, S \cup {x}) = Total(w, S) + w[x]
<1>1. IsFiniteSet(S \cup {x})
  BY FS_AddElement
<1>2. (S \cup {x}) \ {x} = S
  OBVIOUS
<1>3. Total(w, S \cup {x}) = w[x] + Total(w, S)
  BY <1>1, <1>2, TotalWithout
<1>4. Total(w, S) \in Int
  BY TotalIsInteger
<1> QED BY <1>3, <1>4

(* The sum depends on the weights of the elements only. *)
LEMMA TotalAgrees ==
    ASSUME NEW S, IsFiniteSet(S), NEW v, NEW w, \A x \in S : v[x] = w[x]
    PROVE  Total(v, S) = Total(w, S)
<1>1. PICK h : IsSumOf(h, w, S) /\ \A T \in SUBSET S : Total(w, T) = h[T]
  BY TotalIsSum
<1>2. PICK g : IsSumOf(g, v, S) /\ \A T \in SUBSET S : Total(v, T) = g[T]
  BY TotalIsSum
<1>3. IsSumOf(g, w, S)
  <2>1. \A s \in SUBSET S : s # {} => v[Chosen(s)] = w[Chosen(s)]
    BY DEF Chosen
  <2> QED BY <1>2, <2>1 DEF IsSumOf
<1>4. g = h
  BY <1>1, <1>3, SumIsUnique
<1> QED BY <1>1, <1>2, <1>4

-----------------------------------------------------------------------------
(* The sum of the amounts of a set of records. *)
LEMMA SumOfAmounts ==
    ASSUME NEW S, IsFiniteSet(S)
    PROVE  MapThenSumSet(LAMBDA p : p.amount, S) = Total([p \in S |-> p.amount], S)
<1> DEFINE w == [p \in S |-> p.amount]
           Fits(h) == h = [s \in SUBSET S |->
                            IF s = {} THEN 0
                            ELSE (CHOOSE x \in s : TRUE).amount
                                    + h[s \ {CHOOSE x \in s : TRUE}]]
           H == CHOOSE h : Fits(h)
<1>1. ASSUME NEW h PROVE IsSumOf(h, w, S) <=> Fits(h)
  <2>1. \A s \in SUBSET S : s # {} => w[Chosen(s)] = (CHOOSE x \in s : TRUE).amount
    BY DEF Chosen
  <2> HIDE DEF w
  <2> QED BY <2>1 DEF IsSumOf, Chosen
<1>2. MapThenSumSet(LAMBDA p : p.amount, S) = H[S]
  BY DEF MapThenSumSet, MapThenFoldSet
<1> HIDE DEF Fits, w
<1>3. PICK g : IsSumOf(g, w, S) /\ Total(w, S) = g[S]
  BY TotalIsSum
<1>4. Fits(H)
  <2>1. \E h : Fits(h)
    BY <1>1, <1>3
  <2> QED BY <2>1, Zenon
<1> HIDE DEF H
<1>5. H = g
  BY <1>1, <1>3, <1>4, SumIsUnique
<1> QED BY <1>2, <1>3, <1>5 DEF w

(* The sum of the values of a function. *)
LEMMA SumOfFunction ==
    ASSUME NEW f, IsFiniteSet(DOMAIN f)
    PROVE  SumFunction(f) = Total(f, DOMAIN f)
<1> DEFINE S == DOMAIN f
           Fits(h) == h = [s \in SUBSET S |->
                            IF s = {} THEN 0
                            ELSE f[CHOOSE x \in s : TRUE]
                                    + h[s \ {CHOOSE x \in s : TRUE}]]
           H == CHOOSE h : Fits(h)
<1>1. ASSUME NEW h PROVE IsSumOf(h, f, S) <=> Fits(h)
  BY DEF IsSumOf, Chosen
<1>2. SumFunction(f) = H[S]
  BY DEF SumFunction, SumFunctionOnSet, FoldFunctionOnSet, MapThenFoldSet
<1> HIDE DEF Fits, S
<1>3. PICK g : IsSumOf(g, f, S) /\ Total(f, S) = g[S]
  BY TotalIsSum DEF S
<1>4. Fits(H)
  <2>1. \E h : Fits(h)
    BY <1>1, <1>3
  <2> QED BY <2>1, Zenon
<1> HIDE DEF H
<1>5. H = g
  BY <1>1, <1>3, <1>4, SumIsUnique DEF S
<1> QED BY <1>2, <1>3, <1>5 DEF S

-----------------------------------------------------------------------------
(* Folds over sequences: the recursive function takes the positions of a   *)
(* sequence from the last one down.  A step maps a position and a value to *)
(* the next value.                                                         *)
IsFoldOf(h, base, step, S) ==
    h = [s \in SUBSET S |->
            IF s = {} THEN base ELSE step[Max(s)][h[s \ {Max(s)}]]]

(* The value after n steps. *)
FoldOf(base, step, n) == (CHOOSE h : IsFoldOf(h, base, step, 1 .. n))[1 .. n]

(* A finite set of numbers has a greatest one. *)
LEMMA HasMost ==
  ASSUME NEW I, IsFiniteSet(I), I \subseteq Nat, I # {}
  PROVE  Max(I) \in I /\ \A y \in I : Max(I) >= y
<1> DEFINE Counter == {T \in SUBSET I : T # {} /\ ~ \E x \in T : \A y \in T : x >= y}
<1>1. ASSUME NEW T \in Counter
      PROVE  \E U \in Counter : U \subseteq T /\ U # T
  <2>1. PICK x \in T : TRUE
    OBVIOUS
  <2> DEFINE U == {y \in T : y > x}
  <2>2. U # {} /\ U \subseteq T /\ U # T
    <3>1. PICK y \in T : ~(x >= y)
      BY <2>1
    <3> QED
      BY <3>1
  <2>3. ASSUME NEW z \in U, \A y \in U : z >= y
        PROVE  \A y \in T : z >= y
    BY <2>3
  <2>4. U \in Counter
    BY <2>2, <2>3
  <2> QED
    BY <2>2, <2>4
<1>2. Counter = {}
  <2> HIDE DEF Counter
  <2>1. Counter \in SUBSET (SUBSET I)
    BY DEF Counter
  <2> QED
    BY <1>1, <2>1, NoSmallestCounterexample
<1>3. \E x \in I : \A y \in I : x >= y
  BY <1>2
<1> QED
  BY <1>3, Zenon DEF Max

(* Induction up to a bound. *)
LEMMA UpTo ==
  ASSUME NEW n \in Nat, NEW A, 0 \in A, \A k \in 1 .. n : k - 1 \in A => k \in A
  PROVE  \A k \in 0 .. n : k \in A
<1> DEFINE I == (0 .. n) \ A
<1> SUFFICES ASSUME I # {} PROVE FALSE
  OBVIOUS
<1>1. IsFiniteSet(I)
  <2>1. IsFiniteSet(0 .. n)
    BY FS_Interval
  <2> QED BY <2>1, FS_Subset
<1>2. I \subseteq Nat
  OBVIOUS
<1> DEFINE m == Min(I)
<1>3. m \in I /\ \A y \in I : m <= y
  <2> HIDE DEF I
  <2> QED BY <1>1, <1>2, HasLeast
<1> HIDE DEF m
<1>4. m \in 1 .. n /\ m - 1 \in 0 .. n /\ ~(m <= m - 1)
  BY <1>3
<1>5. m - 1 \in A
  BY <1>3, <1>4
<1> QED BY <1>3, <1>4, <1>5

(* Parts of positions are finite, and the last one is in them. *)
LEMMA LastPosition ==
  ASSUME NEW n \in Nat, NEW s \in SUBSET (1 .. n)
  PROVE  IsFiniteSet(s) /\ (s # {} => Max(s) \in s /\ Max(s) \in 1 .. n)
<1>1. IsFiniteSet(s)
  <2>1. IsFiniteSet(1 .. n)
    BY FS_Interval
  <2> QED BY <2>1, FS_Subset
<1>2. s \subseteq Nat
  OBVIOUS
<1> QED BY <1>1, <1>2, HasMost

LEMMA LastOfInterval ==
  ASSUME NEW n \in Nat, n # 0
  PROVE  Max(1 .. n) = n /\ (1 .. n) \ {Max(1 .. n)} = 1 .. (n - 1)
<1>1. Max(1 .. n) \in 1 .. n /\ \A y \in 1 .. n : Max(1 .. n) >= y
  <2>1. IsFiniteSet(1 .. n)
    BY FS_Interval
  <2>2. 1 .. n \subseteq Nat /\ 1 \in 1 .. n
    OBVIOUS
  <2>3. 1 .. n # {}
    BY <2>2
  <2> QED BY <2>1, <2>2, <2>3, HasMost
<1>2. Max(1 .. n) = n
  BY <1>1
<1> QED BY <1>2

LEMMA FoldRestricts ==
  ASSUME NEW S, NEW base, NEW step, NEW h, IsFoldOf(h, base, step, S), NEW T \in SUBSET S
  PROVE  IsFoldOf([s \in SUBSET T |-> h[s]], base, step, T)
<1> DEFINE g == [s \in SUBSET T |-> h[s]]
<1>1. ASSUME NEW s \in SUBSET T
      PROVE  g[s] = IF s = {} THEN base ELSE step[Max(s)][g[s \ {Max(s)}]]
  <2>1. s \in SUBSET S /\ s \ {Max(s)} \in SUBSET T
    OBVIOUS
  <2> QED BY <2>1 DEF IsFoldOf
<1> QED BY <1>1 DEF IsFoldOf

LEMMA FoldIsUnique ==
  ASSUME NEW n \in Nat, NEW S \in SUBSET (1 .. n), NEW base, NEW step, NEW g, NEW h,
         IsFoldOf(g, base, step, S), IsFoldOf(h, base, step, S)
  PROVE  g = h
<1> DEFINE Counter == {T \in SUBSET S : g[T] # h[T]}
<1>1. ASSUME NEW T \in Counter
      PROVE  \E U \in Counter : U \subseteq T /\ U # T
  <2>1. T # {}
    BY DEF IsFoldOf
  <2>2. Max(T) \in T
    BY <2>1, LastPosition
  <2>3. T \ {Max(T)} \in Counter
    BY <2>1 DEF IsFoldOf
  <2> QED BY <2>2, <2>3
<1>2. Counter = {}
  <2> HIDE DEF Counter
  <2>1. Counter \in SUBSET (SUBSET S)
    BY DEF Counter
  <2>2. IsFiniteSet(S)
    BY LastPosition
  <2> QED BY <1>1, <2>1, <2>2, NoSmallestCounterexample
<1>3. \A T \in SUBSET S : g[T] = h[T]
  BY <1>2
<1> QED BY <1>3 DEF IsFoldOf

(* The recursion is well founded. *)
LEMMA FoldExists ==
  ASSUME NEW n \in Nat, NEW base, NEW step
  PROVE  \E h : IsFoldOf(h, base, step, 1 .. n)
<1> DEFINE S == 1 .. n
           Counter == {T \in SUBSET S : ~ \E h : IsFoldOf(h, base, step, T)}
<1>0. IsFiniteSet(S)
  BY FS_Interval
<1>1. ASSUME NEW T \in Counter, \A U \in SUBSET T : U # T => U \notin Counter
      PROVE  FALSE
  <2> DEFINE G(U) == CHOOSE h : IsFoldOf(h, base, step, U)
  <2>1. ASSUME NEW U \in SUBSET T, U # T
        PROVE  U \in SUBSET S /\ IsFoldOf(G(U), base, step, U)
    <3>1. U \in SUBSET S
      OBVIOUS
    <3>2. \E h : IsFoldOf(h, base, step, U)
      BY <1>1, <2>1, <3>1
    <3> QED BY <3>1, <3>2, Zenon
  <2>2. ASSUME NEW U \in SUBSET T, U # T, NEW V \in SUBSET U
        PROVE  G(U)[V] = G(V)[V]
    <3> DEFINE g == [s \in SUBSET V |-> G(U)[s]]
    <3>0. V \in SUBSET T /\ V # T
      BY <2>2
    <3>1. IsFoldOf(G(V), base, step, V) /\ V \in SUBSET S /\ IsFoldOf(G(U), base, step, U)
      BY <2>1, <2>2, <3>0
    <3> HIDE DEF G
    <3>2. IsFoldOf(g, base, step, V)
      BY <3>1, FoldRestricts
    <3>3. g = G(V)
      <4> HIDE DEF g
      <4> QED BY <3>1, <3>2, FoldIsUnique
    <3> QED BY <3>3
  <2> DEFINE rest == T \ {Max(T)}
             f == [s \in SUBSET T |->
                    IF s # T THEN G(s)[s]
                    ELSE IF T = {} THEN base ELSE step[Max(T)][G(rest)[rest]]]
  <2> HIDE DEF G
  <2>3. ASSUME NEW s \in SUBSET T
        PROVE  f[s] = IF s = {} THEN base ELSE step[Max(s)][f[s \ {Max(s)}]]
    <3>1. CASE s = {}
      <4>1. s # T => G(s)[s] = base
        BY <2>1, <3>1 DEF IsFoldOf
      <4> QED BY <3>1, <4>1
    <3>2. CASE s # {}
      <4> DEFINE u == s \ {Max(s)}
      <4>1. Max(s) \in s
        <5>1. s \in SUBSET S
          OBVIOUS
        <5> QED BY <3>2, <5>1, LastPosition
      <4>2. u \in SUBSET T /\ u \in SUBSET s /\ u # T /\ f[u] = G(u)[u]
        BY <4>1
      <4>3. CASE s = T
        BY <3>2, <4>2, <4>3
      <4>4. CASE s # T
        <5>1. G(s)[s] = step[Max(s)][G(s)[u]]
          BY <2>1, <3>2, <4>4 DEF IsFoldOf
        <5>2. G(s)[u] = G(u)[u]
          BY <2>2, <4>2, <4>4
        <5> QED BY <3>2, <4>2, <4>4, <5>1, <5>2
      <4> QED BY <4>3, <4>4
    <3> QED BY <3>1, <3>2
  <2>4. IsFoldOf(f, base, step, T)
    BY <2>3 DEF IsFoldOf
  <2> QED BY <2>4
<1>2. Counter = {}
  <2>1. \A T \in Counter : \E U \in Counter : U \subseteq T /\ U # T
    BY <1>1
  <2>2. Counter \in SUBSET (SUBSET S)
    OBVIOUS
  <2> HIDE DEF Counter, S
  <2> QED BY <1>0, <2>1, <2>2, NoSmallestCounterexample
<1> QED BY <1>2

(* What FoldOf computes. *)
LEMMA FoldOfIs ==
  ASSUME NEW n \in Nat, NEW base, NEW step, NEW h, IsFoldOf(h, base, step, 1 .. n)
  PROVE  /\ \A k \in 0 .. n : h[1 .. k] = FoldOf(base, step, k)
         /\ FoldOf(base, step, 0) = base
         /\ n # 0 => FoldOf(base, step, n) = step[n][FoldOf(base, step, n - 1)]
<1> DEFINE G(k) == CHOOSE f : IsFoldOf(f, base, step, 1 .. k)
<1>1. ASSUME NEW k \in 0 .. n
      PROVE  h[1 .. k] = FoldOf(base, step, k)
  <2> DEFINE g == [s \in SUBSET (1 .. k) |-> h[s]]
  <2>1. k \in Nat /\ 1 .. k \in SUBSET (1 .. n)
    OBVIOUS
  <2>2. IsFoldOf(G(k), base, step, 1 .. k)
    <3>1. \E f : IsFoldOf(f, base, step, 1 .. k)
      BY <2>1, FoldExists
    <3> QED BY <3>1, Zenon
  <2> HIDE DEF G
  <2>3. IsFoldOf(g, base, step, 1 .. k)
    <3>1. ASSUME NEW s \in SUBSET (1 .. k)
          PROVE  g[s] = IF s = {} THEN base ELSE step[Max(s)][g[s \ {Max(s)}]]
      <4>1. s \in SUBSET (1 .. n) /\ s \ {Max(s)} \in SUBSET (1 .. k)
        BY <2>1
      <4> QED BY <4>1 DEF IsFoldOf
    <3> QED BY <3>1 DEF IsFoldOf
  <2>4. g = G(k)
    <3> HIDE DEF g
    <3> QED BY <2>1, <2>2, <2>3, FoldIsUnique
  <2> QED BY <2>4 DEF FoldOf, G
<1>2. h[1 .. 0] = base
  <2>1. 1 .. 0 = {}
    OBVIOUS
  <2> QED BY <2>1 DEF IsFoldOf
<1>3. ASSUME n # 0
      PROVE  h[1 .. n] = step[n][h[1 .. (n - 1)]]
  <2>1. 1 .. n # {}
    BY <1>3
  <2>2. h[1 .. n] = step[Max(1 .. n)][h[(1 .. n) \ {Max(1 .. n)}]]
    BY <2>1 DEF IsFoldOf
  <2> QED BY <1>3, <2>2, LastOfInterval
<1>4. 0 \in 0 .. n /\ n \in 0 .. n /\ (n # 0 => n - 1 \in 0 .. n)
  OBVIOUS
<1> QED BY <1>1, <1>2, <1>3, <1>4

LEMMA FoldOfSteps ==
  ASSUME NEW n \in Nat, NEW base, NEW step
  PROVE  /\ FoldOf(base, step, 0) = base
         /\ n # 0 => FoldOf(base, step, n) = step[n][FoldOf(base, step, n - 1)]
<1>1. PICK h : IsFoldOf(h, base, step, 1 .. n)
  BY FoldExists
<1> QED BY <1>1, FoldOfIs

(* Steps that keep to a set of values. *)
KeepTo(V, step, n) == \A k \in 1 .. n : \A v \in V : step[k][v] \in V

LEMMA FoldOfStaysIn ==
  ASSUME NEW n \in Nat, NEW V, NEW base \in V, NEW step, KeepTo(V, step, n)
  PROVE  FoldOf(base, step, n) \in V
<1> DEFINE A == {k \in 0 .. n : FoldOf(base, step, k) \in V}
<1>1. 0 \in A
  BY FoldOfSteps
<1>2. ASSUME NEW k \in 1 .. n, k - 1 \in A
      PROVE  k \in A
  <2>1. k \in Nat /\ k # 0 /\ k \in 0 .. n
    OBVIOUS
  <2>2. FoldOf(base, step, k) = step[k][FoldOf(base, step, k - 1)]
    BY <2>1, FoldOfSteps
  <2> QED BY <1>2, <2>1, <2>2 DEF KeepTo
<1>3. \A k \in 0 .. n : k \in A
  <2> HIDE DEF A
  <2> QED BY <1>1, <1>2, UpTo
<1> QED BY <1>3

(* The same steps, the same fold. *)
LEMMA FoldOfAgrees ==
  ASSUME NEW n \in Nat, NEW base, NEW step, NEW other, \A k \in 1 .. n : other[k] = step[k]
  PROVE  FoldOf(base, other, n) = FoldOf(base, step, n)
<1> DEFINE A == {k \in 0 .. n : FoldOf(base, other, k) = FoldOf(base, step, k)}
<1>1. 0 \in A
  BY FoldOfSteps
<1>2. ASSUME NEW k \in 1 .. n, k - 1 \in A
      PROVE  k \in A
  <2>1. k \in Nat /\ k # 0 /\ k \in 0 .. n
    OBVIOUS
  <2>2. /\ FoldOf(base, step, k) = step[k][FoldOf(base, step, k - 1)]
        /\ FoldOf(base, other, k) = other[k][FoldOf(base, other, k - 1)]
    BY <2>1, FoldOfSteps
  <2> QED BY <1>2, <2>1, <2>2
<1>3. \A k \in 0 .. n : k \in A
  <2> HIDE DEF A
  <2> QED BY <1>1, <1>2, UpTo
<1> QED BY <1>3

(* A function that recurs like the fold, as long as it keeps to the values. *)
RecursLike(h, V, base, step, n) ==
    /\ h[{}] = base
    /\ \A s \in SUBSET (1 .. n) :
          s # {} /\ h[s \ {Max(s)}] \in V => h[s] = step[Max(s)][h[s \ {Max(s)}]]

LEMMA FoldLike ==
  ASSUME NEW n \in Nat, NEW V, NEW base \in V, NEW step, KeepTo(V, step, n),
         NEW h, RecursLike(h, V, base, step, n)
  PROVE  /\ \A s \in SUBSET (1 .. n) : h[s] \in V
         /\ h[1 .. n] = FoldOf(base, step, n)
<1> DEFINE S == 1 .. n
           Counter == {T \in SUBSET S : h[T] \notin V}
           g == [s \in SUBSET S |-> h[s]]
<1>1. ASSUME NEW T \in Counter
      PROVE  \E U \in Counter : U \subseteq T /\ U # T
  <2>1. T # {} /\ T \in SUBSET S
    BY DEF RecursLike
  <2>2. Max(T) \in T /\ Max(T) \in S
    BY <2>1, LastPosition
  <2>3. T \ {Max(T)} \in Counter
    BY <2>1, <2>2 DEF RecursLike, KeepTo
  <2> QED BY <2>2, <2>3
<1>2. Counter = {}
  <2>1. IsFiniteSet(S)
    BY FS_Interval
  <2>2. Counter \in SUBSET (SUBSET S)
    OBVIOUS
  <2> HIDE DEF Counter, S
  <2> QED BY <1>1, <2>1, <2>2, NoSmallestCounterexample
<1>3. \A s \in SUBSET S : h[s] \in V
  BY <1>2
<1>4. IsFoldOf(g, base, step, S)
  <2>1. ASSUME NEW s \in SUBSET S
        PROVE  g[s] = IF s = {} THEN base ELSE step[Max(s)][g[s \ {Max(s)}]]
    <3>1. s \ {Max(s)} \in SUBSET S
      OBVIOUS
    <3> QED BY <1>3, <3>1 DEF RecursLike
  <2> QED BY <2>1 DEF IsFoldOf
<1>5. g[1 .. n] = FoldOf(base, step, n)
  <2>1. n \in 0 .. n
    OBVIOUS
  <2> HIDE DEF g
  <2> QED BY <1>4, <2>1, FoldOfIs
<1> QED BY <1>3, <1>5

(* As long as the steps keep to the values, the recursion does. *)
LEMMA FoldOfValues ==
  ASSUME NEW n \in Nat, NEW V, NEW base \in V, NEW step, KeepTo(V, step, n)
  PROVE  \E h : IsFoldOf(h, base, step, 1 .. n) /\ \A s \in SUBSET (1 .. n) : h[s] \in V
<1>1. PICK h : IsFoldOf(h, base, step, 1 .. n)
  BY FoldExists
<1>2. RecursLike(h, V, base, step, n)
  BY <1>1 DEF IsFoldOf, RecursLike
<1> QED BY <1>1, <1>2, FoldLike

(* The steps of a fold along a sequence; f maps an element and a value to  *)
(* the next value.                                                         *)
Along(f, s) == [k \in 1 .. Len(s) |-> f[s[k]]]

-----------------------------------------------------------------------------
(* Powers of two count subsets: the libraries know no other fact of them. *)
LEMMA PowerIsCount ==
  ASSUME NEW n \in Nat
  PROVE  /\ IsFiniteSet(SUBSET (1 .. n))
         /\ Cardinality(SUBSET (1 .. n)) = 2^n /\ 2^n \in Nat
<1>1. IsFiniteSet(1 .. n) /\ Cardinality(1 .. n) = n
  BY FS_Interval
<1>2. IsFiniteSet(SUBSET (1 .. n)) /\ Cardinality(SUBSET (1 .. n)) = 2^n
  BY <1>1, FS_SUBSET
<1> QED
  BY <1>2, FS_CardinalityType
=============================================================================
