---------------------- MODULE AdaptiveScheduler_proofs ----------------------
(***************************************************************************)
(* The scheduler for any number of paths, any scores and any limits: the   *)
(* ranges of its weights and counters, and the balance and the bound of    *)
(* the credits of smooth weighted round-robin.  The sums of the model are  *)
(* folds over sets; the first part says what they compute, by induction on *)
(* the subsets of a finite set.                                            *)
(***************************************************************************)
EXTENDS AdaptiveScheduler, FiniteSetTheorems, TLAPS

-----------------------------------------------------------------------------
(* Sums.  A fold over a set is a recursion over its subsets, so what it    *)
(* computes follows by well-founded induction on them.                     *)

(* Induction over the subsets of a finite set. *)
LEMMA SubsetInduction ==
    ASSUME NEW S, IsFiniteSet(S), NEW G,
           \A T \in SUBSET S : (\A U \in SUBSET T : U # T => U \in G) => T \in G
    PROVE  \A T \in SUBSET S : T \in G
<1> DEFINE Bad == (SUBSET S) \ G
<1>0. SUFFICES ASSUME Bad # {} PROVE FALSE
  OBVIOUS
<1>1. FiniteSubsetsOf(S) = SUBSET S
  BY FS_FiniteSubsetsOfFinite
<1>2. Bad \subseteq FiniteSubsetsOf(S)
  BY <1>1
<1>3. IsWellFoundedOn(StrictSubsetOrdering(S), FiniteSubsetsOf(S))
  BY FS_StrictSubsetOrderingWellFounded
<1> HIDE DEF Bad
<1>4. PICK T \in Bad : \A U \in Bad : ~(<<U, T>> \in StrictSubsetOrdering(S))
  BY <1>0, <1>2, <1>3, WFMin
<1>5. ASSUME NEW U \in SUBSET T, U # T PROVE U \in G
  <2>1. <<U, T>> \in (SUBSET S) \X (SUBSET S)
    BY <1>4, <1>5 DEF Bad
  <2>2. <<U, T>>[1] = U /\ <<U, T>>[2] = T
    OBVIOUS
  <2>3. <<U, T>> \in StrictSubsetOrdering(S)
    BY <1>5, <2>1, <2>2 DEF StrictSubsetOrdering
  <2> QED
    BY <1>4, <2>1, <2>3 DEF Bad
<1> QED
  BY <1>4, <1>5 DEF Bad

(* The element a fold takes next, and the recursion it stands for. *)
Chosen(s) == CHOOSE x \in s : TRUE

Unfolds(g, f, S) ==
    g = [s \in SUBSET S |-> IF s = {} THEN 0 ELSE f[Chosen(s)] + g[s \ {Chosen(s)}]]

(* A sum is the value at S of the recursion. *)
LEMMA SumIsFold ==
    ASSUME NEW f, NEW S
    PROVE  SumFunctionOnSet(f, S) = (CHOOSE g : Unfolds(g, f, S))[S]
BY DEF SumFunctionOnSet, FoldFunctionOnSet, MapThenFoldSet, Unfolds, Chosen

(* The recursion is well defined, so a sum can be unfolded. *)
LEMMA SumUnfolds ==
    ASSUME NEW S, IsFiniteSet(S), NEW f \in [S -> Int]
    PROVE  \A T \in SUBSET S :
              /\ SumFunctionOnSet(f, T) \in Int
              /\ SumFunctionOnSet(f, T) =
                    IF T = {} THEN 0
                    ELSE f[Chosen(T)] + SumFunctionOnSet(f, T \ {Chosen(T)})
<1> DEFINE Sum(T) == SumFunctionOnSet(f, T)
           Val(T) == IF T = {} THEN 0 ELSE f[Chosen(T)] + Sum(T \ {Chosen(T)})
           G == {T \in SUBSET S : Sum(T) \in Int /\ Sum(T) = Val(T)}
<1>1. ASSUME NEW T \in SUBSET S, \A U \in SUBSET T : U # T => U \in G
      PROVE  T \in G
  <2> DEFINE h == [s \in SUBSET T |-> Val(s)]
             g == CHOOSE g : Unfolds(g, f, T)
  <2>0. \A U \in SUBSET T : U # {} => Chosen(U) \in U
    BY Zenon DEF Chosen
  <2>1. ASSUME NEW U \in SUBSET T, U # {} PROVE U \ {Chosen(U)} \in SUBSET T /\ U \ {Chosen(U)} # T /\ U \ {Chosen(U)} \in G
    BY <2>0, <2>1, <1>1
  <2>2. ASSUME NEW U \in SUBSET T, U # {} PROVE h[U \ {Chosen(U)}] = Sum(U \ {Chosen(U)})
    BY <2>1, <2>2
  <2>3. Unfolds(h, f, T)
    BY <2>2, Zenon DEF Unfolds
  <2>4. Unfolds(g, f, T)
    BY <2>3, Zenon
  <2> HIDE DEF h, g
  <2>5. \A U \in SUBSET T : g[U] = IF U = {} THEN 0 ELSE f[Chosen(U)] + g[U \ {Chosen(U)}]
    BY <2>4 DEF Unfolds
  <2>6. \A U \in SUBSET T : U # T => g[U] = Sum(U)
    <3> DEFINE H == {U \in SUBSET T : U # T => g[U] = Sum(U)}
    <3>1. ASSUME NEW U \in SUBSET T, \A W \in SUBSET U : W # U => W \in H
          PROVE  U \in H
      <4> SUFFICES ASSUME U # T PROVE g[U] = Sum(U)
        OBVIOUS
      <4>1. CASE U = {}
        BY <4>1, <2>5, <1>1
      <4>2. CASE U # {}
        <5>1. g[U \ {Chosen(U)}] = Sum(U \ {Chosen(U)})
          BY <2>0, <2>1, <3>1, <4>2
        <5>2. Sum(U) = Val(U)
          BY <1>1
        <5> QED
          BY <2>5, <4>2, <5>1, <5>2
      <4> QED BY <4>1, <4>2
    <3> HIDE DEF H
    <3>2. IsFiniteSet(T)
      BY FS_Subset
    <3>3. \A U \in SUBSET T : U \in H
      BY <3>1, <3>2, SubsetInduction
    <3> QED BY <3>3 DEF H
  <2>7. Sum(T) = g[T]
    BY SumIsFold DEF g
  <2>8. Sum(T) = Val(T)
    <3>1. CASE T = {}
      BY <3>1, <2>5, <2>7
    <3>2. CASE T # {}
      <4>1. g[T \ {Chosen(T)}] = Sum(T \ {Chosen(T)})
        BY <2>1, <2>6, <3>2
      <4> QED BY <2>5, <2>7, <3>2, <4>1
    <3> QED BY <3>1, <3>2
  <2>9. Val(T) \in Int
    <3>1. CASE T # {}
      <4>1. Sum(T \ {Chosen(T)}) \in Int
        BY <2>1, <3>1
      <4>2. f[Chosen(T)] \in Int
        BY <2>0, <3>1
      <4> QED BY <3>1, <4>1, <4>2
    <3> QED BY <3>1
  <2> QED BY <2>8, <2>9
<1> HIDE DEF G
<1>2. \A T \in SUBSET S : T \in G
  BY <1>1, SubsetInduction
<1> QED BY <1>2 DEF G

(* A sum is what any one element adds to the sum of the others. *)
LEMMA SumRemove ==
    ASSUME NEW S, IsFiniteSet(S), NEW f \in [S -> Int],
           NEW T \in SUBSET S, NEW x \in T
    PROVE  SumFunctionOnSet(f, T) = f[x] + SumFunctionOnSet(f, T \ {x})
<1> DEFINE Sum(U) == SumFunctionOnSet(f, U)
           G == {U \in SUBSET S : \A y \in U : Sum(U) = f[y] + Sum(U \ {y})}
<1>0. \A U \in SUBSET S : /\ Sum(U) \in Int
                          /\ U # {} => /\ Chosen(U) \in U
                                       /\ Sum(U) = f[Chosen(U)] + Sum(U \ {Chosen(U)})
  <2>1. \A U \in SUBSET S : U # {} => Chosen(U) \in U
    BY Zenon DEF Chosen
  <2> QED
    BY <2>1, SumUnfolds
<1>1. ASSUME NEW U \in SUBSET S, \A W \in SUBSET U : W # U => W \in G
      PROVE  U \in G
  <2> SUFFICES ASSUME NEW y \in U PROVE Sum(U) = f[y] + Sum(U \ {y})
    OBVIOUS
  <2> DEFINE z == Chosen(U)
  <2>1. z \in U /\ Sum(U) = f[z] + Sum(U \ {z})
    BY <1>0
  <2> HIDE DEF z
  <2>2. CASE y = z
    BY <2>1, <2>2
  <2>3. CASE y # z
    <3>1. U \ {z} \in G /\ U \ {y} \in G
      BY <1>1, <2>1
    <3>2. /\ Sum(U \ {z}) = f[y] + Sum((U \ {z}) \ {y})
          /\ Sum(U \ {y}) = f[z] + Sum((U \ {y}) \ {z})
      BY <2>1, <2>3, <3>1
    <3>3. (U \ {z}) \ {y} = (U \ {y}) \ {z}
      OBVIOUS
    <3> DEFINE a == Sum(U)  b == Sum(U \ {z})  c == Sum(U \ {y})
               d == Sum((U \ {y}) \ {z})
    <3>4. a = f[z] + b /\ b = f[y] + d /\ c = f[z] + d
      BY <2>1, <3>2, <3>3
    <3>5. d \in Int /\ f[y] \in Int /\ f[z] \in Int
      BY <1>0, <2>1
    <3> HIDE DEF a, b, c, d
    <3>6. a = f[y] + c
      BY <3>4, <3>5
    <3> QED
      BY <3>6 DEF a, c
  <2> QED
    BY <2>2, <2>3
<1> HIDE DEF G
<1>2. \A U \in SUBSET S : U \in G
  BY <1>1, SubsetInduction
<1> QED
  BY <1>2 DEF G

(* A sum of integers is an integer, and an empty one is zero. *)
LEMMA SumType ==
    ASSUME NEW S, IsFiniteSet(S), NEW f \in [S -> Int], NEW T \in SUBSET S
    PROVE  SumFunctionOnSet(f, T) \in Int /\ SumFunctionOnSet(f, {}) = 0
BY SumUnfolds

(* The two things a pick does to the credits of S: every path of E is      *)
(* raised by its weight, then the chosen one pays.                         *)
IsRaised(d, c, E, w, S) ==
    \A x \in S : d[x] = IF x \in E THEN c[x] + w[x] ELSE c[x]

HasPaid(d, r, p, k, S) ==
    d[p] = r[p] - k /\ \A x \in S : x # p => d[x] = r[x]

(* Raising some elements raises a sum by what was added to those in it. *)
LEMMA SumRaise ==
    ASSUME NEW S, IsFiniteSet(S), NEW c \in [S -> Int], NEW d \in [S -> Int],
           NEW E \in SUBSET S, NEW w \in [E -> Int], IsRaised(d, c, E, w, S)
    PROVE  \A T \in SUBSET S :
              SumFunctionOnSet(d, T) =
                 SumFunctionOnSet(c, T) + SumFunctionOnSet(w, T \cap E)
<1> DEFINE D(T) == SumFunctionOnSet(d, T)
           C(T) == SumFunctionOnSet(c, T)
           W(T) == SumFunctionOnSet(w, T)
           G == {T \in SUBSET S : D(T) = C(T) + W(T \cap E)}
<1>0. IsFiniteSet(E)
  BY FS_Subset
<1>1. ASSUME NEW T \in SUBSET S, \A U \in SUBSET T : U # T => U \in G
      PROVE  T \in G
  <2>1. CASE T = {}
    BY <1>0, <2>1, SumType
  <2>2. CASE T # {}
    <3>1. PICK x \in T : TRUE
      BY <2>2
    <3> DEFINE R == T \ {x}
               dT == D(T)  dR == D(R)  cT == C(T)  cR == C(R)
               wT == W(T \cap E)  wR == W(R \cap E)
    <3>2. dR = cR + wR
      BY <1>1, <3>1
    <3>3. dT = d[x] + dR /\ cT = c[x] + cR
      BY SumRemove
    <3>4. IF x \in E THEN wT = w[x] + wR ELSE wT = wR
      <4>1. CASE x \in E
        <5>1. R \cap E = (T \cap E) \ {x}
          BY <4>1
        <5>2. x \in T \cap E /\ T \cap E \in SUBSET E
          BY <4>1
        <5>3. W(T \cap E) = w[x] + W((T \cap E) \ {x})
          BY <1>0, <5>2, SumRemove
        <5> QED
          BY <4>1, <5>1, <5>3
      <4>2. CASE x \notin E
        <5>1. R \cap E = T \cap E
          BY <4>2
        <5> QED
          BY <4>2, <5>1
      <4> QED
        BY <4>1, <4>2
    <3>5. cR \in Int /\ wR \in Int
      BY <1>0, SumType
    <3>6. c[x] \in Int /\ (x \in E => w[x] \in Int)
      OBVIOUS
    <3>7. d[x] = IF x \in E THEN c[x] + w[x] ELSE c[x]
      BY DEF IsRaised
    <3> HIDE DEF dT, dR, cT, cR, wT, wR
    <3>8. dT = cT + wT
      BY <3>2, <3>3, <3>4, <3>5, <3>6, <3>7
    <3> QED
      BY <3>8 DEF dT, cT, wT
  <2> QED
    BY <2>1, <2>2
<1> HIDE DEF G
<1>2. \A T \in SUBSET S : T \in G
  BY <1>1, SubsetInduction
<1> QED
  BY <1>2 DEF G

(* Sums that differ in one element. *)
LEMMA SumPay ==
    ASSUME NEW S, IsFiniteSet(S), NEW r \in [S -> Int], NEW p \in S, NEW k \in Int,
           NEW d \in [S -> Int], HasPaid(d, r, p, k, S), NEW T \in SUBSET S
    PROVE  SumFunctionOnSet(d, T) = SumFunctionOnSet(r, T) - (IF p \in T THEN k ELSE 0)
<1> DEFINE w == [x \in {p} |-> -k]
<1>1. w \in [{p} -> Int] /\ {p} \in SUBSET S
  OBVIOUS
<1>2. IsRaised(d, r, {p}, w, S)
  BY DEF IsRaised, HasPaid
<1>3. SumFunctionOnSet(d, T) = SumFunctionOnSet(r, T) + SumFunctionOnSet(w, T \cap {p})
  <2> HIDE DEF w
  <2> QED
    BY <1>1, <1>2, SumRaise
<1>4. SumFunctionOnSet(w, {}) = 0 /\ SumFunctionOnSet(w, {p}) = -k
  <2>1. IsFiniteSet({p}) /\ w[p] = -k /\ {p} \ {p} = {}
    BY FS_Singleton
  <2> HIDE DEF w
  <2>2. SumFunctionOnSet(w, {p}) = w[p] + SumFunctionOnSet(w, {p} \ {p})
    BY <1>1, <2>1, SumRemove
  <2>3. SumFunctionOnSet(w, {}) = 0
    BY <1>1, <2>1, SumType
  <2> DEFINE a == SumFunctionOnSet(w, {p})
  <2>4. a = -k + 0
    BY <2>1, <2>2, <2>3
  <2> QED
    BY <2>3, <2>4
<1>5. T \cap {p} = IF p \in T THEN {p} ELSE {}
  OBVIOUS
<1>6. SumFunctionOnSet(r, T) \in Int
  BY SumType
<1> DEFINE a == SumFunctionOnSet(d, T)  b == SumFunctionOnSet(r, T)
           e == SumFunctionOnSet(w, T \cap {p})
<1>7. e = IF p \in T THEN -k ELSE 0
  BY <1>4, <1>5
<1> HIDE DEF w, a, b, e
<1>8. a = b - (IF p \in T THEN k ELSE 0)
  BY <1>3, <1>6, <1>7 DEF a, b, e
<1> QED
  BY <1>8 DEF a, b

(* A sum of naturals is no less than its parts. *)
LEMMA SumNat ==
    ASSUME NEW S, IsFiniteSet(S), NEW w \in [S -> Nat]
    PROVE  \A T \in SUBSET S :
              /\ SumFunctionOnSet(w, T) \in Nat
              /\ \A U \in SUBSET T : SumFunctionOnSet(w, U) <= SumFunctionOnSet(w, T)
<1> DEFINE W(T) == SumFunctionOnSet(w, T)
           G == {T \in SUBSET S : W(T) \in Nat /\ \A U \in SUBSET T : W(U) <= W(T)}
<1>0. w \in [S -> Int]
  OBVIOUS
<1>1. ASSUME NEW T \in SUBSET S, \A U \in SUBSET T : U # T => U \in G
      PROVE  T \in G
  <2>1. ASSUME NEW x \in T
        PROVE  /\ W(T) = w[x] + W(T \ {x}) /\ w[x] \in Nat /\ W(T \ {x}) \in Nat
               /\ \A U \in SUBSET (T \ {x}) : W(U) <= W(T \ {x})
    <3>1. T \ {x} \in G
      BY <1>1
    <3>2. W(T) = w[x] + W(T \ {x})
      BY <1>0, SumRemove
    <3> QED
      BY <3>1, <3>2
  <2>2. W(T) \in Nat
    <3>1. CASE T = {}
      BY <1>0, <3>1, SumType
    <3>2. CASE T # {}
      <4>1. PICK x \in T : TRUE
        BY <3>2
      <4> DEFINE a == W(T)  b == W(T \ {x})
      <4>2. a = w[x] + b /\ w[x] \in Nat /\ b \in Nat
        BY <2>1
      <4> HIDE DEF a, b
      <4>3. a \in Nat
        BY <4>2
      <4> QED
        BY <4>3 DEF a
    <3> QED
      BY <3>1, <3>2
  <2>3. ASSUME NEW U \in SUBSET T PROVE W(U) <= W(T)
    <3>1. CASE U = T
      BY <2>2, <3>1
    <3>2. CASE U # T
      <4>1. PICK x \in T : x \notin U
        BY <3>2
      <4> DEFINE a == W(T)  b == W(T \ {x})  u == W(U)
      <4>2. U \in SUBSET (T \ {x})
        BY <4>1
      <4>3. u \in Nat
        BY <1>1, <3>2
      <4>4. a = w[x] + b /\ w[x] \in Nat /\ b \in Nat /\ u <= b
        BY <2>1, <4>2
      <4> HIDE DEF a, b, u
      <4>5. u <= a
        BY <4>3, <4>4
      <4> QED
        BY <4>5 DEF a, u
    <3> QED
      BY <3>1, <3>2
  <2> QED
    BY <2>2, <2>3
<1> HIDE DEF G
<1>2. \A T \in SUBSET S : T \in G
  BY <1>1, SubsetInduction
<1> QED
  BY <1>2 DEF G

(* A sum of numbers up to M is at most M times how many they are. *)
LEMMA SumBound ==
    ASSUME NEW S, IsFiniteSet(S), NEW M \in Nat, NEW w \in [S -> 0..M]
    PROVE  \A T \in SUBSET S : SumFunctionOnSet(w, T) <= M * Cardinality(T)
<1> DEFINE W(T) == SumFunctionOnSet(w, T)
           G == {T \in SUBSET S : W(T) <= M * Cardinality(T)}
<1>0. w \in [S -> Int]
  OBVIOUS
<1>1. ASSUME NEW T \in SUBSET S, \A U \in SUBSET T : U # T => U \in G
      PROVE  T \in G
  <2>1. IsFiniteSet(T)
    BY FS_Subset
  <2>2. CASE T = {}
    <3>1. W(T) = 0 /\ Cardinality(T) = 0 /\ M * 0 = 0
      BY <1>0, <2>2, SumType, FS_EmptySet
    <3> QED
      BY <3>1
  <2>3. CASE T # {}
    <3>1. PICK x \in T : TRUE
      BY <2>3
    <3> DEFINE k == Cardinality(T)  a == W(T)  b == W(T \ {x})
    <3>2. T \ {x} \in G
      BY <1>1
    <3>3. a = w[x] + b
      BY <1>0, SumRemove
    <3>4. k \in Nat /\ Cardinality(T \ {x}) = k - 1
      BY <2>1, FS_CardinalityType, FS_RemoveElement
    <3>5. b \in Int
      BY <1>0, SumType
    <3>6. b <= M * (k - 1) /\ w[x] \in 0..M
      BY <3>2, <3>4
    <3> HIDE DEF k, a, b
    <3>7. M * (k - 1) = M * k - M /\ M * k \in Int
      BY <3>4
    <3>8. a <= M * k
      BY <3>3, <3>5, <3>6, <3>7
    <3> QED
      BY <3>8 DEF a, k
  <2> QED
    BY <2>2, <2>3
<1> HIDE DEF G
<1>2. \A T \in SUBSET S : T \in G
  BY <1>1, SubsetInduction
<1> QED
  BY <1>2 DEF G

-----------------------------------------------------------------------------
(* Credit.  What a set of paths may have run up together: the bound is     *)
(* largest for half of the paths and zero for all of them.                 *)
Allowed(M, k, n) == M * k * (n - k)

(* The bound is concave: the mean over sets one smaller and one larger is  *)
(* below it by the most a pick can add.                                    *)
LEMMA AllowedIsConcave ==
    ASSUME NEW M \in Int, NEW k \in Int, NEW n \in Int
    PROVE  /\ Allowed(M, k, n) \in Int
           /\ Allowed(M, k - 1, n) + Allowed(M, k + 1, n) = 2 * Allowed(M, k, n) - 2 * M
<1>1. (k - 1) * (n - (k - 1)) + (k + 1) * (n - (k + 1)) = 2 * (k * (n - k)) - 2
  OBVIOUS
<1> DEFINE a == (k - 1) * (n - (k - 1))  b == (k + 1) * (n - (k + 1))  c == k * (n - k)
<1>2. a \in Int /\ b \in Int /\ c \in Int
  OBVIOUS
<1>3. /\ Allowed(M, k - 1, n) = M * a
      /\ Allowed(M, k + 1, n) = M * b
      /\ Allowed(M, k, n) = M * c
  BY DEF Allowed
<1>4. a + b = 2 * c - 2
  BY <1>1
<1> HIDE DEF a, b, c
<1>5. M * a + M * b = M * (a + b)
  BY <1>2
<1>6. M * (2 * c - 2) = 2 * (M * c) - 2 * M
  BY <1>2
<1> QED
  BY <1>2, <1>3, <1>4, <1>5, <1>6

(* What one pick does to the credit of a set of paths. *)
LEMMA PickChangesSum ==
    ASSUME NEW S, IsFiniteSet(S), NEW c \in [S -> Int], NEW r \in [S -> Int],
           NEW E \in SUBSET S, NEW w \in [E -> Int], IsRaised(r, c, E, w, S),
           NEW p \in S, NEW k \in Int, NEW d \in [S -> Int], HasPaid(d, r, p, k, S),
           NEW A \in SUBSET S
    PROVE  SumFunctionOnSet(d, A) =
              (SumFunctionOnSet(c, A) + SumFunctionOnSet(w, A \cap E))
                 - (IF p \in A THEN k ELSE 0)
<1>1. SumFunctionOnSet(r, A) = SumFunctionOnSet(c, A) + SumFunctionOnSet(w, A \cap E)
  BY SumRaise
<1>2. SumFunctionOnSet(d, A) = SumFunctionOnSet(r, A) - (IF p \in A THEN k ELSE 0)
  BY SumPay
<1> QED
  BY <1>1, <1>2

(* One pick of smooth weighted round-robin over the paths of E: the credit *)
(* of any set of paths stays within what is allowed for its size.  A set   *)
(* with the chosen path only loses.  For one without it, by induction on   *)
(* the set: one of its members had no more than the chosen path, which     *)
(* paid at most M.                                                         *)
LEMMA PickKeepsBound ==
    ASSUME NEW S, IsFiniteSet(S), NEW c \in [S -> Int], NEW r \in [S -> Int],
           NEW E \in SUBSET S, NEW M \in Nat, NEW w \in [E -> Int],
           \A x \in E : w[x] >= 0,
           IsRaised(r, c, E, w, S), NEW p \in E, \A q \in E : r[q] <= r[p],
           SumFunctionOnSet(w, E) <= M,
           NEW d \in [S -> Int], HasPaid(d, r, p, SumFunctionOnSet(w, E), S),
           \A A \in SUBSET S :
              2 * SumFunctionOnSet(c, A) <= Allowed(M, Cardinality(A), Cardinality(S))
    PROVE  \A A \in SUBSET S :
              2 * SumFunctionOnSet(d, A) <= Allowed(M, Cardinality(A), Cardinality(S))
<1> DEFINE n == Cardinality(S)
           W == SumFunctionOnSet(w, E)
           C(A) == SumFunctionOnSet(c, A)
           D(A) == SumFunctionOnSet(d, A)
           F(A) == Allowed(M, Cardinality(A), n)
           G == {A \in SUBSET S : 2 * D(A) <= F(A)}
<1>1. IsFiniteSet(E) /\ n \in Nat
  BY FS_Subset, FS_CardinalityType
<1>2. \A A \in SUBSET E :
          SumFunctionOnSet(w, A) \in Nat /\ SumFunctionOnSet(w, A) <= W
  <2>1. w \in [E -> Nat]
    OBVIOUS
  <2> QED
    BY <1>1, <2>1, SumNat
<1>3. W \in Nat
  BY <1>2
<1>4. ASSUME NEW A \in SUBSET S
      PROVE  D(A) = (C(A) + SumFunctionOnSet(w, A \cap E)) - (IF p \in A THEN W ELSE 0)
  <2>1. W \in Int /\ p \in S /\ HasPaid(d, r, p, W, S)
    BY <1>3
  <2> HIDE DEF W
  <2> QED
    BY <2>1, PickChangesSum
<1>5. ASSUME NEW A \in SUBSET S
      PROVE  /\ D(A) \in Int /\ C(A) \in Int /\ F(A) \in Int
             /\ Cardinality(A) \in Nat /\ IsFiniteSet(A)
  <2>1. IsFiniteSet(A)
    BY FS_Subset
  <2>2. Cardinality(A) \in Nat
    BY <2>1, FS_CardinalityType
  <2>3. F(A) \in Int
    BY <1>1, <2>2, AllowedIsConcave
  <2> QED
    BY <2>1, <2>2, <2>3, SumType
<1>6. ASSUME NEW A \in SUBSET S, p \in A \/ A \cap E = {} PROVE 2 * D(A) <= F(A)
  <2> DEFINE x == C(A)  y == SumFunctionOnSet(w, A \cap E)  z == D(A)  b == F(A)
  <2>1. z = (x + y) - (IF p \in A THEN W ELSE 0)
    BY <1>4
  <2>2. y \in Nat /\ y <= W
    BY <1>2
  <2>3. A \cap E = {} => y = 0
    BY <1>1, SumType
  <2>4. 2 * x <= b /\ x \in Int /\ b \in Int
    BY <1>5
  <2> HIDE DEF x, y, z, b
  <2>5. 2 * z <= b
    <3>1. CASE p \in A
      BY <1>3, <2>1, <2>2, <2>4, <3>1
    <3>2. CASE p \notin A
      BY <1>6, <2>1, <2>3, <2>4, <3>2
    <3> QED
      BY <3>1, <3>2
  <2> QED
    BY <2>5 DEF z, b
<1>7. ASSUME NEW A \in SUBSET S, \A U \in SUBSET A : U # A => U \in G
      PROVE  A \in G
  <2>1. CASE p \in A \/ A \cap E = {}
    BY <1>6, <2>1
  <2>2. CASE p \notin A /\ A \cap E # {}
    <3>1. PICK q \in A : q \in E
      BY <2>2
    <3> DEFINE L == A \ {q}  B == A \cup {p}  k == Cardinality(A)
               a == D(A)  l == D(L)  b == D(B)
    <3>2. L \in G /\ L \in SUBSET S /\ B \in SUBSET S /\ p \in B
      BY <1>7, <3>1
    <3>3. k \in Nat /\ Cardinality(L) = k - 1 /\ Cardinality(B) = k + 1
      BY <1>5, <2>2, FS_RemoveElement, FS_AddElement
    <3>4. 2 * l <= Allowed(M, k - 1, n) /\ 2 * b <= Allowed(M, k + 1, n)
      BY <1>6, <3>2, <3>3
    <3>5. a = d[q] + l
      BY SumRemove
    <3>6. b = d[p] + a
      <4>1. B \ {p} = A
        BY <2>2
      <4>2. D(B) = d[p] + D(B \ {p})
        BY <3>2, SumRemove
      <4> QED
        BY <4>1, <4>2
    <3>7. d[q] = r[q] /\ r[q] <= r[p] /\ d[p] = r[p] - W /\ r[q] \in Int /\ r[p] \in Int
      BY <2>2, <3>1 DEF HasPaid
    <3>8. a \in Int /\ b \in Int /\ l \in Int
      BY <1>5, <3>2
    <3> DEFINE f == Allowed(M, k, n)  g == Allowed(M, k - 1, n)  h == Allowed(M, k + 1, n)
    <3>9. f \in Int /\ g \in Int /\ h \in Int /\ g + h = 2 * f - 2 * M
      <4>1. k \in Int /\ n \in Int /\ M \in Int
        BY <1>1, <3>3
      <4> HIDE DEF k, n
      <4>2. /\ Allowed(M, k, n) \in Int
            /\ Allowed(M, k - 1, n) + Allowed(M, k + 1, n) = 2 * Allowed(M, k, n) - 2 * M
        BY <4>1, AllowedIsConcave, Zenon
      <4>3. k - 1 \in Int /\ k + 1 \in Int
        BY <4>1
      <4>4. g \in Int /\ h \in Int
        BY <4>1, <4>3, AllowedIsConcave, Zenon
      <4> QED
        BY <4>2, <4>4
    <3>10. 2 * l <= g /\ 2 * b <= h /\ W <= M
      BY <3>4
    <3> HIDE DEF a, b, l, f, g, h, W, k
    <3>11. 2 * a <= f
      BY <1>3, <3>5, <3>6, <3>7, <3>8, <3>9, <3>10
    <3> QED
      BY <3>11 DEF a, f, k
  <2> QED
    BY <2>1, <2>2
<1> HIDE DEF G
<1>8. \A A \in SUBSET S : A \in G
  BY <1>7, SubsetInduction
<1> QED
  BY <1>8 DEF G

-----------------------------------------------------------------------------
(* Choice and weights.                                                     *)

(* maxByOrNull() finds a greatest element of any set that is not empty. *)
LEMMA GreatestExists ==
    ASSUME NEW f \in [Path -> Int], NEW K \in SUBSET Path, K # {}
    PROVE  /\ FirstGreatest(f, K) \in K
           /\ \A q \in K : f[q] <= f[FirstGreatest(f, K)]
<1> DEFINE Best(T, p) == \A q \in T : f[q] < f[p] \/ (f[q] = f[p] /\ p <= q)
           G == {T \in SUBSET Path : T # {} => \E p \in T : Best(T, p)}
<1>0. IsFiniteSet(Path) /\ Path \subseteq Int
  BY SchedulerAssumption, FS_Interval DEF Path
<1>1. ASSUME NEW T \in SUBSET Path, \A U \in SUBSET T : U # T => U \in G
      PROVE  T \in G
  <2> SUFFICES ASSUME T # {} PROVE \E p \in T : Best(T, p)
    OBVIOUS
  <2>1. PICK x \in T : TRUE
    OBVIOUS
  <2>2. CASE T \ {x} = {}
    BY <1>0, <2>1, <2>2
  <2>3. CASE T \ {x} # {}
    <3>1. T \ {x} \in SUBSET T /\ T \ {x} # T
      BY <2>1
    <3>2. T \ {x} \in G
      BY <1>1, <3>1
    <3>3. PICK p \in T \ {x} : Best(T \ {x}, p)
      BY <2>3, <3>2
    <3>4. p \in Int /\ x \in Int /\ f[p] \in Int /\ f[x] \in Int
      BY <1>0
    <3>5. ASSUME NEW q \in T \ {x} PROVE q \in Int /\ f[q] \in Int
      BY <1>0
    <3>6. CASE f[x] > f[p] \/ (f[x] = f[p] /\ x < p)
      BY <3>3, <3>4, <3>5, <3>6
    <3>7. CASE ~(f[x] > f[p] \/ (f[x] = f[p] /\ x < p))
      BY <3>3, <3>4, <3>5, <3>7
    <3> QED
      BY <3>6, <3>7
  <2> QED
    BY <2>2, <2>3
<1>2. \A T \in SUBSET Path : T \in G
  <2> HIDE DEF G
  <2> QED
    BY <1>0, <1>1, SubsetInduction
<1>3. \E p \in K : Best(K, p)
  BY <1>2
<1>4. FirstGreatest(f, K) \in K /\ Best(K, FirstGreatest(f, K))
  BY <1>3, Zenon DEF FirstGreatest
<1>5. \A q \in K : f[q] \in Int
  OBVIOUS
<1> QED
  BY <1>4, <1>5

(* A proper share rounds down to less than the whole. *)
LEMMA FloorBelow ==
    ASSUME NEW a \in Nat \ {0}, NEW b \in Nat, NEW t \in Nat, b < t
    PROVE  (a * b) \div t \in 0..(a - 1)
<1> DEFINE d == (a * b) \div t  r == (a * b) % t  x == a * b
<1>1. x \in Nat /\ t \in Nat \ {0}
  OBVIOUS
<1>2. d \in Int /\ r \in 0..(t - 1) /\ x = t * d + r
  <2> HIDE DEF x
  <2>1. x \div t \in Int /\ x % t \in 0..(t - 1) /\ x = t * (x \div t) + (x % t)
    BY <1>1
  <2> QED
    BY <2>1 DEF x
<1> HIDE DEF d, r
<1>3. d < a
  <2> SUFFICES ASSUME d >= a PROVE FALSE
    BY <1>2
  <2>1. t * d >= t * a
    BY <1>1, <1>2
  <2>2. t * a > a * b
    OBVIOUS
  <2> QED
    BY <1>2, <2>1, <2>2
<1>4. d >= 0
  <2> SUFFICES ASSUME d <= -1 PROVE FALSE
    BY <1>2
  <2>1. t * d <= -t
    BY <1>1, <1>2
  <2> QED
    BY <1>1, <1>2, <2>1
<1> QED
  BY <1>2, <1>3, <1>4 DEF d

(* The total of a function is its sum over its domain. *)
LEMMA TotalIsSum ==
    ASSUME NEW f, NEW S, DOMAIN f = S
    PROVE  SumFunction(f) = SumFunctionOnSet(f, S)
BY DEF SumFunction

(* The paths are finitely many, and N. *)
LEMMA PathsAreFinite ==
    IsFiniteSet(Path) /\ Cardinality(Path) = N /\ Path \subseteq Nat \ {0}
<1>1. IsFiniteSet(Path) /\ Cardinality(Path) = N
  BY SchedulerAssumption, FS_Interval DEF Path
<1> QED
  BY <1>1, SchedulerAssumption DEF Path

(* With two eligible paths there is one besides any path. *)
LEMMA AnotherEligible ==
    ASSUME Cardinality(Eligible) > 1, NEW p
    PROVE  \E q \in Eligible : q # p
<1>1. IsFiniteSet(Eligible)
  BY PathsAreFinite, FS_Subset DEF Eligible
<1> SUFFICES ASSUME Eligible \subseteq {p} PROVE FALSE
  OBVIOUS
<1>2. IsFiniteSet({p}) /\ Cardinality({p}) = 1
  BY FS_Singleton
<1>3. Cardinality(Eligible) <= 1
  BY <1>2, FS_Subset
<1>4. Cardinality(Eligible) \in Nat
  BY <1>1, FS_CardinalityType
<1> QED
  BY <1>3, <1>4

(* normalizeToIntegerPercentages: the rounded share of a path is between   *)
(* nothing and everything, as another path has a score as well.            *)
LEMMA TargetIsShare ==
    ASSUME TypeOK, Cardinality(Eligible) > 1, NEW p \in Eligible
    PROVE  Target(p) \in 0..Percent
<1> DEFINE s == [q \in Eligible |-> ScaledScore(q)]
           total == SumFunction(s)
           floor == [q \in Eligible |-> (Percent * ScaledScore(q)) \div total]
<1>1. IsFiniteSet(Eligible) /\ Eligible \subseteq Path
  BY PathsAreFinite, FS_Subset DEF Eligible
<1>2. \A q \in Eligible : ScaledScore(q) \in Nat \ {0}
  <2>1. ASSUME NEW q \in Eligible PROVE score[q] \in Nat \ {0}
    BY <1>1, SchedulerAssumption DEF TypeOK
  <2> QED
    BY <2>1 DEF ScaledScore
<1>3. PICK q \in Eligible : q # p
  BY AnotherEligible
<1>4. s \in [Eligible -> Nat] /\ s \in [Eligible -> Int] /\ s[q] = ScaledScore(q)
        /\ s[p] = ScaledScore(p)
  BY <1>2
<1>5. total = SumFunctionOnSet(s, Eligible)
  BY TotalIsSum
<1> HIDE DEF s
<1>6. total \in Nat /\ ScaledScore(p) < total
  <2> DEFINE rest == Eligible \ {p}
             a == SumFunctionOnSet(s, Eligible)
             b == SumFunctionOnSet(s, rest)
             c == SumFunctionOnSet(s, rest \ {q})
  <2>1. a = s[p] + b
    BY <1>1, <1>4, SumRemove
  <2>2. q \in rest /\ rest \in SUBSET Eligible
    BY <1>3
  <2>3. b = s[q] + c
    BY <1>1, <1>4, <2>2, SumRemove
  <2>4. c \in Nat
    <3>1. rest \ {q} \in SUBSET Eligible
      OBVIOUS
    <3> QED
      BY <1>1, <1>4, <3>1, SumNat
  <2> HIDE DEF a, b, c
  <2>5. a \in Nat /\ ScaledScore(p) < a
    BY <1>2, <1>4, <2>1, <2>3, <2>4
  <2> QED
    BY <1>5, <2>5 DEF a
<1> HIDE DEF total
<1>7. floor[p] \in 0..(Percent - 1)
  <2>1. ScaledScore(p) \in Nat /\ Percent \in Nat \ {0}
    BY <1>2, SchedulerAssumption
  <2>2. (Percent * ScaledScore(p)) \div total \in 0..(Percent - 1)
    BY <1>6, <2>1, FloorBelow
  <2> QED
    BY <2>2
<1> DEFINE fraction == [v \in Eligible |-> (Percent * ScaledScore(v)) % total]
           ahead == {v \in Eligible : \/ fraction[v] > fraction[p]
                                      \/ fraction[v] = fraction[p] /\ v < p}
           up == Cardinality(ahead) < Percent - SumFunction(floor)
<1>8. Target(p) = floor[p] + (IF up THEN 1 ELSE 0)
  BY Zenon DEF Target, total, s
<1> HIDE DEF floor, up
<1> QED
  BY <1>7, <1>8, SchedulerAssumption

(* recomputeSmoothedWeights keeps every weight a share. *)
LEMMA SmoothedIsShare ==
    ASSUME TypeOK, Cardinality(Eligible) > 1,
           NEW w \in [Path -> {Unset} \cup 0..Percent], NEW p \in Path
    PROVE  /\ Smoothed(w, p) \in {Unset} \cup 0..Percent
           /\ p \in Eligible => Smoothed(w, p) \in 0..Percent
<1>1. CASE p \notin Eligible
  BY <1>1 DEF Smoothed
<1>2. CASE p \in Eligible
  <2>1. Target(p) \in 0..Percent
    BY <1>2, TargetIsShare
  <2>2. MaxWeightStep \in Nat /\ Percent \in Nat
    BY SchedulerAssumption
  <2>3. CASE w[p] = Unset
    BY <1>2, <2>1, <2>3 DEF Smoothed
  <2>4. CASE w[p] \in 0..Percent
    <3>1. w[p] # Unset
      BY <2>4, <2>2 DEF Unset
    <3>2. Smoothed(w, p) = w[p] + Clamp(Target(p) - w[p], MaxWeightStep)
      BY <1>2, <3>1 DEF Smoothed
    <3>3. w[p] + Clamp(Target(p) - w[p], MaxWeightStep) \in 0..Percent
      BY <2>1, <2>2, <2>4 DEF Clamp
    <3> QED
      BY <3>2, <3>3
  <2> QED
    BY <2>3, <2>4
<1> QED
  BY <1>1, <1>2

-----------------------------------------------------------------------------
(* The inductive invariant.  Bounding one path's credit is not inductive:  *)
(* a path that is not chosen may gain.  Bounding the credit of every set   *)
(* of paths, by a bound that is concave in its size, is.                   *)
CreditWithin ==
    \A A \in SUBSET Path :
        2 * SumFunctionOnSet(swrrCurrent, A) <= Allowed(Percent * N, Cardinality(A), N)

SchedulerInv ==
    /\ TypeOK
    /\ burst <= consecutivePickCount
    /\ CreditBalanced
    /\ CreditWithin

(* The largest sum of weights of one pick is a number. *)
LEMMA FullRound == Percent * N \in Nat /\ Percent * N \in Int
BY SchedulerAssumption

(* No set of paths is allowed less than nothing. *)
LEMMA AllowedIsNat ==
    ASSUME NEW A \in SUBSET Path
    PROVE  Allowed(Percent * N, Cardinality(A), N) \in Nat
<1> DEFINE k == Cardinality(A)  M == Percent * N
<1>1. k \in Nat /\ k <= N
  <2>1. IsFiniteSet(A) /\ Cardinality(A) <= Cardinality(Path)
    BY PathsAreFinite, FS_Subset
  <2> QED
    BY <2>1, PathsAreFinite, FS_CardinalityType
<1>2. M \in Nat /\ N \in Nat
  BY FullRound, SchedulerAssumption
<1> HIDE DEF k, M
<1>3. M * k \in Nat /\ N - k \in Nat
  BY <1>1, <1>2
<1> DEFINE a == M * k  b == N - k
<1>4. a * b \in Nat
  <2> HIDE DEF a, b
  <2>1. a \in Nat /\ b \in Nat
    BY <1>3 DEF a, b
  <2> QED
    BY <2>1
<1> QED
  BY <1>4 DEF Allowed, k, M

(* Before the first pick no path has credit. *)
LEMMA InitCredit ==
    ASSUME swrrCurrent = [p \in Path |-> 0]
    PROVE  CreditBalanced /\ CreditWithin
<1> DEFINE z == swrrCurrent
<1>1. z \in [Path -> 0..0] /\ z \in [Path -> Nat] /\ DOMAIN z = Path
  OBVIOUS
<1> HIDE DEF z
<1>2. ASSUME NEW A \in SUBSET Path PROVE SumFunctionOnSet(z, A) = 0
  <2> DEFINE a == SumFunctionOnSet(z, A)  k == Cardinality(A)
  <2>1. a \in Nat
    BY <1>1, PathsAreFinite, SumNat
  <2>2. a <= 0 * k
    BY <1>1, PathsAreFinite, SumBound
  <2>3. k \in Nat
    BY PathsAreFinite, FS_Subset, FS_CardinalityType
  <2> HIDE DEF a, k
  <2>4. a = 0
    BY <2>1, <2>2, <2>3
  <2> QED
    BY <2>4 DEF a
<1>3. CreditBalanced
  BY <1>1, <1>2, TotalIsSum DEF CreditBalanced, z
<1>4. CreditWithin
  <2> SUFFICES ASSUME NEW A \in SUBSET Path
               PROVE  2 * SumFunctionOnSet(swrrCurrent, A)
                         <= Allowed(Percent * N, Cardinality(A), N)
    BY DEF CreditWithin
  <2>1. SumFunctionOnSet(swrrCurrent, A) = 0
    BY <1>2 DEF z
  <2> QED
    BY <2>1, AllowedIsNat
<1> QED
  BY <1>3, <1>4

(* Balance and bound depend on the credits only. *)
LEMMA CreditUnchanged ==
    ASSUME CreditBalanced, CreditWithin, swrrCurrent' = swrrCurrent
    PROVE  CreditBalanced' /\ CreditWithin'
BY DEF CreditBalanced, CreditWithin

(* One pick of smooth weighted round-robin keeps the credits balanced and  *)
(* within the bound, whichever paths are eligible and whatever they weigh. *)
LEMMA SwrrKeepsCredit ==
    ASSUME SchedulerInv, NEW w \in [Path -> Int],
           \A p \in Eligible : w[p] <= Percent, Eligible # {},
           swrrCurrent' = SwrrPaid(w, FirstGreatest(SwrrRaised(w), Eligible))
    PROVE  swrrCurrent' \in [Path -> Int] /\ CreditBalanced' /\ CreditWithin'
<1> DEFINE E == Eligible
           v == [p \in E |-> SwrrWeight(w, p)]
           r == SwrrRaised(w)
           p == FirstGreatest(r, E)
           W == SumFunctionOnSet(v, E)
           M == Percent * N
<1>0. swrrCurrent \in [Path -> Int] /\ E \in SUBSET Path /\ M \in Nat
        /\ Percent \in Nat \ {0} /\ N \in Nat
  BY FullRound, SchedulerAssumption DEF SchedulerInv, TypeOK, Eligible
<1>1. \A q \in E : SwrrWeight(w, q) \in 0..Percent
  BY <1>0 DEF SwrrWeight
<1>2. /\ v \in [E -> 0..Percent] /\ v \in [E -> Nat] /\ v \in [E -> Int]
      /\ \A q \in E : v[q] >= 0
      /\ DOMAIN v = E
  BY <1>0, <1>1
<1>3. r \in [Path -> Int] /\ IsRaised(r, swrrCurrent, E, v, Path)
  BY <1>0, <1>1 DEF SwrrRaised, IsRaised
<1>4. SwrrPaid(w, p) = [r EXCEPT ![p] = @ - SumFunction(v)]
  BY Zenon DEF SwrrPaid
<1>5. SumFunction(v) = W
  BY <1>2, TotalIsSum
<1> HIDE DEF v, r
<1>6. p \in E /\ \A q \in E : r[q] <= r[p]
  BY <1>0, <1>3, GreatestExists
<1>7. IsFiniteSet(E) /\ Cardinality(E) \in Nat /\ Cardinality(E) <= N
  <2>1. IsFiniteSet(E) /\ Cardinality(E) <= Cardinality(Path)
    BY <1>0, PathsAreFinite, FS_Subset
  <2> QED
    BY <2>1, PathsAreFinite, FS_CardinalityType
<1>8. W \in Nat /\ W <= M
  <2> DEFINE k == Cardinality(E)
  <2>1. W \in Nat
    BY <1>2, <1>7, SumNat
  <2>2. W <= Percent * k
    BY <1>0, <1>2, <1>7, SumBound
  <2> HIDE DEF W, k
  <2>3. Percent * k <= Percent * N
    BY <1>0, <1>7 DEF k
  <2>4. Percent * k \in Int
    BY <1>0, <1>7 DEF k
  <2> QED
    BY <1>0, <2>1, <2>2, <2>3, <2>4
<1> HIDE DEF p
<1> DEFINE d == [r EXCEPT ![p] = @ - W]
<1>9. swrrCurrent' = d
  BY <1>4, <1>5 DEF p, r
<1>10. d \in [Path -> Int] /\ HasPaid(d, r, p, W, Path)
  <2> HIDE DEF W
  <2> QED
    BY <1>0, <1>3, <1>6, <1>8 DEF HasPaid
<1> HIDE DEF d, M
<1>11. CreditWithin'
  <2>1. \A A \in SUBSET Path :
           2 * SumFunctionOnSet(swrrCurrent, A) <= Allowed(M, Cardinality(A), Cardinality(Path))
    BY PathsAreFinite DEF SchedulerInv, CreditWithin, M
  <2>2. \A A \in SUBSET Path :
           2 * SumFunctionOnSet(d, A) <= Allowed(M, Cardinality(A), Cardinality(Path))
    BY <1>0, <1>2, <1>3, <1>6, <1>8, <1>10, <2>1, PathsAreFinite, PickKeepsBound
  <2> QED
    BY <1>9, <2>2, PathsAreFinite DEF CreditWithin, M
<1>12. CreditBalanced'
  <2> DEFINE a == SumFunctionOnSet(d, Path)  b == SumFunctionOnSet(swrrCurrent, Path)
  <2>0. p \in Path /\ W \in Int /\ Path \in SUBSET Path /\ Path \cap E = E
    BY <1>0, <1>6, <1>8
  <2>1. a = (b + SumFunctionOnSet(v, Path \cap E)) - (IF p \in Path THEN W ELSE 0)
    <3> HIDE DEF W, E
    <3>1. /\ IsFiniteSet(Path) /\ E \in SUBSET Path /\ Path \in SUBSET Path
          /\ p \in Path /\ W \in Int
          /\ swrrCurrent \in [Path -> Int] /\ r \in [Path -> Int]
          /\ v \in [E -> Int] /\ d \in [Path -> Int]
      BY <1>0, <1>2, <1>3, <1>10, <2>0, PathsAreFinite
    <3>2. IsRaised(r, swrrCurrent, E, v, Path) /\ HasPaid(d, r, p, W, Path)
      BY <1>3, <1>10
    <3> QED
      BY <3>1, <3>2, PickChangesSum
  <2>2. b = 0
    BY <1>0, TotalIsSum DEF SchedulerInv, CreditBalanced
  <2>3. a = (b + W) - W
    BY <2>0, <2>1
  <2> HIDE DEF a, b, W
  <2>4. a = 0
    BY <1>8, <2>2, <2>3
  <2>5. SumFunction(d) = a
    BY <1>10, TotalIsSum DEF a
  <2> QED
    BY <1>9, <2>4, <2>5 DEF CreditBalanced
<1> QED
  BY <1>9, <1>10, <1>11, <1>12

(* What recordPick does to the counters: a path is never picked again once *)
(* the cap is reached, unless it is the only one.                          *)
LEMMA RecordPickType ==
    ASSUME TypeOK, burst <= consecutivePickCount, NEW p \in Path, RecordPick(p),
           BurstCapReached /\ p = lastPickedPathId => Cardinality(Eligible) < 2
    PROVE  /\ lastPickedPathId' \in Path \cup {None}
           /\ consecutivePickCount' \in 0..MaxConsecutivePicks
           /\ burst' \in 0..MaxConsecutivePicks
           /\ burst' <= consecutivePickCount'
BY SchedulerAssumption DEF TypeOK, RecordPick, BurstCapReached

(* The three cases of selectPath(). *)
LEMMA SelectPathKeepsInv ==
    ASSUME SchedulerInv, SelectPath
    PROVE  SchedulerInv'
<1> DEFINE u == WeightsAfterRecoveries
           Share == {Unset} \cup 0..Percent
<1>0. TypeOK /\ burst <= consecutivePickCount /\ CreditBalanced /\ CreditWithin
  BY DEF SchedulerInv
<1>1. u \in [Path -> Share]
  BY <1>0, SchedulerAssumption DEF WeightsAfterRecoveries, TypeOK
<1>2. /\ pathState' \in [Path -> PathState] /\ score' \in [Path -> Scores]
      /\ lastKnownState' \in [Path -> {"unknown", "ACTIVE", "other"}]
  BY <1>0 DEF SelectPath, TypeOK
<1> HIDE DEF u
<1>3. CASE /\ Eligible = {}
           /\ smoothedWeights' = u
           /\ UNCHANGED <<swrrCurrent, lastPickedPathId, consecutivePickCount, burst>>
  <2>1. TypeOK' /\ burst' <= consecutivePickCount'
    BY <1>0, <1>1, <1>2, <1>3 DEF TypeOK
  <2> QED
    BY <1>0, <1>3, <2>1, CreditUnchanged DEF SchedulerInv
<1>4. CASE /\ Cardinality(Eligible) = 1
           /\ smoothedWeights' = u
           /\ \E p \in Eligible : RecordPick(p)
           /\ UNCHANGED swrrCurrent
  <2>1. PICK p \in Eligible : RecordPick(p)
    BY <1>4
  <2>2. p \in Path
    BY DEF Eligible
  <2>3. /\ lastPickedPathId' \in Path \cup {None}
        /\ consecutivePickCount' \in 0..MaxConsecutivePicks
        /\ burst' \in 0..MaxConsecutivePicks
        /\ burst' <= consecutivePickCount'
    BY <1>0, <1>4, <2>1, <2>2, RecordPickType
  <2>4. TypeOK'
    BY <1>0, <1>1, <1>2, <1>4, <2>3 DEF TypeOK
  <2> QED
    BY <1>0, <1>4, <2>3, <2>4, CreditUnchanged DEF SchedulerInv
<1>5. CASE /\ Cardinality(Eligible) > 1
           /\ smoothedWeights' = [p \in Path |-> Smoothed(u, p)]
           /\ SelectAmong(smoothedWeights')
  <2> DEFINE w == smoothedWeights'
  <2>1. \A p \in Path : /\ Smoothed(u, p) \in Share
                        /\ p \in Eligible => Smoothed(u, p) \in 0..Percent
    BY <1>0, <1>1, <1>5, SmoothedIsShare
  <2>2. w \in [Path -> Share] /\ \A p \in Eligible : w[p] \in 0..Percent
    BY <1>5, <2>1 DEF Eligible
  <2>3. w \in [Path -> Int] /\ \A p \in Eligible : w[p] <= Percent
    BY <2>2, SchedulerAssumption DEF Unset
  <2> HIDE DEF w
  <2>4. Eligible \in SUBSET Path /\ Eligible # {} /\ Eligible \ {lastPickedPathId} # {}
    BY <1>5, AnotherEligible DEF Eligible
  <2>5. CASE BurstCapReached
    <3> DEFINE p == FirstGreatest(w, Eligible \ {lastPickedPathId})
    <3>1. p \in Eligible \ {lastPickedPathId}
      BY <2>3, <2>4, GreatestExists
    <3>2. RecordPick(p) /\ swrrCurrent' = swrrCurrent
      BY <1>5, <2>5 DEF SelectAmong, w
    <3> HIDE DEF p
    <3>3. /\ lastPickedPathId' \in Path \cup {None}
          /\ consecutivePickCount' \in 0..MaxConsecutivePicks
          /\ burst' \in 0..MaxConsecutivePicks
          /\ burst' <= consecutivePickCount'
      BY <1>0, <2>4, <3>1, <3>2, RecordPickType
    <3>4. TypeOK'
      BY <1>0, <1>2, <2>2, <3>2, <3>3 DEF TypeOK, w
    <3> QED
      BY <1>0, <3>2, <3>3, <3>4, CreditUnchanged DEF SchedulerInv
  <2>6. CASE ~BurstCapReached
    <3> DEFINE p == FirstGreatest(SwrrRaised(w), Eligible)
    <3>1. SwrrRaised(w) \in [Path -> Int]
      BY <1>0, <2>3 DEF SwrrRaised, SwrrWeight, TypeOK
    <3>2. p \in Eligible
      BY <2>4, <3>1, GreatestExists
    <3>3. RecordPick(p) /\ swrrCurrent' = SwrrPaid(w, p)
      BY <1>5, <2>6 DEF SelectAmong, w
    <3>4. swrrCurrent' \in [Path -> Int] /\ CreditBalanced' /\ CreditWithin'
      BY <2>3, <2>4, <3>3, SwrrKeepsCredit
    <3> HIDE DEF p
    <3>5. /\ lastPickedPathId' \in Path \cup {None}
          /\ consecutivePickCount' \in 0..MaxConsecutivePicks
          /\ burst' \in 0..MaxConsecutivePicks
          /\ burst' <= consecutivePickCount'
      BY <1>0, <2>4, <2>6, <3>2, <3>3, RecordPickType
    <3>6. TypeOK'
      BY <1>0, <1>2, <2>2, <3>4, <3>5 DEF TypeOK, w
    <3> QED
      BY <3>4, <3>5, <3>6 DEF SchedulerInv
  <2> QED
    BY <2>5, <2>6
<1> QED
  BY <1>3, <1>4, <1>5 DEF SelectPath, u

(* The invariant is inductive. *)
LEMMA SchedulerInvHolds == Spec => []SchedulerInv
<1>1. Init => SchedulerInv
  <2> SUFFICES ASSUME Init PROVE SchedulerInv
    OBVIOUS
  <2>1. TypeOK /\ burst <= consecutivePickCount
    BY SchedulerAssumption DEF Init, TypeOK, PathState
  <2>2. CreditBalanced /\ CreditWithin
    BY InitCredit DEF Init
  <2> QED
    BY <2>1, <2>2 DEF SchedulerInv
<1>2. SchedulerInv /\ [Next]_vars => SchedulerInv'
  <2> SUFFICES ASSUME SchedulerInv, [Next]_vars PROVE SchedulerInv'
    OBVIOUS
  <2>0. TypeOK /\ burst <= consecutivePickCount /\ CreditBalanced /\ CreditWithin
    BY DEF SchedulerInv
  <2>1. CASE SelectPath
    BY <2>1, SelectPathKeepsInv
  <2>2. CASE \E p \in Path, s \in Scores : Update(p, s)
    <3>1. TypeOK' /\ burst' <= consecutivePickCount'
      BY <2>0, <2>2 DEF Update, TypeOK
    <3>2. swrrCurrent' = swrrCurrent
      BY <2>2 DEF Update
    <3> QED
      BY <2>0, <3>1, <3>2, CreditUnchanged DEF SchedulerInv
  <2>3. CASE \E p \in Path, s \in PathState : PathChanges(p, s)
    <3>1. TypeOK' /\ burst' <= consecutivePickCount'
      BY <2>0, <2>3 DEF PathChanges, TypeOK
    <3>2. swrrCurrent' = swrrCurrent
      BY <2>3 DEF PathChanges
    <3> QED
      BY <2>0, <3>1, <3>2, CreditUnchanged DEF SchedulerInv
  <2>4. CASE UNCHANGED vars
    <3>1. TypeOK' /\ burst' <= consecutivePickCount'
      BY <2>0, <2>4 DEF vars, TypeOK
    <3>2. swrrCurrent' = swrrCurrent
      BY <2>4 DEF vars
    <3> QED
      BY <2>0, <3>1, <3>2, CreditUnchanged DEF SchedulerInv
  <2> QED
    BY <2>1, <2>2, <2>3, <2>4 DEF Next
<1> QED
  BY <1>1, <1>2, PTL DEF Spec

(* Every weight is a share of at most Percent, and no path is picked more  *)
(* than MaxConsecutivePicks times in a row while another is eligible.      *)
THEOREM SchedulerTypeCorrect == Spec => []TypeOK
<1>1. SchedulerInv => TypeOK
  BY DEF SchedulerInv
<1> QED
  BY <1>1, SchedulerInvHolds, PTL

(* Smooth weighted round-robin never creates or loses credit, whatever     *)
(* path leaves or rejoins between two calls of selectPath().               *)
THEOREM CreditConserved == Spec => []CreditBalanced
<1>1. SchedulerInv => CreditBalanced
  BY DEF SchedulerInv
<1> QED
  BY <1>1, SchedulerInvHolds, PTL

(* No path's credit or debt in swrrCurrent exceeds (N - 1) / 2 rounds of   *)
(* all paths at full share, in a run of any length.                        *)
THEOREM CreditStaysBounded == Spec => []CreditBounded
<1>1. SchedulerInv => CreditBounded
  <2> SUFFICES ASSUME SchedulerInv, NEW p \in Path
               PROVE  /\ 2 * swrrCurrent[p] <= Percent * N * (N - 1)
                      /\ -2 * swrrCurrent[p] <= Percent * N * (N - 1)
    BY DEF CreditBounded
  <2> DEFINE M == Percent * N
             rest == Path \ {p}
             a == SumFunctionOnSet(swrrCurrent, {p})
             b == SumFunctionOnSet(swrrCurrent, rest)
             t == SumFunctionOnSet(swrrCurrent, Path)
             e == SumFunctionOnSet(swrrCurrent, {})
             f == M * (N - 1)
  <2>0. swrrCurrent \in [Path -> Int] /\ IsFiniteSet(Path) /\ DOMAIN swrrCurrent = Path
    BY PathsAreFinite DEF SchedulerInv, TypeOK
  <2>1. t = 0
    BY <2>0, TotalIsSum DEF SchedulerInv, CreditBalanced
  <2>2. t = swrrCurrent[p] + b
    BY <2>0, SumRemove
  <2>3. a = swrrCurrent[p] + e
    <3>1. {p} \ {p} = {} /\ {p} \in SUBSET Path /\ p \in {p}
      OBVIOUS
    <3>2. SumFunctionOnSet(swrrCurrent, {p}) =
             swrrCurrent[p] + SumFunctionOnSet(swrrCurrent, {p} \ {p})
      BY <2>0, <3>1, SumRemove
    <3> QED
      BY <3>1, <3>2
  <2>4. e = 0 /\ b \in Int
    BY <2>0, SumType
  <2>5. Cardinality({p}) = 1 /\ Cardinality(rest) = N - 1
    BY PathsAreFinite, FS_Singleton, FS_RemoveElement
  <2>6. 2 * a <= Allowed(M, 1, N) /\ 2 * b <= Allowed(M, N - 1, N)
    BY <2>5 DEF SchedulerInv, CreditWithin
  <2>7. Allowed(M, 1, N) = f /\ Allowed(M, N - 1, N) = f /\ f \in Int
    <3>1. M \in Int /\ N \in Int
      BY FullRound, SchedulerAssumption
    <3> HIDE DEF M
    <3>2. N - (N - 1) = 1 /\ N - 1 \in Int /\ M * 1 = M
      BY <3>1
    <3> QED
      BY <3>1, <3>2 DEF Allowed
  <2>8. swrrCurrent[p] \in Int
    BY <2>0
  <2> HIDE DEF a, b, t, e, f
  <2>9. 2 * swrrCurrent[p] <= f /\ -2 * swrrCurrent[p] <= f
    BY <2>1, <2>2, <2>3, <2>4, <2>6, <2>7, <2>8
  <2> QED
    BY <2>9 DEF f
<1> QED
  BY <1>1, SchedulerInvHolds, PTL
=============================================================================
