--------------------------- MODULE RedactionProofs ---------------------------
(* What redaction makes of any text: it leaves something of every text that *)
(* is not blank, it leaves alone what it has made, and passes with different*)
(* limits leave a cut of what one pass does.  What the scanner writes is a  *)
(* recursive function of the position; all about it is shown by taking the  *)
(* least, or the greatest, position at which it fails.                      *)
EXTENDS Redaction, FiniteSetTheorems, FunctionTheorems, TLAPS

-----------------------------------------------------------------------------
(* Counting, listing in order, and sums *)

\* R orders T strictly, and g lists T in that order.
IsStrictOrder(R, T) ==
    /\ \A x, y \in T : x # y => <<x, y>> \in R \/ <<y, x>> \in R
    /\ \A x, y \in T : <<x, y>> \in R => <<y, x>> \notin R
    /\ \A x, y, z \in T : <<x, y>> \in R /\ <<y, z>> \in R => <<x, z>> \in R

IsListing(g, T, R) ==
    /\ g \in [1..Cardinality(T) -> T]
    /\ \A i, j \in 1..Cardinality(T) : i < j => <<g[i], g[j]>> \in R
    /\ \A x \in T : \E i \in 1..Cardinality(T) : g[i] = x

\* A finite set with a strict order can be listed in that order.
LEMMA ListedInOrder ==
    ASSUME NEW T, IsFiniteSet(T), NEW R, IsStrictOrder(R, T)
    PROVE  \E g : IsListing(g, T, R)
<1> DEFINE n == Cardinality(T)
<1> USE DEF IsStrictOrder
<1> DEFINE before(x) == {y \in T : <<y, x>> \in R}
           rank == [x \in T |-> Cardinality(before(x)) + 1]
<1>1. n \in Nat /\ IsFiniteSet(1..n) /\ Cardinality(1..n) = n
    BY FS_CardinalityType, FS_Interval
<1>2. \A x \in T : <<x, x>> \notin R
    OBVIOUS
<1>3. \A x \in T : /\ IsFiniteSet(before(x)) /\ Cardinality(before(x)) \in Nat
                   /\ Cardinality(before(x)) < n
    <2> SUFFICES ASSUME NEW x \in T
                 PROVE  /\ IsFiniteSet(before(x)) /\ Cardinality(before(x)) \in Nat
                        /\ Cardinality(before(x)) < n
        OBVIOUS
    <2>1. before(x) \in SUBSET T /\ before(x) # T
        BY <1>2
    <2>2. IsFiniteSet(before(x)) /\ Cardinality(before(x)) <= n /\ Cardinality(before(x)) # n
        BY <2>1, FS_Subset
    <2>3. Cardinality(before(x)) \in Nat
        BY <2>2, FS_CardinalityType
    <2> QED
        BY <1>1, <2>2, <2>3
<1> HIDE DEF before
<1>4. \A x, y \in T : <<x, y>> \in R => rank[x] < rank[y]
    <2> SUFFICES ASSUME NEW x \in T, NEW y \in T, <<x, y>> \in R
                 PROVE  rank[x] < rank[y]
        OBVIOUS
    <2>1. before(x) \in SUBSET before(y) /\ before(x) # before(y)
        BY <1>2 DEF before
    <2>2. /\ Cardinality(before(x)) <= Cardinality(before(y))
          /\ Cardinality(before(x)) # Cardinality(before(y))
        BY <1>3, <2>1, FS_Subset
    <2> QED
        BY <1>3, <2>2 DEF rank
<1>5. rank \in [T -> 1..n]
    BY <1>1, <1>3
<1> HIDE DEF rank
<1>6. \A x, y \in T : rank[x] = rank[y] => x = y
    <2> SUFFICES ASSUME NEW x \in T, NEW y \in T, x # y PROVE rank[x] # rank[y]
        OBVIOUS
    <2>1. rank[x] \in Int /\ rank[y] \in Int
        BY <1>5
    <2>2. rank[x] < rank[y] \/ rank[y] < rank[x]
        BY <1>4
    <2> QED
        BY <2>1, <2>2
<1>7. \A k \in 1..n : \E x \in T : rank[x] = k
    <2>1. rank \in Injection(T, 1..n)
        BY <1>5, <1>6, Fun_IsInj
    <2>2. rank \in Surjection(T, 1..n)
        BY <1>1, <2>1, FS_Injection
    <2> QED
        BY <2>2 DEF Surjection
<1> DEFINE g == [k \in 1..n |-> CHOOSE x \in T : rank[x] = k]
<1>8. g \in [1..n -> T] /\ \A k \in 1..n : rank[g[k]] = k
    BY <1>7
<1> HIDE DEF g
<1>9. \A i, j \in 1..n : i < j => <<g[i], g[j]>> \in R
    <2> SUFFICES ASSUME NEW i \in 1..n, NEW j \in 1..n, i < j
                 PROVE  <<g[i], g[j]>> \in R
        OBVIOUS
    <2>1. g[i] \in T /\ g[j] \in T /\ rank[g[i]] = i /\ rank[g[j]] = j
        BY <1>8
    <2>2. g[i] # g[j]
        BY <2>1
    <2>3. <<g[j], g[i]>> \notin R
        BY <1>1, <1>4, <2>1
    <2> QED
        BY <2>1, <2>2, <2>3
<1>10. \A x \in T : \E i \in 1..n : g[i] = x
    <2> SUFFICES ASSUME NEW x \in T PROVE \E i \in 1..n : g[i] = x
        OBVIOUS
    <2>1. rank[x] \in 1..n
        BY <1>5
    <2>2. g[rank[x]] \in T /\ rank[g[rank[x]]] = rank[x]
        BY <1>8, <2>1
    <2> QED
        BY <1>6, <2>1, <2>2
<1> QED
    BY <1>8, <1>9, <1>10 DEF IsListing

\* A nonempty finite set of numbers has a least one, which Min chooses.
LEMMA LeastIs ==
    ASSUME NEW S, S \subseteq Nat, IsFiniteSet(S), S # {}
    PROVE  Min(S) \in S /\ \A y \in S : Min(S) <= y
<1> DEFINE n == Cardinality(S)
           R == {p \in S \X S : p[1] < p[2]}
<1>1. \A x, y \in S : <<x, y>> \in R <=> x < y
    OBVIOUS
<1>2. n \in Nat /\ n # 0
    BY FS_CardinalityType, FS_EmptySet
<1> HIDE DEF R
<1>3. PICK g : IsListing(g, S, R)
    <2>1. IsStrictOrder(R, S)
        BY <1>1 DEF IsStrictOrder
    <2> QED
        BY <2>1, ListedInOrder
<1>4. g[1] \in S /\ \A y \in S : g[1] <= y
    <2>1. g[1] \in S
        BY <1>2, <1>3 DEF IsListing
    <2>2. ASSUME NEW y \in S PROVE g[1] <= y
        <3>1. PICK i \in 1..n : g[i] = y
            BY <1>3 DEF IsListing
        <3>2. i = 1 \/ 1 < i
            BY <1>2
        <3>3. 1 \in 1..n
            BY <1>2
        <3>4. g[1] \in Nat /\ y \in Nat
            BY <2>1
        <3>5. 1 < i => <<g[1], g[i]>> \in R
            BY <1>3, <3>3 DEF IsListing
        <3>6. CASE i = 1
            BY <3>1, <3>6, <3>4
        <3>7. CASE 1 < i
            BY <1>1, <2>1, <3>1, <3>5, <3>7, <3>4
        <3> QED
            BY <3>2, <3>6, <3>7
    <2> QED
        BY <2>1, <2>2
<1> QED
    BY <1>4 DEF Min

\* What corresponds one to one has the same size.
LEMMA Counts ==
    ASSUME NEW S, NEW T, IsFiniteSet(S), NEW F \in [S -> T],
           \A a, b \in S : F[a] = F[b] => a = b,
           \A t \in T : \E a \in S : F[a] = t
    PROVE  IsFiniteSet(T) /\ Cardinality(T) = Cardinality(S)
<1>1. F \in Bijection(S, T)
    BY Fun_IsBij
<1> QED
    BY <1>1, FS_Bijection DEF ExistsBijection

\* A finite union of finite sets is finite.
LEMMA FiniteUnion ==
    ASSUME NEW K, IsFiniteSet(K), NEW A, \A k \in K : IsFiniteSet(A[k])
    PROVE  IsFiniteSet(UNION {A[k] : k \in K})
<1> DEFINE T == {A[k] : k \in K}
           F == [k \in K |-> A[k]]
<1>1. F \in Surjection(K, T)
    BY Fun_IsSurj
<1>2. IsFiniteSet(T)
    BY <1>1, FS_Surjection
<1> QED
    BY <1>2, FS_UNION

\* m[k] units of each k: their number is the sum of m.
Units(K, m) == UNION {{k} \X (1..m[k]) : k \in K}

LEMMA UnitsAre ==
    ASSUME NEW K, NEW m, NEW p
    PROVE  p \in Units(K, m) <=> \E k \in K : \E j \in 1..m[k] : p = <<k, j>>
BY DEF Units

LEMMA FiniteUnits ==
    ASSUME NEW K, IsFiniteSet(K), NEW m, \A k \in K : m[k] \in Nat
    PROVE  IsFiniteSet(Units(K, m)) /\ Cardinality(Units(K, m)) \in Nat
<1> DEFINE A == [k \in K |-> {k} \X (1..m[k])]
<1>1. \A k \in K : IsFiniteSet(A[k])
    <2> SUFFICES ASSUME NEW k \in K PROVE IsFiniteSet({k} \X (1..m[k]))
        OBVIOUS
    <2>1. IsFiniteSet({k})
        BY FS_Singleton
    <2>2. IsFiniteSet(1..m[k])
        BY FS_Interval
    <2> QED
        BY <2>1, <2>2, FS_Product
<1>2. A = [k \in K |-> {k} \X (1..m[k])]
    OBVIOUS
<1> HIDE DEF A
<1>3. IsFiniteSet(UNION {A[k] : k \in K})
    BY <1>1, FiniteUnion
<1>4. UNION {A[k] : k \in K} = Units(K, m)
    BY <1>2 DEF Units
<1> QED
    BY <1>3, <1>4, FS_CardinalityType

\* The sizes of disjoint sets add up to that of their union.
LEMMA SumOfSizes ==
    ASSUME NEW K, IsFiniteSet(K), NEW A, \A k \in K : IsFiniteSet(A[k]),
           \A j, k \in K : j # k => A[j] \cap A[k] = {},
           NEW m, \A k \in K : m[k] = Cardinality(A[k])
    PROVE  Cardinality(Units(K, m)) = Cardinality(UNION {A[k] : k \in K})
<1> DEFINE U == UNION {A[k] : k \in K}
           P == Units(K, m)
           b == [k \in K |-> CHOOSE f \in Bijection(1..m[k], A[k]) : TRUE]
           F == [p \in P |-> b[p[1]][p[2]]]
<1>1. \A k \in K : m[k] \in Nat /\ b[k] \in Bijection(1..m[k], A[k])
    BY FS_CardinalityType DEF ExistsBijection
<1>2. IsFiniteSet(P)
    BY <1>1, FiniteUnits
<1>3. \A k \in K : /\ b[k] \in [1..m[k] -> A[k]]
                   /\ \A i, j \in 1..m[k] : b[k][i] = b[k][j] => i = j
                   /\ \A x \in A[k] : \E j \in 1..m[k] : b[k][j] = x
    <2> HIDE DEF b
    <2> SUFFICES ASSUME NEW k \in K
                 PROVE  /\ b[k] \in [1..m[k] -> A[k]]
                        /\ \A i, j \in 1..m[k] : b[k][i] = b[k][j] => i = j
                        /\ \A x \in A[k] : \E j \in 1..m[k] : b[k][j] = x
        OBVIOUS
    <2>1. b[k] \in Bijection(1..m[k], A[k])
        BY <1>1
    <2>2. b[k] \in Injection(1..m[k], A[k]) /\ b[k] \in Surjection(1..m[k], A[k])
        BY <2>1 DEF Bijection
    <2>3. \A i, j \in 1..m[k] : b[k][i] = b[k][j] => i = j
        BY <2>2, Fun_InjectionProperties
    <2>4. /\ b[k] \in [1..m[k] -> A[k]]
          /\ \A x \in A[k] : \E j \in 1..m[k] : b[k][j] = x
        BY <2>2 DEF Surjection
    <2> QED
        BY <2>3, <2>4
<1> HIDE DEF b, U, P
<1>4. \A p \in P : \E k \in K : \E j \in 1..m[k] : p = <<k, j>> /\ F[p] = b[k][j]
    BY UnitsAre DEF P
<1>5. \A k \in K : \A j \in 1..m[k] : <<k, j>> \in P /\ F[<<k, j>>] = b[k][j]
    BY UnitsAre DEF P
<1> HIDE DEF F
<1>6. F \in [P -> U]
    <2>1. \A p \in P : F[p] \in U
        <3> SUFFICES ASSUME NEW p \in P PROVE F[p] \in U
            OBVIOUS
        <3>1. PICK k \in K : \E j \in 1..m[k] : p = <<k, j>> /\ F[p] = b[k][j]
            BY <1>4
        <3>2. b[k] \in [1..m[k] -> A[k]]
            BY <1>3
        <3>3. F[p] \in A[k]
            BY <3>1, <3>2
        <3> QED
            BY <3>3 DEF U
    <2> QED
        BY <2>1 DEF F
<1>7. \A p, q \in P : F[p] = F[q] => p = q
    <2> SUFFICES ASSUME NEW p \in P, NEW q \in P, F[p] = F[q] PROVE p = q
        OBVIOUS
    <2>1. PICK k \in K : \E j \in 1..m[k] : p = <<k, j>> /\ F[p] = b[k][j]
        BY <1>4
    <2>2. PICK j \in 1..m[k] : p = <<k, j>> /\ F[p] = b[k][j]
        BY <2>1
    <2>3. PICK l \in K : \E i \in 1..m[l] : q = <<l, i>> /\ F[q] = b[l][i]
        BY <1>4
    <2>4. PICK i \in 1..m[l] : q = <<l, i>> /\ F[q] = b[l][i]
        BY <2>3
    <2>5. b[k][j] \in A[k] /\ b[k][j] \in A[l]
        <3>1. b[k] \in [1..m[k] -> A[k]] /\ b[l] \in [1..m[l] -> A[l]]
            BY <1>3
        <3>2. b[k][j] = b[l][i]
            BY <2>2, <2>4
        <3> QED
            BY <3>1, <3>2
    <2>6. k = l
        BY <2>5
    <2> QED
        BY <1>3, <2>2, <2>4, <2>6
<1>8. \A x \in U : \E p \in P : F[p] = x
    <2> SUFFICES ASSUME NEW x \in U PROVE \E p \in P : F[p] = x
        OBVIOUS
    <2>1. PICK k \in K : x \in A[k]
        BY DEF U
    <2>2. PICK j \in 1..m[k] : b[k][j] = x
        BY <1>3, <2>1
    <2> QED
        BY <1>5, <2>2
<1> QED
    BY <1>2, <1>6, <1>7, <1>8, Counts DEF U, P

LEMMA IntervalIs ==
    ASSUME NEW n \in Nat
    PROVE  IsFiniteSet(1..n) /\ Cardinality(1..n) = n
BY FS_Interval

-----------------------------------------------------------------------------
(* Induction.  What holds at a position is a set of positions, so that the  *)
(* least position at which it does not is all that is needed.               *)

LEMMA Ascending ==
    ASSUME NEW n \in Nat, NEW S,
           \A i \in 1..n : (\A j \in 1..i - 1 : j \in S) => i \in S
    PROVE  1..n \subseteq S
<1> DEFINE others == (1..n) \ S
<1>1. others \in SUBSET (1..n) /\ others \subseteq Nat /\ IsFiniteSet(others)
    BY IntervalIs, FS_Subset
<1>2. ASSUME others # {} PROVE FALSE
    <2>1. Min(others) \in others /\ \A j \in others : Min(others) <= j
        BY <1>1, <1>2, LeastIs
    <2>2. PICK i \in 1..n : i \notin S /\ \A j \in others : i <= j
        BY <2>1
    <2>3. \A j \in 1..i - 1 : j \in S
        BY <2>2
    <2> QED
        BY <2>2, <2>3
<1> QED
    BY <1>2

LEMMA Descending ==
    ASSUME NEW n \in Nat, NEW S,
           \A i \in 1..n : (\A j \in i + 1..n : j \in S) => i \in S
    PROVE  1..n \subseteq S
<1> DEFINE R == {i \in 1..n : n + 1 - i \in S}
<1>1. ASSUME NEW i \in 1..n, \A j \in 1..i - 1 : j \in R PROVE i \in R
    <2>1. \A j \in (n + 1 - i) + 1..n : j \in S
        <3> SUFFICES ASSUME NEW j \in (n + 1 - i) + 1..n PROVE j \in S
            OBVIOUS
        <3>1. n + 1 - j \in 1..i - 1
            OBVIOUS
        <3>2. n + 1 - (n + 1 - j) \in S
            BY <1>1, <3>1
        <3>3. n + 1 - (n + 1 - j) = j
            OBVIOUS
        <3> QED
            BY <3>2, <3>3
    <2>2. n + 1 - i \in 1..n
        OBVIOUS
    <2> QED
        BY <2>1, <2>2
<1>2. 1..n \subseteq R
    <2> HIDE DEF R
    <2> QED
        BY <1>1, Ascending
<1>3. \A i \in 1..n : n + 1 - i \in 1..n /\ n + 1 - (n + 1 - i) = i
    OBVIOUS
<1> QED
    BY <1>2, <1>3

LEMMA Induction ==
    ASSUME NEW n \in Nat, NEW S, 0 \in S, \A m \in 0..n - 1 : m \in S => m + 1 \in S
    PROVE  n \in S
<1>1. \A i \in 1..n : (\A j \in 1..i - 1 : j \in S) => i \in S
    <2> SUFFICES ASSUME NEW i \in 1..n, \A j \in 1..i - 1 : j \in S PROVE i \in S
        OBVIOUS
    <2>1. i - 1 \in 0..n - 1 /\ (i - 1) + 1 = i /\ (i - 1 = 0 \/ i - 1 \in 1..i - 1)
        OBVIOUS
    <2> QED
        BY <2>1
<1>2. 1..n \subseteq S
    BY <1>1, Ascending
<1> QED
    BY <1>2

-----------------------------------------------------------------------------
(* FlattenSeq *)

\* The recursion of FlattenSeq has a solution.
LEMMA FlattenRecursion ==
    ASSUME NEW T, NEW seqs \in Seq(Seq(T))
    PROVE  \E f : f = [i \in 1..Len(seqs) |->
                          IF i = 1 THEN seqs[i] ELSE f[i - 1] \o seqs[i]]
<1> DEFINE Def(f, i) == IF i = 1 THEN seqs[i] ELSE f[i - 1] \o seqs[i]
           S == {m \in Nat : \E f : f = [i \in 1..m |-> Def(f, i)]}
           n == Len(seqs)
<1>3. n \in Nat
    OBVIOUS
<1>1. 0 \in S
    <2> DEFINE g == [i \in 1..0 |-> seqs[i]]
    <2>1. g = [i \in 1..0 |-> Def(g, i)]
        OBVIOUS
    <2> QED
        BY <2>1
<1>2. ASSUME NEW m \in 0..n - 1, m \in S PROVE m + 1 \in S
    <2>1. PICK f : f = [i \in 1..m |-> Def(f, i)]
        BY <1>2
    <2>2. m \in Nat /\ \A i \in 1..m : f[i] = Def(f, i)
        <3> HIDE DEF Def
        <3>1. m \in Nat
            BY <1>3
        <3>2. \A i \in 1..m : [j \in 1..m |-> Def(f, j)][i] = Def(f, i)
            OBVIOUS
        <3>3. \A i \in 1..m : f[i] = [j \in 1..m |-> Def(f, j)][i]
            BY <2>1, Zenon
        <3> QED
            BY <3>1, <3>2, <3>3
    <2> DEFINE g == [i \in 1..m + 1 |-> IF i <= m THEN f[i] ELSE Def(f, i)]
    <2>3. \A i \in 1..m + 1 : g[i] = Def(f, i)
        <3> HIDE DEF Def
        <3> QED
            BY <2>2
    <2>4. \A i \in 1..m : g[i] = f[i]
        BY <2>2
    <2>5. \A i \in 1..m + 1 : Def(f, i) = Def(g, i)
        <3> HIDE DEF g
        <3> QED
            BY <2>2, <2>4
    <2>6. g = [i \in 1..m + 1 |-> Def(g, i)]
        <3> HIDE DEF Def
        <3> QED
            BY <2>2, <2>3, <2>5
    <2> HIDE DEF g
    <2>7. \E h : h = [i \in 1..m + 1 |-> Def(h, i)]
        BY <2>6
    <2> QED
        <3> HIDE DEF Def
        <3> QED
            BY <2>2, <2>7
<1> HIDE DEF S
<1>4. n \in S
    BY <1>1, <1>2, <1>3, Induction
<1> QED
    BY <1>4 DEF S

\* FlattenSeq appends one sequence after the other.
LEMMA FlattenIs ==
    ASSUME NEW T, NEW seqs \in Seq(Seq(T))
    PROVE  \E g : /\ \A i \in 1..Len(seqs) :
                        g[i] = IF i = 1 THEN seqs[i] ELSE g[i - 1] \o seqs[i]
                  /\ FlattenSeq(seqs) = IF Len(seqs) = 0 THEN <<>> ELSE g[Len(seqs)]
<1> DEFINE n == Len(seqs)
           g == CHOOSE f : f = [i \in 1..n |-> IF i = 1 THEN seqs[i] ELSE f[i - 1] \o seqs[i]]
<1>1. g = [i \in 1..n |-> IF i = 1 THEN seqs[i] ELSE g[i - 1] \o seqs[i]]
    BY FlattenRecursion
<1>2. FlattenSeq(seqs) = IF n = 0 THEN seqs ELSE g[n]
    BY DEF FlattenSeq
<1>3. n = 0 => seqs = <<>>
    OBVIOUS
<1> HIDE DEF g
<1>4. \A i \in 1..n : g[i] = IF i = 1 THEN seqs[i] ELSE g[i - 1] \o seqs[i]
    <2> DEFINE Def(i) == IF i = 1 THEN seqs[i] ELSE g[i - 1] \o seqs[i]
    <2>1. g = [i \in 1..n |-> Def(i)]
        BY <1>1
    <2> HIDE DEF Def
    <2>2. \A i \in 1..n : [j \in 1..n |-> Def(j)][i] = Def(i)
        OBVIOUS
    <2>3. \A i \in 1..n : g[i] = Def(i)
        BY <2>1, <2>2, Zenon
    <2> QED
        BY <2>3 DEF Def
<1> QED
    BY <1>2, <1>3, <1>4

Lengths(seqs) == [i \in DOMAIN seqs |-> Len(seqs[i])]

\* flat has every element of the first m sequences, and is as long as they are together.
Collects(flat, T, seqs, m) ==
    /\ flat \in Seq(T)
    /\ Len(flat) = Cardinality(Units(1..m, Lengths(seqs)))
    /\ \A k \in DOMAIN flat : \E i \in 1..m : \E j \in DOMAIN seqs[i] : flat[k] = seqs[i][j]
    /\ \A i \in 1..m : \A j \in DOMAIN seqs[i] : \E k \in DOMAIN flat : flat[k] = seqs[i][j]

LEMMA CollectsMore ==
    ASSUME NEW T, NEW seqs \in Seq(Seq(T)), NEW m \in 0..Len(seqs) - 1,
           NEW a, Collects(a, T, seqs, m)
    PROVE  Collects(a \o seqs[m + 1], T, seqs, m + 1)
<1> DEFINE b == seqs[m + 1]
           c == a \o b
           len == Lengths(seqs)
           U == Units(1..m, len)
           V == {m + 1} \X (1..Len(b))
<1>1. /\ m \in Nat /\ m + 1 \in DOMAIN seqs /\ m + 1 \in 1..m + 1
      /\ 1..m + 1 = (1..m) \cup {m + 1}
      /\ \A i \in 1..m + 1 : i \in DOMAIN seqs
    OBVIOUS
<1>2. \A i \in DOMAIN seqs : seqs[i] \in Seq(T)
    OBVIOUS
<1>3. \A i \in DOMAIN seqs : len[i] = Len(seqs[i]) /\ len[i] \in Nat
    BY <1>2 DEF Lengths
<1>4. a \in Seq(T) /\ b \in Seq(T) /\ Len(a) \in Nat /\ Len(b) \in Nat
    BY <1>1, <1>2 DEF Collects
<1>5. IsFiniteSet(U) /\ Cardinality(U) = Len(a)
    <2>1. \A i \in 1..m : len[i] \in Nat
        BY <1>1, <1>3
    <2> QED
        BY <1>1, <2>1, IntervalIs, FiniteUnits DEF Collects
<1>6. IsFiniteSet(V) /\ Cardinality(V) = Len(b)
    <2>1. IsFiniteSet({m + 1}) /\ Cardinality({m + 1}) = 1
        BY FS_Singleton
    <2>2. IsFiniteSet(1..Len(b)) /\ Cardinality(1..Len(b)) = Len(b)
        BY <1>4, IntervalIs
    <2>3. IsFiniteSet(V) /\ Cardinality(V) = 1 * Len(b)
        BY <2>1, <2>2, FS_Product
    <2> QED
        BY <1>4, <2>3
<1>7. Units(1..m + 1, len) = U \cup V
    <2>1. ASSUME NEW p PROVE p \in Units(1..m + 1, len) <=> p \in U \/ p \in V
        <3>1. p \in V <=> \E j \in 1..len[m + 1] : p = <<m + 1, j>>
            BY <1>1, <1>3
        <3> HIDE DEF len
        <3>2. p \in U <=> \E k \in 1..m : \E j \in 1..len[k] : p = <<k, j>>
            BY DEF Units
        <3>3. p \in Units(1..m + 1, len) <=> \E k \in 1..m + 1 : \E j \in 1..len[k] : p = <<k, j>>
            BY DEF Units
        <3> HIDE DEF U, V, len
        <3> QED
            BY <1>1, <3>1, <3>2, <3>3
    <2> QED
        BY <2>1
<1>8. Cardinality(U \cap V) = 0
    <2>1. ASSUME NEW p, p \in U, p \in V PROVE FALSE
        <3>1. PICK k \in 1..m : \E j \in 1..len[k] : p = <<k, j>>
            BY <2>1, UnitsAre
        <3>2. p[1] = k /\ p[1] = m + 1
            BY <2>1, <3>1
        <3> QED
            BY <1>1, <3>2
    <2>2. U \cap V = {}
        BY <2>1
    <2> QED
        BY <2>2, FS_EmptySet
<1>9. Cardinality(U \cup V) = Cardinality(U) + Cardinality(V) - Cardinality(U \cap V)
    BY <1>5, <1>6, FS_Union
<1>10. Cardinality(Units(1..m + 1, len)) = Len(a) + Len(b)
    <2>1. Cardinality(Units(1..m + 1, len)) = Cardinality(U \cup V)
        BY <1>7
    <2> HIDE DEF U, V, b, c, len
    <2>2. Cardinality(U \cup V) = Len(a) + Len(b) - 0
        BY <1>5, <1>6, <1>8, <1>9
    <2> QED
        BY <1>4, <2>1, <2>2
<1>11. /\ c \in Seq(T) /\ Len(c) = Len(a) + Len(b)
       /\ \A k \in DOMAIN a : k \in DOMAIN c /\ c[k] = a[k]
       /\ \A k \in DOMAIN b : Len(a) + k \in DOMAIN c /\ c[Len(a) + k] = b[k]
       /\ \A k \in DOMAIN c : \/ k \in DOMAIN a /\ c[k] = a[k]
                              \/ k - Len(a) \in DOMAIN b /\ c[k] = b[k - Len(a)]
    <2> HIDE DEF b
    <2> QED
        BY <1>4
<1>12. \A k \in DOMAIN c : \E i \in 1..m + 1 : \E j \in DOMAIN seqs[i] : c[k] = seqs[i][j]
    <2> SUFFICES ASSUME NEW k \in DOMAIN c
                 PROVE  \E i \in 1..m + 1 : \E j \in DOMAIN seqs[i] : c[k] = seqs[i][j]
        OBVIOUS
    <2>1. CASE k \in DOMAIN a /\ c[k] = a[k]
        BY <1>1, <2>1 DEF Collects
    <2>2. CASE k - Len(a) \in DOMAIN b /\ c[k] = b[k - Len(a)]
        BY <1>1, <2>2
    <2> QED
        BY <1>11, <2>1, <2>2
<1>13. \A i \in 1..m + 1 : \A j \in DOMAIN seqs[i] : \E k \in DOMAIN c : c[k] = seqs[i][j]
    <2> SUFFICES ASSUME NEW i \in 1..m + 1, NEW j \in DOMAIN seqs[i]
                 PROVE  \E k \in DOMAIN c : c[k] = seqs[i][j]
        OBVIOUS
    <2>1. CASE i \in 1..m
        <3>1. PICK k \in DOMAIN a : a[k] = seqs[i][j]
            BY <2>1 DEF Collects
        <3> QED
            BY <1>11, <3>1
    <2>2. CASE i = m + 1
        BY <1>11, <2>2
    <2> QED
        BY <1>1, <2>1, <2>2
<1> QED
    BY <1>10, <1>11, <1>12, <1>13 DEF Collects

LEMMA Flattened ==
    ASSUME NEW T, NEW seqs \in Seq(Seq(T))
    PROVE  Collects(FlattenSeq(seqs), T, seqs, Len(seqs))
<1> DEFINE n == Len(seqs)
           flat == FlattenSeq(seqs)
<1>1. PICK g : /\ \A i \in 1..n : g[i] = IF i = 1 THEN seqs[i] ELSE g[i - 1] \o seqs[i]
               /\ flat = IF n = 0 THEN <<>> ELSE g[n]
    BY FlattenIs
<1> DEFINE part(m) == IF m = 0 THEN <<>> ELSE g[m]
           S == {m \in 0..n : Collects(part(m), T, seqs, m)}
<1>2. n \in Nat
    OBVIOUS
<1>3. 0 \in S
    <2>1. Units(1..0, Lengths(seqs)) = {}
        BY DEF Units
    <2>2. Cardinality(Units(1..0, Lengths(seqs))) = 0
        BY <2>1, FS_EmptySet
    <2>3. Collects(<<>>, T, seqs, 0)
        BY <2>2 DEF Collects
    <2> QED
        BY <1>2, <2>3
<1>4. ASSUME NEW m \in 0..n - 1, m \in S PROVE m + 1 \in S
    <2>1. Collects(part(m), T, seqs, m)
        BY <1>4
    <2>2. Collects(part(m) \o seqs[m + 1], T, seqs, m + 1)
        <3> HIDE DEF part
        <3> QED
            BY <2>1, CollectsMore
    <2>3. part(m + 1) = part(m) \o seqs[m + 1]
        <3>1. seqs[m + 1] \in Seq(T) /\ m \in Nat /\ m + 1 \in 1..n /\ (m + 1) - 1 = m
            OBVIOUS
        <3>2. g[m + 1] = IF m + 1 = 1 THEN seqs[m + 1] ELSE g[m] \o seqs[m + 1]
            BY <1>1, <3>1
        <3>3. <<>> \o seqs[m + 1] = seqs[m + 1]
            BY <3>1
        <3>4. CASE m = 0
            BY <3>1, <3>2, <3>3, <3>4
        <3>5. CASE m # 0
            <4>1. part(m + 1) = g[m + 1] /\ part(m) = g[m] /\ m + 1 # 1
                BY <3>1, <3>5
            <4> HIDE DEF part
            <4> QED
                BY <3>2, <4>1
        <3> QED
            BY <3>4, <3>5
    <2>4. m + 1 \in 0..n
        OBVIOUS
    <2> HIDE DEF part
    <2>5. Collects(part(m + 1), T, seqs, m + 1)
        BY <2>2, <2>3, Zenon
    <2> QED
        BY <2>4, <2>5
<1> HIDE DEF S
<1>5. n \in S
    BY <1>2, <1>3, <1>4, Induction
<1> QED
    BY <1>1, <1>2, <1>5 DEF S

-----------------------------------------------------------------------------
(* The scanner *)

\* A recursion in which each position asks a later one, and a solution of it.
IsRecursion(low, high, V, last, val, step, next) ==
    /\ low \in Nat /\ high \in Nat /\ low <= high
    /\ \A j \in low..high : j \in last => val[j] \in V
    /\ \A j \in low..high : j \notin last =>
            next[j] \in j + 1..high /\ \A v \in V : step[<<j, v>>] \in V

IsSolution(f, low, high, V, last, val, step, next) ==
    /\ f \in [low..high -> V]
    /\ \A j \in low..high :
            f[j] = IF j \in last THEN val[j] ELSE step[<<j, f[next[j]]>>]

LEMMA Recursion ==
    ASSUME NEW low, NEW high, NEW V, NEW last, NEW val, NEW step, NEW next,
           IsRecursion(low, high, V, last, val, step, next)
    PROVE  \E f : IsSolution(f, low, high, V, last, val, step, next)
<1> USE DEF IsRecursion
<1> DEFINE Def(f, j) == IF j \in last THEN val[j] ELSE step[<<j, f[next[j]]>>]
           n == high + 1 - low
           Solved(m) == \E f \in [high + 1 - m..high -> V] :
                            \A j \in high + 1 - m..high : f[j] = Def(f, j)
           S == {m \in 0..n : Solved(m)}
<1>1. n \in Nat
    OBVIOUS
<1>2. 0 \in S
    <2> DEFINE f == [j \in high + 1 - 0..high |-> val[j]]
    <2>1. \A j : j \notin high + 1 - 0..high
        OBVIOUS
    <2>2. f \in [high + 1 - 0..high -> V] /\ \A j \in high + 1 - 0..high : f[j] = Def(f, j)
        BY <2>1
    <2> HIDE DEF f, Def
    <2>3. Solved(0)
        BY <2>2
    <2> HIDE DEF Solved
    <2> QED
        BY <1>1, <2>3
<1>3. ASSUME NEW m \in 0..n - 1, m \in S PROVE m + 1 \in S
    <2> DEFINE i == high - m
               D == i + 1..high
               E == i..high
    <2>1. /\ m \in Nat /\ m + 1 \in 0..n /\ i \in low..high /\ high + 1 - m = i + 1
          /\ high + 1 - (m + 1) = i
        BY <1>1
    <2>2. Solved(m)
        <3> HIDE DEF Solved
        <3> QED
            BY <1>3
    <2>3. PICK f \in [D -> V] : \A j \in D : f[j] = Def(f, j)
        <3> HIDE DEF Def
        <3> QED
            BY <2>1, <2>2
    <2> DEFINE g == [j \in E |-> IF j = i THEN Def(f, i) ELSE f[j]]
    <2>4. \A j \in D : j \in E /\ j # i /\ j \in low..high
        BY <2>1
    <2>5. i \in E /\ \A j \in E : j = i \/ j \in D
        BY <2>1
    <2>6. \A j \in D : g[j] = f[j]
        BY <2>4
    <2>7. \A j \in E : j \notin last => next[j] \in D
        BY <2>1, <2>4, <2>5
    <2>8. Def(f, i) \in V
        BY <2>1, <2>5, <2>7
    <2>9. \A j \in E : Def(g, j) = Def(f, j)
        <3> HIDE DEF g
        <3> QED
            BY <2>6, <2>7
    <2>10. \A j \in E : g[j] = Def(f, j) /\ g[j] \in V
        <3> HIDE DEF Def
        <3> QED
            BY <2>3, <2>4, <2>5, <2>8
    <2>11. g \in [E -> V]
        BY <2>3, <2>5, <2>8
    <2> HIDE DEF g, Def
    <2>12. \E h \in [E -> V] : \A j \in E : h[j] = Def(h, j)
        BY <2>9, <2>10, <2>11
    <2>13. Solved(m + 1)
        BY <2>1, <2>12
    <2> HIDE DEF Solved
    <2> QED
        BY <2>1, <2>13
<1> HIDE DEF S
<1>4. n \in S
    BY <1>1, <1>2, <1>3, Induction
<1>5. Solved(n) /\ high + 1 - n = low
    <2> HIDE DEF Solved
    <2> QED
        BY <1>4 DEF S
<1> QED
    <2> HIDE DEF Def
    <2>1. \E f \in [low..high -> V] : \A j \in low..high : f[j] = Def(f, j)
        BY <1>5
    <2> QED
        BY <2>1 DEF Def, IsSolution

\* The characters of a text, and with them those that redaction writes.
Chars == STRING \cup {"-", "#", "/", "*", "?", " ", "\n", "[REDACTED]", "[truncated]"}
Texts == Seq(Chars)

LEMMA CharsAre ==
    /\ STRING \subseteq Chars
    /\ "-" \in Chars /\ "#" \in Chars /\ "/" \in Chars /\ "*" \in Chars /\ "?" \in Chars
    /\ " " \in Chars /\ "\n" \in Chars /\ "[REDACTED]" \in Chars /\ "[truncated]" \in Chars
BY DEF Chars

LEMMA StringsAreTexts == Seq(STRING) \subseteq Texts
<1>1. ASSUME NEW A, NEW B, A \subseteq B PROVE Seq(A) \subseteq Seq(B)
    BY <1>1
<1> QED
    BY <1>1, CharsAre, Zenon DEF Texts

LEMMA ShortTexts ==
    /\ \A x \in Chars : <<x>> \in Texts
    /\ \A x, y \in Chars : <<x, y>> \in Texts
    /\ \A v, w, x, y, z \in Chars : <<v, w, x, y, z>> \in Texts
BY DEF Texts

\* The markers of the constructs.
LEMMA Markers ==
    /\ <<"-", "-">> \in Texts /\ <<"#">> \in Texts /\ <<"\n">> \in Texts
    /\ <<"?">> \in Texts /\ <<"*", "/">> \in Texts /\ <<REDACTED>> \in Texts
    /\ <<"/", "*", REDACTED, "*", "/">> \in Texts
<1>1. <<"-", "-">> \in Texts
    BY CharsAre, ShortTexts
<1>2. <<"#">> \in Texts
    BY CharsAre, ShortTexts
<1>3. <<"\n">> \in Texts
    BY CharsAre, ShortTexts
<1>4. <<"?">> \in Texts
    BY CharsAre, ShortTexts
<1>5. <<"*", "/">> \in Texts
    BY CharsAre, ShortTexts
<1>6. <<REDACTED>> \in Texts
    BY CharsAre, ShortTexts DEF REDACTED
<1>7. <<"/", "*", REDACTED, "*", "/">> \in Texts
    BY CharsAre, ShortTexts DEF REDACTED
<1> QED
    BY <1>1, <1>2, <1>3, <1>4, <1>5, <1>6, <1>7

LEMMA StartsAt ==
    ASSUME NEW s, NEW i \in Nat, NEW a
    PROVE  /\ StartsWith(s, i, <<a>>) <=> i <= Len(s) /\ s[i] = a
           /\ \A b : StartsWith(s, i, <<a, b>>) <=>
                        i + 1 <= Len(s) /\ s[i] = a /\ s[i + 1] = b
BY DEF StartsWith

\* The greatest of a nonempty finite set of numbers, which Max chooses.
LEMMA GreatestIs ==
    ASSUME NEW n \in Nat, NEW S, S \subseteq 1..n, S # {}
    PROVE  Max(S) \in S /\ \A y \in S : y <= Max(S)
<1> DEFINE R == {i \in 1..n : n + 1 - i \in S}
<1>1. R \subseteq Nat /\ IsFiniteSet(R)
    BY IntervalIs, FS_Subset
<1>2. \A x \in S : n + 1 - x \in R
    <2> SUFFICES ASSUME NEW x \in S PROVE n + 1 - x \in R
        OBVIOUS
    <2>1. x \in 1..n /\ n + 1 - x \in 1..n /\ n + 1 - (n + 1 - x) = x
        OBVIOUS
    <2> QED
        BY <2>1
<1>3. R # {}
    BY <1>2
<1>4. Min(R) \in R /\ \A y \in R : Min(R) <= y
    <2> HIDE DEF R
    <2> QED
        BY <1>1, <1>3, LeastIs
<1>5. PICK r \in R : \A y \in R : r <= y
    BY <1>4
<1> DEFINE x == n + 1 - r
<1>6. x \in S /\ x \in 1..n
    BY <1>5
<1>7. \A y \in S : y <= x
    <2> SUFFICES ASSUME NEW y \in S PROVE y <= x
        OBVIOUS
    <2>1. r <= n + 1 - y
        BY <1>2, <1>5
    <2>2. y \in 1..n /\ r \in 1..n
        BY <1>5
    <2> QED
        BY <2>1, <2>2
<1>8. \A y \in S : x >= y
    BY <1>6, <1>7
<1>9. /\ (CHOOSE z \in S : \A y \in S : z >= y) \in S
      /\ \A y \in S : (CHOOSE z \in S : \A w \in S : z >= w) >= y
    <2> HIDE DEF x
    <2> QED
        BY <1>6, <1>8
<1>10. Max(S) \in S /\ \A y \in S : Max(S) >= y
    BY <1>9 DEF Max
<1>11. \A y \in S : y \in Int
    OBVIOUS
<1> QED
    BY <1>10, <1>11

LEMMA AfterIs ==
    ASSUME NEW s \in Texts, NEW t \in Texts, NEW i \in 1..Len(s) + 1
    PROVE  After(s, t, i) \in i..Len(s) + 1
<1> DEFINE found == {j \in i..Len(s) : StartsWith(s, j, t)}
<1>1. Len(s) \in Nat /\ Len(t) \in Nat
    BY DEF Texts
<1>2. CASE found = {}
    BY <1>1, <1>2 DEF After
<1>3. CASE found # {}
    <2>1. IsFiniteSet(found) /\ found \subseteq Nat
        <3>1. IsFiniteSet(i..Len(s))
            BY <1>1, FS_Interval
        <3> QED
            BY <3>1, FS_Subset
    <2>2. Min(found) \in found
        <3> HIDE DEF found
        <3> QED
            BY <1>3, <2>1, LeastIs
    <2>3. Min(found) \in i..Len(s) /\ Min(found) + Len(t) - 1 <= Len(s)
        BY <2>2 DEF StartsWith
    <2>4. After(s, t, i) = Min(found) + Len(t)
        BY <1>3 DEF After
    <2> HIDE DEF found
    <2> QED
        BY <1>1, <2>3, <2>4
<1> QED
    BY <1>2, <1>3

LEMMA QuotedIs ==
    ASSUME NEW s \in Texts, NEW i \in 1..Len(s)
    PROVE  _skip_quoted_value(s, i) \in i + 1..Len(s) + 1
<1> DEFINE n == Len(s)
           D == i + 1..n + 2
           Pair(j) == j < n /\ (s[j] = "\\" \/ (s[j] = s[i] /\ s[j + 1] = s[i]))
           Ends(j) == j <= n /\ ~Pair(j) /\ s[j] = s[i]
           Def(f, j) == CASE j > n -> n + 1
                          [] Pair(j) -> f[j + 2]
                          [] Ends(j) -> j + 1
                          [] OTHER -> f[j + 1]
           last == {j \in D : j > n \/ Ends(j)}
           val == [j \in D |-> IF j > n THEN n + 1 ELSE j + 1]
           next == [j \in D |-> IF Pair(j) THEN j + 2 ELSE j + 1]
           step == [p \in D \X Nat |-> p[2]]
<1>1. n \in Nat /\ i \in 1..n
    BY DEF Texts
<1> HIDE DEF n
<1>2. \A j \in D : j \notin last => next[j] \in j + 1..n + 2 /\ next[j] \in D
    <2> HIDE DEF Pair, Ends
    <2>1. \A j \in D : Pair(j) => j < n
        BY DEF Pair
    <2> QED
        BY <1>1, <2>1
<1>3. \A j \in D : \A v \in Nat : step[<<j, v>>] = v
    BY <1>1
<1>4. \A j \in D : val[j] \in Nat
    BY <1>1
<1>5. \A j \in D : Ends(j) => ~Pair(j) /\ j <= n
    BY <1>1
<1>6. \A j \in D : Pair(j) => j < n
    BY <1>1
<1>7. \A f : \A j \in D : Def(f, j) = IF j \in last THEN val[j] ELSE f[next[j]]
    <2> HIDE DEF Pair, Ends
    <2> SUFFICES ASSUME NEW f, NEW j \in D
                 PROVE  Def(f, j) = IF j \in last THEN val[j] ELSE f[next[j]]
        OBVIOUS
    <2>1. CASE j > n
        BY <1>1, <1>5, <1>6, <2>1
    <2>2. CASE ~(j > n) /\ Pair(j)
        BY <1>1, <1>5, <1>6, <2>2
    <2>3. CASE ~(j > n) /\ Ends(j)
        BY <1>1, <1>5, <1>6, <2>3
    <2>4. CASE ~(j > n) /\ ~Pair(j) /\ ~Ends(j)
        BY <1>1, <1>5, <1>6, <2>4
    <2> QED
        BY <2>1, <2>2, <2>3, <2>4
<1>8. _skip_quoted_value(s, i) = (CHOOSE f : f = [j \in D |-> Def(f, j)])[i + 1]
    BY DEF _skip_quoted_value, n
<1> HIDE DEF Def, last, val, next, step
<1>9. \E f : f = [j \in D |-> Def(f, j)]
    <2>1. i + 1 \in Nat /\ n + 2 \in Nat /\ i + 1 <= n + 2
        BY <1>1
    <2>2. PICK f \in [D -> Nat] : \A j \in D :
                f[j] = IF j \in last THEN val[j] ELSE step[<<j, f[next[j]]>>]
        <3>1. IsRecursion(i + 1, n + 2, Nat, last, val, step, next)
            BY <1>2, <1>3, <1>4, <2>1 DEF IsRecursion
        <3>2. \E f : IsSolution(f, i + 1, n + 2, Nat, last, val, step, next)
            BY <3>1, Recursion
        <3> QED
            BY <3>2 DEF IsSolution
    <2>3. \A j \in D : f[j] = Def(f, j)
        <3> SUFFICES ASSUME NEW j \in D PROVE f[j] = Def(f, j)
            OBVIOUS
        <3>1. CASE j \in last
            BY <1>7, <2>2, <3>1
        <3>2. CASE j \notin last
            <4>1. f[next[j]] \in Nat
                BY <1>2, <3>2
            <4>2. f[j] = step[<<j, f[next[j]]>>]
                BY <2>2, <3>2
            <4>3. step[<<j, f[next[j]]>>] = f[next[j]]
                BY <1>3, <4>1
            <4> QED
                BY <1>7, <3>2, <4>2, <4>3
        <3> QED
            BY <3>1, <3>2
    <2>4. f = [j \in D |-> Def(f, j)]
        BY <2>2, <2>3
    <2> QED
        BY <2>4
<1> DEFINE f == CHOOSE g : g = [j \in D |-> Def(g, j)]
<1>10. f = [j \in D |-> Def(f, j)]
    BY <1>9
<1> HIDE DEF f
<1>11. \A j \in D : f[j] = Def(f, j)
    <2>1. \A j \in D : [k \in D |-> Def(f, k)][j] = Def(f, j)
        OBVIOUS
    <2> QED
        BY <1>10, <2>1, Zenon
<1>12. \A j \in D : f[j] = IF j \in last THEN val[j] ELSE f[next[j]]
    BY <1>7, <1>11
<1> DEFINE S == {j \in 1..n + 2 : j \in i + 1..n + 1 => f[j] \in j..n + 1}
<1>13. ASSUME NEW j \in 1..n + 2, \A k \in j + 1..n + 2 : k \in S PROVE j \in S
    <2> SUFFICES ASSUME j \in i + 1..n + 1 PROVE f[j] \in j..n + 1
        OBVIOUS
    <2>1. j \in D
        BY <1>1
    <2>2. CASE j \in last
        <3>1. f[j] = val[j]
            BY <1>12, <2>1, <2>2
        <3>2. val[j] \in j..n + 1
            BY <1>1, <2>1, <2>2 DEF val, last
        <3> QED
            BY <3>1, <3>2
    <2>3. CASE j \notin last
        <3>1. f[j] = f[next[j]]
            BY <1>12, <2>1, <2>3
        <3>2. next[j] \in j + 1..n + 1
            <4>1. ~(j > n)
                BY <1>1, <2>1, <2>3 DEF last
            <4> HIDE DEF Pair
            <4>2. next[j] = IF Pair(j) THEN j + 2 ELSE j + 1
                BY <2>1 DEF next
            <4> QED
                BY <1>1, <1>6, <2>1, <4>1, <4>2
        <3>3. next[j] \in S /\ next[j] \in i + 1..n + 1 /\ next[j] \in j + 1..n + 2
            BY <1>1, <1>13, <2>1, <3>2
        <3>4. f[next[j]] \in next[j]..n + 1
            BY <3>3
        <3>5. \A v \in next[j]..n + 1 : v \in j..n + 1
            BY <1>1, <2>1, <3>2
        <3> QED
            BY <3>1, <3>4, <3>5
    <2> QED
        BY <2>2, <2>3
<1>14. 1..n + 2 \subseteq S
    <2> HIDE DEF S
    <2>1. n + 2 \in Nat
        BY <1>1
    <2> QED
        BY <1>13, <2>1, Descending
<1>15. i + 1 \in S /\ i + 1 \in i + 1..n + 1
    BY <1>1, <1>14
<1> QED
    BY <1>8, <1>15 DEF f, n

\* No construct is at a position.
IsPlain(s, dialect, i) ==
    /\ ~StartsWith(s, i, <<"-", "-">>) /\ ~(s[i] = "#" /\ dialect \in HashDialects)
    /\ ~StartsWith(s, i, <<"/", "*">>) /\ s[i] \notin Quotes /\ TagEnds(s, i) = {}

\* What the scanner does at each construct.
LEMMA ScanCases ==
    ASSUME NEW s \in Texts, NEW dialect, NEW i \in 1..Len(s)
    PROVE  /\ StartsWith(s, i, <<"-", "-">>) =>
                Scan(s, dialect, i) = _redact_line_comment(s, i, <<"-", "-">>)
           /\ s[i] = "#" /\ dialect \in HashDialects =>
                Scan(s, dialect, i) = _redact_line_comment(s, i, <<"#">>)
           /\ StartsWith(s, i, <<"/", "*">>) => Scan(s, dialect, i) = _redact_block_comment(s, i)
           /\ s[i] \in Quotes =>
                Scan(s, dialect, i) = Written(<<"?">>, _skip_quoted_value(s, i))
           /\ TagEnds(s, i) # {} =>
                Scan(s, dialect, i) =
                    Written(<<"?">>, _skip_dollar_quoted_value(
                                        s, i, SubSeq(s, i, Max(TagEnds(s, i)))))
           /\ IsPlain(s, dialect, i) => Scan(s, dialect, i) = Written(<<s[i]>>, i + 1)
<1>1. i \in Nat
    BY DEF Texts
<1>2. StartsWith(s, i, <<"-", "-">>) => s[i] = "-"
    BY <1>1, StartsAt
<1>3. StartsWith(s, i, <<"/", "*">>) => s[i] = "/"
    BY <1>1, StartsAt
<1>4. TagEnds(s, i) # {} => s[i] = "$"
    BY DEF TagEnds
<1>5. s[i] \in Quotes => s[i] = "'" \/ s[i] = "dq"
    BY DEF Quotes
<1> DEFINE A == StartsWith(s, i, <<"-", "-">>)
           B == s[i] = "#" /\ dialect \in HashDialects
           C == StartsWith(s, i, <<"/", "*">>)
           D == s[i] \in Quotes
           E == TagEnds(s, i) # {}
<1>6. /\ A => ~B /\ ~C /\ ~D /\ ~E
      /\ B => ~C /\ ~D /\ ~E
      /\ C => ~D /\ ~E
      /\ D => ~E
    <2>1. A => s[i] = "-"
        BY <1>2
    <2>2. C => s[i] = "/"
        BY <1>3
    <2>3. E => s[i] = "$"
        BY <1>4
    <2>4. D => s[i] = "'" \/ s[i] = "dq"
        BY <1>5
    <2>5. B => s[i] = "#"
        OBVIOUS
    <2> HIDE DEF A, B, C, D, E
    <2> QED
        BY <2>1, <2>2, <2>3, <2>4, <2>5
<1> DEFINE tag == SubSeq(s, i, Max(TagEnds(s, i)))
<1>7. Scan(s, dialect, i) =
        CASE A -> _redact_line_comment(s, i, <<"-", "-">>)
          [] B -> _redact_line_comment(s, i, <<"#">>)
          [] C -> _redact_block_comment(s, i)
          [] D -> Written(<<"?">>, _skip_quoted_value(s, i))
          [] E -> Written(<<"?">>, _skip_dollar_quoted_value(s, i, tag))
          [] OTHER -> Written(<<s[i]>>, i + 1)
    BY DEF Scan
<1>8. /\ A => Scan(s, dialect, i) = _redact_line_comment(s, i, <<"-", "-">>)
      /\ B => Scan(s, dialect, i) = _redact_line_comment(s, i, <<"#">>)
      /\ C => Scan(s, dialect, i) = _redact_block_comment(s, i)
      /\ D => Scan(s, dialect, i) = Written(<<"?">>, _skip_quoted_value(s, i))
      /\ E => Scan(s, dialect, i) = Written(<<"?">>, _skip_dollar_quoted_value(s, i, tag))
      /\ ~A /\ ~B /\ ~C /\ ~D /\ ~E => Scan(s, dialect, i) = Written(<<s[i]>>, i + 1)
    <2> HIDE DEF A, B, C, D, E, tag
    <2> QED
        BY <1>6, <1>7
<1>9. IsPlain(s, dialect, i) => ~A /\ ~B /\ ~C /\ ~D /\ ~E
    BY DEF IsPlain
<1> QED
    BY <1>8, <1>9, Zenon

\* A construct moves the scanner on.  What is written has ink, but for a blank that is
\* written as it is.
LEMMA ScanIs ==
    ASSUME NEW s \in Texts, NEW dialect, NEW i \in 1..Len(s)
    PROVE  /\ Scan(s, dialect, i).text \in Texts
           /\ Scan(s, dialect, i).next \in i + 1..Len(s) + 1
           /\ \/ IsNonBlank(Scan(s, dialect, i).text)
              \/ s[i] \in Blanks /\ Scan(s, dialect, i).next = i + 1
<1> DEFINE n == Len(s)
           Fine(h) == /\ h.text \in Texts /\ h.next \in i + 1..n + 1
                      /\ IsNonBlank(h.text) \/ (s[i] \in Blanks /\ h.next = i + 1)
<1>1. n \in Nat /\ i \in 1..n /\ i \in Nat /\ s[i] \in Chars
    BY DEF Texts
<1>2. ASSUME NEW marker \in Texts, Len(marker) >= 1, i + Len(marker) <= n + 1,
             marker[1] \notin Blanks
      PROVE  Fine(_redact_line_comment(s, i, marker))
    <2> DEFINE next == After(s, <<"\n">>, i + Len(marker))
               line == marker \o <<REDACTED>>
               text == IF s[next - 1] = "\n" THEN Append(line, "\n") ELSE line
    <2>1. <<"\n">> \in Texts /\ REDACTED \in Chars /\ "\n" \in Chars /\ Len(marker) \in Nat
        <3>1. Len(marker) \in Nat
            BY DEF Texts
        <3> QED
            BY <3>1, CharsAre, Markers DEF REDACTED
    <2>2. next \in i + Len(marker)..n + 1
        <3>1. i + Len(marker) \in 1..n + 1
            BY <1>1, <1>2, <2>1
        <3> QED
            BY <2>1, <3>1, AfterIs
    <2>3. line \in Texts /\ Append(line, "\n") \in Texts
        BY <2>1 DEF Texts
    <2>4. 1 \in DOMAIN line /\ line[1] = marker[1] /\ 1 \in DOMAIN Append(line, "\n")
          /\ Append(line, "\n")[1] = marker[1]
        BY <1>2, <2>1 DEF Texts
    <2>5. text \in Texts /\ IsNonBlank(text)
        <3> HIDE DEF line
        <3>1. IsNonBlank(line) /\ IsNonBlank(Append(line, "\n"))
            BY <1>2, <2>4 DEF IsNonBlank
        <3> QED
            BY <2>3, <3>1
    <2>6. _redact_line_comment(s, i, marker).text = text
          /\ _redact_line_comment(s, i, marker).next = next
        BY DEF _redact_line_comment, Written
    <2> HIDE DEF text, next
    <2>7. next \in i + 1..n + 1
        BY <1>1, <1>2, <2>1, <2>2
    <2> QED
        BY <2>5, <2>6, <2>7
<1>3. CASE StartsWith(s, i, <<"-", "-">>)
    <2>1. Len(<<"-", "-">>) = 2 /\ "-" \notin Blanks /\ <<"-", "-">>[1] = "-"
        BY DEF Blanks
    <2>3. i + 2 <= n + 1
        <3>1. i + 1 <= n
            BY <1>1, <1>3, StartsAt
        <3> QED
            BY <1>1, <3>1
    <2>2. Fine(_redact_line_comment(s, i, <<"-", "-">>))
        <3> HIDE DEF Fine
        <3>1. <<"-", "-">> \in Texts /\ Len(<<"-", "-">>) >= 1 /\ i + Len(<<"-", "-">>) <= n + 1
              /\ <<"-", "-">>[1] \notin Blanks
            BY <2>1, <2>3, Markers
        <3> QED
            BY <1>2, <3>1
    <2> QED
        BY <1>3, <2>2, ScanCases
<1>4. CASE s[i] = "#" /\ dialect \in HashDialects
    <2>1. Len(<<"#">>) = 1 /\ "#" \notin Blanks /\ <<"#">>[1] = "#"
        BY DEF Blanks
    <2>3. i + 1 <= n + 1
        BY <1>1
    <2>2. Fine(_redact_line_comment(s, i, <<"#">>))
        <3> HIDE DEF Fine
        <3>1. <<"#">> \in Texts /\ Len(<<"#">>) >= 1 /\ i + Len(<<"#">>) <= n + 1
              /\ <<"#">>[1] \notin Blanks
            BY <2>1, <2>3, Markers
        <3> QED
            BY <1>2, <3>1
    <2> QED
        BY <1>4, <2>2, ScanCases
<1>5. CASE StartsWith(s, i, <<"/", "*">>)
    <2>1. i + 2 \in 1..n + 1 /\ <<"*", "/">> \in Texts
        <3>1. i + 1 <= n
            BY <1>1, <1>5, StartsAt
        <3> QED
            BY <1>1, <3>1, Markers
    <2>2. After(s, <<"*", "/">>, i + 2) \in i + 2..n + 1
        BY <2>1, AfterIs
    <2>3. <<"/", "*", REDACTED, "*", "/">> \in Texts
        BY Markers
    <2>4. IsNonBlank(<<"/", "*", REDACTED, "*", "/">>)
        <3>1. 1 \in DOMAIN <<"/", "*", REDACTED, "*", "/">>
              /\ <<"/", "*", REDACTED, "*", "/">>[1] = "/" /\ "/" \notin Blanks
            BY DEF Blanks
        <3> QED
            BY <3>1 DEF IsNonBlank
    <2>5. Scan(s, dialect, i) = _redact_block_comment(s, i)
        BY <1>5, ScanCases
    <2> QED
        BY <1>1, <2>2, <2>3, <2>4, <2>5 DEF _redact_block_comment, Written
<1>6. <<"?">> \in Texts /\ IsNonBlank(<<"?">>)
    <2>1. 1 \in DOMAIN <<"?">> /\ <<"?">>[1] = "?" /\ "?" \notin Blanks
        BY DEF Blanks
    <2> QED
        BY <2>1, Markers DEF IsNonBlank
<1>7. CASE s[i] \in Quotes
    <2>1. Scan(s, dialect, i) = Written(<<"?">>, _skip_quoted_value(s, i))
        BY <1>7, ScanCases
    <2> QED
        BY <1>6, <2>1, QuotedIs DEF Written
<1>8. CASE TagEnds(s, i) # {}
    <2> DEFINE end == Max(TagEnds(s, i))
               tag == SubSeq(s, i, end)
    <2>1. TagEnds(s, i) \subseteq i + 1..n /\ s[i] = "$"
        BY <1>8 DEF TagEnds
    <2>2. end \in i + 1..n
        <3>1. TagEnds(s, i) \subseteq 1..n
            BY <1>1, <2>1
        <3> QED
            BY <1>1, <1>8, <2>1, <3>1, GreatestIs
    <2>3. Scan(s, dialect, i) = Written(<<"?">>, _skip_dollar_quoted_value(s, i, tag))
        BY <1>8, ScanCases
    <2> HIDE DEF end
    <2>4. tag \in Texts /\ Len(tag) = end - i + 1
        BY <1>1, <2>2 DEF Texts
    <2>5. i + Len(tag) \in 1..n + 1 /\ i + Len(tag) >= i + 1
        BY <1>1, <2>2, <2>4
    <2> HIDE DEF tag
    <2>6. After(s, tag, i + Len(tag)) \in i + Len(tag)..n + 1
        BY <2>4, <2>5, AfterIs
    <2> QED
        BY <1>1, <1>6, <2>3, <2>5, <2>6 DEF Written, _skip_dollar_quoted_value
<1>9. CASE IsPlain(s, dialect, i)
    <2>1. Scan(s, dialect, i) = Written(<<s[i]>>, i + 1)
        BY <1>9, ScanCases
    <2>2. s[i] \notin Blanks => IsNonBlank(<<s[i]>>)
        <3>1. 1 \in DOMAIN <<s[i]>> /\ <<s[i]>>[1] = s[i]
            OBVIOUS
        <3> QED
            BY <3>1 DEF IsNonBlank
    <2> QED
        BY <1>1, <2>1, <2>2, ShortTexts DEF Written
<1> QED
    BY <1>3, <1>4, <1>5, <1>7, <1>8, <1>9 DEF IsPlain

\* The fragments of a text from each position on.
IsFragments(g, s, dialect) ==
    /\ g \in [1..Len(s) + 1 -> Texts]
    /\ g[Len(s) + 1] = <<>>
    /\ \A i \in 1..Len(s) :
            g[i] = Scan(s, dialect, i).text \o g[Scan(s, dialect, i).next]

LEMMA FragmentsAre ==
    ASSUME NEW s \in Texts, NEW dialect
    PROVE  \E g : /\ IsFragments(g, s, dialect)
                  /\ _redact_sql_fragments(s, dialect) = WithoutNumbers(g[1])
<1> DEFINE n == Len(s)
           D == 1..n + 1
           here(i) == Scan(s, dialect, i)
           Def(f, i) == IF i > n THEN <<>> ELSE here(i).text \o f[here(i).next]
           val == [i \in D |-> <<>>]
           next == [i \in D |-> here(i).next]
           step == [p \in D \X Texts |-> here(p[1]).text \o p[2]]
           last == {n + 1}
<1>1. n \in Nat
    BY DEF Texts
<1>2. \A i \in 1..n : here(i).text \in Texts /\ here(i).next \in i + 1..n + 1
    BY ScanIs
<1>3. _redact_sql_fragments(s, dialect) =
        WithoutNumbers((CHOOSE f : f = [i \in D |-> Def(f, i)])[1])
    BY DEF _redact_sql_fragments
<1> HIDE DEF n, here
<1>4. \A i \in D : i \in 1..n \/ i = n + 1
    BY <1>1
<1>5. \A i \in D : i > n <=> i = n + 1
    BY <1>1
<1>6. \A a, b \in Texts : a \o b \in Texts
    BY DEF Texts
<1>7. <<>> \in Texts
    BY DEF Texts
<1>8. \E f : f = [i \in D |-> Def(f, i)]
    <2>1. IsRecursion(1, n + 1, Texts, last, val, step, next)
        <3>1. \A i \in D : i \notin last =>
                next[i] \in i + 1..n + 1 /\ \A v \in Texts : step[<<i, v>>] \in Texts
            <4> SUFFICES ASSUME NEW i \in D, i \notin last
                         PROVE  next[i] \in i + 1..n + 1 /\ \A v \in Texts : step[<<i, v>>] \in Texts
                OBVIOUS
            <4>1. i \in 1..n
                BY <1>4
            <4> QED
                BY <1>2, <1>6, <4>1
        <3>2. \A i \in D : val[i] \in Texts
            BY <1>7
        <3>3. 1 \in Nat /\ n + 1 \in Nat /\ 1 <= n + 1
            BY <1>1
        <3> HIDE DEF val, step, next, last
        <3> QED
            BY <3>1, <3>2, <3>3 DEF IsRecursion
    <2>2. PICK f : IsSolution(f, 1, n + 1, Texts, last, val, step, next)
        <3> HIDE DEF val, step, next, last
        <3> QED
            BY <2>1, Recursion
    <2>3. f \in [D -> Texts]
        BY <2>2 DEF IsSolution
    <2>4. ASSUME NEW i \in D PROVE f[i] = Def(f, i)
        <3>1. f[i] = IF i \in last THEN val[i] ELSE step[<<i, f[next[i]]>>]
            BY <2>2 DEF IsSolution
        <3>2. CASE i = n + 1
            BY <1>5, <3>1, <3>2
        <3>3. CASE i \in 1..n
            <4>1. here(i).next \in D
                BY <1>1, <1>2, <3>3
            <4>2. f[next[i]] \in Texts /\ next[i] = here(i).next
                BY <2>3, <4>1
            <4>3. step[<<i, f[next[i]]>>] = here(i).text \o f[next[i]]
                BY <4>2
            <4>4. ~(i > n) /\ i \notin last
                BY <1>1, <3>3
            <4> HIDE DEF step, next, last
            <4> QED
                BY <3>1, <4>2, <4>3, <4>4
        <3> QED
            BY <1>4, <3>2, <3>3
    <2>5. f = [i \in D |-> Def(f, i)]
        <3> HIDE DEF Def
        <3> QED
            BY <2>3, <2>4
    <2> HIDE DEF Def
    <2> QED
        BY <2>5
<1> DEFINE g == CHOOSE f : f = [i \in D |-> Def(f, i)]
<1>9. g = [i \in D |-> Def(g, i)]
    <2> HIDE DEF Def
    <2> QED
        BY <1>8
<1>10. _redact_sql_fragments(s, dialect) = WithoutNumbers(g[1])
    BY <1>3
<1> HIDE DEF g
<1>11. \A i \in D : g[i] = Def(g, i)
    <2> HIDE DEF Def
    <2>1. \A i \in D : [j \in D |-> Def(g, j)][i] = Def(g, i)
        OBVIOUS
    <2> QED
        BY <1>9, <2>1, Zenon
<1>12. g[n + 1] = <<>> /\ \A i \in 1..n : g[i] = here(i).text \o g[here(i).next]
    <2>1. n + 1 \in D /\ n + 1 > n /\ \A i \in 1..n : i \in D /\ ~(i > n)
        BY <1>1
    <2> QED
        BY <1>11, <2>1
<1> DEFINE S == {i \in D : g[i] \in Texts}
<1>13. ASSUME NEW i \in D, \A j \in i + 1..n + 1 : j \in S PROVE i \in S
    <2>1. CASE i = n + 1
        BY <1>7, <1>12, <2>1
    <2>2. CASE i \in 1..n
        <3>1. here(i).next \in S
            BY <1>2, <1>13, <2>2
        <3> QED
            BY <1>2, <1>6, <1>12, <2>2, <3>1
    <2> QED
        BY <1>4, <2>1, <2>2
<1>14. D \subseteq S
    <2> HIDE DEF S
    <2>1. n + 1 \in Nat
        BY <1>1
    <2> QED
        BY <1>13, <2>1, Descending
<1>15. g \in [D -> Texts]
    <2> HIDE DEF Def
    <2>1. DOMAIN g = D /\ g = [i \in DOMAIN g |-> g[i]]
        BY <1>9
    <2> QED
        BY <1>14, <2>1
<1> QED
    BY <1>10, <1>12, <1>15 DEF IsFragments, n, here

-----------------------------------------------------------------------------
(* Ink: redaction leaves something of every text that is not blank. *)

LEMMA InkOfEither ==
    ASSUME NEW a \in Texts, NEW b \in Texts, IsNonBlank(a) \/ IsNonBlank(b)
    PROVE  IsNonBlank(a \o b)
<1>1. CASE IsNonBlank(a)
    <2>1. PICK i \in DOMAIN a : a[i] \notin Blanks
        BY <1>1 DEF IsNonBlank
    <2>2. i \in DOMAIN (a \o b) /\ (a \o b)[i] = a[i]
        BY DEF Texts
    <2> QED
        BY <2>1, <2>2 DEF IsNonBlank
<1>2. CASE IsNonBlank(b)
    <2>1. PICK i \in DOMAIN b : b[i] \notin Blanks
        BY <1>2 DEF IsNonBlank
    <2>2. Len(a) + i \in DOMAIN (a \o b) /\ (a \o b)[Len(a) + i] = b[i]
        BY DEF Texts
    <2> QED
        BY <2>1, <2>2 DEF IsNonBlank
<1> QED
    BY <1>1, <1>2

LEMMA FragmentsInk ==
    ASSUME NEW s \in Texts, NEW dialect, NEW g, IsFragments(g, s, dialect), IsNonBlank(s)
    PROVE  IsNonBlank(g[1])
<1> DEFINE n == Len(s)
           here(i) == Scan(s, dialect, i)
           S == {i \in 1..n : (\E j \in i..n : s[j] \notin Blanks) => IsNonBlank(g[i])}
<1>1. n \in Nat /\ DOMAIN s = 1..n
    BY DEF Texts
<1>2. \A i \in 1..n : /\ here(i).text \in Texts /\ here(i).next \in i + 1..n + 1
                      /\ IsNonBlank(here(i).text) \/ (s[i] \in Blanks /\ here(i).next = i + 1)
    BY ScanIs
<1>3. /\ \A i \in 1..n + 1 : g[i] \in Texts
      /\ \A i \in 1..n : g[i] = here(i).text \o g[here(i).next]
    BY DEF IsFragments
<1> HIDE DEF n, here
<1>4. ASSUME NEW i \in 1..n, \A j \in i + 1..n : j \in S PROVE i \in S
    <2> SUFFICES ASSUME NEW j \in i..n, s[j] \notin Blanks PROVE IsNonBlank(g[i])
        OBVIOUS
    <2>1. g[here(i).next] \in Texts /\ here(i).text \in Texts
        BY <1>1, <1>2, <1>3
    <2>2. CASE IsNonBlank(here(i).text)
        BY <1>3, <2>1, <2>2, InkOfEither
    <2>3. CASE s[i] \in Blanks /\ here(i).next = i + 1
        <3>1. j # i
            BY <2>3
        <3>2. j \in i + 1..n /\ i + 1 \in i + 1..n
            BY <1>1, <3>1
        <3>3. i + 1 \in S
            BY <1>4, <3>2
        <3>4. IsNonBlank(g[i + 1])
            BY <3>2, <3>3
        <3> QED
            BY <1>3, <2>1, <2>3, <3>4, InkOfEither
    <2> QED
        BY <1>2, <2>2, <2>3
<1>5. 1..n \subseteq S
    <2> HIDE DEF S
    <2> QED
        BY <1>1, <1>4, Descending
<1>6. PICK j \in 1..n : s[j] \notin Blanks
    BY <1>1 DEF IsNonBlank
<1>7. 1 \in S
    BY <1>1, <1>5
<1> QED
    BY <1>6, <1>7

\* What the digits of a number leave: their first one a placeholder.
NumberPiece(s, i) ==
    IF ~IsNumber(s, i) THEN <<s[i]>>
    ELSE IF i > 1 /\ s[i - 1] \in Digits THEN <<>> ELSE <<"?">>

LEMMA NumbersInk ==
    ASSUME NEW s \in Texts
    PROVE  /\ WithoutNumbers(s) \in Texts
           /\ IsNonBlank(s) => IsNonBlank(WithoutNumbers(s))
<1> DEFINE n == Len(s)
           pieces == [i \in DOMAIN s |-> NumberPiece(s, i)]
           t == WithoutNumbers(s)
<1>1. n \in Nat /\ DOMAIN s = 1..n /\ \A i \in 1..n : s[i] \in Chars
    BY DEF Texts
<1>2. \A i \in 1..n : NumberPiece(s, i) \in {<<s[i]>>, <<>>, <<"?">>}
    BY DEF NumberPiece
<1>3. \A i \in 1..n : NumberPiece(s, i) \in Seq(Chars)
    <2>1. <<"?">> \in Texts /\ <<>> \in Texts
        <3>1. <<>> \in Texts
            BY DEF Texts
        <3> QED
            BY <3>1, Markers
    <2>2. \A i \in 1..n : <<s[i]>> \in Texts
        BY <1>1, ShortTexts
    <2>3. \A i \in 1..n : NumberPiece(s, i) \in Texts
        BY <1>2, <2>1, <2>2
    <2> QED
        BY <2>3 DEF Texts
<1>4. pieces \in Seq(Seq(Chars)) /\ Len(pieces) = n
    BY <1>1, <1>3
<1>5. t = FlattenSeq(pieces)
    BY DEF WithoutNumbers, NumberPiece
<1>6. t \in Seq(Chars) /\ \A i \in 1..n : \A j \in DOMAIN pieces[i] : \E k \in DOMAIN t :
                                t[k] = pieces[i][j]
    <2> HIDE DEF pieces, n
    <2> QED
        BY <1>4, <1>5, Flattened DEF Collects
<1> HIDE DEF t
<1>7. ASSUME NEW i \in 1..n, NEW x, x \notin Blanks, NumberPiece(s, i) = <<x>>
      PROVE  IsNonBlank(t)
    <2>1. pieces[i] = <<x>> /\ 1 \in DOMAIN <<x>> /\ <<x>>[1] = x
        BY <1>1, <1>7
    <2> HIDE DEF pieces
    <2>2. \E k \in DOMAIN t : t[k] = x
        BY <1>6, <2>1
    <2> QED
        BY <1>7, <2>2 DEF IsNonBlank
<1> DEFINE S == {i \in 1..n : IsNumber(s, i) => IsNonBlank(t)}
<1>8. ASSUME NEW i \in 1..n, \A j \in 1..i - 1 : j \in S PROVE i \in S
    <2> SUFFICES ASSUME IsNumber(s, i) PROVE IsNonBlank(t)
        OBVIOUS
    <2>1. CASE i > 1 /\ s[i - 1] \in Digits
        <3>1. i - 1 \in 1..i - 1 /\ i - 1 \in 1..n
            BY <2>1
        <3>2. IsNumber(s, i - 1)
            <4> SUFFICES ASSUME NEW j \in DOMAIN s, s[j] \in Letters
                         PROVE  \E k \in DOMAIN s : (k \in i - 1..j \/ k \in j..i - 1)
                                                     /\ s[k] \notin WordChars
                BY <2>1 DEF IsNumber
            <4>1. PICK k \in DOMAIN s : (k \in i..j \/ k \in j..i) /\ s[k] \notin WordChars
                BY DEF IsNumber
            <4>2. s[i] \in Digits /\ \A x \in Digits : x \in WordChars
                BY DEF IsNumber, WordChars
            <4>3. k # i
                BY <4>1, <4>2
            <4>4. k \in Nat /\ i \in Nat /\ j \in Nat
                BY <1>1
            <4>5. k \in i - 1..j \/ k \in j..i - 1
                BY <4>1, <4>3, <4>4
            <4> QED
                BY <4>1, <4>5
        <3> QED
            BY <1>8, <3>1, <3>2
    <2>2. CASE ~(i > 1 /\ s[i - 1] \in Digits)
        <3>1. NumberPiece(s, i) = <<"?">>
            BY <2>2 DEF NumberPiece
        <3>2. "?" \notin Blanks
            BY DEF Blanks
        <3> QED
            BY <1>7, <3>1, <3>2
    <2> QED
        BY <2>1, <2>2
<1>9. 1..n \subseteq S
    <2> HIDE DEF S, n
    <2> QED
        BY <1>1, <1>8, Ascending
<1>10. ASSUME IsNonBlank(s) PROVE IsNonBlank(t)
    <2>1. PICK i \in 1..n : s[i] \notin Blanks
        BY <1>1, <1>10 DEF IsNonBlank
    <2>2. CASE IsNumber(s, i)
        BY <1>9, <2>2
    <2>3. CASE ~IsNumber(s, i)
        <3>1. NumberPiece(s, i) = <<s[i]>>
            BY <2>3 DEF NumberPiece
        <3> HIDE DEF n
        <3> QED
            BY <1>7, <2>1, <3>1
    <2> QED
        BY <2>2, <2>3
<1> QED
    BY <1>6, <1>10 DEF Texts, t

LEMMA StripIs ==
    ASSUME NEW s \in Texts
    PROVE  Strip(s) \in Texts /\ (IsNonBlank(s) => IsNonBlank(Strip(s)))
<1> DEFINE n == Len(s)
           inked == {i \in DOMAIN s : s[i] \notin Blanks}
           first == Min(inked)
           final == Max(inked)
<1>1. n \in Nat /\ DOMAIN s = 1..n /\ <<>> \in Texts
    BY DEF Texts
<1>2. CASE inked = {}
    <2>1. Strip(s) = <<>>
        BY <1>2 DEF Strip
    <2> QED
        BY <1>1, <1>2, <2>1 DEF IsNonBlank
<1>3. CASE inked # {}
    <2>1. inked \subseteq 1..n /\ inked \subseteq Nat /\ IsFiniteSet(inked)
        BY <1>1, IntervalIs, FS_Subset
    <2> HIDE DEF inked, n
    <2>2. first \in inked /\ \A i \in inked : first <= i
        BY <1>3, <2>1, LeastIs
    <2>3. final \in inked /\ \A i \in inked : i <= final
        BY <1>1, <1>3, <2>1, GreatestIs
    <2> HIDE DEF first, final
    <2>4. first \in 1..n /\ final \in 1..n /\ first <= final
        BY <2>1, <2>2, <2>3
    <2>5. Strip(s) = SubSeq(s, first, final)
        BY <1>3 DEF Strip, inked, first, final
    <2> DEFINE t == SubSeq(s, first, final)
    <2>6. t \in Texts /\ 1 \in DOMAIN t /\ t[1] = s[first]
        BY <1>1, <2>4 DEF Texts, n
    <2>7. s[first] \notin Blanks
        BY <2>2 DEF inked
    <2> HIDE DEF t
    <2>8. IsNonBlank(t)
        BY <2>6, <2>7 DEF IsNonBlank
    <2> QED
        BY <2>5, <2>6, <2>8 DEF t
<1> QED
    BY <1>2, <1>3

LEMMA TruncatedIs ==
    ASSUME NEW s \in Texts, NEW m \in Nat, m >= Len(TRUNCATION_MARKER)
    PROVE  /\ truncate_str(s, m) \in Texts
           /\ IsNonBlank(s) => IsNonBlank(truncate_str(s, m))
<1>1. CASE Len(s) <= m
    BY <1>1 DEF truncate_str
<1>2. CASE ~(Len(s) <= m)
    <2>1. Len(TRUNCATION_MARKER) = 2 /\ TRUNCATION_MARKER \in Texts
        <3>1. " " \in Chars /\ "[truncated]" \in Chars
            BY CharsAre
        <3> QED
            BY <3>1, ShortTexts DEF TRUNCATION_MARKER
    <2> DEFINE kept == SubSeq(s, 1, m - 2)
    <2>2. Len(s) \in Nat /\ m - 2 \in 0..Len(s)
        BY <1>2, <2>1 DEF Texts
    <2>3. kept \in Texts
        BY <2>2 DEF Texts
    <2>4. truncate_str(s, m) = kept \o TRUNCATION_MARKER
        BY <1>2, <2>1 DEF truncate_str
    <2>5. IsNonBlank(TRUNCATION_MARKER)
        <3>1. 2 \in DOMAIN TRUNCATION_MARKER /\ TRUNCATION_MARKER[2] = "[truncated]"
            BY DEF TRUNCATION_MARKER
        <3>2. "[truncated]" \notin Blanks
            BY DEF Blanks
        <3> QED
            BY <3>1, <3>2 DEF IsNonBlank
    <2> HIDE DEF kept
    <2>6. kept \o TRUNCATION_MARKER \in Texts
        BY <2>1, <2>3 DEF Texts
    <2>7. IsNonBlank(kept \o TRUNCATION_MARKER)
        BY <2>1, <2>3, <2>5, InkOfEither
    <2> QED
        BY <2>4, <2>6, <2>7
<1> QED
    BY <1>1, <1>2

LEMMA CollapsedIs ==
    ASSUME NEW s \in Texts
    PROVE  /\ CollapseBlanks(s) \in Texts
           /\ IsNonBlank(s) => IsNonBlank(CollapseBlanks(s))
<1> DEFINE n == Len(s)
           piece(i) == IF s[i] \notin Blanks THEN <<s[i]>>
                       ELSE IF i > 1 /\ s[i - 1] \in Blanks THEN <<>> ELSE <<" ">>
           pieces == [i \in DOMAIN s |-> piece(i)]
           t == FlattenSeq(pieces)
<1>1. n \in Nat /\ DOMAIN s = 1..n /\ \A i \in 1..n : s[i] \in Chars
    BY DEF Texts
<1>2. \A i \in 1..n : piece(i) \in Texts
    <2>1. <<>> \in Texts
        BY DEF Texts
    <2>2. <<" ">> \in Texts
        BY CharsAre, ShortTexts
    <2>3. \A i \in 1..n : <<s[i]>> \in Texts
        BY <1>1, ShortTexts
    <2> QED
        BY <2>1, <2>2, <2>3
<1>3. pieces \in Seq(Seq(Chars)) /\ Len(pieces) = n
    <2> HIDE DEF piece
    <2>1. \A i \in 1..n : piece(i) \in Seq(Chars)
        BY <1>2 DEF Texts
    <2> QED
        BY <1>1, <2>1
<1>4. t \in Seq(Chars) /\ \A i \in 1..n : \A j \in DOMAIN pieces[i] : \E k \in DOMAIN t :
                                t[k] = pieces[i][j]
    <2> HIDE DEF pieces, n
    <2> QED
        BY <1>3, Flattened DEF Collects
<1>5. CollapseBlanks(s) = Strip(t)
    BY DEF CollapseBlanks
<1>6. ASSUME IsNonBlank(s) PROVE IsNonBlank(t)
    <2>1. PICK i \in 1..n : s[i] \notin Blanks
        BY <1>1, <1>6 DEF IsNonBlank
    <2>2. pieces[i] = <<s[i]>> /\ 1 \in DOMAIN <<s[i]>> /\ <<s[i]>>[1] = s[i]
        BY <1>1, <2>1
    <2> HIDE DEF pieces, t
    <2>3. \E k \in DOMAIN t : t[k] = s[i]
        BY <1>4, <2>2
    <2> QED
        BY <2>1, <2>3 DEF IsNonBlank
<1> HIDE DEF t
<1>7. t \in Texts
    BY <1>4 DEF Texts
<1> QED
    BY <1>5, <1>6, <1>7, StripIs

LEMMA RedactedIs ==
    ASSUME NEW s \in Texts, NEW dialect
    PROVE  /\ _redact_sql_fragments(s, dialect) \in Texts
           /\ IsNonBlank(s) => IsNonBlank(_redact_sql_fragments(s, dialect))
<1>1. PICK g : /\ IsFragments(g, s, dialect)
               /\ _redact_sql_fragments(s, dialect) = WithoutNumbers(g[1])
    BY FragmentsAre
<1>2. g[1] \in Texts
    <2>1. 1 \in 1..Len(s) + 1
        BY DEF Texts
    <2> QED
        BY <1>1, <2>1 DEF IsFragments
<1>3. IsNonBlank(s) => IsNonBlank(g[1])
    BY <1>1, FragmentsInk
<1> QED
    BY <1>1, <1>2, <1>3, NumbersInk

\* The fingerprint of a text that is not blank is not empty.
LEMMA FingerprintIs ==
    ASSUME NEW s \in Texts, IsNonBlank(s), NEW dialect
    PROVE  /\ make_sql_fingerprint(s, dialect) \in Texts
           /\ IsNonBlank(make_sql_fingerprint(s, dialect))
<1> DEFINE t == _redact_sql_fragments(s, dialect)
<1>1. t \in Texts /\ IsNonBlank(t)
    BY RedactedIs
<1>2. make_sql_fingerprint(s, dialect) = CollapseBlanks(t)
    BY DEF make_sql_fingerprint
<1> HIDE DEF t
<1> QED
    BY <1>1, <1>2, CollapsedIs

\* Nor is a statement blank once it is redacted, cut and stripped.
LEMMA StatementIs ==
    ASSUME NEW s \in Texts, IsNonBlank(s), NEW dialect,
           NEW m \in Nat, m >= Len(TRUNCATION_MARKER)
    PROVE  /\ Strip(redact_sql_statement(s, dialect, m)) \in Texts
           /\ IsNonBlank(Strip(redact_sql_statement(s, dialect, m)))
<1> DEFINE t == _redact_sql_fragments(s, dialect)
           u == truncate_str(t, m)
<1>1. t \in Texts /\ IsNonBlank(t)
    BY RedactedIs
<1> HIDE DEF t
<1>2. u \in Texts /\ IsNonBlank(u)
    BY <1>1, TruncatedIs
<1> HIDE DEF u
<1>3. Strip(u) \in Texts /\ IsNonBlank(Strip(u))
    BY <1>2, StripIs
<1> QED
    BY <1>3 DEF redact_sql_statement, t, u

-----------------------------------------------------------------------------
(* Redaction settles: what it has made of a text it leaves as it is. *)

\* t takes one item, in their order, of each sequence among the first m that is not empty.
Selects(at, t, seqs, m) ==
    /\ at \in [1..Len(t) -> 1..m]
    /\ \A p, q \in 1..Len(t) : p < q => at[p] < at[q]
    /\ \A p \in 1..Len(t) : seqs[at[p]] = <<t[p]>>
    /\ \A i \in 1..m : seqs[i] # <<>> => \E p \in 1..Len(t) : at[p] = i

LEMMA SelectsMore ==
    ASSUME NEW T, NEW seqs, NEW m \in Nat,
           seqs[m + 1] = <<>> \/ \E x \in T : seqs[m + 1] = <<x>>,
           NEW t \in Seq(T), NEW at, Selects(at, t, seqs, m)
    PROVE  \E b : Selects(b, t \o seqs[m + 1], seqs, m + 1)
<1> DEFINE L == Len(t)
<1>1. /\ at \in [1..L -> 1..m]
      /\ \A p, q \in 1..L : p < q => at[p] < at[q]
      /\ \A p \in 1..L : seqs[at[p]] = <<t[p]>>
      /\ \A i \in 1..m : seqs[i] # <<>> => \E p \in 1..L : at[p] = i
    BY DEF Selects
<1>2. L \in Nat /\ DOMAIN at = 1..L /\ \A p \in 1..L : at[p] \in 1..m
    BY <1>1
<1>3. CASE seqs[m + 1] = <<>>
    <2>1. t \o seqs[m + 1] = t
        BY <1>3
    <2>2. \A i \in 1..m + 1 : i \in 1..m \/ i = m + 1
        OBVIOUS
    <2>3. at \in [1..L -> 1..m + 1]
        <3>1. \A i \in 1..m : i \in 1..m + 1
            OBVIOUS
        <3> QED
            BY <1>1, <3>1
    <2>4. Selects(at, t, seqs, m + 1)
        BY <1>1, <1>3, <2>2, <2>3 DEF Selects
    <2> QED
        BY <2>1, <2>4
<1>4. ASSUME NEW x \in T, seqs[m + 1] = <<x>>
      PROVE  \E b : Selects(b, t \o seqs[m + 1], seqs, m + 1)
    <2> DEFINE u == t \o <<x>>
               b == [p \in 1..L + 1 |-> IF p = L + 1 THEN m + 1 ELSE at[p]]
    <2>1. Len(u) = L + 1 /\ u[L + 1] = x /\ \A p \in 1..L : u[p] = t[p]
        OBVIOUS
    <2> HIDE DEF L, u
    <2>2. /\ \A p \in 1..L + 1 : p \in 1..L \/ p = L + 1
          /\ \A p \in 1..L : p # L + 1 /\ p \in 1..L + 1 /\ p < L + 1 /\ ~(L + 1 < p)
          /\ L + 1 \in 1..L + 1 /\ ~(L + 1 < L + 1)
          /\ m + 1 \in 1..m + 1
          /\ \A i \in 1..m : i \in 1..m + 1 /\ i < m + 1
          /\ \A i \in 1..m + 1 : i \in 1..m \/ i = m + 1
        BY <1>2
    <2>3. b[L + 1] = m + 1 /\ \A p \in 1..L : b[p] = at[p]
        BY <2>2
    <2>4. b \in [1..L + 1 -> 1..m + 1]
        <3>1. \A p \in 1..L + 1 : b[p] \in 1..m + 1
            <4> HIDE DEF b
            <4> QED
                BY <1>2, <2>2, <2>3
        <3> QED
            BY <3>1
    <2> HIDE DEF b
    <2>5. ASSUME NEW p \in 1..L + 1, NEW q \in 1..L + 1, p < q PROVE b[p] < b[q]
        <3>1. CASE q = L + 1
            <4>1. p \in 1..L
                BY <2>2, <2>5, <3>1
            <4>2. at[p] < m + 1
                BY <1>2, <2>2, <4>1
            <4> QED
                BY <2>3, <3>1, <4>1, <4>2
        <3>2. CASE q \in 1..L
            <4>1. p \in 1..L
                BY <2>2, <2>5, <3>2
            <4> QED
                BY <1>1, <2>3, <2>5, <3>2, <4>1
        <3> QED
            BY <2>2, <3>1, <3>2
    <2>6. \A p \in 1..L + 1 : seqs[b[p]] = <<u[p]>>
        <3>1. \A p \in 1..L : seqs[b[p]] = <<u[p]>>
            BY <1>1, <2>1, <2>3
        <3>2. seqs[b[L + 1]] = <<u[L + 1]>>
            BY <1>4, <2>1, <2>3
        <3> QED
            BY <2>2, <3>1, <3>2
    <2>7. ASSUME NEW i \in 1..m + 1, seqs[i] # <<>> PROVE \E p \in 1..L + 1 : b[p] = i
        <3>1. CASE i = m + 1
            BY <2>2, <2>3, <3>1
        <3>2. CASE i \in 1..m
            <4>1. PICK p \in 1..L : at[p] = i
                BY <1>1, <2>7, <3>2
            <4> QED
                BY <2>2, <2>3, <4>1
        <3> QED
            BY <2>2, <3>1, <3>2
    <2>8. Selects(b, u, seqs, m + 1)
        BY <2>1, <2>4, <2>5, <2>6, <2>7 DEF Selects
    <2> QED
        BY <1>4, <2>8 DEF u
<1> QED
    BY <1>3, <1>4

\* FlattenSeq of sequences of at most one item each.
LEMMA Selected ==
    ASSUME NEW T, NEW seqs \in Seq(Seq(T)),
           \A i \in DOMAIN seqs : seqs[i] = <<>> \/ \E x \in T : seqs[i] = <<x>>
    PROVE  /\ FlattenSeq(seqs) \in Seq(T)
           /\ \E at : Selects(at, FlattenSeq(seqs), seqs, Len(seqs))
<1> DEFINE n == Len(seqs)
           flat == FlattenSeq(seqs)
<1>1. PICK g : /\ \A i \in 1..n : g[i] = IF i = 1 THEN seqs[i] ELSE g[i - 1] \o seqs[i]
               /\ flat = IF n = 0 THEN <<>> ELSE g[n]
    BY FlattenIs
<1> DEFINE part(m) == IF m = 0 THEN <<>> ELSE g[m]
           Picked(m) == \E at : Selects(at, part(m), seqs, m)
           S == {m \in 0..n : part(m) \in Seq(T) /\ Picked(m)}
<1>2. n \in Nat
    OBVIOUS
<1>3. 0 \in S
    <2> DEFINE at == [p \in 1..0 |-> 1]
    <2>1. Selects(at, <<>>, seqs, 0)
        BY DEF Selects
    <2> HIDE DEF at
    <2>2. Picked(0)
        BY <2>1
    <2> HIDE DEF Picked
    <2>3. part(0) \in Seq(T)
        OBVIOUS
    <2> QED
        BY <1>2, <2>2, <2>3
<1>4. ASSUME NEW m \in 0..n - 1, m \in S PROVE m + 1 \in S
    <2>1. part(m) \in Seq(T) /\ Picked(m)
        <3> HIDE DEF Picked, part
        <3> QED
            BY <1>4
    <2>2. m + 1 \in DOMAIN seqs /\ seqs[m + 1] \in Seq(T) /\ m \in Nat /\ m + 1 \in 1..n
          /\ m + 1 \in 0..n /\ (m + 1) - 1 = m /\ m + 1 # 0
        OBVIOUS
    <2>3. seqs[m + 1] = <<>> \/ \E x \in T : seqs[m + 1] = <<x>>
        BY <2>2
    <2>4. part(m + 1) = part(m) \o seqs[m + 1]
        <3>1. g[m + 1] = IF m + 1 = 1 THEN seqs[m + 1] ELSE g[m] \o seqs[m + 1]
            BY <1>1, <2>2
        <3>2. <<>> \o seqs[m + 1] = seqs[m + 1]
            BY <2>2
        <3>3. CASE m = 0
            BY <2>2, <3>1, <3>2, <3>3
        <3>4. CASE m # 0
            <4>1. part(m + 1) = g[m + 1] /\ part(m) = g[m] /\ m + 1 # 1
                BY <2>2, <3>4
            <4> HIDE DEF part
            <4> QED
                BY <3>1, <4>1
        <3> QED
            BY <3>3, <3>4
    <2> HIDE DEF part
    <2>5. PICK at : Selects(at, part(m), seqs, m)
        BY <2>1
    <2>6. \E b : Selects(b, part(m) \o seqs[m + 1], seqs, m + 1)
        BY <2>1, <2>2, <2>3, <2>5, SelectsMore
    <2>7. part(m + 1) \in Seq(T) /\ Picked(m + 1)
        <3>1. part(m) \o seqs[m + 1] \in Seq(T)
            BY <2>1, <2>2
        <3> QED
            BY <2>4, <2>6, <3>1
    <2> HIDE DEF Picked
    <2> QED
        BY <2>2, <2>7
<1> HIDE DEF S
<1>5. n \in S
    BY <1>2, <1>3, <1>4, Induction
<1>6. part(n) \in Seq(T) /\ Picked(n)
    <2> HIDE DEF part, Picked
    <2> QED
        BY <1>5 DEF S
<1>7. part(n) = flat
    BY <1>1, <1>2
<1> HIDE DEF part, flat
<1> QED
    BY <1>6, <1>7 DEF flat

\* A tag opens at i.
HasTag(s, i) ==
    /\ s[i] = "$"
    /\ \E j \in i + 1..Len(s) :
        s[j] = "$" /\ s[i + 1] \notin Digits /\ \A k \in i + 1..j - 1 : s[k] \in WordChars

LEMMA PlainIs ==
    ASSUME NEW s \in Texts, NEW dialect, NEW i \in 1..Len(s)
    PROVE  IsPlain(s, dialect, i) <=>
                /\ ~(i + 1 <= Len(s) /\ s[i] = "-" /\ s[i + 1] = "-")
                /\ ~(s[i] = "#" /\ dialect \in HashDialects)
                /\ ~(i + 1 <= Len(s) /\ s[i] = "/" /\ s[i + 1] = "*")
                /\ s[i] \notin Quotes /\ ~HasTag(s, i)
<1>1. i \in Nat
    BY DEF Texts
<1>2. /\ StartsWith(s, i, <<"-", "-">>) <=> i + 1 <= Len(s) /\ s[i] = "-" /\ s[i + 1] = "-"
      /\ StartsWith(s, i, <<"/", "*">>) <=> i + 1 <= Len(s) /\ s[i] = "/" /\ s[i + 1] = "*"
    BY <1>1, StartsAt
<1>3. TagEnds(s, i) = {} <=> ~HasTag(s, i)
    BY DEF TagEnds, HasTag
<1> QED
    BY <1>2, <1>3 DEF IsPlain

\* u is the part of s behind its first m characters, or the beginning of that part.
IsPart(u, s, m) ==
    m + Len(u) <= Len(s) /\ \A j \in 1..Len(u) : s[m + j] = u[j]

LEMMA PlainInPart ==
    ASSUME NEW s \in Texts, NEW u \in Texts, NEW m \in Nat, IsPart(u, s, m),
           NEW dialect, NEW i \in 1..Len(u), IsPlain(s, dialect, m + i)
    PROVE  IsPlain(u, dialect, i)
<1> DEFINE n == Len(s)
           l == Len(u)
<1>1. n \in Nat /\ l \in Nat /\ m + l <= n /\ \A j \in 1..l : s[m + j] = u[j]
    BY DEF Texts, IsPart
<1> HIDE DEF n, l
<1>2. i \in 1..l /\ m + i \in 1..n /\ s[m + i] = u[i]
    BY <1>1 DEF l
<1>3. i + 1 <= l => i + 1 \in 1..l /\ m + i + 1 <= n /\ s[m + i + 1] = u[i + 1]
    <2> SUFFICES ASSUME i + 1 <= l
                 PROVE  i + 1 \in 1..l /\ m + i + 1 <= n /\ s[m + i + 1] = u[i + 1]
        OBVIOUS
    <2>1. i + 1 \in 1..l /\ m + (i + 1) = m + i + 1 /\ m + i + 1 <= n
        BY <1>1, <1>2
    <2>2. s[m + (i + 1)] = u[i + 1]
        BY <1>1, <2>1
    <2> QED
        BY <2>1, <2>2
<1>4. /\ ~(m + i + 1 <= n /\ s[m + i] = "-" /\ s[m + i + 1] = "-")
      /\ ~(s[m + i] = "#" /\ dialect \in HashDialects)
      /\ ~(m + i + 1 <= n /\ s[m + i] = "/" /\ s[m + i + 1] = "*")
      /\ s[m + i] \notin Quotes /\ ~HasTag(s, m + i)
    BY <1>2, PlainIs DEF n
<1>5. ~HasTag(u, i)
    <2> SUFFICES ASSUME u[i] = "$", NEW j \in i + 1..l, u[j] = "$", u[i + 1] \notin Digits,
                        \A k \in i + 1..j - 1 : u[k] \in WordChars
                 PROVE  HasTag(s, m + i)
        BY <1>4 DEF HasTag, l
    <2>1. j \in 1..l /\ m + j \in m + i + 1..n /\ i + 1 <= l
        BY <1>1, <1>2
    <2>2. s[m + j] = "$" /\ s[m + i] = "$" /\ s[m + i + 1] \notin Digits
        BY <1>1, <1>2, <1>3, <2>1
    <2>3. \A k \in m + i + 1..m + j - 1 : s[k] \in WordChars
        <3> SUFFICES ASSUME NEW k \in m + i + 1..m + j - 1 PROVE s[k] \in WordChars
            OBVIOUS
        <3>1. k - m \in i + 1..j - 1 /\ k - m \in 1..l /\ m + (k - m) = k
            BY <1>1, <1>2, <2>1
        <3>2. s[m + (k - m)] = u[k - m]
            BY <1>1, <3>1
        <3> QED
            BY <3>1, <3>2
    <2> QED
        BY <2>1, <2>2, <2>3 DEF HasTag, n
<1> QED
    BY <1>2, <1>3, <1>4, <1>5, PlainIs DEF l

LEMMA PlainOfPart ==
    ASSUME NEW s \in Texts, NEW u \in Texts, NEW m \in Nat, IsPart(u, s, m),
           m + Len(u) = Len(s), NEW dialect, NEW i \in 1..Len(u), IsPlain(u, dialect, i)
    PROVE  IsPlain(s, dialect, m + i)
<1> DEFINE n == Len(s)
           l == Len(u)
<1>1. n \in Nat /\ l \in Nat /\ m + l = n /\ \A j \in 1..l : s[m + j] = u[j]
    BY DEF Texts, IsPart
<1> HIDE DEF n, l
<1>2. i \in 1..l /\ m + i \in 1..n /\ s[m + i] = u[i]
    BY <1>1 DEF l
<1>3. m + i + 1 <= n => i + 1 <= l /\ s[m + i + 1] = u[i + 1]
    <2> SUFFICES ASSUME m + i + 1 <= n PROVE i + 1 <= l /\ s[m + i + 1] = u[i + 1]
        OBVIOUS
    <2>1. i + 1 \in 1..l /\ m + (i + 1) = m + i + 1
        BY <1>1, <1>2
    <2>2. s[m + (i + 1)] = u[i + 1]
        BY <1>1, <2>1
    <2> QED
        BY <1>1, <2>1, <2>2
<1>4. /\ ~(i + 1 <= l /\ u[i] = "-" /\ u[i + 1] = "-")
      /\ ~(u[i] = "#" /\ dialect \in HashDialects)
      /\ ~(i + 1 <= l /\ u[i] = "/" /\ u[i + 1] = "*")
      /\ u[i] \notin Quotes /\ ~HasTag(u, i)
    BY <1>2, PlainIs DEF l
<1>5. ~HasTag(s, m + i)
    <2> SUFFICES ASSUME s[m + i] = "$", NEW j \in m + i + 1..n, s[j] = "$",
                        s[m + i + 1] \notin Digits,
                        \A k \in m + i + 1..j - 1 : s[k] \in WordChars
                 PROVE  HasTag(u, i)
        BY <1>4 DEF HasTag, n
    <2>1. j - m \in i + 1..l /\ j - m \in 1..l /\ m + (j - m) = j /\ m + i + 1 <= n
        BY <1>1, <1>2
    <2>2. u[j - m] = "$" /\ u[i] = "$" /\ u[i + 1] \notin Digits
        <3>1. s[m + (j - m)] = u[j - m]
            BY <1>1, <2>1
        <3> QED
            BY <1>2, <1>3, <2>1, <3>1
    <2>3. \A k \in i + 1..(j - m) - 1 : u[k] \in WordChars
        <3> SUFFICES ASSUME NEW k \in i + 1..(j - m) - 1 PROVE u[k] \in WordChars
            OBVIOUS
        <3>1. m + k \in m + i + 1..j - 1 /\ k \in 1..l
            BY <1>1, <1>2, <2>1
        <3>2. s[m + k] = u[k]
            BY <1>1, <3>1
        <3> QED
            BY <3>1, <3>2
    <2> QED
        BY <2>1, <2>2, <2>3 DEF HasTag, l
<1> QED
    BY <1>2, <1>3, <1>4, <1>5, PlainIs DEF n

\* The constructs as redaction writes them: a block comment at i, a line comment at i
\* that the scanner goes on behind at k.
IsBlock(s, i) ==
    /\ i + 4 <= Len(s) /\ s[i] = "/" /\ s[i + 1] = "*" /\ s[i + 2] = REDACTED
    /\ s[i + 3] = "*" /\ s[i + 4] = "/"

\* r is where the text of the line comment is.
IsMarked(s, dialect, i, r) ==
    \/ r = i + 2 /\ s[i] = "-" /\ s[i + 1] = "-"
    \/ r = i + 1 /\ s[i] = "#" /\ dialect \in HashDialects

IsLine(s, dialect, i, k) ==
    \E r \in i + 1..Len(s) :
        /\ IsMarked(s, dialect, i, r) /\ s[r] = REDACTED
        /\ \/ r = Len(s) /\ k = r + 1
           \/ r < Len(s) /\ s[r + 1] = "\n" /\ k = r + 2

\* What is at i the scanner leaves as it is, and goes on at k.
Leaves(s, dialect, i, k) ==
    \/ IsPlain(s, dialect, i) /\ k = i + 1
    \/ IsBlock(s, i) /\ k = i + 5
    \/ IsLine(s, dialect, i, k)

\* The scanner visits the positions P, and leaves the text as it is.
SteadyBy(P, s, dialect) ==
    /\ 1 \in P /\ P \subseteq 1..Len(s) + 1
    /\ \A i \in P : i <= Len(s) => \E k \in P : k > i /\ Leaves(s, dialect, i, k)

Steady(s, dialect) == \E P : SteadyBy(P, s, dialect)

LEMMA MarkersDiffer ==
    /\ REDACTED # "\n" /\ REDACTED # "*" /\ REDACTED # "/"
    /\ REDACTED \notin WordChars /\ REDACTED # "$"
BY DEF REDACTED, WordChars, Letters, Digits

\* Where the scanner's markers are.
LEMMA MarkersAt ==
    ASSUME NEW s, NEW i \in Nat
    PROVE  /\ StartsWith(s, i, <<"-", "-">>) <=> i + 1 <= Len(s) /\ s[i] = "-" /\ s[i + 1] = "-"
           /\ StartsWith(s, i, <<"/", "*">>) <=> i + 1 <= Len(s) /\ s[i] = "/" /\ s[i + 1] = "*"
           /\ StartsWith(s, i, <<"*", "/">>) <=> i + 1 <= Len(s) /\ s[i] = "*" /\ s[i + 1] = "/"
           /\ StartsWith(s, i, <<"\n">>) <=> i <= Len(s) /\ s[i] = "\n"
BY StartsAt

LEMMA ShortParts ==
    ASSUME NEW s \in Texts, NEW i \in 1..Len(s)
    PROVE  /\ SubSeq(s, i, i) = <<s[i]>>
           /\ i + 1 <= Len(s) => SubSeq(s, i, i + 1) = <<s[i], s[i + 1]>>
<1>1. i \in Nat /\ i >= 1 /\ i <= Len(s) /\ Len(s) \in Nat /\ s \in Seq(Chars)
    BY DEF Texts
<1>2. SubSeq(s, i, i) = <<s[i]>>
    <2> DEFINE t == SubSeq(s, i, i)
    <2>1. t \in Seq(Chars) /\ Len(t) = 1 /\ \A j \in 1..1 : t[j] = s[i + j - 1]
        BY <1>1
    <2> HIDE DEF t
    <2>2. t[1] = s[i]
        <3>1. 1 \in 1..1 /\ i + 1 - 1 = i
            BY <1>1
        <3> QED
            BY <2>1, <3>1
    <2>3. t = <<t[1]>>
        BY <2>1
    <2> QED
        BY <2>2, <2>3 DEF t
<1>3. ASSUME i + 1 <= Len(s) PROVE SubSeq(s, i, i + 1) = <<s[i], s[i + 1]>>
    <2> DEFINE t == SubSeq(s, i, i + 1)
    <2>1. t \in Seq(Chars) /\ Len(t) = 2 /\ \A j \in 1..2 : t[j] = s[i + j - 1]
        BY <1>1, <1>3
    <2> HIDE DEF t
    <2>2. t[1] = s[i] /\ t[2] = s[i + 1]
        <3>1. 1 \in 1..2 /\ 2 \in 1..2 /\ i + 1 - 1 = i /\ i + 2 - 1 = i + 1
            BY <1>1
        <3> QED
            BY <2>1, <3>1
    <2>3. t = <<t[1], t[2]>>
        BY <2>1
    <2> QED
        BY <2>2, <2>3 DEF t
<1> QED
    BY <1>2, <1>3

LEMMA LeavesIs ==
    ASSUME NEW s \in Texts, NEW dialect, NEW i \in 1..Len(s), NEW k, k > i,
           Leaves(s, dialect, i, k)
    PROVE  /\ k \in i + 1..Len(s) + 1
           /\ Scan(s, dialect, i).text = SubSeq(s, i, k - 1)
           /\ Scan(s, dialect, i).next = k
<1> DEFINE n == Len(s)
           here == Scan(s, dialect, i)
<1>1. n \in Nat /\ i \in 1..n /\ i \in Nat /\ s \in Seq(Chars)
    BY DEF Texts
<1>2. CASE IsPlain(s, dialect, i) /\ k = i + 1
    <2>1. here.text = <<s[i]>> /\ here.next = i + 1
        BY <1>2, ScanCases DEF Written
    <2>2. SubSeq(s, i, i) = <<s[i]>>
        BY ShortParts
    <2>3. k - 1 = i /\ k \in i + 1..n + 1
        BY <1>1, <1>2
    <2> HIDE DEF here
    <2>4. here.text = SubSeq(s, i, k - 1) /\ here.next = k
        BY <1>2, <2>1, <2>2, <2>3
    <2> QED
        BY <2>3, <2>4 DEF here
<1>3. CASE IsBlock(s, i) /\ k = i + 5
    <2> DEFINE found == {j \in i + 2..n : StartsWith(s, j, <<"*", "/">>)}
    <2>1. /\ i + 4 <= n /\ s[i] = "/" /\ s[i + 1] = "*" /\ s[i + 2] = REDACTED
          /\ s[i + 3] = "*" /\ s[i + 4] = "/"
        BY <1>3 DEF IsBlock
    <2>2. StartsWith(s, i, <<"/", "*">>)
        BY <1>1, <2>1, MarkersAt
    <2>3. i + 3 \in found
        <3>1. i + 3 \in Nat /\ i + 3 \in i + 2..n /\ (i + 3) + 1 = i + 4
            BY <1>1, <2>1
        <3> QED
            BY <2>1, <3>1, MarkersAt
    <2>4. i + 2 \notin found
        <3>1. i + 2 \in Nat
            BY <1>1
        <3> QED
            BY <2>1, <3>1, MarkersDiffer, MarkersAt
    <2>5. found \subseteq Nat /\ IsFiniteSet(found)
        <3>1. found \subseteq 1..n /\ IsFiniteSet(1..n)
            BY <1>1, IntervalIs
        <3> QED
            BY <3>1, FS_Subset
    <2> HIDE DEF found
    <2>6. Min(found) \in found /\ Min(found) <= i + 3
        BY <2>3, <2>5, LeastIs
    <2>7. Min(found) = i + 3
        <3>1. Min(found) \in i + 2..n /\ Min(found) # i + 2
            BY <2>4, <2>6 DEF found
        <3> QED
            BY <1>1, <2>6, <3>1
    <2>8. After(s, <<"*", "/">>, i + 2) = i + 5
        <3>1. After(s, <<"*", "/">>, i + 2) = Min(found) + 2
            BY <2>3 DEF After, found
        <3> QED
            BY <1>1, <2>7, <3>1
    <2>9. here = _redact_block_comment(s, i)
        BY <2>2, ScanCases
    <2>10. SubSeq(s, i, i + 4) = <<"/", "*", REDACTED, "*", "/">>
        <3> DEFINE t == SubSeq(s, i, i + 4)
        <3>1. t \in Seq(Chars) /\ Len(t) = 5 /\ \A j \in 1..5 : t[j] = s[i + j - 1]
            BY <1>1, <2>1
        <3> HIDE DEF t
        <3>2. t[1] = s[i] /\ t[2] = s[i + 1] /\ t[3] = s[i + 2] /\ t[4] = s[i + 3] /\ t[5] = s[i + 4]
            <4>1. /\ i + 1 - 1 = i /\ i + 2 - 1 = i + 1 /\ i + 3 - 1 = i + 2
                  /\ i + 4 - 1 = i + 3 /\ i + 5 - 1 = i + 4
                  /\ 1 \in 1..5 /\ 2 \in 1..5 /\ 3 \in 1..5 /\ 4 \in 1..5 /\ 5 \in 1..5
                BY <1>1
            <4> QED
                BY <3>1, <4>1
        <3>3. t = <<t[1], t[2], t[3], t[4], t[5]>>
            BY <3>1
        <3>4. t = <<"/", "*", REDACTED, "*", "/">>
            BY <2>1, <3>2, <3>3
        <3> QED
            BY <3>4 DEF t
    <2>11. k - 1 = i + 4 /\ k \in i + 1..n + 1
        BY <1>1, <1>3, <2>1
    <2>12. here.text = <<"/", "*", REDACTED, "*", "/">> /\ here.next = i + 5
        BY <2>8, <2>9 DEF _redact_block_comment, Written
    <2> HIDE DEF here
    <2>13. here.text = SubSeq(s, i, k - 1) /\ here.next = k
        BY <1>3, <2>10, <2>11, <2>12
    <2> QED
        BY <2>11, <2>13 DEF here
<1>4. CASE IsLine(s, dialect, i, k)
    <2>1. PICK r \in i + 1..n :
            /\ IsMarked(s, dialect, i, r) /\ s[r] = REDACTED
            /\ \/ r = n /\ k = r + 1
               \/ r < n /\ s[r + 1] = "\n" /\ k = r + 2
        BY <1>4 DEF IsLine
    <2>2. r \in Nat /\ r \in 1..n
        BY <1>1
    <2> DEFINE found == {j \in r..n : StartsWith(s, j, <<"\n">>)}
               next == After(s, <<"\n">>, r)
    <2>3. \A j \in found : j \in r..n /\ s[j] = "\n"
        BY <2>2, StartsAt
    <2>4. r \notin found
        BY <2>1, <2>3, MarkersDiffer
    <2>5. next = IF found = {} THEN n + 1 ELSE Min(found) + 1
        BY DEF After
    <2>6. next = k /\ (k = r + 2 => s[k - 1] = "\n") /\ (k = r + 1 => s[k - 1] # "\n")
        <3>1. CASE r = n /\ k = r + 1
            <4>1. found = {}
                BY <2>2, <2>3, <2>4, <3>1
            <4>2. k - 1 = r /\ k # r + 2
                BY <2>2, <3>1
            <4> QED
                BY <2>1, <2>5, <3>1, <4>1, <4>2, MarkersDiffer
        <3>2. CASE r < n /\ s[r + 1] = "\n" /\ k = r + 2
            <4>1. r + 1 \in found
                <5>1. r + 1 \in Nat /\ r + 1 \in r..n /\ r + 1 <= n
                    BY <1>1, <2>2, <3>2
                <5> QED
                    BY <3>2, <5>1, StartsAt
            <4>2. found \subseteq Nat /\ IsFiniteSet(found)
                <5>1. found \subseteq 1..n /\ IsFiniteSet(1..n)
                    BY <1>1, <2>2, IntervalIs
                <5> QED
                    BY <5>1, FS_Subset
            <4> HIDE DEF found
            <4>3. Min(found) \in found /\ Min(found) <= r + 1
                BY <4>1, <4>2, LeastIs
            <4>4. Min(found) = r + 1
                <5>1. Min(found) \in r..n /\ Min(found) # r
                    BY <2>3, <2>4, <4>3
                <5> QED
                    BY <2>2, <4>3, <5>1
            <4>5. next = r + 2
                <5>1. next = Min(found) + 1
                    BY <2>5, <4>1
                <5> QED
                    BY <2>2, <4>4, <5>1
            <4>6. k - 1 = r + 1 /\ k # r + 1
                BY <2>2, <3>2
            <4> QED
                BY <3>2, <4>5, <4>6
        <3> QED
            BY <2>1, <3>1, <3>2
    <2>7. k \in i + 1..n + 1
        BY <1>1, <2>1, <2>2
    <2> HIDE DEF next, found
    <2>8. ASSUME NEW marker \in Texts, i + Len(marker) = r, marker = SubSeq(s, i, r - 1),
                 here = _redact_line_comment(s, i, marker)
          PROVE  here.text = SubSeq(s, i, k - 1) /\ here.next = k
        <3> DEFINE line == marker \o <<REDACTED>>
        <3>1. here.next = next /\ here.text = IF s[next - 1] = "\n" THEN Append(line, "\n") ELSE line
            BY <2>8 DEF _redact_line_comment, Written, next
        <3>2. line = SubSeq(s, i, r)
            <4>1. SubSeq(s, i, r - 1) \o <<s[r]>> = SubSeq(s, i, r)
                BY <1>1, <2>2
            <4> QED
                BY <2>1, <2>8, <4>1
        <3>3. r < n /\ s[r + 1] = "\n" => Append(line, "\n") = SubSeq(s, i, r + 1)
            <4>1. r < n => Append(SubSeq(s, i, r), s[r + 1]) = SubSeq(s, i, r + 1)
                BY <1>1, <2>2
            <4> HIDE DEF line
            <4> QED
                BY <3>2, <4>1
        <3> HIDE DEF here, line
        <3>4. CASE r = n /\ k = r + 1
            <4>1. k - 1 = r
                BY <2>2, <3>4
            <4> QED
                BY <2>6, <3>1, <3>2, <3>4, <4>1
        <3>5. CASE r < n /\ s[r + 1] = "\n" /\ k = r + 2
            <4>1. k - 1 = r + 1
                BY <2>2, <3>5
            <4> QED
                BY <2>6, <3>1, <3>3, <3>5, <4>1
        <3> QED
            BY <2>1, <3>4, <3>5
    <2>9. CASE r = i + 2 /\ s[i] = "-" /\ s[i + 1] = "-"
        <3>1. StartsWith(s, i, <<"-", "-">>)
            <4>1. i + 1 <= n
                BY <1>1, <2>2, <2>9
            <4> QED
                BY <1>1, <2>9, <4>1, StartsAt
        <3>2. here = _redact_line_comment(s, i, <<"-", "-">>)
            BY <3>1, ScanCases
        <3>3. <<"-", "-">> = SubSeq(s, i, r - 1)
            <4>1. SubSeq(s, i, i + 1) = <<s[i], s[i + 1]>>
                <5>1. i + 1 <= n
                    BY <1>1, <2>2, <2>9
                <5> QED
                    BY <5>1, ShortParts
            <4>2. r - 1 = i + 1
                BY <1>1, <2>9
            <4> QED
                BY <2>9, <4>1, <4>2
        <3>4. <<"-", "-">> \in Texts /\ i + Len(<<"-", "-">>) = r
            BY <1>1, <2>9, Markers
        <3> HIDE DEF here
        <3> QED
            BY <2>7, <2>8, <3>2, <3>3, <3>4 DEF here
    <2>10. CASE r = i + 1 /\ s[i] = "#" /\ dialect \in HashDialects
        <3>2. here = _redact_line_comment(s, i, <<"#">>)
            BY <2>10, ScanCases
        <3>3. <<"#">> = SubSeq(s, i, r - 1)
            <4>1. SubSeq(s, i, i) = <<s[i]>>
                BY ShortParts
            <4>2. r - 1 = i
                BY <1>1, <2>10
            <4> QED
                BY <2>10, <4>1, <4>2
        <3>4. <<"#">> \in Texts /\ i + Len(<<"#">>) = r
            BY <1>1, <2>10, Markers
        <3> HIDE DEF here
        <3> QED
            BY <2>7, <2>8, <3>2, <3>3, <3>4 DEF here
    <2> QED
        BY <2>1, <2>9, <2>10 DEF IsMarked
<1> QED
    BY <1>2, <1>3, <1>4 DEF Leaves

\* The scanner leaves a steady text as it is.
LEMMA SteadyIs ==
    ASSUME NEW s \in Texts, NEW dialect, Steady(s, dialect),
           NEW g, IsFragments(g, s, dialect)
    PROVE  g[1] = s
<1> DEFINE n == Len(s)
           here(i) == Scan(s, dialect, i)
<1>1. n \in Nat /\ s \in Seq(Chars)
    BY DEF Texts
<1>2. PICK P : /\ 1 \in P /\ P \subseteq 1..n + 1
               /\ \A i \in P : i <= n => \E k \in P : k > i /\ Leaves(s, dialect, i, k)
    BY DEF Steady, SteadyBy
<1>3. ASSUME NEW i \in P, i <= n
      PROVE  \E k \in P : /\ k \in i + 1..n + 1
                          /\ here(i).text = SubSeq(s, i, k - 1) /\ here(i).next = k
    <2>1. PICK k \in P : k > i /\ Leaves(s, dialect, i, k)
        BY <1>2, <1>3
    <2>2. i \in 1..n
        BY <1>1, <1>2, <1>3
    <2>3. /\ k \in i + 1..n + 1
          /\ here(i).text = SubSeq(s, i, k - 1) /\ here(i).next = k
        BY <2>1, <2>2, LeavesIs
    <2> QED
        BY <2>3
<1>4. g[n + 1] = <<>> /\ \A i \in 1..n : g[i] = here(i).text \o g[here(i).next]
    BY DEF IsFragments
<1> HIDE DEF here, n
<1> DEFINE S == {i \in 1..n + 1 : i \in P => g[i] = SubSeq(s, i, n)}
<1>5. ASSUME NEW i \in 1..n + 1, \A j \in i + 1..n + 1 : j \in S PROVE i \in S
    <2> SUFFICES ASSUME i \in P PROVE g[i] = SubSeq(s, i, n)
        OBVIOUS
    <2>1. CASE i = n + 1
        <3>1. SubSeq(s, n + 1, n) = <<>>
            BY <1>1 DEF n
        <3> QED
            BY <1>4, <2>1, <3>1
    <2>2. CASE i <= n
        <3>1. PICK k \in P : /\ k \in i + 1..n + 1
                             /\ here(i).text = SubSeq(s, i, k - 1) /\ here(i).next = k
            BY <1>3, <2>2
        <3>2. g[k] = SubSeq(s, k, n)
            BY <1>5, <3>1
        <3>3. i \in 1..n
            BY <1>1, <2>2
        <3>4. g[i] = SubSeq(s, i, k - 1) \o SubSeq(s, k, n)
            BY <1>4, <3>1, <3>2, <3>3
        <3>5. SubSeq(s, i, k - 1) \o SubSeq(s, k, n) = SubSeq(s, i, n)
            BY <1>1, <3>1, <3>3 DEF n
        <3> QED
            BY <3>4, <3>5
    <2> QED
        BY <1>1, <2>1, <2>2
<1>6. 1..n + 1 \subseteq S
    <2> HIDE DEF S
    <2>1. n + 1 \in Nat
        BY <1>1
    <2> QED
        BY <1>5, <2>1, Descending
<1>7. 1 \in S
    BY <1>1, <1>6
<1>8. SubSeq(s, 1, n) = s
    BY <1>1 DEF n
<1> QED
    BY <1>2, <1>7, <1>8

LEMMA LeavesOfPart ==
    ASSUME NEW s \in Texts, NEW u \in Texts, NEW m \in Nat, IsPart(u, s, m),
           m + Len(u) = Len(s), NEW dialect, NEW i \in 1..Len(u), NEW k \in Int,
           Leaves(u, dialect, i, k)
    PROVE  Leaves(s, dialect, m + i, m + k)
<1> DEFINE n == Len(s)
           l == Len(u)
<1>1. n \in Nat /\ l \in Nat /\ m + l = n /\ \A j \in 1..l : s[m + j] = u[j]
    BY DEF Texts, IsPart
<1>2. CASE IsPlain(u, dialect, i) /\ k = i + 1
    <2>1. IsPlain(s, dialect, m + i)
        BY <1>2, PlainOfPart
    <2>2. m + k = m + i + 1
        BY <1>2
    <2> QED
        BY <2>1, <2>2 DEF Leaves
<1> HIDE DEF n, l
<1>3. i \in 1..l
    BY DEF l
<1>4. CASE IsBlock(u, i) /\ k = i + 5
    <2>1. /\ i + 4 <= l /\ u[i] = "/" /\ u[i + 1] = "*" /\ u[i + 2] = REDACTED
          /\ u[i + 3] = "*" /\ u[i + 4] = "/"
        BY <1>4 DEF IsBlock, l
    <2>2. /\ i + 1 \in 1..l /\ i + 2 \in 1..l /\ i + 3 \in 1..l /\ i + 4 \in 1..l
          /\ m + (i + 1) = m + i + 1 /\ m + (i + 2) = m + i + 2 /\ m + (i + 3) = m + i + 3
          /\ m + (i + 4) = m + i + 4 /\ m + i + 4 <= n /\ m + k = m + i + 5
        BY <1>1, <1>3, <1>4, <2>1
    <2>3. /\ s[m + i] = u[i] /\ s[m + i + 1] = u[i + 1] /\ s[m + i + 2] = u[i + 2]
          /\ s[m + i + 3] = u[i + 3] /\ s[m + i + 4] = u[i + 4]
        BY <1>1, <1>3, <2>2
    <2>4. IsBlock(s, m + i)
        BY <2>1, <2>2, <2>3 DEF IsBlock, n
    <2> QED
        BY <2>2, <2>4 DEF Leaves
<1>5. CASE IsLine(u, dialect, i, k)
    <2>1. PICK r \in i + 1..l :
            /\ IsMarked(u, dialect, i, r) /\ u[r] = REDACTED
            /\ \/ r = l /\ k = r + 1
               \/ r < l /\ u[r + 1] = "\n" /\ k = r + 2
        BY <1>5 DEF IsLine, l
    <2>2. r \in 1..l /\ m + r \in m + i + 1..n /\ s[m + r] = u[r] /\ s[m + i] = u[i]
        BY <1>1, <1>3
    <2>3. IsMarked(s, dialect, m + i, m + r)
        <3>1. CASE r = i + 2 /\ u[i] = "-" /\ u[i + 1] = "-"
            <4>1. i + 1 \in 1..l /\ m + (i + 1) = m + i + 1 /\ m + r = m + i + 2
                BY <1>1, <1>3, <2>2, <3>1
            <4>2. s[m + i + 1] = u[i + 1]
                BY <1>1, <4>1
            <4> QED
                BY <2>2, <3>1, <4>1, <4>2 DEF IsMarked
        <3>2. CASE r = i + 1 /\ u[i] = "#" /\ dialect \in HashDialects
            <4>1. m + r = m + i + 1
                BY <1>3, <3>2
            <4> QED
                BY <2>2, <3>2, <4>1 DEF IsMarked
        <3> QED
            BY <2>1, <3>1, <3>2 DEF IsMarked
    <2>4. \/ m + r = n /\ m + k = m + r + 1
          \/ m + r < n /\ s[m + r + 1] = "\n" /\ m + k = m + r + 2
        <3>1. CASE r = l /\ k = r + 1
            BY <1>1, <2>2, <3>1
        <3>2. CASE r < l /\ u[r + 1] = "\n" /\ k = r + 2
            <4>1. r + 1 \in 1..l /\ m + (r + 1) = m + r + 1 /\ m + r < n /\ m + k = m + r + 2
                BY <1>1, <2>2, <3>2
            <4>2. s[m + r + 1] = u[r + 1]
                BY <1>1, <4>1
            <4> QED
                BY <3>2, <4>1, <4>2
        <3> QED
            BY <2>1, <3>1, <3>2
    <2>5. IsLine(s, dialect, m + i, m + k)
        BY <2>1, <2>2, <2>3, <2>4 DEF IsLine, n
    <2> QED
        BY <2>5 DEF Leaves
<1> QED
    BY <1>2, <1>4, <1>5 DEF Leaves

LEMMA Prepended ==
    ASSUME NEW x \in Texts, Len(x) >= 1, NEW u \in Texts, NEW dialect, Steady(u, dialect),
           Leaves(x \o u, dialect, 1, Len(x) + 1)
    PROVE  Steady(x \o u, dialect)
<1> DEFINE s == x \o u
           m == Len(x)
           l == Len(u)
<1>1. /\ m \in Nat /\ l \in Nat /\ m >= 1 /\ s \in Texts /\ Len(s) = m + l
      /\ \A j \in 1..l : s[m + j] = u[j]
    BY DEF Texts
<1>2. PICK P : /\ 1 \in P /\ P \subseteq 1..l + 1
               /\ \A i \in P : i <= l => \E k \in P : k > i /\ Leaves(u, dialect, i, k)
    BY DEF Steady, SteadyBy
<1>3. Leaves(s, dialect, 1, m + 1)
    OBVIOUS
<1> HIDE DEF s, m, l
<1> DEFINE Q == {1} \cup {m + p : p \in P}
<1>4. Q \subseteq 1..Len(s) + 1
    <2>1. \A p \in P : m + p \in 1..m + l + 1
        BY <1>1, <1>2
    <2> QED
        BY <1>1, <2>1
<1>5. m + 1 \in Q /\ m + 1 > 1
    BY <1>1, <1>2
<1>6. ASSUME NEW i \in Q, i <= Len(s)
      PROVE  \E k \in Q : k > i /\ Leaves(s, dialect, i, k)
    <2>1. CASE i = 1
        BY <1>3, <1>5, <2>1
    <2>2. CASE i # 1
        <3>1. PICK p \in P : i = m + p
            BY <2>2
        <3>2. p \in 1..l
            BY <1>1, <1>2, <1>6, <3>1
        <3>3. PICK k \in P : k > p /\ Leaves(u, dialect, p, k)
            BY <1>2, <3>2
        <3>4. k \in Int /\ m + k > m + p
            BY <1>1, <1>2, <3>2, <3>3
        <3>5. IsPart(u, s, m)
            BY <1>1 DEF IsPart, l
        <3>6. Leaves(s, dialect, m + p, m + k)
            BY <1>1, <3>2, <3>3, <3>4, <3>5, LeavesOfPart DEF l
        <3> QED
            BY <3>1, <3>3, <3>4, <3>6
    <2> QED
        BY <2>1, <2>2
<1>7. SteadyBy(Q, s, dialect)
    BY <1>4, <1>6 DEF SteadyBy
<1> QED
    BY <1>7 DEF Steady, s

\* What the scanner writes at i.
LEMMA Shapes ==
    ASSUME NEW s \in Texts, NEW dialect, NEW i \in 1..Len(s),
           NEW here, here = Scan(s, dialect, i)
    PROVE  \/ IsPlain(s, dialect, i) /\ here.text = <<s[i]>> /\ here.next = i + 1
           \/ here.text = <<"?">>
           \/ here.text = <<"/", "*", REDACTED, "*", "/">> /\ s[i] = "/"
           \/ \E marker \in {<<"-", "-">>, <<"#">>} :
                /\ s[i] = marker[1] /\ (marker = <<"#">> => dialect \in HashDialects)
                /\ \/ here.text = Append(marker \o <<REDACTED>>, "\n")
                   \/ here.text = marker \o <<REDACTED>> /\ here.next = Len(s) + 1
<1>1. i \in Nat /\ Len(s) \in Nat
    BY DEF Texts
<1>2. ASSUME NEW marker \in {<<"-", "-">>, <<"#">>}, i + Len(marker) <= Len(s) + 1,
             here = _redact_line_comment(s, i, marker)
      PROVE  \/ here.text = Append(marker \o <<REDACTED>>, "\n")
             \/ here.text = marker \o <<REDACTED>> /\ here.next = Len(s) + 1
    <2> DEFINE from == i + Len(marker)
               next == After(s, <<"\n">>, from)
               line == marker \o <<REDACTED>>
               found == {j \in from..Len(s) : StartsWith(s, j, <<"\n">>)}
    <2>1. /\ here.text = IF s[next - 1] = "\n" THEN Append(line, "\n") ELSE line
          /\ here.next = next
        BY <1>2 DEF _redact_line_comment, Written
    <2>2. from \in Nat
        BY <1>1, <1>2
    <2>3. next = IF found = {} THEN Len(s) + 1 ELSE Min(found) + 1
        BY DEF After
    <2> HIDE DEF from, next, line
    <2>4. ASSUME found # {} PROVE s[next - 1] = "\n"
        <3>1. found \subseteq Nat /\ IsFiniteSet(found)
            <4>1. IsFiniteSet(from..Len(s))
                BY <1>1, <2>2, FS_Interval
            <4> QED
                BY <2>2, <4>1, FS_Subset
        <3>2. Min(found) \in found
            <4> HIDE DEF found
            <4> QED
                BY <2>4, <3>1, LeastIs
        <3>3. Min(found) \in Nat /\ s[Min(found)] = "\n"
            BY <3>1, <3>2, MarkersAt
        <3>4. next - 1 = Min(found)
            BY <2>3, <2>4, <3>3
        <3> QED
            BY <3>3, <3>4
    <2> HIDE DEF found
    <2> QED
        BY <2>1, <2>3, <2>4 DEF line
<1>3. CASE IsPlain(s, dialect, i)
    BY <1>3, ScanCases DEF Written
<1>4. CASE s[i] \in Quotes \/ TagEnds(s, i) # {}
    BY <1>4, ScanCases DEF Written
<1>5. CASE StartsWith(s, i, <<"/", "*">>)
    BY <1>1, <1>5, ScanCases, MarkersAt DEF _redact_block_comment, Written
<1>6. CASE StartsWith(s, i, <<"-", "-">>)
    <2>1. s[i] = "-" /\ i + 1 <= Len(s)
        BY <1>1, <1>6, MarkersAt
    <2>2. Len(<<"-", "-">>) = 2 /\ <<"-", "-">>[1] = "-" /\ <<"-", "-">> # <<"#">>
        OBVIOUS
    <2>3. here = _redact_line_comment(s, i, <<"-", "-">>)
        BY <1>6, ScanCases
    <2>4. i + Len(<<"-", "-">>) <= Len(s) + 1
        BY <1>1, <2>1, <2>2
    <2> QED
        BY <1>2, <2>1, <2>2, <2>3, <2>4
<1>7. CASE s[i] = "#" /\ dialect \in HashDialects
    <2>1. Len(<<"#">>) = 1 /\ <<"#">>[1] = "#"
        OBVIOUS
    <2>2. here = _redact_line_comment(s, i, <<"#">>)
        BY <1>7, ScanCases
    <2>3. i + Len(<<"#">>) <= Len(s) + 1
        BY <1>1, <2>1
    <2> QED
        BY <1>2, <1>7, <2>1, <2>2, <2>3
<1> QED
    BY <1>3, <1>4, <1>5, <1>6, <1>7 DEF IsPlain

LEMMA SteadyEmpty ==
    ASSUME NEW dialect
    PROVE  Steady(<<>>, dialect)
<1>1. SteadyBy({1}, <<>>, dialect)
    BY DEF SteadyBy
<1> QED
    BY <1>1 DEF Steady

\* What is ahead of the scanner at i has kept its first character, or lost it to a
\* placeholder, and has kept the words and the dollar signs it begins with.
IsAhead(u, s, i) ==
    /\ Len(u) >= 1 => i <= Len(s) /\ u[1] \in {s[i], "?"}
    /\ \A m \in 1..Len(u) :
        (\A k \in 1..m : u[k] \in WordChars \cup {"$"}) =>
            \A k \in 1..m : i + k - 1 <= Len(s) /\ s[i + k - 1] = u[k]

LEMMA PlainAhead ==
    ASSUME NEW s \in Texts, NEW dialect, NEW i \in 1..Len(s), IsPlain(s, dialect, i),
           NEW u \in Texts, IsAhead(u, s, i + 1)
    PROVE  IsPlain(<<s[i]>> \o u, dialect, 1) /\ IsAhead(<<s[i]>> \o u, s, i)
<1> DEFINE n == Len(s)
           l == Len(u)
           t == <<s[i]>> \o u
<1>1. n \in Nat /\ l \in Nat /\ i \in 1..n /\ s[i] \in Chars
    BY DEF Texts
<1>2. /\ t \in Texts /\ Len(t) = l + 1 /\ t[1] = s[i]
      /\ \A k \in 2..l + 1 : k - 1 \in 1..l /\ t[k] = u[k - 1]
    <2>1. u \in Seq(Chars) /\ <<s[i]>> \in Seq(Chars)
        BY <1>1, ShortTexts DEF Texts
    <2> QED
        BY <1>1, <2>1 DEF Texts
<1>3. /\ l >= 1 => i + 1 <= n /\ u[1] \in {s[i + 1], "?"}
      /\ \A m \in 1..l :
            (\A k \in 1..m : u[k] \in WordChars \cup {"$"}) =>
                \A k \in 1..m : i + 1 + k - 1 <= n /\ s[i + 1 + k - 1] = u[k]
    BY DEF IsAhead
<1>4. /\ ~(i + 1 <= n /\ s[i] = "-" /\ s[i + 1] = "-")
      /\ ~(s[i] = "#" /\ dialect \in HashDialects)
      /\ ~(i + 1 <= n /\ s[i] = "/" /\ s[i + 1] = "*")
      /\ s[i] \notin Quotes /\ ~HasTag(s, i)
    BY PlainIs
<1> HIDE DEF t, l, n
<1>5. 2 <= Len(t) => i + 1 <= n /\ (t[2] = s[i + 1] \/ t[2] = "?")
    <2> SUFFICES ASSUME 2 <= Len(t) PROVE i + 1 <= n /\ (t[2] = s[i + 1] \/ t[2] = "?")
        OBVIOUS
    <2>1. 2 \in 2..l + 1 /\ 2 - 1 = 1 /\ l >= 1
        BY <1>1, <1>2
    <2>2. t[2] = u[1]
        BY <1>2, <2>1
    <2> QED
        BY <1>3, <2>1, <2>2
<1>6. ASSUME NEW m \in 2..l + 1, \A k \in 1..m : t[k] \in WordChars \cup {"$"}
      PROVE  \A k \in 1..m : i + k - 1 <= n /\ s[i + k - 1] = t[k]
    <2>1. m - 1 \in 1..l
        BY <1>1
    <2>2. ASSUME NEW k \in 1..m - 1 PROVE u[k] \in WordChars \cup {"$"}
        <3>1. k + 1 \in 1..m /\ k + 1 \in 2..l + 1 /\ (k + 1) - 1 = k
            BY <1>1, <2>1
        <3>2. t[k + 1] = u[k]
            BY <1>2, <3>1
        <3> QED
            BY <1>6, <3>1, <3>2
    <2>3. \A k \in 1..m - 1 : i + 1 + k - 1 <= n /\ s[i + 1 + k - 1] = u[k]
        <3> HIDE DEF IsAhead
        <3> QED
            BY <1>3, <2>1, <2>2
    <2> SUFFICES ASSUME NEW k \in 1..m PROVE i + k - 1 <= n /\ s[i + k - 1] = t[k]
        OBVIOUS
    <2>4. CASE k = 1
        <3>1. i + k - 1 = i
            BY <1>1, <2>4
        <3> QED
            BY <1>1, <1>2, <2>4, <3>1
    <2>5. CASE k # 1
        <3>1. k - 1 \in 1..m - 1 /\ k \in 2..l + 1 /\ i + 1 + (k - 1) - 1 = i + k - 1
            BY <1>1, <2>5
        <3> QED
            BY <1>2, <2>3, <3>1
    <2> QED
        BY <2>4, <2>5
<1>7. ~HasTag(t, 1)
    <2> SUFFICES ASSUME t[1] = "$", NEW j \in 2..l + 1, t[j] = "$", t[2] \notin Digits,
                        \A k \in 2..j - 1 : t[k] \in WordChars
                 PROVE  HasTag(s, i)
        <3>1. 1 + 1 = 2
            OBVIOUS
        <3> QED
            BY <1>2, <1>4, <3>1 DEF HasTag
    <2>1. \A k \in 1..j : t[k] \in WordChars \cup {"$"}
        <3>1. \A k \in 1..j : k = 1 \/ k = j \/ k \in 2..j - 1
            BY <1>1
        <3> QED
            BY <3>1
    <2>2. \A k \in 1..j : i + k - 1 <= n /\ s[i + k - 1] = t[k]
        BY <1>6, <2>1
    <2>3. /\ i + j - 1 <= n /\ s[i + j - 1] = "$"
          /\ s[i + 1] = t[2]
        <3>1. j \in 1..j /\ 2 \in 1..j /\ i + 2 - 1 = i + 1
            BY <1>1
        <3> QED
            BY <2>2, <3>1
    <2>4. ASSUME NEW k \in i + 1..(i + j - 1) - 1 PROVE s[k] \in WordChars
        <3>1. k - i + 1 \in 2..j - 1 /\ k - i + 1 \in 1..j /\ i + (k - i + 1) - 1 = k
            BY <1>1
        <3>2. s[k] = t[k - i + 1]
            BY <2>2, <3>1
        <3> QED
            BY <3>1, <3>2
    <2>5. i + j - 1 \in i + 1..n
        BY <1>1, <2>3
    <2> QED
        BY <1>2, <2>3, <2>4, <2>5 DEF HasTag, n
<1>8. IsPlain(t, dialect, 1)
    <2>1. 1 \in 1..Len(t) /\ 1 + 1 = 2
        BY <1>1, <1>2
    <2>2. ~(2 <= Len(t) /\ t[1] = "-" /\ t[2] = "-") /\ ~(2 <= Len(t) /\ t[1] = "/" /\ t[2] = "*")
        BY <1>2, <1>4, <1>5
    <2> QED
        BY <1>2, <1>4, <1>7, <2>1, <2>2, PlainIs
<1>9. IsAhead(t, s, i)
    <2>1. i <= n
        BY <1>1
    <2>2. ASSUME NEW m \in 1..l + 1, \A k \in 1..m : t[k] \in WordChars \cup {"$"}
          PROVE  \A k \in 1..m : i + k - 1 <= n /\ s[i + k - 1] = t[k]
        <3>1. CASE m = 1
            <4>1. \A k \in 1..m : k = 1 /\ i + k - 1 = i
                BY <1>1, <3>1
            <4> QED
                BY <1>2, <2>1, <4>1
        <3>2. CASE m # 1
            <4>1. m \in 2..l + 1
                BY <1>1, <3>2
            <4> QED
                BY <1>6, <2>2, <4>1
        <3> QED
            BY <3>1, <3>2
    <2> QED
        BY <1>2, <2>1, <2>2 DEF IsAhead, n
<1> QED
    BY <1>8, <1>9 DEF t

LEMMA PlaceholderAhead ==
    ASSUME NEW s \in Texts, NEW dialect, NEW i \in 1..Len(s), NEW u \in Texts
    PROVE  IsPlain(<<"?">> \o u, dialect, 1) /\ IsAhead(<<"?">> \o u, s, i)
<1> DEFINE t == <<"?">> \o u
<1>1. t \in Texts /\ t[1] = "?" /\ Len(t) >= 1
    BY Markers DEF Texts
<1> HIDE DEF t
<1>2. 1 \in 1..Len(t) /\ i <= Len(s) /\ \A m \in 1..Len(t) : 1 \in 1..m
    BY <1>1 DEF Texts
<1>3. /\ "?" # "-" /\ "?" # "#" /\ "?" # "/" /\ "?" # "$"
      /\ "?" \notin Quotes /\ "?" \notin WordChars \cup {"$"}
    BY DEF Quotes, WordChars, Letters, Digits
<1>4. IsPlain(t, dialect, 1)
    BY <1>1, <1>2, <1>3, PlainIs DEF HasTag
<1>5. IsAhead(t, s, i)
    BY <1>1, <1>2, <1>3 DEF IsAhead
<1> QED
    BY <1>4, <1>5 DEF t

LEMMA BlockAhead ==
    ASSUME NEW s \in Texts, NEW i \in 1..Len(s), s[i] = "/", NEW u \in Texts
    PROVE  /\ IsBlock(<<"/", "*", REDACTED, "*", "/">> \o u, 1)
           /\ IsAhead(<<"/", "*", REDACTED, "*", "/">> \o u, s, i)
<1> DEFINE x == <<"/", "*", REDACTED, "*", "/">>
           t == x \o u
<1>1. x \in Texts /\ Len(x) = 5 /\ x[1] = "/" /\ x[2] = "*" /\ x[3] = REDACTED
      /\ x[4] = "*" /\ x[5] = "/"
    BY Markers
<1> HIDE DEF x
<1>2. t \in Texts /\ Len(t) >= 5 /\ \A k \in 1..5 : t[k] = x[k]
    <2>1. x \in Texts
        BY <1>1
    <2>2. t \in Texts /\ Len(t) >= Len(x) /\ \A k \in 1..Len(x) : t[k] = x[k]
        BY <2>1 DEF Texts
    <2> HIDE DEF t
    <2> QED
        BY <1>1, <2>2
<1> HIDE DEF t
<1>3. t[1] = "/" /\ t[2] = "*" /\ t[3] = REDACTED /\ t[4] = "*" /\ t[5] = "/"
    BY <1>1, <1>2
<1>4. IsBlock(t, 1)
    BY <1>2, <1>3 DEF IsBlock
<1>5. i <= Len(s) /\ \A m \in 1..Len(t) : 1 \in 1..m
    BY <1>2 DEF Texts
<1>6. "/" \notin WordChars \cup {"$"}
    BY DEF WordChars, Letters, Digits
<1>7. IsAhead(t, s, i)
    BY <1>3, <1>5, <1>6 DEF IsAhead
<1> QED
    BY <1>4, <1>7 DEF t, x

LEMMA LineAhead ==
    ASSUME NEW s \in Texts, NEW dialect, NEW i \in 1..Len(s), NEW u \in Texts,
           NEW marker \in {<<"-", "-">>, <<"#">>}, s[i] = marker[1],
           marker = <<"#">> => dialect \in HashDialects,
           NEW x, \/ x = Append(marker \o <<REDACTED>>, "\n")
                  \/ x = marker \o <<REDACTED>> /\ u = <<>>
    PROVE  /\ x \in Texts /\ Len(x) >= 1
           /\ IsLine(x \o u, dialect, 1, Len(x) + 1) /\ IsAhead(x \o u, s, i)
<1> DEFINE t == x \o u
           r == Len(marker) + 1
<1>1. marker \in Texts /\ REDACTED \in Chars /\ "\n" \in Chars
    BY Markers, CharsAre DEF REDACTED
<1>2. \/ marker = <<"-", "-">> /\ Len(marker) = 2 /\ marker[1] = "-" /\ marker[2] = "-"
      \/ marker = <<"#">> /\ Len(marker) = 1 /\ marker[1] = "#"
    OBVIOUS
<1> HIDE DEF r
<1>3. /\ x \in Texts /\ Len(x) >= r /\ r \in 2..3 /\ x[r] = REDACTED
      /\ \A k \in 1..Len(marker) : x[k] = marker[k]
      /\ \/ Len(x) = r + 1 /\ x[r + 1] = "\n"
         \/ Len(x) = r /\ u = <<>>
    <2> DEFINE y == marker \o <<REDACTED>>
    <2>1. /\ y \in Texts /\ Len(y) = r /\ y[r] = REDACTED
          /\ \A k \in 1..Len(marker) : y[k] = marker[k]
        BY <1>1 DEF Texts, r
    <2>2. r \in 2..3 /\ r \in Nat /\ Len(marker) = r - 1
        <3> DEFINE l == Len(marker)
        <3>1. l = 1 \/ l = 2
            BY <1>2
        <3>2. r = l + 1
            BY DEF r
        <3> HIDE DEF l
        <3>3. r \in 2..3 /\ r \in Nat /\ l = r - 1
            BY <3>1, <3>2
        <3> QED
            BY <3>3 DEF l
    <2> HIDE DEF y
    <2>3. CASE x = Append(y, "\n")
        <3>1. /\ x \in Texts /\ Len(x) = r + 1 /\ x[r + 1] = "\n"
              /\ \A k \in 1..r : x[k] = y[k]
            BY <1>1, <2>1, <2>3 DEF Texts
        <3>2. r \in 1..r /\ Len(x) >= r /\ \A k \in 1..Len(marker) : k \in 1..r
            BY <2>2, <3>1
        <3> QED
            BY <2>1, <2>2, <3>1, <3>2
    <2>4. CASE x = y /\ u = <<>>
        <3>1. Len(y) >= r
            BY <2>1, <2>2
        <3> QED
            BY <2>1, <2>2, <2>4, <3>1
    <2> QED
        BY <2>3, <2>4 DEF y
<1>4. t \in Texts /\ Len(t) >= Len(x) /\ \A k \in 1..Len(x) : t[k] = x[k]
    BY <1>3 DEF Texts
<1>5. Len(x) = r /\ u = <<>> => Len(t) = r
    BY <1>3 DEF Texts
<1> HIDE DEF t
<1>6. Len(t) \in Nat /\ Len(x) \in Nat
    BY <1>3, <1>4 DEF Texts
<1>7. t[r] = REDACTED /\ r \in 1 + 1..Len(t) /\ \A k \in 1..Len(marker) : t[k] = marker[k]
    <2>1. r \in 1..Len(x) /\ r \in 1 + 1..Len(t) /\ \A k \in 1..Len(marker) : k \in 1..Len(x)
        BY <1>2, <1>3, <1>4, <1>6 DEF r
    <2> QED
        BY <1>3, <1>4, <2>1
<1>8. IsMarked(t, dialect, 1, r)
    <2>1. 1 + 1 = 2 /\ 1 + 2 = 3
        OBVIOUS
    <2>2. CASE marker = <<"-", "-">> /\ Len(marker) = 2 /\ marker[1] = "-" /\ marker[2] = "-"
        <3>1. t[1] = "-" /\ t[2] = "-" /\ r = 3
            <4>1. 1 \in 1..Len(marker) /\ 2 \in 1..Len(marker) /\ r = 2 + 1
                BY <2>2 DEF r
            <4> QED
                BY <1>7, <2>2, <4>1
        <3> QED
            BY <2>1, <3>1 DEF IsMarked
    <2>3. CASE marker = <<"#">> /\ Len(marker) = 1 /\ marker[1] = "#"
        <3>1. t[1] = "#" /\ r = 2
            <4>1. 1 \in 1..Len(marker) /\ r = 1 + 1
                BY <2>3 DEF r
            <4> QED
                BY <1>7, <2>3, <4>1
        <3> QED
            BY <2>1, <2>3, <3>1 DEF IsMarked
    <2> QED
        BY <1>2, <2>2, <2>3
<1>9. IsLine(t, dialect, 1, Len(x) + 1)
    <2>1. CASE Len(x) = r + 1 /\ x[r + 1] = "\n"
        <3>1. r < Len(t) /\ r + 1 \in 1..Len(x) /\ Len(x) + 1 = r + 2
            BY <1>3, <1>4, <1>6, <2>1
        <3>2. t[r + 1] = "\n"
            BY <1>4, <2>1, <3>1
        <3> QED
            BY <1>7, <1>8, <3>1, <3>2 DEF IsLine
    <2>2. CASE Len(x) = r /\ u = <<>>
        BY <1>5, <1>7, <1>8, <2>2 DEF IsLine
    <2> QED
        BY <1>3, <2>1, <2>2
<1>10. IsAhead(t, s, i)
    <2>1. t[1] = s[i]
        <3>1. 1 \in 1..Len(marker)
            BY <1>2
        <3> QED
            BY <1>7, <3>1
    <2>2. s[i] \notin WordChars \cup {"$"}
        BY <1>2 DEF WordChars, Letters, Digits
    <2>3. i <= Len(s) /\ \A m \in 1..Len(t) : 1 \in 1..m
        BY <1>6 DEF Texts
    <2> QED
        BY <2>1, <2>2, <2>3 DEF IsAhead
<1>11. Len(x) >= 1
    BY <1>3, <1>6
<1> QED
    BY <1>3, <1>9, <1>10, <1>11 DEF t

\* What the scanner has written is steady.
LEMMA FragmentsSteady ==
    ASSUME NEW s \in Texts, NEW dialect, NEW g, IsFragments(g, s, dialect)
    PROVE  g[1] \in Texts /\ Steady(g[1], dialect)
<1> DEFINE n == Len(s)
           here(i) == Scan(s, dialect, i)
           S == {i \in 1..n + 1 : Steady(g[i], dialect) /\ IsAhead(g[i], s, i)}
<1>1. n \in Nat
    BY DEF Texts
<1>2. /\ \A i \in 1..n + 1 : g[i] \in Texts
      /\ g[n + 1] = <<>> /\ \A i \in 1..n : g[i] = here(i).text \o g[here(i).next]
    BY DEF IsFragments
<1>3. \A i \in 1..n : here(i).next \in i + 1..n + 1
    BY ScanIs
<1>4. n + 1 \in S
    <2>1. IsAhead(<<>>, s, n + 1)
        BY DEF IsAhead
    <2>2. Steady(<<>>, dialect)
        BY SteadyEmpty
    <2> HIDE DEF n
    <2> QED
        BY <1>1, <1>2, <2>1, <2>2
<1>5. ASSUME NEW i \in 1..n, \A j \in i + 1..n + 1 : j \in S
      PROVE  Steady(g[i], dialect) /\ IsAhead(g[i], s, i)
    <2> DEFINE u == g[here(i).next]
               x == here(i).text
    <2>1. here(i).next \in S /\ here(i).next \in i + 1..n + 1 /\ here(i).next \in 1..n + 1
        <3>1. here(i).next \in i + 1..n + 1
            BY <1>3
        <3> HIDE DEF here, S, n
        <3> QED
            BY <1>1, <1>5, <3>1
    <2>2. Steady(u, dialect) /\ IsAhead(u, s, here(i).next)
        <3> HIDE DEF here
        <3> QED
            BY <2>1
    <2>3. u \in Texts /\ g[i] = x \o u
        <3> HIDE DEF here
        <3> QED
            BY <1>2, <2>1
    <2>4. \/ IsPlain(s, dialect, i) /\ x = <<s[i]>> /\ here(i).next = i + 1
          \/ x = <<"?">>
          \/ x = <<"/", "*", REDACTED, "*", "/">> /\ s[i] = "/"
          \/ \E marker \in {<<"-", "-">>, <<"#">>} :
                /\ s[i] = marker[1] /\ (marker = <<"#">> => dialect \in HashDialects)
                /\ \/ x = Append(marker \o <<REDACTED>>, "\n")
                   \/ x = marker \o <<REDACTED>> /\ here(i).next = n + 1
        BY Shapes
    <2>5. here(i).next = n + 1 => u = <<>>
        BY <1>2
    <2>6. s[i] \in Chars
        BY DEF Texts
    <2> HIDE DEF u, x, here, n, S
    <2>7. i \in 1..Len(s)
        BY DEF n
    <2>8. CASE IsPlain(s, dialect, i) /\ x = <<s[i]>> /\ here(i).next = i + 1
        <3>1. IsPlain(x \o u, dialect, 1) /\ IsAhead(x \o u, s, i)
            BY <2>2, <2>3, <2>7, <2>8, PlainAhead
        <3>2. x \in Texts /\ Len(x) = 1 /\ Len(x) >= 1
            BY <2>6, <2>8, ShortTexts
        <3>3. Leaves(x \o u, dialect, 1, Len(x) + 1)
            BY <3>1, <3>2 DEF Leaves
        <3>4. Steady(x \o u, dialect)
            BY <2>2, <2>3, <3>2, <3>3, Prepended
        <3> QED
            BY <2>3, <3>1, <3>4
    <2>9. CASE x = <<"?">>
        <3>1. IsPlain(x \o u, dialect, 1) /\ IsAhead(x \o u, s, i)
            BY <2>3, <2>7, <2>9, PlaceholderAhead
        <3>2. x \in Texts /\ Len(x) = 1 /\ Len(x) >= 1
            BY <2>9, Markers
        <3>3. Leaves(x \o u, dialect, 1, Len(x) + 1)
            BY <3>1, <3>2 DEF Leaves
        <3>4. Steady(x \o u, dialect)
            BY <2>2, <2>3, <3>2, <3>3, Prepended
        <3> QED
            BY <2>3, <3>1, <3>4
    <2>10. CASE x = <<"/", "*", REDACTED, "*", "/">> /\ s[i] = "/"
        <3>1. IsBlock(x \o u, 1) /\ IsAhead(x \o u, s, i)
            BY <2>3, <2>7, <2>10, BlockAhead
        <3>2. x \in Texts /\ Len(x) = 5 /\ Len(x) >= 1
            BY <2>10, Markers
        <3>3. Leaves(x \o u, dialect, 1, Len(x) + 1)
            BY <3>1, <3>2 DEF Leaves
        <3>4. Steady(x \o u, dialect)
            BY <2>2, <2>3, <3>2, <3>3, Prepended
        <3> QED
            BY <2>3, <3>1, <3>4
    <2>11. ASSUME NEW marker \in {<<"-", "-">>, <<"#">>},
                  s[i] = marker[1], marker = <<"#">> => dialect \in HashDialects,
                  \/ x = Append(marker \o <<REDACTED>>, "\n")
                  \/ x = marker \o <<REDACTED>> /\ here(i).next = n + 1
           PROVE  Steady(g[i], dialect) /\ IsAhead(g[i], s, i)
        <3>1. \/ x = Append(marker \o <<REDACTED>>, "\n")
              \/ x = marker \o <<REDACTED>> /\ u = <<>>
            BY <2>5, <2>11
        <3>2. /\ x \in Texts /\ Len(x) >= 1
              /\ IsLine(x \o u, dialect, 1, Len(x) + 1) /\ IsAhead(x \o u, s, i)
            BY <2>3, <2>7, <2>11, <3>1, LineAhead
        <3>3. Leaves(x \o u, dialect, 1, Len(x) + 1)
            BY <3>2 DEF Leaves
        <3>4. Steady(x \o u, dialect)
            BY <2>2, <2>3, <3>2, <3>3, Prepended
        <3> QED
            BY <2>3, <3>2, <3>4
    <2> QED
        BY <2>4, <2>8, <2>9, <2>10, <2>11
<1>6. ASSUME NEW i \in 1..n + 1, \A j \in i + 1..n + 1 : j \in S PROVE i \in S
    <2>1. CASE i = n + 1
        BY <1>4, <2>1
    <2>2. CASE i # n + 1
        <3>1. i \in 1..n
            BY <1>1, <2>2
        <3> HIDE DEF IsAhead, Steady
        <3> QED
            BY <1>5, <1>6, <3>1
    <2> QED
        BY <2>1, <2>2
<1>7. 1..n + 1 \subseteq S
    <2> HIDE DEF S, n
    <2> QED
        BY <1>1, <1>6, Descending
<1>8. 1 \in S /\ 1 \in 1..n + 1
    BY <1>1, <1>7
<1> QED
    BY <1>2, <1>8

-----------------------------------------------------------------------------
(* Numbers: a text without them. *)

LEMMA NumberBefore ==
    ASSUME NEW s \in Texts, NEW i \in 2..Len(s), IsNumber(s, i), s[i - 1] \in Digits
    PROVE  IsNumber(s, i - 1)
<1> SUFFICES ASSUME NEW j \in DOMAIN s, s[j] \in Letters
             PROVE  \E k \in DOMAIN s : (k \in i - 1..j \/ k \in j..i - 1)
                                         /\ s[k] \notin WordChars
    BY DEF IsNumber
<1>1. PICK k \in DOMAIN s : (k \in i..j \/ k \in j..i) /\ s[k] \notin WordChars
    BY DEF IsNumber
<1>2. s[i] \in WordChars
    BY DEF IsNumber, WordChars
<1>3. k # i
    BY <1>1, <1>2
<1>4. k \in Nat /\ i \in Nat /\ j \in Nat
    BY DEF Texts
<1>5. k \in i - 1..j \/ k \in j..i - 1
    BY <1>1, <1>3, <1>4
<1> QED
    BY <1>1, <1>5

\* t is what is left of s without its numbers: its position p stands for at[p] in s.
Thins(at, t, s) ==
    /\ at \in [1..Len(t) -> 1..Len(s)]
    /\ \A p, q \in 1..Len(t) : p < q => at[p] < at[q]
    /\ \A p \in 1..Len(t) : t[p] = IF IsNumber(s, at[p]) THEN "?" ELSE s[at[p]]
    /\ \A i \in 1..Len(s) : (i = 1 \/ ~IsNumber(s, i) \/ s[i - 1] \notin Digits) =>
                                \E p \in 1..Len(t) : at[p] = i

LEMMA Thinned ==
    ASSUME NEW s \in Texts
    PROVE  \E at : Thins(at, WithoutNumbers(s), s)
<1> DEFINE n == Len(s)
           pieces == [i \in DOMAIN s |-> NumberPiece(s, i)]
           t == WithoutNumbers(s)
           L == Len(t)
<1>1. n \in Nat /\ DOMAIN s = 1..n /\ "?" \in Chars /\ \A i \in 1..n : s[i] \in Chars
    <2>1. "?" \in Chars
        BY CharsAre
    <2> QED
        BY <2>1 DEF Texts
<1>2. \A i \in 1..n : NumberPiece(s, i) = <<>> \/ \E x \in Chars : NumberPiece(s, i) = <<x>>
    BY <1>1 DEF NumberPiece
<1>3. \A i \in 1..n : NumberPiece(s, i) \in Seq(Chars)
    <2>1. <<>> \in Seq(Chars) /\ \A x \in Chars : <<x>> \in Seq(Chars)
        BY ShortTexts DEF Texts
    <2> QED
        BY <1>2, <2>1
<1>4. pieces \in Seq(Seq(Chars)) /\ Len(pieces) = n
    BY <1>1, <1>3
<1>5. t = FlattenSeq(pieces)
    BY DEF WithoutNumbers, NumberPiece
<1>6. \A i \in DOMAIN pieces : pieces[i] = <<>> \/ \E x \in Chars : pieces[i] = <<x>>
    BY <1>1, <1>2
<1>7. /\ DOMAIN pieces = 1..n
      /\ \A i \in 1..n : pieces[i] = NumberPiece(s, i)
    BY <1>1
<1> HIDE DEF pieces, n
<1>8. t \in Seq(Chars) /\ \E at : Selects(at, t, pieces, n)
    BY <1>4, <1>5, <1>6, Selected
<1> HIDE DEF t
<1>9. PICK at : Selects(at, t, pieces, n)
    BY <1>8
<1>10. /\ at \in [1..L -> 1..n]
       /\ \A p, q \in 1..L : p < q => at[p] < at[q]
       /\ \A p \in 1..L : pieces[at[p]] = <<t[p]>>
       /\ \A i \in 1..n : pieces[i] # <<>> => \E p \in 1..L : at[p] = i
    BY <1>9 DEF Selects
<1>11. ASSUME NEW p \in 1..L PROVE t[p] = IF IsNumber(s, at[p]) THEN "?" ELSE s[at[p]]
    <2>1. at[p] \in 1..n /\ NumberPiece(s, at[p]) = <<t[p]>>
        BY <1>7, <1>10
    <2>2. <<t[p]>> # <<>> /\ \A x : <<x>> = <<t[p]>> => x = t[p]
        OBVIOUS
    <2> QED
        BY <2>1, <2>2 DEF NumberPiece
<1>12. ASSUME NEW i \in 1..n, i = 1 \/ ~IsNumber(s, i) \/ s[i - 1] \notin Digits
       PROVE  \E p \in 1..L : at[p] = i
    <2>1. NumberPiece(s, i) # <<>>
        <3>1. <<s[i]>> # <<>> /\ <<"?">> # <<>>
            OBVIOUS
        <3>2. NumberPiece(s, i) = <<s[i]>> \/ NumberPiece(s, i) = <<"?">>
            BY <1>12 DEF NumberPiece
        <3> QED
            BY <3>1, <3>2
    <2> QED
        BY <1>7, <1>10, <2>1
<1>13. Thins(at, t, s)
    BY <1>10, <1>11, <1>12 DEF Thins, n
<1> QED
    BY <1>13 DEF t

\* Behind a character that is no digit of a number no character is missing.
LEMMA NextIs ==
    ASSUME NEW s \in Texts, NEW t \in Texts, NEW at, Thins(at, t, s),
           NEW p \in 1..Len(t), ~IsNumber(s, at[p])
    PROVE  IF at[p] = Len(s) THEN p = Len(t) ELSE p < Len(t) /\ at[p + 1] = at[p] + 1
<1> DEFINE n == Len(s)
           L == Len(t)
           i == at[p]
<1>1. n \in Nat /\ L \in Nat
    BY DEF Texts
<1>2. /\ at \in [1..L -> 1..n]
      /\ \A q, r \in 1..L : q < r => at[q] < at[r]
      /\ \A j \in 1..n : (j = 1 \/ ~IsNumber(s, j) \/ s[j - 1] \notin Digits) =>
                                \E q \in 1..L : at[q] = j
    BY DEF Thins
<1> HIDE DEF n, L
<1>3. p \in 1..L /\ i \in 1..n /\ \A q \in 1..L : at[q] \in 1..n
    BY <1>2 DEF L
<1>4. CASE i = n
    <2>1. ASSUME p # L PROVE FALSE
        <3>1. p + 1 \in 1..L /\ p < p + 1
            BY <1>1, <1>3, <2>1
        <3>2. i < at[p + 1] /\ at[p + 1] \in 1..n
            BY <1>2, <1>3, <3>1
        <3> QED
            BY <1>1, <1>3, <1>4, <3>2
    <2> QED
        BY <1>4, <2>1 DEF n, L
<1>5. CASE i # n
    <2>1. i + 1 \in 1..n /\ i + 1 \in 2..n /\ (i + 1) - 1 = i
        BY <1>1, <1>3, <1>5
    <2>2. ~IsNumber(s, i + 1) \/ s[i] \notin Digits
        <3> HIDE DEF i
        <3>1. IsNumber(s, i + 1) /\ s[i] \in Digits => IsNumber(s, i)
            BY <2>1, NumberBefore DEF n
        <3> QED
            BY <3>1 DEF i
    <2>3. PICK q \in 1..L : at[q] = i + 1
        BY <1>2, <2>1, <2>2
    <2>4. ~(q < p) /\ q # p
        <3>1. q < p => at[q] < i
            BY <1>2, <1>3
        <3> HIDE DEF i
        <3> QED
            BY <1>3, <2>3, <3>1 DEF i
    <2>5. p + 1 \in 1..L /\ p < p + 1 /\ p < L
        BY <1>1, <1>3, <2>4
    <2>6. i < at[p + 1] /\ at[p + 1] \in 1..n
        BY <1>2, <1>3, <2>5
    <2>7. ~(p + 1 < q)
        <3>1. p + 1 < q => at[p + 1] < i + 1
            BY <1>2, <2>3, <2>5
        <3> HIDE DEF i
        <3> QED
            BY <1>3, <2>6, <3>1
    <2>8. q = p + 1
        BY <1>3, <2>4, <2>7
    <2> QED
        BY <1>5, <2>3, <2>5, <2>8 DEF n, L
<1> QED
    BY <1>4, <1>5

\* A run of characters, none of them a digit of a number, stays together.
LEMMA RunIs ==
    ASSUME NEW s \in Texts, NEW t \in Texts, NEW at, Thins(at, t, s),
           NEW p \in 1..Len(t), NEW m \in Nat, at[p] + m <= Len(s),
           \A i \in at[p]..at[p] + m : ~IsNumber(s, i)
    PROVE  /\ p + m <= Len(t)
           /\ \A k \in 0..m : at[p + k] = at[p] + k /\ t[p + k] = s[at[p] + k]
<1> DEFINE n == Len(s)
           L == Len(t)
           i == at[p]
           S == {k \in 0..m : p + k <= L /\ at[p + k] = i + k}
<1>1. n \in Nat /\ L \in Nat
    BY DEF Texts
<1>2. /\ at \in [1..L -> 1..n] /\ p \in 1..L
      /\ \A q \in 1..L : t[q] = IF IsNumber(s, at[q]) THEN "?" ELSE s[at[q]]
    BY DEF Thins
<1> HIDE DEF n, L
<1>3. i \in 1..n
    BY <1>2
<1>4. /\ i + m <= n /\ \A j \in i..i + m : ~IsNumber(s, j)
      /\ \A q \in 1..L : ~IsNumber(s, at[q]) =>
            IF at[q] = n THEN q = L ELSE q < L /\ at[q + 1] = at[q] + 1
    BY NextIs DEF n, L
<1> HIDE DEF i
<1>5. 0 \in S
    <2>1. p + 0 = p /\ i + 0 = i /\ 0 \in 0..m /\ p <= L
        BY <1>1, <1>2, <1>3
    <2>2. at[p + 0] = i
        BY <2>1 DEF i
    <2> QED
        BY <2>1, <2>2
<1>6. ASSUME NEW k \in 0..m - 1, k \in S PROVE k + 1 \in S
    <2>1. p + k \in 1..L /\ at[p + k] = i + k
        BY <1>1, <1>2, <1>6
    <2>2. i + k \in i..i + m /\ i + k # n
        BY <1>1, <1>3, <1>4
    <2>3. p + k < L /\ at[p + k + 1] = i + k + 1
        BY <1>4, <2>1, <2>2
    <2>4. p + k + 1 = p + (k + 1) /\ i + k + 1 = i + (k + 1) /\ k + 1 \in 0..m
          /\ p + (k + 1) <= L
        BY <1>1, <1>2, <1>3, <2>3
    <2> QED
        BY <2>3, <2>4
<1> HIDE DEF S
<1>7. ASSUME NEW k \in 0..m PROVE k \in S
    <2>1. k \in Nat /\ \A j \in 0..k - 1 : j \in 0..m - 1
        OBVIOUS
    <2>2. \A j \in 0..k - 1 : j \in S => j + 1 \in S
        BY <1>6, <2>1
    <2> QED
        BY <1>5, <2>1, <2>2, Induction
<1>8. p + m <= L
    BY <1>7 DEF S
<1>9. ASSUME NEW k \in 0..m PROVE at[p + k] = i + k /\ t[p + k] = s[i + k]
    <2>1. at[p + k] = i + k /\ p + k <= L
        BY <1>7 DEF S
    <2>2. p + k \in 1..L /\ i + k \in i..i + m
        BY <1>1, <1>2, <1>3, <2>1
    <2>3. ~IsNumber(s, at[p + k])
        BY <1>4, <2>1, <2>2
    <2> QED
        BY <1>2, <2>1, <2>2, <2>3
<1> QED
    BY <1>8, <1>9 DEF i, L

LEMMA NoNumbersLeft ==
    ASSUME NEW s \in Texts, NEW t \in Texts, NEW at, Thins(at, t, s)
    PROVE  \A p \in 1..Len(t) : ~IsNumber(t, p)
<1> DEFINE n == Len(s)
           L == Len(t)
<1>1. n \in Nat /\ L \in Nat /\ DOMAIN s = 1..n /\ DOMAIN t = 1..L
    BY DEF Texts
<1>2. /\ at \in [1..L -> 1..n]
      /\ \A q, r \in 1..L : q < r => at[q] < at[r]
      /\ \A q \in 1..L : t[q] = IF IsNumber(s, at[q]) THEN "?" ELSE s[at[q]]
      /\ \A i \in 1..n : ~IsNumber(s, i) => \E q \in 1..L : at[q] = i
    BY DEF Thins
<1>3. ASSUME NEW q \in 1..L, NEW m \in Nat, at[q] + m <= n,
             \A i \in at[q]..at[q] + m : ~IsNumber(s, i)
      PROVE  q + m <= L /\ \A k \in 0..m : at[q + k] = at[q] + k /\ t[q + k] = s[at[q] + k]
    BY <1>3, RunIs
<1> HIDE DEF n, L
<1> SUFFICES ASSUME NEW p \in 1..L, IsNumber(t, p) PROVE FALSE
    BY DEF L
<1> DEFINE i == at[p]
<1>4. i \in 1..n /\ t[p] \in Digits /\ "?" \notin Digits
    BY <1>2 DEF IsNumber, Digits
<1>5. ~IsNumber(s, i) /\ s[i] \in Digits
    BY <1>2, <1>4
<1>6. PICK j \in 1..n : /\ s[j] \in Letters
                        /\ \A k \in 1..n : k \in i..j \/ k \in j..i => s[k] \in WordChars
    BY <1>1, <1>5 DEF IsNumber
<1> HIDE DEF i
<1>7. ASSUME NEW k \in 1..n, k \in i..j \/ k \in j..i PROVE ~IsNumber(s, k)
    <2>1. ASSUME NEW h \in 1..n, h \in k..j \/ h \in j..k PROVE s[h] \in WordChars
        <3>1. h \in i..j \/ h \in j..i
            BY <1>1, <1>4, <1>7, <2>1
        <3> QED
            BY <1>6, <3>1
    <2> QED
        BY <1>1, <1>6, <2>1 DEF IsNumber
\* The word is whole in t, from its position q on.
<1> DEFINE low == IF i <= j THEN i ELSE j
           m == IF i <= j THEN j - i ELSE i - j
<1>8. /\ low \in 1..n /\ m \in Nat /\ low + m \in 1..n /\ m \in 0..m /\ 0 \in 0..m
      /\ \A k \in 0..m : low + k \in 1..n /\ (low + k \in i..j \/ low + k \in j..i)
      /\ \A k \in low..low + m : k \in 1..n /\ (k \in i..j \/ k \in j..i)
      /\ (i = low /\ j = low + m) \/ (j = low /\ i = low + m)
    BY <1>1, <1>4, <1>6
<1> HIDE DEF low, m
<1>9. \A k \in low..low + m : ~IsNumber(s, k)
    BY <1>7, <1>8
<1>10. ~IsNumber(s, low)
    <2>1. low \in low..low + m
        BY <1>8
    <2> QED
        BY <1>9, <2>1
<1>11. PICK q \in 1..L : at[q] = low
    BY <1>2, <1>8, <1>10
<1>12. q + m <= L /\ \A k \in 0..m : at[q + k] = low + k /\ t[q + k] = s[low + k]
    <2>1. at[q] + m <= n /\ \A k \in at[q]..at[q] + m : ~IsNumber(s, k)
        BY <1>8, <1>9, <1>11
    <2>2. m \in Nat
        BY <1>8
    <2>3. q + m <= L /\ \A k \in 0..m : at[q + k] = at[q] + k /\ t[q + k] = s[at[q] + k]
        BY <1>3, <2>1, <2>2
    <2> QED
        BY <1>11, <2>3
<1>13. \A k \in 0..m : q + k \in 1..L /\ t[q + k] \in WordChars
    <2> SUFFICES ASSUME NEW k \in 0..m PROVE q + k \in 1..L /\ t[q + k] \in WordChars
        OBVIOUS
    <2>1. q + k \in 1..L
        BY <1>1, <1>8, <1>12
    <2>2. s[low + k] \in WordChars
        BY <1>6, <1>8
    <2> QED
        BY <1>12, <2>1, <2>2
<1>14. q + 0 = q /\ low + 0 = low
    BY <1>1, <1>8
<1>15. ASSUME NEW a \in 0..m, at[q + a] = i PROVE p = q + a
    <2>1. q + a \in 1..L /\ at[p] = i
        BY <1>13 DEF i
    <2>2. ~(p < q + a) /\ ~(q + a < p)
        BY <1>2, <1>4, <1>15, <2>1
    <2> QED
        BY <1>1, <2>1, <2>2
<1>16. PICK a \in 0..m, b \in 0..m : p = q + a /\ t[q + b] = s[j]
    <2>1. CASE i = low /\ j = low + m
        <3>1. at[q + 0] = i /\ t[q + m] = s[j]
            BY <1>8, <1>12, <1>14, <2>1
        <3> QED
            BY <1>8, <1>15, <3>1
    <2>2. CASE j = low /\ i = low + m
        <3>1. at[q + m] = i /\ t[q + 0] = s[j]
            BY <1>8, <1>12, <1>14, <2>2
        <3> QED
            BY <1>8, <1>15, <3>1
    <2> QED
        BY <1>8, <2>1, <2>2
<1>17. q + b \in 1..L /\ t[q + b] \in Letters
    BY <1>6, <1>13, <1>16
<1>18. PICK k \in 1..L : (k \in p..q + b \/ k \in q + b..p) /\ t[k] \notin WordChars
    BY <1>1, <1>17 DEF IsNumber
<1>19. k - q \in 0..m /\ q + (k - q) = k
    BY <1>1, <1>8, <1>16, <1>18
<1> QED
    BY <1>13, <1>18, <1>19

\* The characters that open a comment.
Openers == {"/", "-", "#"}

\* What opens no comment is plain, where the scanner leaves it as it is.
LEMMA PlainLeaves ==
    ASSUME NEW s \in Texts, NEW dialect, NEW i \in 1..Len(s), NEW k,
           Leaves(s, dialect, i, k), s[i] \notin Openers
    PROVE  k = i + 1
BY DEF Leaves, IsBlock, IsLine, IsMarked, Openers

\* The scanner visits every one of a run of such characters, and what is behind it.
LEMMA PlainVisited ==
    ASSUME NEW s \in Texts, NEW dialect, NEW P, SteadyBy(P, s, dialect),
           NEW i \in P, NEW m \in Nat, i + m <= Len(s) + 1,
           \A j \in i..i + m - 1 : s[j] \notin Openers
    PROVE  i + m \in P
<1> DEFINE n == Len(s)
           S == {k \in 0..m : i + k \in P}
<1>1. /\ n \in Nat /\ P \subseteq 1..n + 1
      /\ \A j \in P : j <= n => \E k \in P : k > j /\ Leaves(s, dialect, j, k)
    BY DEF SteadyBy, Texts
<1>2. i \in 1..n + 1 /\ i + 0 = i /\ 0 \in 0..m
    BY <1>1
<1>3. 0 \in S
    BY <1>2
<1>4. ASSUME NEW k \in 0..m - 1, k \in S PROVE k + 1 \in S
    <2>1. i + k \in P /\ i + k \in 1..n /\ i + k \in i..i + m - 1
        BY <1>2, <1>4
    <2>2. PICK h \in P : Leaves(s, dialect, i + k, h)
        BY <1>1, <2>1
    <2>3. h = (i + k) + 1
        BY <2>1, <2>2, PlainLeaves
    <2>4. (i + k) + 1 = i + (k + 1) /\ k + 1 \in 0..m
        BY <1>2
    <2> QED
        BY <2>3, <2>4
<1>5. m \in S
    <2> HIDE DEF S
    <2> QED
        BY <1>3, <1>4, Induction
<1> QED
    BY <1>5

\* Without its numbers a text has no construct that it had not before.
LEMMA PlainThinned ==
    ASSUME NEW s \in Texts, NEW t \in Texts, NEW at, Thins(at, t, s), NEW dialect,
           NEW p \in 1..Len(t), IsPlain(s, dialect, at[p])
    PROVE  IsPlain(t, dialect, p)
<1> DEFINE n == Len(s)
           L == Len(t)
           i == at[p]
<1>1. /\ n \in Nat /\ L \in Nat /\ at \in [1..L -> 1..n] /\ p \in 1..L
      /\ \A q \in 1..L : t[q] = IF IsNumber(s, at[q]) THEN "?" ELSE s[at[q]]
    BY DEF Thins, Texts
<1>2. i \in 1..n
    BY <1>1
<1>3. /\ ~(i + 1 <= n /\ s[i] = "-" /\ s[i + 1] = "-")
      /\ ~(s[i] = "#" /\ dialect \in HashDialects)
      /\ ~(i + 1 <= n /\ s[i] = "/" /\ s[i + 1] = "*")
      /\ s[i] \notin Quotes /\ ~HasTag(s, i)
    <2> HIDE DEF i
    <2> QED
        BY <1>2, PlainIs DEF i
<1>4. \A q \in 1..L : ~IsNumber(s, at[q]) =>
            IF at[q] = n THEN q = L ELSE q < L /\ at[q + 1] = at[q] + 1
    BY NextIs
<1> HIDE DEF n, L
<1>5. CASE IsNumber(s, i)
    <2>1. t[p] = "?"
        BY <1>1, <1>5
    <2>2. /\ "?" # "-" /\ "?" # "#" /\ "?" # "/" /\ "?" # "$" /\ "?" \notin Quotes
        BY DEF Quotes
    <2> QED
        BY <2>1, <2>2, PlainIs DEF HasTag
<1>6. CASE ~IsNumber(s, i)
    <2>1. t[p] = s[i]
        BY <1>1, <1>6
    <2>2. ASSUME p + 1 <= L PROVE i + 1 <= n /\ (t[p + 1] = s[i + 1] \/ t[p + 1] = "?")
        <3>1. p # L /\ p + 1 \in 1..L
            BY <1>1, <2>2
        <3>2. i # n /\ at[p + 1] = i + 1
            BY <1>1, <1>4, <1>6, <3>1
        <3>3. t[p + 1] = s[i + 1] \/ t[p + 1] = "?"
            BY <1>1, <3>1, <3>2
        <3> HIDE DEF i
        <3> QED
            BY <1>1, <1>2, <3>2, <3>3
    <2>3. ASSUME t[p] = "$", NEW j \in p + 1..L, t[j] = "$", t[p + 1] \notin Digits,
                 \A k \in p + 1..j - 1 : t[k] \in WordChars
          PROVE  HasTag(s, i)
        <3> DEFINE m == j - p
                   S == {k \in 0..m : at[p + k] = i + k}
        <3>1. m \in Nat /\ m >= 1 /\ p + m = j /\ p + 0 = p /\ i + 0 = i
            BY <1>1, <1>2, <2>3
        <3>2. \A k \in 0..m : p + k \in 1..L /\ t[p + k] \in WordChars \cup {"$"}
            <4> SUFFICES ASSUME NEW k \in 0..m
                         PROVE  p + k \in 1..L /\ t[p + k] \in WordChars \cup {"$"}
                OBVIOUS
            <4>1. p + k \in 1..L /\ (k = 0 \/ k = m \/ p + k \in p + 1..j - 1)
                BY <1>1, <2>3
            <4> QED
                BY <2>3, <3>1, <4>1
        <3>3. "?" \notin WordChars \cup {"$"}
            BY DEF WordChars, Letters, Digits
        <3>4. \A k \in 0..m : ~IsNumber(s, at[p + k]) /\ t[p + k] = s[at[p + k]]
            BY <1>1, <3>2, <3>3
        <3> HIDE DEF i, m
        <3>5. 0 \in S
            <4>1. 0 \in 0..m
                BY <3>1
            <4> QED
                BY <3>1, <4>1 DEF i
        <3>6. ASSUME NEW k \in 0..m - 1, k \in S PROVE k + 1 \in S
            <4>1. k \in 0..m /\ k + 1 \in 0..m /\ p + (k + 1) = (p + k) + 1
                  /\ i + (k + 1) = (i + k) + 1 /\ at[p + k] = i + k
                BY <1>1, <1>2, <3>1, <3>6
            <4>2. p + k \in 1..L /\ p + (k + 1) \in 1..L /\ p + k # L
                BY <1>1, <3>1, <3>2, <4>1
            <4>3. at[(p + k) + 1] = at[p + k] + 1
                BY <1>4, <3>4, <4>1, <4>2
            <4> QED
                BY <4>1, <4>3
        <3> HIDE DEF S
        <3>7. ASSUME NEW k \in 0..m PROVE at[p + k] = i + k
            <4>1. k \in Nat /\ \A h \in 0..k - 1 : h \in 0..m - 1
                BY <3>1
            <4>2. \A h \in 0..k - 1 : h \in S => h + 1 \in S
                BY <3>6, <4>1
            <4>3. k \in S
                BY <3>5, <4>1, <4>2, Induction
            <4> QED
                BY <4>3 DEF S
        <3>8. \A k \in 0..m : i + k \in 1..n /\ s[i + k] = t[p + k]
            BY <1>1, <3>2, <3>4, <3>7
        <3>9. /\ i + m \in i + 1..n /\ s[i + m] = "$" /\ s[i] = "$"
              /\ s[i + 1] = t[p + 1]
            <4>1. 0 \in 0..m /\ 1 \in 0..m /\ m \in 0..m
                BY <3>1
            <4>2. i + m \in 1..n /\ i + m \in i + 1..i + m
                BY <1>2, <3>1, <3>8, <4>1
            <4>3. i + m \in i + 1..n
                BY <1>1, <1>2, <4>2
            <4>4. s[i + 0] = t[p + 0] /\ s[i + 1] = t[p + 1] /\ s[i + m] = t[p + m]
                BY <3>8, <4>1
            <4> QED
                BY <2>3, <3>1, <4>3, <4>4
        <3> DEFINE e == i + m
        <3>10. \A h \in i + 1..e - 1 : s[h] \in WordChars
            <4> SUFFICES ASSUME NEW h \in i + 1..e - 1 PROVE s[h] \in WordChars
                OBVIOUS
            <4>1. h - i \in 0..m /\ i + (h - i) = h /\ p + (h - i) \in p + 1..j - 1
                BY <1>1, <1>2, <3>1
            <4> QED
                BY <2>3, <3>8, <4>1
        <3>11. e \in i + 1..Len(s) /\ s[e] = "$" /\ s[i] = "$" /\ s[i + 1] \notin Digits
            BY <2>3, <3>9 DEF n
        <3> HIDE DEF e
        <3> QED
            BY <3>10, <3>11 DEF HasTag
    <2>4. ~HasTag(t, p)
        <3> HIDE DEF i
        <3> QED
            BY <1>3, <2>3 DEF HasTag, L
    <2>5. /\ ~(p + 1 <= L /\ t[p] = "-" /\ t[p + 1] = "-")
          /\ ~(p + 1 <= L /\ t[p] = "/" /\ t[p + 1] = "*")
        <3>1. "?" # "-" /\ "?" # "*"
            OBVIOUS
        <3> HIDE DEF i
        <3> QED
            BY <1>3, <2>1, <2>2, <3>1
    <2> QED
        BY <1>1, <1>3, <2>1, <2>4, <2>5, PlainIs DEF L
<1> QED
    BY <1>5, <1>6

\* The positions of t that stand for the positions the scanner visits in s.
LEMMA Landing ==
    ASSUME NEW s \in Texts, NEW t \in Texts, NEW at, Thins(at, t, s),
           NEW dialect, NEW P, SteadyBy(P, s, dialect),
           NEW q \in 1..Len(t), at[q] + 1 \in P
    PROVE  q = Len(t) \/ at[q + 1] \in P
<1> DEFINE n == Len(s)
           L == Len(t)
           h == at[q] + 1
           m == at[q + 1] - h
<1>1. /\ n \in Nat /\ L \in Nat /\ at \in [1..L -> 1..n] /\ q \in 1..L
      /\ \A a, b \in 1..L : a < b => at[a] < at[b]
      /\ \A i \in 1..n : (i = 1 \/ ~IsNumber(s, i) \/ s[i - 1] \notin Digits) =>
                                \E p \in 1..L : at[p] = i
    BY DEF Thins, Texts
<1> HIDE DEF n, L
<1> SUFFICES ASSUME q # L PROVE at[q + 1] \in P
    BY DEF L
<1>2. q + 1 \in 1..L /\ q < q + 1
    BY <1>1
<1>3. at[q] \in 1..n /\ at[q + 1] \in 1..n /\ at[q] < at[q + 1]
    BY <1>1, <1>2
<1>4. m \in Nat /\ h + m = at[q + 1] /\ h + m <= n + 1
    BY <1>1, <1>3
<1>5. ASSUME NEW j \in h..h + m - 1 PROVE s[j] \notin Openers
    <2>1. j \in 1..n /\ at[q] < j /\ j < at[q + 1]
        BY <1>1, <1>3, <1>5
    <2>2. ASSUME NEW p \in 1..L, at[p] = j PROVE FALSE
        <3>1. ~(p < q) /\ p # q /\ ~(q + 1 < p) /\ p # q + 1
            <4>1. p < q => at[p] < at[q]
                BY <1>1
            <4>2. q + 1 < p => at[q + 1] < at[p]
                BY <1>1, <1>2
            <4> QED
                BY <1>3, <2>1, <2>2, <4>1, <4>2
        <3> QED
            BY <1>1, <3>1
    <2>3. IsNumber(s, j)
        BY <1>1, <2>1, <2>2
    <2> QED
        BY <2>3 DEF IsNumber, Digits, Openers
<1> HIDE DEF m
<1>6. h \in P
    OBVIOUS
<1> HIDE DEF h
<1>7. h + m \in P
    BY <1>4, <1>5, <1>6, PlainVisited DEF n
<1> QED
    BY <1>4, <1>7

LEMMA ThinnedSteady ==
    ASSUME NEW s \in Texts, NEW t \in Texts, NEW at, Thins(at, t, s),
           NEW dialect, Steady(s, dialect)
    PROVE  Steady(t, dialect)
<1> DEFINE n == Len(s)
           L == Len(t)
<1>1. PICK P : SteadyBy(P, s, dialect)
    BY DEF Steady
<1>2. /\ n \in Nat /\ L \in Nat /\ at \in [1..L -> 1..n]
      /\ \A a, b \in 1..L : a < b => at[a] < at[b]
      /\ \A i \in 1..n : i = 1 => \E p \in 1..L : at[p] = i
    BY DEF Thins, Texts
<1>3. /\ 1 \in P /\ P \subseteq 1..n + 1
      /\ \A i \in P : i <= n => \E k \in P : k > i /\ Leaves(s, dialect, i, k)
    BY <1>1 DEF SteadyBy
<1> DEFINE Q == {p \in 1..L : at[p] \in P} \cup {L + 1}
<1>4. ASSUME NEW q \in 1..L, at[q] + 1 \in P PROVE q + 1 \in Q
    <2>1. q = L \/ at[q + 1] \in P
        BY <1>1, <1>4, Landing
    <2>2. q = L \/ q + 1 \in 1..L
        BY <1>2
    <2> HIDE DEF L
    <2> QED
        BY <2>1, <2>2
<1>5. 1 \in Q
    <2>1. CASE n = 0
        <3>1. ~(1 \in 1..L)
            BY <1>2, <2>1
        <3>2. L = 0
            BY <1>2, <3>1
        <3> QED
            BY <3>2
    <2>2. CASE n # 0
        <3>1. PICK p \in 1..L : at[p] = 1
            BY <1>2, <2>2
        <3>2. 1 \in 1..L /\ (p = 1 \/ 1 < p)
            BY <1>2
        <3>3. 1 < p => at[1] < 1 /\ at[1] \in 1..n
            BY <1>2, <3>1, <3>2
        <3>4. p = 1
            BY <3>2, <3>3
        <3> QED
            BY <1>3, <3>1, <3>2, <3>4
    <2> QED
        BY <2>1, <2>2
<1>6. Q \subseteq 1..L + 1
    BY <1>2
<1>7. \A q \in 1..L : ~IsNumber(s, at[q]) => (at[q] = n => q = L)
    <2> SUFFICES ASSUME NEW q \in 1..L, ~IsNumber(s, at[q]) PROVE at[q] = n => q = L
        OBVIOUS
    <2>1. IF at[q] = Len(s) THEN q = Len(t) ELSE q < Len(t) /\ at[q + 1] = at[q] + 1
        BY NextIs
    <2> QED
        BY <2>1
<1>8. ASSUME NEW p \in 1..L, NEW m \in Nat, at[p] + m <= n,
             \A i \in at[p]..at[p] + m : s[i] \notin Digits
      PROVE  p + m <= L /\ \A k \in 0..m : at[p + k] = at[p] + k /\ t[p + k] = s[at[p] + k]
    <2>1. \A i \in at[p]..at[p] + m : ~IsNumber(s, i)
        BY <1>8 DEF IsNumber
    <2> QED
        BY <1>8, <2>1, RunIs
<1>9. ASSUME NEW p \in 1..L, at[p] \in P PROVE \E k \in Q : k > p /\ Leaves(t, dialect, p, k)
    <2> DEFINE i == at[p]
    <2>1. i \in 1..n
        BY <1>2
    <2>2. PICK k \in P : k > i /\ Leaves(s, dialect, i, k)
        BY <1>2, <1>3, <1>9, <2>1
    <2>3. CASE IsPlain(s, dialect, i) /\ k = i + 1
        <3>1. IsPlain(t, dialect, p)
            BY <2>3, PlainThinned
        <3>2. p + 1 \in Q /\ p + 1 > p
            BY <1>4, <2>3
        <3> QED
            BY <3>1, <3>2 DEF Leaves
    <2> HIDE DEF i, n, L, Q
    <2>4. CASE IsBlock(s, i) /\ k = i + 5
        <3>1. /\ i + 4 <= n /\ s[i] = "/" /\ s[i + 1] = "*" /\ s[i + 2] = REDACTED
              /\ s[i + 3] = "*" /\ s[i + 4] = "/"
            BY <2>4 DEF IsBlock, n
        <3>2. \A j \in i..i + 4 : s[j] \notin Digits
            <4>1. \A j \in i..i + 4 : j = i \/ j = i + 1 \/ j = i + 2 \/ j = i + 3 \/ j = i + 4
                BY <2>1
            <4>2. "/" \notin Digits /\ "*" \notin Digits /\ REDACTED \notin Digits
                BY DEF Digits, REDACTED
            <4> QED
                BY <3>1, <4>1, <4>2
        <3>3. /\ p + 4 <= L
              /\ \A e \in 0..4 : at[p + e] = i + e /\ t[p + e] = s[i + e]
            BY <1>8, <3>1, <3>2 DEF i
        <3>4. /\ p + 0 = p /\ i + 0 = i
              /\ 0 \in 0..4 /\ 1 \in 0..4 /\ 2 \in 0..4 /\ 3 \in 0..4 /\ 4 \in 0..4
            BY <2>1
        <3>5. /\ t[p] = "/" /\ t[p + 1] = "*" /\ t[p + 2] = REDACTED
              /\ t[p + 3] = "*" /\ t[p + 4] = "/" /\ at[p + 4] = i + 4
            BY <3>1, <3>3, <3>4
        <3>6. IsBlock(t, p)
            BY <3>3, <3>5 DEF IsBlock, L
        <3>7. p + 5 \in Q
            <4>1. p + 4 \in 1..L /\ (p + 4) + 1 = p + 5 /\ (i + 4) + 1 = i + 5
                BY <1>2, <2>1, <3>3
            <4>2. at[p + 4] + 1 \in P
                BY <2>4, <3>5, <4>1
            <4> QED
                BY <1>4, <4>1, <4>2
        <3>8. p + 5 > p
            OBVIOUS
        <3> QED
            BY <3>6, <3>7, <3>8 DEF Leaves
    <2>5. CASE IsLine(s, dialect, i, k)
        <3>1. PICK r \in i + 1..n :
                /\ IsMarked(s, dialect, i, r) /\ s[r] = REDACTED
                /\ \/ r = n /\ k = r + 1
                   \/ r < n /\ s[r + 1] = "\n" /\ k = r + 2
            BY <2>5 DEF IsLine, n
        <3> DEFINE m == r - i
        <3>2. /\ m \in Nat /\ i + m = r /\ r <= n /\ p + 0 = p /\ i + 0 = i /\ 0 \in 0..m
              /\ 1 \in 0..m /\ m \in 0..m
            BY <1>2, <2>1
        <3>3. \A j \in i..i + m : s[j] \notin Digits
            <4>1. /\ "-" \notin Digits /\ "#" \notin Digits /\ REDACTED \notin Digits
                  /\ "\n" \notin Digits
                BY DEF Digits, REDACTED
            <4>2. CASE r = i + 2 /\ s[i] = "-" /\ s[i + 1] = "-"
                <5>1. \A j \in i..i + m : j = i \/ j = i + 1 \/ j = r
                    BY <2>1, <4>2
                <5> QED
                    BY <3>1, <4>1, <4>2, <5>1
            <4>3. CASE r = i + 1 /\ s[i] = "#"
                <5>1. \A j \in i..i + m : j = i \/ j = r
                    BY <2>1, <4>3
                <5> QED
                    BY <3>1, <4>1, <4>3, <5>1
            <4> QED
                BY <3>1, <4>2, <4>3 DEF IsMarked
        <3> HIDE DEF m
        <3>4. p + m <= L /\ \A e \in 0..m : at[p + e] = i + e /\ t[p + e] = s[i + e]
            <4> SUFFICES /\ at[p] + m <= n
                         /\ \A j \in at[p]..at[p] + m : s[j] \notin Digits
                BY <1>8, <3>2 DEF i
            <4> QED
                BY <3>2, <3>3 DEF i
        <3>5. /\ t[p] = s[i] /\ t[p + 1] = s[i + 1] /\ t[p + m] = REDACTED /\ at[p + m] = r
              /\ p + m \in p + 1..L /\ p + m \in 1..L
            BY <1>2, <3>1, <3>2, <3>4
        <3>6. IsMarked(t, dialect, p, p + m)
            <4>1. CASE r = i + 2 /\ s[i] = "-" /\ s[i + 1] = "-"
                <5>1. m = 2
                    BY <2>1, <4>1 DEF m
                <5> QED
                    BY <3>5, <4>1, <5>1 DEF IsMarked
            <4>2. CASE r = i + 1 /\ s[i] = "#" /\ dialect \in HashDialects
                <5>1. m = 1
                    BY <2>1, <4>2 DEF m
                <5> QED
                    BY <3>5, <4>2, <5>1 DEF IsMarked
            <4> QED
                BY <3>1, <4>1, <4>2 DEF IsMarked
        <3>7. ~IsNumber(s, r)
            <4>1. REDACTED \notin Digits
                BY DEF Digits, REDACTED
            <4> QED
                BY <3>1, <4>1 DEF IsNumber
        <3>8. CASE r = n /\ k = r + 1
            <4>1. p + m = L
                BY <1>7, <3>5, <3>7, <3>8
            <4>2. IsLine(t, dialect, p, L + 1)
                BY <3>5, <3>6, <4>1 DEF IsLine, L
            <4>3. L + 1 > p /\ L + 1 \in Q
                BY <1>2 DEF Q
            <4> QED
                BY <4>2, <4>3 DEF Leaves
        <3>9. CASE r < n /\ s[r + 1] = "\n" /\ k = r + 2
            <4> DEFINE f == m + 1
            <4>1. f \in Nat /\ i + f = r + 1 /\ i + f <= n /\ f \in 0..f
                BY <1>2, <2>1, <3>2, <3>9
            <4>2. \A j \in i..i + f : s[j] \notin Digits
                <5>1. \A j \in i..i + f : j \in i..i + m \/ j = r + 1
                    BY <2>1, <3>2
                <5>2. "\n" \notin Digits
                    BY DEF Digits
                <5> QED
                    BY <3>3, <3>9, <5>1, <5>2
            <4> HIDE DEF f
            <4>3. p + f <= L /\ \A e \in 0..f : at[p + e] = i + e /\ t[p + e] = s[i + e]
                <5> SUFFICES /\ at[p] + f <= n
                             /\ \A j \in at[p]..at[p] + f : s[j] \notin Digits
                    BY <1>8, <4>1 DEF i
                <5> QED
                    BY <4>1, <4>2 DEF i
            <4>4. t[p + f] = "\n" /\ at[p + f] = r + 1
                BY <3>9, <4>1, <4>3
            <4>5. p + f = (p + m) + 1 /\ p + m < L /\ p + f \in 1..L /\ (p + f) + 1 = (p + m) + 2
                BY <1>2, <3>2, <4>1, <4>3 DEF f
            <4>6. IsLine(t, dialect, p, (p + m) + 2)
                BY <3>5, <3>6, <4>4, <4>5 DEF IsLine, L
            <4>7. (p + m) + 2 \in Q
                <5>1. at[p + f] + 1 = k
                    BY <2>1, <3>1, <3>9, <4>4
                <5> QED
                    BY <1>4, <4>5, <5>1
            <4>8. (p + m) + 2 > p
                BY <3>2
            <4> QED
                BY <4>6, <4>7, <4>8 DEF Leaves
        <3> QED
            BY <3>1, <3>8, <3>9
    <2> QED
        BY <2>2, <2>3, <2>4, <2>5 DEF Leaves
<1>10. SteadyBy(Q, t, dialect)
    <2>1. \A p \in Q : p <= L => p \in 1..L /\ at[p] \in P
        BY <1>2
    <2> HIDE DEF Q
    <2> QED
        BY <1>5, <1>6, <1>9, <2>1 DEF SteadyBy
<1> QED
    BY <1>10 DEF Steady

LEMMA NumbersGone ==
    ASSUME NEW s \in Texts, \A i \in 1..Len(s) : ~IsNumber(s, i)
    PROVE  WithoutNumbers(s) = s
<1> DEFINE n == Len(s)
           t == WithoutNumbers(s)
           L == Len(t)
<1>1. t \in Texts
    BY NumbersInk
<1>2. PICK at : Thins(at, t, s)
    BY Thinned
<1> HIDE DEF t
<1>3. /\ n \in Nat /\ L \in Nat /\ at \in [1..L -> 1..n]
      /\ \A i \in 1..n : i = 1 => \E p \in 1..L : at[p] = i
      /\ \A a, b \in 1..L : a < b => at[a] < at[b]
    BY <1>1, <1>2 DEF Thins, Texts
<1>4. CASE n = 0
    <2>1. ~(1 \in 1..L)
        BY <1>3, <1>4
    <2>2. L = 0
        BY <1>3, <2>1
    <2>3. s = <<>> /\ t = <<>>
        BY <1>1, <1>4, <2>2 DEF Texts
    <2> QED
        BY <2>3 DEF t
<1>5. CASE n # 0
    <2>1. PICK p \in 1..L : at[p] = 1
        BY <1>3, <1>5
    <2>2. 1 \in 1..L /\ (p = 1 \/ 1 < p)
        BY <1>3
    <2>3. 1 < p => at[1] < 1 /\ at[1] \in 1..n
        BY <1>3, <2>1, <2>2
    <2>4. at[1] = 1
        BY <2>1, <2>2, <2>3
    <2> DEFINE m == n - 1
    <2>5. m \in Nat /\ 1 + m = n
        BY <1>3, <1>5
    <2> HIDE DEF m
    <2>6. 1 + m <= L /\ \A k \in 0..m : at[1 + k] = 1 + k /\ t[1 + k] = s[1 + k]
        <3>1. at[1] + m <= Len(s) /\ \A i \in at[1]..at[1] + m : ~IsNumber(s, i)
            BY <1>3, <2>4, <2>5
        <3>2. 1 + m <= Len(t) /\ \A k \in 0..m : at[1 + k] = at[1] + k /\ t[1 + k] = s[at[1] + k]
            BY <1>1, <1>2, <2>2, <2>5, <3>1, RunIs
        <3> QED
            BY <2>4, <3>2
    <2>7. \A i \in 1..n : at[i] = i /\ t[i] = s[i]
        <3>1. \A i \in 1..n : i - 1 \in 0..m /\ 1 + (i - 1) = i
            BY <1>3, <2>5
        <3> QED
            BY <2>6, <3>1
    <2>8. n = L
        <3>1. n \in 1..L /\ at[n] = n
            BY <1>3, <1>5, <2>5, <2>6, <2>7
        <3>2. IF at[n] = Len(s) THEN n = Len(t) ELSE n < Len(t) /\ at[n + 1] = at[n] + 1
            <4>1. ~IsNumber(s, at[n])
                BY <1>3, <3>1
            <4> QED
                BY <1>1, <1>2, <3>1, <4>1, NextIs
        <3> QED
            BY <3>1, <3>2
    <2>9. t = s
        <3>1. s \in Seq(Chars) /\ t \in Seq(Chars)
            BY <1>1 DEF Texts
        <3> QED
            BY <2>7, <2>8, <3>1
    <2> QED
        BY <2>9 DEF t
<1> QED
    BY <1>4, <1>5

\* A text that redaction leaves as it is.
IsSettled(s, dialect) ==
    Steady(s, dialect) /\ \A i \in 1..Len(s) : ~IsNumber(s, i)

LEMMA SettledIs ==
    ASSUME NEW s \in Texts, NEW dialect, IsSettled(s, dialect)
    PROVE  _redact_sql_fragments(s, dialect) = s
<1>1. PICK g : /\ IsFragments(g, s, dialect)
               /\ _redact_sql_fragments(s, dialect) = WithoutNumbers(g[1])
    BY FragmentsAre
<1>2. g[1] = s
    BY <1>1, SteadyIs DEF IsSettled
<1>3. WithoutNumbers(s) = s
    BY NumbersGone DEF IsSettled
<1> QED
    BY <1>1, <1>2, <1>3

LEMMA RedactedSettles ==
    ASSUME NEW s \in Texts, NEW dialect
    PROVE  IsSettled(_redact_sql_fragments(s, dialect), dialect)
<1>1. PICK g : /\ IsFragments(g, s, dialect)
               /\ _redact_sql_fragments(s, dialect) = WithoutNumbers(g[1])
    BY FragmentsAre
<1> DEFINE f == g[1]
           t == WithoutNumbers(f)
<1>2. f \in Texts /\ Steady(f, dialect)
    BY <1>1, FragmentsSteady
<1> HIDE DEF f
<1>3. t \in Texts /\ \E at : Thins(at, t, f)
    BY <1>2, NumbersInk, Thinned
<1> HIDE DEF t
<1>4. PICK at : Thins(at, t, f)
    BY <1>3
<1>5. Steady(t, dialect)
    BY <1>2, <1>3, <1>4, ThinnedSteady
<1>6. \A p \in 1..Len(t) : ~IsNumber(t, p)
    BY <1>2, <1>3, <1>4, NoNumbersLeft
<1> QED
    BY <1>1, <1>5, <1>6 DEF IsSettled, t, f

\* Strip leaves what is between the first and the last character that is no blank.
IsInk(s, a, b) ==
    /\ a \in 1..Len(s) /\ b \in a..Len(s) /\ s[a] \notin Blanks /\ s[b] \notin Blanks
    /\ \A i \in 1..Len(s) : s[i] \notin Blanks => i \in a..b

LEMMA StripPart ==
    ASSUME NEW s \in Texts
    PROVE  \/ Strip(s) = <<>> /\ ~IsNonBlank(s)
           \/ \E a, b \in 1..Len(s) : IsInk(s, a, b) /\ Strip(s) = SubSeq(s, a, b)
<1> DEFINE n == Len(s)
           inked == {i \in DOMAIN s : s[i] \notin Blanks}
           first == Min(inked)
           final == Max(inked)
<1>1. n \in Nat /\ DOMAIN s = 1..n
    BY DEF Texts
<1>2. CASE inked = {}
    <2>1. Strip(s) = <<>>
        BY <1>2 DEF Strip
    <2> QED
        BY <1>2, <2>1 DEF IsNonBlank
<1>3. CASE inked # {}
    <2>1. inked \subseteq 1..n /\ inked \subseteq Nat /\ IsFiniteSet(inked)
        BY <1>1, IntervalIs, FS_Subset
    <2> HIDE DEF inked, n
    <2>2. first \in inked /\ \A i \in inked : first <= i
        BY <1>3, <2>1, LeastIs
    <2>3. final \in inked /\ \A i \in inked : i <= final
        BY <1>1, <1>3, <2>1, GreatestIs
    <2>4. Strip(s) = SubSeq(s, first, final)
        BY <1>3 DEF Strip, inked
    <2> HIDE DEF first, final
    <2>5. \A i \in 1..n : s[i] \notin Blanks => i \in inked
        BY <1>1 DEF inked
    <2>6. IsInk(s, first, final)
        <3>1. first \in 1..n /\ final \in first..n
            BY <1>1, <2>1, <2>2, <2>3
        <3>2. s[first] \notin Blanks /\ s[final] \notin Blanks
            BY <2>2, <2>3 DEF inked
        <3>3. \A i \in 1..n : s[i] \notin Blanks => i \in first..final
            BY <1>1, <2>1, <2>2, <2>3, <2>5
        <3> QED
            BY <3>1, <3>2, <3>3 DEF IsInk, n
    <2> QED
        BY <2>4, <2>6 DEF IsInk
<1> QED
    BY <1>2, <1>3

LEMMA BlanksArePlain == \A x \in Blanks : x \notin Openers
BY DEF Blanks, Openers

\* The part of a settled text that has all its ink is settled.
LEMMA PartSettles ==
    ASSUME NEW s \in Texts, NEW dialect, IsSettled(s, dialect),
           NEW a \in 1..Len(s), NEW b \in a..Len(s),
           \A i \in 1..Len(s) : s[i] \notin Blanks => i \in a..b
    PROVE  IsSettled(SubSeq(s, a, b), dialect)
<1> DEFINE n == Len(s)
           u == SubSeq(s, a, b)
           m == a - 1
           l == Len(u)
<1>1. /\ n \in Nat /\ b \in a..n 
      /\ \A i \in 1..n : s[i] \notin Blanks => i \in a..b
    BY DEF Texts
<1>2. u \in Texts /\ l = b - m /\ \A j \in 1..l : s[m + j] = u[j]
    <2>1. u \in Seq(Chars) /\ l = b - a + 1 /\ \A j \in 1..b - a + 1 : u[j] = s[a + j - 1]
        BY <1>1 DEF Texts
    <2> HIDE DEF u, l
    <2>2. b - a + 1 = b - m /\ \A j \in 1..b - a + 1 : a + j - 1 = m + j
        BY <1>1
    <2> QED
        BY <2>1, <2>2 DEF Texts
<1>3. m \in Nat /\ l \in Nat /\ l >= 1 /\ m + l = b /\ m + l <= n /\ n \in Nat
    BY <1>1, <1>2
<1>4. IsPart(u, s, m)
    BY <1>2, <1>3 DEF IsPart
<1>5. DOMAIN s = 1..n /\ DOMAIN u = 1..l
    BY <1>2 DEF Texts
<1>6. PICK P : SteadyBy(P, s, dialect)
    BY DEF IsSettled, Steady
<1>7. /\ 1 \in P /\ P \subseteq 1..n + 1
      /\ \A i \in P : i <= n => \E k \in P : k > i /\ Leaves(s, dialect, i, k)
    BY <1>6 DEF SteadyBy
<1> HIDE DEF u, l
<1>8. m + 1 \in P
    <2>1. \A j \in 1..1 + m - 1 : s[j] \notin Openers
        <3> SUFFICES ASSUME NEW j \in 1..1 + m - 1 PROVE s[j] \notin Openers
            OBVIOUS
        <3>1. j \in 1..n /\ ~(j \in a..b)
            BY <1>1
        <3> QED
            BY <1>1, <3>1, BlanksArePlain
    <2>2. 1 + m <= Len(s) + 1 /\ m + 1 = 1 + m
        BY <1>3
    <2> HIDE DEF m
    <2> QED
        BY <1>3, <1>6, <1>7, <2>1, <2>2, PlainVisited
<1> HIDE DEF m, n
<1> DEFINE Q == {p \in 1..l : m + p \in P} \cup {l + 1}
<1>9. 1 \in Q /\ Q \subseteq 1..l + 1
    BY <1>3, <1>8
<1>10. ASSUME NEW p \in 1..l + 1, m + p \in P PROVE p \in Q
    BY <1>3, <1>10
<1>11. \A i \in 1..n : s[i] \notin Blanks => i <= m + l
    BY <1>1, <1>3
<1>12. ASSUME NEW p \in 1..l, m + p \in P
       PROVE  \E k \in Q : k > p /\ Leaves(u, dialect, p, k)
    <2> DEFINE i == m + p
    <2>1. i \in 1..n /\ p \in Nat /\ s[i] = u[p]
        BY <1>2, <1>3
    <2>2. PICK k \in P : k > i /\ Leaves(s, dialect, i, k)
        BY <1>3, <1>7, <1>12, <2>1
    <2>3. CASE IsPlain(s, dialect, i) /\ k = i + 1
        <3>1. IsPlain(u, dialect, p)
            <4>1. IsPlain(s, dialect, m + p)
                BY <2>3
            <4> QED
                BY <1>2, <1>3, <1>4, <4>1, PlainInPart DEF l
        <3>2. m + (p + 1) = i + 1 /\ p + 1 \in 1..l + 1 /\ p + 1 > p
            BY <1>3
        <3>3. p + 1 \in Q
            BY <1>10, <2>3, <3>2
        <3> QED
            BY <3>1, <3>2, <3>3 DEF Leaves
    <2>4. CASE IsBlock(s, i) /\ k = i + 5
        <3>1. /\ i + 4 <= n /\ s[i] = "/" /\ s[i + 1] = "*" /\ s[i + 2] = REDACTED
              /\ s[i + 3] = "*" /\ s[i + 4] = "/"
            BY <2>4 DEF IsBlock, n
        <3>2. i + 4 \in 1..n /\ "/" \notin Blanks
            <4>1. "/" \notin Blanks
                BY DEF Blanks
            <4>2. i \in 1..n /\ n \in Nat /\ i + 4 <= n
                BY <1>1, <2>1, <3>1
            <4> HIDE DEF i
            <4> QED
                BY <4>1, <4>2
        <3>3. i + 4 <= m + l
            BY <1>11, <3>1, <3>2
        <3>4. /\ p + 4 <= l /\ m + (p + 1) = i + 1 /\ m + (p + 2) = i + 2
              /\ m + (p + 3) = i + 3 /\ m + (p + 4) = i + 4 /\ m + (p + 5) = i + 5
              /\ p + 1 \in 1..l /\ p + 2 \in 1..l /\ p + 3 \in 1..l /\ p + 4 \in 1..l
              /\ p + 5 \in 1..l + 1 /\ p + 5 > p
            BY <1>3, <3>3
        <3> HIDE DEF i
        <3>5. /\ u[p + 1] = s[i + 1] /\ u[p + 2] = s[i + 2] /\ u[p + 3] = s[i + 3]
              /\ u[p + 4] = s[i + 4]
            BY <1>2, <3>4
        <3>6. IsBlock(u, p)
            BY <2>1, <3>1, <3>4, <3>5 DEF IsBlock, l
        <3>7. p + 5 \in Q
            BY <1>10, <2>4, <3>4
        <3> QED
            BY <3>4, <3>6, <3>7 DEF Leaves
    <2>5. CASE IsLine(s, dialect, i, k)
        <3>1. PICK r \in i + 1..n :
                /\ IsMarked(s, dialect, i, r) /\ s[r] = REDACTED
                /\ \/ r = n /\ k = r + 1
                   \/ r < n /\ s[r + 1] = "\n" /\ k = r + 2
            BY <2>5 DEF IsLine, n
        <3> DEFINE e == r - m
        <3>2. r <= m + l
            <4>1. REDACTED \notin Blanks
                BY DEF Blanks, REDACTED
            <4>2. r \in 1..n
                BY <1>3, <2>1
            <4> QED
                BY <1>11, <3>1, <4>1, <4>2
        <3>3. e \in p + 1..l /\ e \in 1..l /\ m + e = r /\ p + 1 \in 1..l /\ m + (p + 1) = i + 1
              /\ e > p
            BY <1>3, <3>2
        <3>4. u[e] = REDACTED /\ u[p] = s[i] /\ u[p + 1] = s[i + 1]
            <4> HIDE DEF e, i
            <4> QED
                BY <1>2, <2>1, <3>1, <3>3
        <3>5. IsMarked(u, dialect, p, e)
            <4>1. r = i + 2 => e = p + 2
                BY <1>3
            <4>2. r = i + 1 => e = p + 1
                BY <1>3
            <4> HIDE DEF e, i
            <4> QED
                BY <3>1, <3>4, <4>1, <4>2 DEF IsMarked
        <3>6. CASE e = l
            <4>1. IsLine(u, dialect, p, l + 1)
                <5> HIDE DEF e
                <5> QED
                    BY <3>3, <3>4, <3>5, <3>6 DEF IsLine, l
            <4>2. l + 1 > p /\ l + 1 \in Q
                BY <1>3
            <4> QED
                BY <4>1, <4>2 DEF Leaves
        <3>7. CASE e # l
            <4>1. e < l /\ e + 1 \in 1..l /\ m + (e + 1) = r + 1 /\ m + (e + 2) = r + 2
                  /\ r < n /\ e + 2 \in 1..l + 1 /\ e + 2 > p
                BY <1>3, <3>3, <3>7
            <4> HIDE DEF e
            <4>2. s[r + 1] = "\n" /\ k = r + 2
                <5>1. r # n
                    BY <1>3, <4>1
                <5> QED
                    BY <3>1, <5>1
            <4>3. u[e + 1] = "\n"
                BY <1>2, <4>1, <4>2
            <4>4. IsLine(u, dialect, p, e + 2)
                BY <3>3, <3>4, <3>5, <4>1, <4>3 DEF IsLine, l
            <4>5. e + 2 \in Q
                BY <1>10, <4>1, <4>2
            <4> QED
                BY <4>1, <4>4, <4>5 DEF Leaves
        <3> QED
            BY <3>6, <3>7
    <2> QED
        BY <2>2, <2>3, <2>4, <2>5 DEF Leaves
<1>13. SteadyBy(Q, u, dialect)
    <2>1. \A p \in Q : p <= l => p \in 1..l /\ m + p \in P
        BY <1>3
    <2> HIDE DEF Q
    <2> QED
        BY <1>9, <1>12, <2>1 DEF SteadyBy, l
<1>14. ASSUME NEW p \in 1..l, IsNumber(u, p) PROVE FALSE
    <2>1. m + p \in 1..n /\ s[m + p] = u[p]
        BY <1>2, <1>3
    <2>2. ASSUME NEW j \in 1..n, s[j] \in Letters
          PROVE  \E k \in 1..n : (k \in m + p..j \/ k \in j..m + p) /\ s[k] \notin WordChars
        <3>1. \A x \in Letters : x \notin Blanks
            BY DEF Letters, Blanks
        <3>2. j \in a..b
            BY <1>1, <2>2, <3>1
        <3>3. j - m \in 1..l /\ m + (j - m) = j
            BY <1>1, <1>3, <3>2 DEF m
        <3>4. u[j - m] \in Letters
            BY <1>2, <2>2, <3>3
        <3>5. PICK k \in 1..l : (k \in p..j - m \/ k \in j - m..p) /\ u[k] \notin WordChars
            BY <1>5, <1>14, <3>3, <3>4 DEF IsNumber
        <3>6. m + k \in 1..n /\ (m + k \in m + p..j \/ m + k \in j..m + p)
            BY <1>1, <1>3, <3>3, <3>5
        <3>7. s[m + k] \notin WordChars
            BY <1>2, <3>5
        <3> QED
            BY <3>6, <3>7
    <2>3. u[p] \in Digits
        BY <1>14 DEF IsNumber
    <2>4. IsNumber(s, m + p)
        BY <1>5, <2>1, <2>2, <2>3 DEF IsNumber
    <2> QED
        BY <2>1, <2>4 DEF IsSettled, n
<1> QED
    BY <1>13, <1>14 DEF IsSettled, Steady, u, l

\* A settled text without the blanks around it is settled.
LEMMA StrippedSettles ==
    ASSUME NEW s \in Texts, NEW dialect, IsSettled(s, dialect)
    PROVE  IsSettled(Strip(s), dialect)
<1> DEFINE n == Len(s)
<1>1. CASE Strip(s) = <<>>
    <2>1. Steady(<<>>, dialect) /\ \A i \in 1..0 : FALSE
        BY SteadyEmpty
    <2> QED
        BY <1>1, <2>1 DEF IsSettled
<1>2. ASSUME NEW a \in 1..n, NEW b \in 1..n, IsInk(s, a, b)
      PROVE  IsSettled(SubSeq(s, a, b), dialect)
    BY <1>2, PartSettles DEF IsInk
<1>3. \/ Strip(s) = <<>>
      \/ \E a, b \in 1..n : IsInk(s, a, b) /\ Strip(s) = SubSeq(s, a, b)
    BY StripPart
<1> QED
    BY <1>1, <1>2, <1>3

-----------------------------------------------------------------------------
(* Blanks: a text without those around it, and with one for each run. *)

LEMMA InkIs ==
    ASSUME NEW s \in Texts, NEW a \in 1..Len(s), NEW b \in 1..Len(s), IsInk(s, a, b)
    PROVE  Strip(s) = SubSeq(s, a, b)
<1>1. a \in DOMAIN s /\ s[a] \notin Blanks
    BY DEF IsInk, Texts
<1>2. PICK c, d \in 1..Len(s) : IsInk(s, c, d) /\ Strip(s) = SubSeq(s, c, d)
    BY <1>1, StripPart DEF IsNonBlank
<1>3. c \in a..b /\ d \in a..b /\ a \in c..d /\ b \in c..d
    BY <1>2 DEF IsInk
<1>4. a = c /\ b = d
    BY <1>3
<1> QED
    BY <1>2, <1>4

LEMMA StripStrip ==
    ASSUME NEW s \in Texts
    PROVE  Strip(Strip(s)) = Strip(s) /\ Len(Strip(s)) <= Len(s)
<1>1. CASE Strip(s) = <<>>
    <2>1. Strip(<<>>) = <<>>
        BY DEF Strip
    <2> QED
        BY <1>1, <2>1 DEF Texts
<1>2. ASSUME NEW a \in 1..Len(s), NEW b \in 1..Len(s), IsInk(s, a, b)
      PROVE  LET u == SubSeq(s, a, b) IN Strip(u) = u /\ Len(u) <= Len(s)
    <2> DEFINE u == SubSeq(s, a, b)
               l == b - a + 1
    <2>1. Len(s) \in Nat /\ b \in a..Len(s) /\ s[a] \notin Blanks /\ s[b] \notin Blanks
        BY <1>2 DEF IsInk, Texts
    <2>2. u \in Texts /\ Len(u) = l /\ \A j \in 1..l : u[j] = s[a + j - 1]
        BY <2>1 DEF Texts
    <2> HIDE DEF u
    <2>3. l \in 1..Len(s) /\ 1 \in 1..l /\ l \in 1..l /\ a + 1 - 1 = a /\ a + l - 1 = b
        BY <2>1
    <2>4. u[1] = s[a] /\ u[l] = s[b]
        BY <2>2, <2>3
    <2> HIDE DEF l
    <2>5. IsInk(u, 1, l)
        BY <2>1, <2>2, <2>3, <2>4 DEF IsInk
    <2>6. Strip(u) = SubSeq(u, 1, l)
        BY <2>2, <2>3, <2>5, InkIs
    <2>7. SubSeq(u, 1, Len(u)) = u
        BY <2>2 DEF Texts
    <2>8. Len(u) = l /\ Strip(u) = u
        BY <2>2, <2>6, <2>7
    <2>9. Len(u) <= Len(s)
        BY <2>1, <2>3, <2>8
    <2> QED
        BY <2>8, <2>9 DEF u
<1>3. \/ Strip(s) = <<>>
      \/ \E a, b \in 1..Len(s) : IsInk(s, a, b) /\ Strip(s) = SubSeq(s, a, b)
    BY StripPart
<1> QED
    BY <1>1, <1>2, <1>3

\* There is one way to list a set of numbers in their order.
IsRising(f, L) ==
    /\ \A p \in 1..L : f[p] \in Int
    /\ \A p, q \in 1..L : p < q => f[p] < f[q]

IsListed(f, L, g, M) == \A p \in 1..L : \E q \in 1..M : g[q] = f[p]

LEMMA InOneOrder ==
    ASSUME NEW L \in Nat, NEW M \in Nat, NEW f, NEW g, IsRising(f, L), IsRising(g, M),
           IsListed(f, L, g, M), IsListed(g, M, f, L)
    PROVE  L = M /\ \A p \in 1..L : f[p] = g[p]
<1> USE DEF IsRising, IsListed
<1> DEFINE S == {p \in 1..L : p <= M => f[p] = g[p]}
<1>1. ASSUME NEW p \in 1..L, \A q \in 1..p - 1 : q \in S PROVE p \in S
    <2> SUFFICES ASSUME p <= M PROVE f[p] = g[p]
        OBVIOUS
    <2>1. p \in 1..M
        OBVIOUS
    <2>2. \A q \in 1..p - 1 : f[q] = g[q] /\ q \in 1..L /\ q \in 1..M /\ q < p
        BY <1>1, <2>1
    <2>3. ASSUME f[p] < g[p] PROVE FALSE
        <3>1. PICK q \in 1..M : g[q] = f[p]
            OBVIOUS
        <3>2. CASE q \in 1..p - 1
            <4>1. f[q] < f[p] /\ f[q] = g[q]
                BY <2>2, <3>2
            <4> QED
                BY <3>1, <4>1
        <3>3. CASE q = p
            BY <2>3, <3>1, <3>3
        <3>4. CASE p < q
            <4>1. g[p] < g[q]
                BY <2>1, <3>4
            <4> QED
                BY <2>1, <2>3, <3>1, <4>1
        <3> QED
            BY <3>2, <3>3, <3>4
    <2>4. ASSUME g[p] < f[p] PROVE FALSE
        <3>1. PICK q \in 1..L : f[q] = g[p]
            BY <2>1
        <3>2. CASE q \in 1..p - 1
            <4>1. g[q] < g[p] /\ f[q] = g[q]
                BY <2>1, <2>2, <3>2
            <4> QED
                BY <2>1, <3>1, <4>1
        <3>3. CASE q = p
            BY <2>4, <3>1, <3>3
        <3>4. CASE p < q
            <4>1. f[p] < f[q]
                BY <3>4
            <4> QED
                BY <2>1, <2>4, <3>1, <4>1
        <3> QED
            BY <3>2, <3>3, <3>4
    <2> QED
        BY <2>1, <2>3, <2>4
<1>2. 1..L \subseteq S
    <2> HIDE DEF S
    <2> QED
        BY <1>1, Ascending
<1>3. \A p \in 1..L : p \in 1..M => f[p] = g[p]
    BY <1>2
<1>4. ~(M < L)
    <2> SUFFICES ASSUME M < L PROVE FALSE
        OBVIOUS
    <2>1. M + 1 \in 1..L
        OBVIOUS
    <2>2. PICK q \in 1..M : g[q] = f[M + 1]
        BY <2>1
    <2>3. q \in 1..L /\ q < M + 1
        OBVIOUS
    <2>4. f[q] = g[q] /\ f[q] < f[M + 1]
        BY <1>3, <2>1, <2>3
    <2> QED
        BY <2>1, <2>2, <2>4
<1>5. ~(L < M)
    <2> SUFFICES ASSUME L < M PROVE FALSE
        OBVIOUS
    <2>1. L + 1 \in 1..M
        OBVIOUS
    <2>2. PICK p \in 1..L : f[p] = g[L + 1]
        BY <2>1
    <2>3. p \in 1..M /\ p < L + 1
        OBVIOUS
    <2>4. f[p] = g[p] /\ g[p] < g[L + 1]
        BY <1>3, <2>1, <2>3
    <2> QED
        BY <2>1, <2>2, <2>4
<1>6. L = M
    BY <1>4, <1>5
<1> QED
    BY <1>3, <1>6

LEMMA SelectsFew ==
    ASSUME NEW T, NEW t \in Seq(T), NEW seqs, NEW m \in Nat, NEW at, Selects(at, t, seqs, m)
    PROVE  Len(t) <= m
<1> DEFINE L == Len(t)
           S == {p \in 1..L : p <= at[p]}
<1>1. /\ L \in Nat /\ at \in [1..L -> 1..m]
      /\ \A p, q \in 1..L : p < q => at[p] < at[q]
    BY DEF Selects
<1> HIDE DEF L
<1>2. ASSUME NEW p \in 1..L, \A q \in 1..p - 1 : q \in S PROVE p \in S
    <2>1. at[p] \in 1..m
        BY <1>1
    <2>2. CASE p = 1
        BY <2>1, <2>2
    <2>3. CASE p # 1
        <3>1. p - 1 \in 1..p - 1 /\ p - 1 \in 1..L /\ p - 1 < p
            BY <1>1, <2>3
        <3>2. p - 1 <= at[p - 1] /\ at[p - 1] < at[p] /\ at[p - 1] \in 1..m
            BY <1>1, <1>2, <3>1
        <3> QED
            BY <2>1, <3>2
    <2> QED
        BY <2>2, <2>3
<1>3. 1..L \subseteq S
    <2> HIDE DEF S
    <2> QED
        BY <1>1, <1>2, Ascending
<1>4. CASE L # 0
    <2>1. L \in 1..L
        BY <1>1, <1>4
    <2>2. L <= at[L] /\ at[L] \in 1..m
        BY <1>1, <1>3, <2>1
    <2> QED
        BY <1>1, <2>2 DEF L
<1>5. CASE L = 0
    BY <1>5 DEF L
<1> QED
    BY <1>4, <1>5

\* What a character becomes when each run of blanks becomes one.
BlankPiece(s, i) ==
    IF s[i] \notin Blanks THEN <<s[i]>>
    ELSE IF i > 1 /\ s[i - 1] \in Blanks THEN <<>> ELSE <<" ">>

Squeezed(s) == FlattenSeq([i \in DOMAIN s |-> BlankPiece(s, i)])

LEMMA SqueezedIs ==
    ASSUME NEW s \in Texts
    PROVE  /\ CollapseBlanks(s) = Strip(Squeezed(s))
           /\ Squeezed(s) \in Texts /\ Len(Squeezed(s)) <= Len(s)
           /\ \E at : Selects(at, Squeezed(s), [i \in DOMAIN s |-> BlankPiece(s, i)], Len(s))
<1> DEFINE n == Len(s)
           pieces == [i \in DOMAIN s |-> BlankPiece(s, i)]
           t == Squeezed(s)
<1>1. n \in Nat /\ DOMAIN s = 1..n /\ \A i \in 1..n : s[i] \in Chars
    BY DEF Texts
<1>2. \A i \in 1..n : BlankPiece(s, i) = <<>> \/ \E x \in Chars : BlankPiece(s, i) = <<x>>
    <2>1. " " \in Chars
        BY CharsAre
    <2> QED
        BY <1>1, <2>1 DEF BlankPiece
<1>3. \A i \in 1..n : BlankPiece(s, i) \in Seq(Chars)
    <2>1. <<>> \in Seq(Chars) /\ \A x \in Chars : <<x>> \in Seq(Chars)
        BY ShortTexts DEF Texts
    <2> QED
        BY <1>2, <2>1
<1>4. pieces \in Seq(Seq(Chars)) /\ Len(pieces) = n
    BY <1>1, <1>3
<1>5. t = FlattenSeq(pieces)
    BY DEF Squeezed
<1>6. \A i \in DOMAIN pieces : pieces[i] = <<>> \/ \E x \in Chars : pieces[i] = <<x>>
    BY <1>1, <1>2
<1>7. CollapseBlanks(s) = Strip(t)
    BY DEF CollapseBlanks, Squeezed, BlankPiece
<1> HIDE DEF pieces, n
<1>8. t \in Seq(Chars) /\ \E at : Selects(at, t, pieces, n)
    BY <1>4, <1>5, <1>6, Selected
<1> HIDE DEF t
<1>9. Len(t) <= n
    BY <1>1, <1>8, SelectsFew
<1> QED
    BY <1>7, <1>8, <1>9 DEF Texts, t, n, pieces

\* The blanks around a text make no difference once the others have been squeezed.
LEMMA CollapseStripped ==
    ASSUME NEW s \in Texts, IsNonBlank(s)
    PROVE  CollapseBlanks(Strip(s)) = CollapseBlanks(s)
<1>1. PICK a \in 1..Len(s), b \in 1..Len(s) : IsInk(s, a, b) /\ Strip(s) = SubSeq(s, a, b)
    BY StripPart
<1> DEFINE n == Len(s)
           m == a - 1
           u == SubSeq(s, a, b)
           l == Len(u)
           y == Squeezed(s)
           z == Squeezed(u)
           pieces == [i \in DOMAIN s |-> BlankPiece(s, i)]
           parts == [i \in DOMAIN u |-> BlankPiece(u, i)]
<1>2. /\ n \in Nat /\ a \in 1..n /\ b \in a..n /\ s[a] \notin Blanks /\ s[b] \notin Blanks
      /\ DOMAIN s = 1..n /\ \A i \in 1..n : s[i] \notin Blanks => i \in a..b
    BY <1>1 DEF IsInk, Texts
<1>3. u \in Texts /\ l = b - m /\ DOMAIN u = 1..l /\ \A j \in 1..l : u[j] = s[m + j]
    <2>1. u \in Seq(Chars) /\ l = b - a + 1 /\ \A j \in 1..b - a + 1 : u[j] = s[a + j - 1]
        BY <1>2 DEF Texts
    <2>2. DOMAIN u = 1..l
        BY <2>1
    <2> HIDE DEF u, l
    <2>3. b - a + 1 = b - m /\ \A j \in 1..b - a + 1 : a + j - 1 = m + j
        BY <1>2
    <2> QED
        BY <2>1, <2>2, <2>3 DEF Texts
<1>4. m \in Nat /\ l \in Nat /\ l >= 1 /\ m + l = b /\ m + 1 = a /\ b <= n
    BY <1>2, <1>3
<1> HIDE DEF u, l
<1>5. y \in Texts /\ CollapseBlanks(s) = Strip(y) /\ \E at : Selects(at, y, pieces, n)
    BY SqueezedIs
<1>6. z \in Texts /\ CollapseBlanks(u) = Strip(z) /\ \E bt : Selects(bt, z, parts, l)
    BY <1>3, SqueezedIs DEF l
<1>7. \A i \in 1..n : pieces[i] = BlankPiece(s, i)
    BY <1>2
\* The pieces of the part are the pieces of the whole.
<1>8. \A i \in 1..l : parts[i] = pieces[m + i] /\ m + i \in 1..n
    <2> SUFFICES ASSUME NEW i \in 1..l PROVE parts[i] = pieces[m + i] /\ m + i \in 1..n
        OBVIOUS
    <2>1. m + i \in 1..n /\ parts[i] = BlankPiece(u, i) /\ pieces[m + i] = BlankPiece(s, m + i)
        BY <1>2, <1>3, <1>4
    <2>2. BlankPiece(u, i) = BlankPiece(s, m + i)
        <3>1. u[i] = s[m + i]
            BY <1>3
        <3>2. CASE i = 1
            <4>1. m + i = a
                BY <1>4, <3>2
            <4> HIDE DEF m
            <4> QED
                BY <1>2, <3>1, <4>1 DEF BlankPiece
        <3>3. CASE i # 1
            <4>1. i > 1 /\ m + i > 1 /\ i - 1 \in 1..l /\ m + (i - 1) = m + i - 1
                BY <1>4, <3>3
            <4> DEFINE k == m + i
            <4>2. u[i - 1] = s[k - 1] /\ u[i] = s[k] /\ k > 1 /\ i > 1
                BY <1>3, <3>1, <4>1
            <4> HIDE DEF k
            <4>3. BlankPiece(u, i) = BlankPiece(s, k)
                BY <4>2 DEF BlankPiece
            <4> QED
                BY <4>3 DEF k
        <3> QED
            BY <3>2, <3>3
    <2> QED
        BY <2>1, <2>2
\* Ink is a piece of its own, and a piece with ink stands for ink.
<1>9. \A i \in 1..n : s[i] \notin Blanks => pieces[i] = <<s[i]>>
    BY <1>7 DEF BlankPiece
<1>10. \A i \in 1..n : \A x : pieces[i] = <<x>> /\ x \notin Blanks => s[i] \notin Blanks
    <2> SUFFICES ASSUME NEW i \in 1..n, NEW x, BlankPiece(s, i) = <<x>>, s[i] \in Blanks
                 PROVE  x \in Blanks
        BY <1>7
    <2>1. BlankPiece(s, i) = <<>> \/ BlankPiece(s, i) = <<" ">>
        BY DEF BlankPiece
    <2>2. <<x>> # <<>> /\ (<<x>> = <<" ">> => x = " ")
        OBVIOUS
    <2> QED
        BY <2>1, <2>2 DEF Blanks
<1> HIDE DEF y, z, pieces, parts, m, n
<1>11. PICK at : Selects(at, y, pieces, n)
    BY <1>5
<1>12. PICK bt : Selects(bt, z, parts, l)
    BY <1>6
<1> DEFINE L == Len(y)
           M == Len(z)
<1>13. /\ L \in Nat /\ at \in [1..L -> 1..n]
       /\ \A p, q \in 1..L : p < q => at[p] < at[q]
       /\ \A p \in 1..L : pieces[at[p]] = <<y[p]>>
       /\ \A i \in 1..n : pieces[i] # <<>> => \E p \in 1..L : at[p] = i
    BY <1>5, <1>11 DEF Selects, Texts
<1>14. /\ M \in Nat /\ bt \in [1..M -> 1..l]
       /\ \A p, q \in 1..M : p < q => bt[p] < bt[q]
       /\ \A p \in 1..M : parts[bt[p]] = <<z[p]>>
       /\ \A i \in 1..l : parts[i] # <<>> => \E p \in 1..M : bt[p] = i
    BY <1>6, <1>12 DEF Selects, Texts
<1> HIDE DEF L, M
<1>15. \A x, x2 : <<x>> # <<>> /\ (<<x>> = <<x2>> => x = x2)
    OBVIOUS
<1>16. PICK c \in 1..L, d \in 1..L : at[c] = a /\ at[d] = b
    <2>1. a \in 1..n /\ b \in 1..n
        BY <1>2
    <2>2. pieces[a] # <<>> /\ pieces[b] # <<>>
        BY <1>2, <1>9, <1>15, <2>1
    <2> QED
        BY <1>13, <2>1, <2>2
\* Where a piece comes from within the whole is within a..b from c to d.
<1>17. ASSUME NEW p \in 1..L PROVE at[p] \in a..b <=> p \in c..d
    <2>1. at[p] \in 1..n
        BY <1>13
    <2>2. /\ p < c => at[p] < a
          /\ c < p => a < at[p]
          /\ p < d => at[p] < b
          /\ d < p => b < at[p]
        BY <1>13, <1>16
    <2>3. p = c \/ p < c \/ c < p
        OBVIOUS
    <2>4. p = d \/ p < d \/ d < p
        OBVIOUS
    <2> QED
        BY <1>2, <1>16, <2>1, <2>2, <2>3, <2>4
<1>18. c <= d
    <2>1. at[c] \in a..b /\ at[d] \in a..b
        BY <1>2, <1>16
    <2> QED
        BY <1>17, <2>1
<1>19. IsInk(y, c, d)
    <2>1. y[c] = s[a] /\ y[d] = s[b]
        <3>1. pieces[a] = <<s[a]>> /\ pieces[b] = <<s[b]>>
            BY <1>2, <1>9
        <3>2. pieces[a] = <<y[c]>> /\ pieces[b] = <<y[d]>>
            BY <1>13, <1>16
        <3> QED
            BY <1>15, <3>1, <3>2
    <2>2. \A p \in 1..L : y[p] \notin Blanks => p \in c..d
        <3> SUFFICES ASSUME NEW p \in 1..L, y[p] \notin Blanks PROVE p \in c..d
            OBVIOUS
        <3>1. at[p] \in 1..n /\ pieces[at[p]] = <<y[p]>>
            BY <1>13
        <3>2. s[at[p]] \notin Blanks
            BY <1>10, <3>1
        <3>3. at[p] \in a..b
            BY <1>2, <3>1, <3>2
        <3> QED
            BY <1>17, <3>3
    <2>3. d \in c..Len(y) /\ c \in 1..Len(y)
        BY <1>18 DEF L
    <2> QED
        BY <1>2, <2>1, <2>2, <2>3 DEF IsInk, L
<1> DEFINE w == SubSeq(y, c, d)
           N == d - c + 1
           f == [p \in 1..N |-> at[c + p - 1] - m]
<1>20. w \in Texts /\ Len(w) = N /\ \A p \in 1..N : w[p] = y[c + p - 1]
    BY <1>5, <1>18 DEF Texts, L
<1>21. Strip(y) = w
    BY <1>5, <1>19, InkIs DEF L
<1> HIDE DEF w
<1>22. \A p \in 1..N : /\ c + p - 1 \in 1..L /\ c + p - 1 \in c..d /\ f[p] = at[c + p - 1] - m
                       /\ \A q \in 1..N : p < q => c + p - 1 < c + q - 1
    BY <1>13
<1>23. N \in Nat /\ \A p \in 1..L : p \in c..d => p - c + 1 \in 1..N /\ c + (p - c + 1) - 1 = p
    BY <1>18
<1> HIDE DEF f, N
<1>24. \A p \in 1..N : f[p] \in 1..l /\ m + f[p] = at[c + p - 1]
    <2> SUFFICES ASSUME NEW p \in 1..N PROVE f[p] \in 1..l /\ m + f[p] = at[c + p - 1]
        OBVIOUS
    <2>1. at[c + p - 1] \in a..b
        BY <1>17, <1>22
    <2> QED
        BY <1>2, <1>4, <1>22, <2>1
<1>25. \A p, q \in 1..N : p < q => f[p] < f[q]
    <2> SUFFICES ASSUME NEW p \in 1..N, NEW q \in 1..N, p < q PROVE f[p] < f[q]
        OBVIOUS
    <2>1. at[c + p - 1] < at[c + q - 1]
        BY <1>13, <1>22
    <2> QED
        BY <1>4, <1>24, <2>1
<1>26. \A p \in 1..N : parts[f[p]] = <<w[p]>>
    <2> SUFFICES ASSUME NEW p \in 1..N PROVE parts[f[p]] = <<w[p]>>
        OBVIOUS
    <2>1. parts[f[p]] = pieces[at[c + p - 1]]
        BY <1>8, <1>24
    <2> QED
        BY <1>13, <1>20, <1>22, <2>1
<1>27. ASSUME NEW q \in 1..M PROVE \E p \in 1..N : f[p] = bt[q]
    <2>1. bt[q] \in 1..l /\ parts[bt[q]] # <<>>
        BY <1>14, <1>15
    <2>2. pieces[m + bt[q]] # <<>> /\ m + bt[q] \in 1..n
        BY <1>8, <2>1
    <2>3. PICK p \in 1..L : at[p] = m + bt[q]
        BY <1>13, <2>2
    <2>4. at[p] \in a..b
        BY <1>2, <1>4, <2>1, <2>3
    <2>5. p \in c..d
        BY <1>17, <2>4
    <2>6. p - c + 1 \in 1..N /\ c + (p - c + 1) - 1 = p
        BY <1>23, <2>5
    <2>7. m + f[p - c + 1] = at[p] /\ f[p - c + 1] \in 1..l
        BY <1>24, <2>6
    <2>8. f[p - c + 1] = bt[q]
        BY <1>4, <2>1, <2>3, <2>7
    <2> QED
        BY <2>6, <2>8
<1>28. ASSUME NEW p \in 1..N PROVE \E q \in 1..M : bt[q] = f[p]
    <2>1. parts[f[p]] # <<>> /\ f[p] \in 1..l
        BY <1>15, <1>24, <1>26
    <2> QED
        BY <1>14, <2>1
<1>29. N = M /\ \A p \in 1..N : f[p] = bt[p]
    <2>1. IsRising(f, N)
        BY <1>24, <1>25 DEF IsRising
    <2>2. IsRising(bt, M)
        BY <1>14 DEF IsRising
    <2>3. IsListed(f, N, bt, M) /\ IsListed(bt, M, f, N)
        BY <1>27, <1>28 DEF IsListed
    <2> QED
        BY <1>14, <1>23, <2>1, <2>2, <2>3, InOneOrder
<1>30. z = w
    <2>1. ASSUME NEW p \in 1..N PROVE z[p] = w[p]
        <3>1. p \in 1..M /\ bt[p] = f[p]
            BY <1>29
        <3>2. parts[bt[p]] = <<z[p]>> /\ parts[f[p]] = <<w[p]>>
            BY <1>14, <1>26, <3>1
        <3> QED
            BY <1>15, <3>1, <3>2
    <2>2. z \in Seq(Chars) /\ w \in Seq(Chars) /\ Len(z) = N /\ Len(w) = N
        BY <1>6, <1>20, <1>29 DEF Texts, M
    <2> QED
        BY <2>1, <2>2
<1>31. Strip(w) = w
    BY <1>5, <1>21, StripStrip
<1> QED
    BY <1>1, <1>5, <1>6, <1>21, <1>30, <1>31 DEF u

-----------------------------------------------------------------------------
(* Cuts: what the passes of redaction make of a text that is too long. *)

\* A text with ink at either end has nothing to strip.
LEMMA StripsNothing ==
    ASSUME NEW s \in Texts, Len(s) >= 1, s[1] \notin Blanks, s[Len(s)] \notin Blanks
    PROVE  Strip(s) = s
<1> DEFINE n == Len(s)
<1>1. n \in Nat /\ 1 \in 1..n /\ n \in 1..n /\ SubSeq(s, 1, n) = s
    BY DEF Texts
<1>2. IsInk(s, 1, n)
    BY <1>1 DEF IsInk
<1> QED
    BY <1>1, <1>2, InkIs

\* Blanks in front are stripped.
LEMMA StripBlanks ==
    ASSUME NEW b \in Texts, ~IsNonBlank(b), NEW x \in Texts
    PROVE  Strip(b \o x) = Strip(x)
<1> DEFINE s == b \o x
           m == Len(b)
           l == Len(x)
           n == Len(s)
<1>1. /\ s \in Texts /\ m \in Nat /\ l \in Nat /\ n = m + l
      /\ \A i \in 1..m : s[i] = b[i]
      /\ \A i \in 1..l : s[m + i] = x[i]
      /\ DOMAIN b = 1..m /\ DOMAIN x = 1..l /\ DOMAIN s = 1..n
    BY DEF Texts
<1>2. \A i \in 1..m : b[i] \in Blanks
    BY <1>1 DEF IsNonBlank
<1> HIDE DEF s, m, l, n
<1>3. \A i \in 1..n : s[i] \notin Blanks => i - m \in 1..l /\ m + (i - m) = i
    BY <1>1, <1>2
<1>4. CASE Strip(x) = <<>> /\ ~IsNonBlank(x)
    <2>1. ~IsNonBlank(s)
        <3> SUFFICES ASSUME NEW i \in 1..n, s[i] \notin Blanks PROVE FALSE
            BY <1>1 DEF IsNonBlank
        <3>1. i - m \in 1..l /\ x[i - m] \notin Blanks
            BY <1>1, <1>3
        <3> QED
            BY <1>1, <1>4, <3>1 DEF IsNonBlank
    <2>2. Strip(s) = <<>>
        <3>1. ASSUME NEW c \in 1..Len(s), NEW d \in 1..Len(s), IsInk(s, c, d) PROVE FALSE
            BY <1>1, <2>1, <3>1 DEF IsInk, IsNonBlank, n
        <3> QED
            BY <1>1, <3>1, StripPart
    <2> QED
        BY <1>4, <2>2 DEF s
<1>5. ASSUME NEW a \in 1..l, NEW c \in 1..l, IsInk(x, a, c) PROVE Strip(s) = SubSeq(x, a, c)
    <2>1. /\ c \in a..l /\ x[a] \notin Blanks /\ x[c] \notin Blanks
          /\ \A i \in 1..l : x[i] \notin Blanks => i \in a..c
        BY <1>5 DEF IsInk, l
    <2>2. m + a \in 1..n /\ m + c \in m + a..n /\ m + c \in 1..n
        BY <1>1, <2>1
    <2>3. ASSUME NEW i \in 1..n, s[i] \notin Blanks PROVE i \in m + a..m + c
        <3>1. i - m \in 1..l /\ m + (i - m) = i
            BY <1>3, <2>3
        <3>2. i - m \in a..c
            <4>1. x[i - m] \notin Blanks
                BY <1>1, <2>3, <3>1
            <4> QED
                BY <2>1, <3>1, <4>1
        <3> QED
            BY <1>1, <3>1, <3>2
    <2>4. IsInk(s, m + a, m + c)
        BY <1>1, <2>1, <2>2, <2>3 DEF IsInk, n
    <2>5. Strip(s) = SubSeq(s, m + a, m + c)
        BY <1>1, <2>2, <2>4, InkIs DEF n
    <2>6. SubSeq(s, m + a, m + c) = SubSeq(x, a, c)
        <3> DEFINE y == SubSeq(s, m + a, m + c)
                   z == SubSeq(x, a, c)
                   h == c - a + 1
        <3>1. y \in Texts /\ Len(y) = h /\ \A j \in 1..h : y[j] = s[(m + a) + j - 1]
            BY <1>1, <2>1, <2>2 DEF Texts, n
        <3>2. z \in Texts /\ Len(z) = h /\ \A j \in 1..h : z[j] = x[a + j - 1]
            BY <1>1, <2>1 DEF Texts, l
        <3> HIDE DEF y, z
        <3>3. \A j \in 1..h : y[j] = z[j]
            <4> SUFFICES ASSUME NEW j \in 1..h PROVE y[j] = z[j]
                OBVIOUS
            <4>1. a + j - 1 \in 1..l /\ m + (a + j - 1) = (m + a) + j - 1
                BY <1>1, <2>1
            <4>2. s[m + (a + j - 1)] = x[a + j - 1]
                BY <1>1, <4>1
            <4> QED
                BY <3>1, <3>2, <4>1, <4>2
        <3> HIDE DEF h
        <3>4. Len(y) = Len(z) /\ \A j \in 1..Len(y) : y[j] = z[j]
            BY <3>1, <3>2, <3>3
        <3>5. y = z
            BY <3>1, <3>2, <3>4 DEF Texts
        <3> QED
            BY <3>5 DEF y, z
    <2> QED
        BY <2>5, <2>6
<1> QED
    BY <1>4, <1>5, StripPart DEF s, l

\* A character that no construct begins with, and that ends none.
IsInert(x) == x \notin Openers /\ x \notin Quotes /\ x # "$" /\ x # "*" /\ x # "\n"

LEMMA InertPlain ==
    ASSUME NEW s \in Texts, NEW dialect, NEW i \in 1..Len(s), IsInert(s[i])
    PROVE  IsPlain(s, dialect, i)
<1>1. s[i] # "-" /\ s[i] # "#" /\ s[i] # "/" /\ s[i] # "$" /\ s[i] \notin Quotes
    BY DEF IsInert, Openers
<1> QED
    BY <1>1, PlainIs DEF HasTag

LEMMA MarkerIs ==
    /\ TRUNCATION_MARKER \in Texts /\ Len(TRUNCATION_MARKER) = 2
    /\ TRUNCATION_MARKER[1] = " " /\ TRUNCATION_MARKER[2] = "[truncated]"
    /\ IsInert(" ") /\ IsInert("[truncated]")
    /\ " " \notin WordChars /\ "[truncated]" \notin WordChars /\ "[truncated]" \notin Blanks
<1>1. " " \in Chars /\ "[truncated]" \in Chars
    BY CharsAre
<1>2. TRUNCATION_MARKER \in Texts
    BY <1>1, ShortTexts DEF TRUNCATION_MARKER
<1>3. /\ Len(TRUNCATION_MARKER) = 2
      /\ TRUNCATION_MARKER[1] = " " /\ TRUNCATION_MARKER[2] = "[truncated]"
    BY DEF TRUNCATION_MARKER
<1>4. IsInert(" ") /\ IsInert("[truncated]")
    BY DEF IsInert, Openers, Quotes
<1>5. " " \notin WordChars /\ "[truncated]" \notin WordChars /\ "[truncated]" \notin Blanks
    BY DEF WordChars, Letters, Digits, Blanks
<1> QED
    BY <1>2, <1>3, <1>4, <1>5

\* The scanner goes from 1 by the positions of Q to p, and leaves what is ahead of it.
IsVisited(Q, s, dialect, p) ==
    /\ 1 \in Q /\ p \in Q /\ Q \subseteq 1..p
    /\ \A i \in Q : i < p => \E k \in Q : k > i /\ Leaves(s, dialect, i, k)

LEMMA VisitedTo ==
    ASSUME NEW s \in Texts, NEW dialect, NEW p \in 1..Len(s) + 1, NEW Q,
           IsVisited(Q, s, dialect, p), NEW g, IsFragments(g, s, dialect)
    PROVE  g[1] = SubSeq(s, 1, p - 1) \o g[p]
<1> DEFINE n == Len(s)
           here(i) == Scan(s, dialect, i)
<1>1. n \in Nat /\ s \in Seq(Chars) /\ p \in 1..n + 1
    BY DEF Texts
<1>2. /\ 1 \in Q /\ p \in Q /\ Q \subseteq 1..p
      /\ \A i \in Q : i < p => \E k \in Q : k > i /\ Leaves(s, dialect, i, k)
    BY DEF IsVisited
<1>3. ASSUME NEW i \in Q, i < p
      PROVE  \E k \in Q : /\ k \in i + 1..p
                          /\ here(i).text = SubSeq(s, i, k - 1) /\ here(i).next = k
    <2>1. PICK k \in Q : k > i /\ Leaves(s, dialect, i, k)
        BY <1>2, <1>3
    <2>2. i \in 1..n
        BY <1>1, <1>2, <1>3
    <2>3. here(i).text = SubSeq(s, i, k - 1) /\ here(i).next = k
        BY <2>1, <2>2, LeavesIs
    <2>4. k \in i + 1..p
        BY <1>1, <1>2, <2>1, <2>2
    <2> QED
        BY <2>3, <2>4
<1>4. g \in [1..n + 1 -> Texts] /\ \A i \in 1..n : g[i] = here(i).text \o g[here(i).next]
    BY DEF IsFragments
<1>5. g[p] \in Seq(Chars)
    BY <1>1, <1>4 DEF Texts
<1> HIDE DEF here, n
<1> DEFINE S == {i \in 1..p : i \in Q => g[i] = SubSeq(s, i, p - 1) \o g[p]}
<1>6. ASSUME NEW i \in 1..p, \A j \in i + 1..p : j \in S PROVE i \in S
    <2> SUFFICES ASSUME i \in Q PROVE g[i] = SubSeq(s, i, p - 1) \o g[p]
        OBVIOUS
    <2>1. CASE i = p
        <3>1. SubSeq(s, p, p - 1) = <<>>
            BY <1>1 DEF n
        <3> QED
            BY <1>5, <2>1, <3>1
    <2>2. CASE i < p
        <3>1. PICK k \in Q : /\ k \in i + 1..p
                             /\ here(i).text = SubSeq(s, i, k - 1) /\ here(i).next = k
            BY <1>3, <2>2
        <3>2. g[k] = SubSeq(s, k, p - 1) \o g[p]
            BY <1>6, <3>1
        <3>3. i \in 1..n
            BY <1>1, <2>2
        <3>4. g[i] = SubSeq(s, i, k - 1) \o (SubSeq(s, k, p - 1) \o g[p])
            BY <1>4, <3>1, <3>2, <3>3
        <3>5. SubSeq(s, i, k - 1) \o SubSeq(s, k, p - 1) = SubSeq(s, i, p - 1)
            BY <1>1, <3>1, <3>3 DEF n
        <3>6. SubSeq(s, i, k - 1) \in Seq(Chars) /\ SubSeq(s, k, p - 1) \in Seq(Chars)
            BY <1>1, <3>1, <3>3 DEF n
        <3>7. \A x, y, z \in Seq(Chars) : x \o (y \o z) = (x \o y) \o z
            OBVIOUS
        <3>8. SubSeq(s, i, k - 1) \o (SubSeq(s, k, p - 1) \o g[p])
                = (SubSeq(s, i, k - 1) \o SubSeq(s, k, p - 1)) \o g[p]
            BY <1>5, <3>6, <3>7
        <3> QED
            BY <3>4, <3>5, <3>8
    <2>3. i = p \/ i < p
        BY <1>1
    <2> QED
        BY <2>1, <2>2, <2>3
<1>7. 1..p \subseteq S
    <2> HIDE DEF S
    <2>1. p \in Nat
        BY <1>1
    <2> QED
        BY <1>6, <2>1, Descending
<1> QED
    BY <1>1, <1>2, <1>7

LEMMA VisitedSteady ==
    ASSUME NEW s \in Texts, NEW dialect, NEW p \in 1..Len(s) + 1, NEW Q,
           IsVisited(Q, s, dialect, p), \A i \in p..Len(s) : IsPlain(s, dialect, i)
    PROVE  Steady(s, dialect)
<1> DEFINE n == Len(s)
           P == Q \cup (p..n + 1)
<1>1. n \in Nat /\ p \in 1..n + 1 /\ Q \subseteq 1..p /\ 1 \in Q /\ p \in Q
    BY DEF Texts, IsVisited
<1> HIDE DEF n
<1>2. 1 \in P /\ P \subseteq 1..n + 1
    BY <1>1
<1>3. ASSUME NEW i \in P, i <= n PROVE \E k \in P : k > i /\ Leaves(s, dialect, i, k)
    <2>1. CASE i < p
        <3>1. i \in Q
            BY <1>1, <2>1
        <3> QED
            BY <2>1, <3>1 DEF IsVisited
    <2>2. CASE p <= i
        <3>1. i \in p..n /\ i + 1 \in P /\ i + 1 > i
            BY <1>1, <1>2, <1>3, <2>2
        <3>2. Leaves(s, dialect, i, i + 1)
            BY <3>1 DEF Leaves, n
        <3> QED
            BY <3>1, <3>2
    <2> QED
        BY <1>1, <1>2, <2>1, <2>2
<1> QED
    BY <1>2, <1>3 DEF Steady, SteadyBy, n

LEMMA Joined ==
    ASSUME NEW a \in Texts, NEW b \in Texts
    PROVE  /\ a \o b \in Texts /\ Len(a) \in Nat /\ Len(b) \in Nat
           /\ Len(a \o b) = Len(a) + Len(b)
           /\ \A j \in 1..Len(a) : (a \o b)[j] = a[j]
           /\ \A j \in 1..Len(b) : (a \o b)[Len(a) + j] = b[j]
    BY DEF Texts

\* x is u, cut behind its first n characters, with the marker behind the cut.
IsCutAt(x, u, n) ==
    /\ x \in Texts /\ Len(x) = n + 2 /\ \A j \in 1..n : x[j] = u[j]
    /\ x[n + 1] = " " /\ x[n + 2] = "[truncated]"

LEMMA CutAtIs ==
    ASSUME NEW u \in Texts, NEW n \in 0..Len(u)
    PROVE  IsCutAt(SubSeq(u, 1, n) \o TRUNCATION_MARKER, u, n)
<1> DEFINE y == SubSeq(u, 1, n)
           x == y \o TRUNCATION_MARKER
<1>1. n \in Nat /\ y \in Seq(Chars) /\ Len(y) = n /\ \A j \in 1..n : y[j] = u[j]
    BY DEF Texts
<1>2. /\ TRUNCATION_MARKER \in Seq(Chars) /\ Len(TRUNCATION_MARKER) = 2
      /\ TRUNCATION_MARKER[1] = " " /\ TRUNCATION_MARKER[2] = "[truncated]"
    BY MarkerIs DEF Texts
<1> DEFINE z == TRUNCATION_MARKER
<1> HIDE DEF y, z
<1>3. y \in Seq(Chars) /\ Len(y) = n /\ n \in Nat /\ z \in Seq(Chars) /\ Len(z) = 2
    BY <1>1, <1>2 DEF z
<1>4. /\ y \o z \in Texts /\ Len(y \o z) = n + 2 /\ \A j \in 1..n : (y \o z)[j] = y[j]
      /\ (y \o z)[n + 1] = z[1] /\ (y \o z)[n + 2] = z[2]
    <2>1. y \in Texts /\ z \in Texts
        BY <1>3 DEF Texts
    <2>2. /\ y \o z \in Texts /\ Len(y \o z) = Len(y) + Len(z)
          /\ \A j \in 1..Len(y) : (y \o z)[j] = y[j]
          /\ \A j \in 1..Len(z) : (y \o z)[Len(y) + j] = z[j]
        BY <2>1, Joined
    <2> DEFINE w == y \o z
    <2> HIDE DEF w
    <2>3. w \in Texts /\ Len(w) = n + 2 /\ \A j \in 1..n : w[j] = y[j]
        BY <1>3, <2>2 DEF w
    <2>4. \A j \in 1..2 : w[n + j] = z[j]
        BY <1>3, <2>2 DEF w
    <2>5. w[n + 1] = z[1] /\ w[n + 2] = z[2]
        BY <2>4
    <2> QED
        BY <2>3, <2>5 DEF w
<1>6. x = y \o z
    BY DEF z
<1> HIDE DEF x
<1>5. IsCutAt(x, u, n)
    <2>1. z[1] = " " /\ z[2] = "[truncated]"
        BY <1>2 DEF z
    <2> QED
        BY <1>1, <1>4, <1>6, <2>1 DEF IsCutAt
<1> QED
    BY <1>5 DEF x, y

\* What the scanner leaves before the cut it leaves when the text is cut.
LEMMA KeptLeaves ==
    ASSUME NEW u \in Texts, NEW n \in 1..Len(u) - 1, NEW x, IsCutAt(x, u, n),
           NEW dialect, NEW i \in 1..n, NEW k \in i + 1..n + 1, Leaves(u, dialect, i, k)
    PROVE  Leaves(x, dialect, i, k)
<1> DEFINE l == Len(u)
<1>0. /\ l \in Nat /\ n \in Nat /\ n >= 1 /\ n < l /\ i \in Nat /\ i >= 1 /\ i <= n
      /\ k \in Nat /\ k > i /\ k <= n + 1 /\ Len(x) = n + 2
    <2>1. Len(x) = n + 2
        BY DEF IsCutAt
    <2>2. l \in Nat /\ n \in Nat /\ n >= 1 /\ n < l
        BY DEF Texts
    <2> HIDE DEF l
    <2> QED
        BY <2>1, <2>2
<1>01. x \in Texts /\ x[n + 1] = " " /\ x[n + 2] = "[truncated]" /\ \A j \in 1..n : x[j] = u[j]
    BY DEF IsCutAt
<1> HIDE DEF l
<1>1. /\ i \in 1..l /\ i \in 1..Len(x) /\ x \in Texts
      /\ \A j \in 1..n : x[j] = u[j] /\ j \in 1..l
      /\ x[n + 1] = " " /\ x[n + 2] = "[truncated]"
    <2>1. i \in 1..l /\ i \in 1..Len(x) /\ \A j \in 1..n : j \in 1..l
        BY <1>0
    <2> QED
        BY <1>01, <2>1
<1>2. CASE IsPlain(u, dialect, i) /\ k = i + 1
    <2>1. /\ ~(i + 1 <= l /\ u[i] = "-" /\ u[i + 1] = "-")
          /\ ~(u[i] = "#" /\ dialect \in HashDialects)
          /\ ~(i + 1 <= l /\ u[i] = "/" /\ u[i + 1] = "*")
          /\ u[i] \notin Quotes /\ ~HasTag(u, i)
        BY <1>1, <1>2, PlainIs DEF l
    <2>2. x[i] = u[i] /\ (x[i + 1] = " " \/ (i + 1 <= l /\ x[i + 1] = u[i + 1]))
        <3>1. CASE i = n
            BY <1>0, <1>1, <3>1
        <3>2. CASE i # n
            <4>1. i + 1 \in 1..n /\ i + 1 <= l
                BY <1>0, <3>2
            <4> QED
                BY <1>0, <1>1, <4>1
        <3> QED
            BY <3>1, <3>2
    <2>3. " " # "-" /\ " " # "*" /\ " " # "$" /\ "[truncated]" # "$"
        OBVIOUS
    <2>4. ~HasTag(x, i)
        <3> SUFFICES ASSUME x[i] = "$", NEW j \in i + 1..Len(x), x[j] = "$",
                            x[i + 1] \notin Digits, \A h \in i + 1..j - 1 : x[h] \in WordChars
                     PROVE  HasTag(u, i)
            BY <2>1 DEF HasTag
        <3>1. j \in 1..n
            <4>1. j # n + 1 /\ j # n + 2
                BY <1>1, <2>3
            <4>2. j \in i + 1..n + 2
                BY <1>0
            <4> QED
                BY <1>0, <4>1, <4>2
        <3>0. /\ j \in i + 1..l /\ i + 1 \in 1..n /\ \A h \in i + 1..j - 1 : h \in 1..n
            BY <1>0, <3>1
        <3>2. /\ u[i] = "$" /\ u[j] = "$" /\ j \in i + 1..l /\ i + 1 \in 1..n
              /\ \A h \in i + 1..j - 1 : h \in 1..n
            BY <1>1, <2>2, <3>0, <3>1
        <3>3. u[i + 1] \notin Digits /\ \A h \in i + 1..j - 1 : u[h] \in WordChars
            BY <1>1, <3>2
        <3> QED
            BY <3>2, <3>3 DEF HasTag, l
    <2>5. IsPlain(x, dialect, i)
        <3>1. ~(i + 1 <= Len(x) /\ x[i] = "-" /\ x[i + 1] = "-")
            BY <2>1, <2>2, <2>3
        <3>2. ~(i + 1 <= Len(x) /\ x[i] = "/" /\ x[i + 1] = "*")
            BY <2>1, <2>2, <2>3
        <3> QED
            BY <1>1, <2>1, <2>2, <2>4, <3>1, <3>2, PlainIs
    <2> QED
        BY <1>2, <2>5 DEF Leaves
<1>3. CASE IsBlock(u, i) /\ k = i + 5
    <2>1. /\ u[i] = "/" /\ u[i + 1] = "*" /\ u[i + 2] = REDACTED
          /\ u[i + 3] = "*" /\ u[i + 4] = "/"
        BY <1>3 DEF IsBlock
    <2>2. i + 1 \in 1..n /\ i + 2 \in 1..n /\ i + 3 \in 1..n /\ i + 4 \in 1..n /\ i + 4 <= Len(x)
        BY <1>0, <1>3
    <2>3. IsBlock(x, i)
        BY <1>1, <2>1, <2>2 DEF IsBlock
    <2> QED
        BY <1>3, <2>3 DEF Leaves
<1>4. CASE IsLine(u, dialect, i, k)
    <2>1. PICK r \in i + 1..l :
            /\ IsMarked(u, dialect, i, r) /\ u[r] = REDACTED
            /\ \/ r = l /\ k = r + 1
               \/ r < l /\ u[r + 1] = "\n" /\ k = r + 2
        BY <1>4 DEF IsLine, l
    <2>2. r + 1 \in 1..n /\ r \in 1..n /\ u[r + 1] = "\n" /\ k = r + 2 /\ r \in i + 1..Len(x)
          /\ r < Len(x) /\ i + 1 \in 1..n
        <3>1. r \in Nat /\ r > i /\ r <= l
            BY <1>0
        <3>2. r # l
            BY <1>0, <2>1, <3>1
        <3>3. u[r + 1] = "\n" /\ k = r + 2
            BY <2>1, <3>2
        <3> QED
            BY <1>0, <3>1, <3>3
    <2>3. IsMarked(x, dialect, i, r)
        BY <1>1, <2>1, <2>2 DEF IsMarked
    <2>4. x[r] = REDACTED /\ x[r + 1] = "\n"
        BY <1>1, <2>1, <2>2
    <2>5. IsLine(x, dialect, i, k)
        BY <2>2, <2>3, <2>4 DEF IsLine
    <2> QED
        BY <2>5 DEF Leaves
<1> QED
    BY <1>2, <1>3, <1>4 DEF Leaves

LEMMA KeptVisits ==
    ASSUME NEW u \in Texts, NEW n \in 1..Len(u) - 1, NEW x, IsCutAt(x, u, n),
           NEW dialect, NEW p \in 1..n + 1, NEW Q, IsVisited(Q, u, dialect, p)
    PROVE  IsVisited(Q, x, dialect, p)
<1>1. /\ 1 \in Q /\ p \in Q /\ Q \subseteq 1..p
      /\ \A i \in Q : i < p => \E k \in Q : k > i /\ Leaves(u, dialect, i, k)
    BY DEF IsVisited
<1>2. ASSUME NEW i \in Q, i < p PROVE \E k \in Q : k > i /\ Leaves(x, dialect, i, k)
    <2>1. PICK k \in Q : k > i /\ Leaves(u, dialect, i, k)
        BY <1>1, <1>2
    <2>2. i \in 1..n /\ k \in i + 1..n + 1
        <3>1. n \in Nat /\ i \in 1..p /\ k \in 1..p
            BY <1>1 DEF Texts
        <3> QED
            BY <1>2, <2>1, <3>1
    <2>3. Leaves(x, dialect, i, k)
        BY <2>1, <2>2, KeptLeaves
    <2> QED
        BY <2>1, <2>3
<1> QED
    BY <1>1, <1>2 DEF IsVisited

\* The last position the scanner visits before the cut, or at it.
LEMMA LastVisited ==
    ASSUME NEW u \in Texts, NEW n \in 1..Len(u) - 1, NEW dialect, Steady(u, dialect)
    PROVE  \E p \in 1..n + 1 : \E Q :
                /\ IsVisited(Q, u, dialect, p)
                /\ p = n + 1 \/ \E k \in n + 2..Len(u) + 1 : Leaves(u, dialect, p, k)
<1> DEFINE l == Len(u)
<1>1. l \in Nat /\ n \in 1..l - 1 /\ n + 1 \in Nat
    BY DEF Texts
<1>2. PICK P : /\ 1 \in P /\ P \subseteq 1..l + 1
               /\ \A i \in P : i <= l => \E k \in P : k > i /\ Leaves(u, dialect, i, k)
    BY DEF Steady, SteadyBy
<1> HIDE DEF l
<1> DEFINE S == {q \in 1..n + 1 : q \in P /\ \E Q : IsVisited(Q, u, dialect, q)}
<1>3. 1 \in S
    <2>1. IsVisited({1}, u, dialect, 1)
        BY DEF IsVisited
    <2> QED
        BY <1>1, <1>2, <2>1
<1> DEFINE p == Max(S)
<1>4. p \in S /\ \A q \in S : q <= p
    <2>1. S \subseteq 1..n + 1 /\ S # {}
        BY <1>3
    <2> HIDE DEF S
    <2> QED
        BY <1>1, <2>1, GreatestIs
<1>5. PICK Q : IsVisited(Q, u, dialect, p)
    BY <1>4
<1>6. p \in 1..n + 1 /\ p \in P
    BY <1>4
<1> HIDE DEF p
<1>7. CASE p = n + 1
    BY <1>5, <1>6, <1>7
<1>8. CASE p # n + 1
    <2>1. p <= l
        BY <1>1, <1>6, <1>8
    <2>2. PICK k \in P : k > p /\ Leaves(u, dialect, p, k)
        BY <1>2, <1>6, <2>1
    <2>3. CASE k \in n + 2..l + 1
        BY <1>5, <1>6, <2>2, <2>3 DEF l
    <2>4. CASE k \notin n + 2..l + 1
        <3>1. k \in 1..n + 1 /\ p \in Nat /\ k \in Nat
            BY <1>1, <1>2, <1>6, <2>4
        <3> DEFINE R == Q \cup {k}
        <3>2. 1 \in R /\ k \in R /\ R \subseteq 1..k
            BY <1>5, <2>2, <3>1 DEF IsVisited
        <3>3. ASSUME NEW i \in R, i < k PROVE \E j \in R : j > i /\ Leaves(u, dialect, i, j)
            <4>1. i \in Q /\ i \in 1..p
                BY <1>5, <3>1, <3>3 DEF IsVisited
            <4>2. CASE i < p
                <5>1. \E j \in Q : j > i /\ Leaves(u, dialect, i, j)
                    BY <1>5, <4>1, <4>2 DEF IsVisited
                <5> QED
                    BY <5>1
            <4>3. CASE i = p
                BY <2>2, <3>2, <4>3
            <4>4. i < p \/ i = p
                BY <3>1, <4>1
            <4> QED
                BY <4>2, <4>3, <4>4
        <3>4. IsVisited(R, u, dialect, k)
            BY <3>2, <3>3 DEF IsVisited
        <3>5. k \in S
            BY <3>1, <3>4
        <3> QED
            BY <1>4, <2>2, <3>1, <3>5
    <2> QED
        BY <2>3, <2>4
<1> QED
    BY <1>7, <1>8

\* The comment that ends at e has swallowed what was behind a cut within it.
Swallows(u, e) ==
    \/ e > 0 /\ u[e] = REDACTED
    \/ e > 2 /\ StartsWith(u, e - 2, <<REDACTED, "*", "/">>)

LEMMA BlockEnds ==
    ASSUME NEW u \in Texts, NEW p \in 1..Len(u), IsBlock(u, p)
    PROVE  p + 4 \in 1..Len(u) /\ Swallows(u, p + 4)
<1> DEFINE t == <<REDACTED, "*", "/">>
           q == p + 2
<1>1. p \in Nat /\ p >= 1 /\ Len(u) \in Nat
    BY DEF Texts
<1>2. p + 4 <= Len(u) /\ u[p + 2] = REDACTED /\ u[p + 3] = "*" /\ u[p + 4] = "/"
    BY DEF IsBlock
<1>3. Len(t) = 3 /\ t[1] = REDACTED /\ t[2] = "*" /\ t[3] = "/"
    OBVIOUS
<1> HIDE DEF t
<1>4. /\ q + 1 - 1 = p + 2 /\ q + 2 - 1 = p + 3 /\ q + 3 - 1 = p + 4 /\ q + 3 - 1 <= Len(u)
      /\ p + 4 - 2 = q /\ p + 4 > 2 /\ p + 4 \in 1..Len(u)
    BY <1>1, <1>2
<1> HIDE DEF q
<1>5. \A k \in 1..3 : u[q + k - 1] = t[k]
    <2>1. \A k \in 1..3 : k = 1 \/ k = 2 \/ k = 3
        OBVIOUS
    <2> QED
        BY <1>2, <1>3, <1>4, <2>1
<1>6. StartsWith(u, q, t)
    BY <1>3, <1>4, <1>5 DEF StartsWith
<1> QED
    BY <1>4, <1>6 DEF Swallows, t

\* What is written for a line comment that no line end follows.
LEMMA LineOpen ==
    ASSUME NEW x \in Texts, NEW i \in Nat, NEW marker \in Texts, NEW r, r = i + Len(marker),
           NEW c, c = x[Len(x)], c # "\n", r >= 1, r <= Len(x) + 1,
           \A j \in r..Len(x) : x[j] # "\n"
    PROVE  _redact_line_comment(x, i, marker) = Written(marker \o <<REDACTED>>, Len(x) + 1)
<1> DEFINE found == {j \in r..Len(x) : StartsWith(x, j, <<"\n">>)}
           next == After(x, <<"\n">>, r)
<1>1. Len(x) \in Nat /\ r \in Nat
    BY DEF Texts
<1>2. found = {}
    <2> SUFFICES ASSUME NEW j \in r..Len(x), StartsWith(x, j, <<"\n">>) PROVE FALSE
        OBVIOUS
    <2>1. j \in Nat
        BY <1>1
    <2>2. x[j] = "\n"
        BY <2>1, MarkersAt
    <2> QED
        BY <2>2
<1>3. next = Len(x) + 1
    BY <1>2 DEF After
<1>4. next - 1 = Len(x)
    BY <1>1, <1>3
<1> HIDE DEF next
<1>5. _redact_line_comment(x, i, marker)
        = Written(IF x[next - 1] = "\n" THEN Append(marker \o <<REDACTED>>, "\n")
                  ELSE marker \o <<REDACTED>>, next)
    BY DEF _redact_line_comment, next
<1> QED
    BY <1>3, <1>4, <1>5

LEMMA BlockOpen ==
    ASSUME NEW x \in Texts, NEW i \in Nat,
           \A j \in i + 2..Len(x) - 1 : ~(x[j] = "*" /\ x[j + 1] = "/")
    PROVE  _redact_block_comment(x, i)
                = Written(<<"/", "*", REDACTED, "*", "/">>, Len(x) + 1)
<1> DEFINE found == {j \in i + 2..Len(x) : StartsWith(x, j, <<"*", "/">>)}
<1>1. Len(x) \in Nat
    BY DEF Texts
<1>2. found = {}
    <2> SUFFICES ASSUME NEW j \in i + 2..Len(x), StartsWith(x, j, <<"*", "/">>) PROVE FALSE
        OBVIOUS
    <2>1. j \in Nat
        BY <1>1
    <2>2. j + 1 <= Len(x) /\ x[j] = "*" /\ x[j + 1] = "/"
        BY <2>1, MarkersAt
    <2>3. j \in i + 2..Len(x) - 1
        BY <1>1, <2>1, <2>2
    <2> QED
        BY <2>2, <2>3
<1>3. After(x, <<"*", "/">>, i + 2) = Len(x) + 1
    BY <1>2 DEF After
<1> QED
    BY <1>3 DEF _redact_block_comment

\* Where the cut has taken the second character of a marker, nothing opens any more.
LEMMA CutPlain ==
    ASSUME NEW u \in Texts, NEW n \in 1..Len(u) - 1, NEW x, IsCutAt(x, u, n), NEW dialect,
           u[n] \in {"-", "/"}
    PROVE  \A i \in n..Len(x) : IsPlain(x, dialect, i)
<1>1. n \in Nat /\ n >= 1
    BY DEF Texts
<1>2. /\ x \in Texts /\ Len(x) = n + 2 /\ x[n + 1] = " " /\ x[n + 2] = "[truncated]"
    BY DEF IsCutAt
<1>3. x[n] = u[n]
    <2>1. n \in 1..n
        BY <1>1
    <2> QED
        BY <2>1 DEF IsCutAt
<1>7. Len(x) = n + 2
    BY DEF IsCutAt
<1> SUFFICES ASSUME NEW i \in n..Len(x) PROVE IsPlain(x, dialect, i)
    OBVIOUS
<1>4. i \in 1..Len(x) /\ (i = n \/ i = n + 1 \/ i = n + 2)
    BY <1>1, <1>7
<1>5. CASE i # n
    BY <1>2, <1>4, <1>5, MarkerIs, InertPlain
<1>6. CASE i = n
    <2>1. x[i] # "#" /\ x[i] \notin Quotes /\ x[i] # "$"
        BY <1>3, <1>6 DEF Quotes
    <2>2. x[i + 1] # "-" /\ x[i + 1] # "*"
        BY <1>2, <1>6
    <2> QED
        BY <1>2, <1>4, <2>1, <2>2, PlainIs DEF HasTag
<1> QED
    BY <1>5, <1>6

LEMMA CutOpens ==
    ASSUME NEW u \in Texts, NEW n \in 1..Len(u) - 1, NEW x, IsCutAt(x, u, n), NEW dialect,
           NEW p \in 1..n, NEW k \in n + 2..Len(u) + 1, Leaves(u, dialect, p, k)
    PROVE  \/ \A i \in p..Len(x) : IsPlain(x, dialect, i)
           \/ \E e \in p..Len(u) :
                /\ Swallows(u, e)
                /\ Scan(x, dialect, p) = Written(SubSeq(u, p, e), Len(x) + 1)
<1> DEFINE l == Len(u)
<1>1. l \in Nat /\ n \in Nat /\ n >= 1 /\ n < l /\ p \in Nat /\ p >= 1 /\ p <= n
      /\ k \in Nat /\ k >= n + 2 /\ k <= l + 1
    BY DEF Texts
<1>2. x \in Texts /\ Len(x) = n + 2 /\ x[n + 1] = " " /\ x[n + 2] = "[truncated]"
    BY DEF IsCutAt
<1>3. \A j \in 1..n : x[j] = u[j]
    BY DEF IsCutAt
<1>8. Len(x) = n + 2
    BY DEF IsCutAt
<1> HIDE DEF l
<1>4. p \in 1..l /\ p \in 1..Len(x) /\ x[p] = u[p] /\ k > p
    BY <1>1, <1>3, <1>8
<1>5. CASE IsPlain(u, dialect, p) /\ k = p + 1
    BY <1>1, <1>5
<1>6. CASE IsBlock(u, p) /\ k = p + 5
    <2>1. /\ p + 4 <= l /\ u[p] = "/" /\ u[p + 1] = "*" /\ u[p + 2] = REDACTED
          /\ u[p + 3] = "*" /\ u[p + 4] = "/"
        BY <1>6 DEF IsBlock, l
    <2>2. CASE n = p
        BY <2>1, <2>2, CutPlain
    <2>3. CASE n # p
        <3>1. p + 1 \in 1..n /\ n <= p + 3 /\ p + 1 <= Len(x)
            BY <1>1, <1>6, <1>8, <2>3
        <3>2. StartsWith(x, p, <<"/", "*">>)
            BY <1>1, <1>3, <1>4, <2>1, <3>1, MarkersAt
        <3>3. Scan(x, dialect, p) = _redact_block_comment(x, p)
            BY <1>2, <1>4, <3>2, ScanCases
        <3>4. ASSUME NEW j \in p + 2..Len(x) - 1, x[j] = "*", x[j + 1] = "/" PROVE FALSE
            <4>1. j \in Nat /\ j >= p + 2 /\ j <= n + 1
                BY <1>1, <1>8
            <4>2. j # n /\ j # n + 1
                <5>1. j = n + 1 => x[j + 1] = "[truncated]"
                    <6>1. j = n + 1 => j + 1 = n + 2
                        BY <1>1
                    <6> QED
                        BY <1>2, <6>1
                <5>2. j = n => x[j + 1] = " "
                    BY <1>2
                <5> QED
                    BY <3>4, <5>1, <5>2
            <4>3. j + 1 \in 1..n /\ j + 1 = p + 3
                BY <1>1, <3>1, <4>1, <4>2
            <4>4. x[p + 3] = "*" /\ x[p + 3] = "/"
                BY <1>3, <2>1, <3>4, <4>3
            <4> QED
                BY <4>4
        <3>5. _redact_block_comment(x, p)
                = Written(<<"/", "*", REDACTED, "*", "/">>, Len(x) + 1)
            BY <1>1, <1>2, <3>4, BlockOpen
        <3>6. SubSeq(u, p, p + 4) = <<"/", "*", REDACTED, "*", "/">>
            <4>1. Scan(u, dialect, p).text = SubSeq(u, p, k - 1)
                BY <1>4, LeavesIs DEF l
            <4>2. Scan(u, dialect, p) = _redact_block_comment(u, p)
                <5>1. StartsWith(u, p, <<"/", "*">>)
                    BY <1>1, <2>1, MarkersAt DEF l
                <5> QED
                    BY <1>4, <5>1, ScanCases DEF l
            <4>3. _redact_block_comment(u, p).text = <<"/", "*", REDACTED, "*", "/">>
                BY DEF _redact_block_comment, Written
            <4>4. k - 1 = p + 4
                BY <1>1, <1>6
            <4> QED
                BY <4>1, <4>2, <4>3, <4>4
        <3>7. p + 4 \in p..l /\ Swallows(u, p + 4)
            BY <1>1, <1>4, <1>6, <2>1, BlockEnds DEF l
        <3> QED
            BY <3>3, <3>5, <3>6, <3>7 DEF l
    <2> QED
        BY <2>2, <2>3
<1>7. CASE IsLine(u, dialect, p, k)
    <2>1. PICK r \in p + 1..l :
            /\ IsMarked(u, dialect, p, r) /\ u[r] = REDACTED
            /\ \/ r = l /\ k = r + 1
               \/ r < l /\ u[r + 1] = "\n" /\ k = r + 2
        BY <1>7 DEF IsLine, l
    <2>2. r \in Nat /\ r > p /\ r <= l /\ n <= r /\ r \in 1..l /\ r \in p..l
        BY <1>1, <2>1
    <2>3. Swallows(u, r)
        BY <1>1, <2>1, <2>2 DEF Swallows
    <2>4. \A j \in r..Len(x) : x[j] # "\n"
        <3> SUFFICES ASSUME NEW j \in r..Len(x) PROVE x[j] # "\n"
            OBVIOUS
        <3>1. j \in Nat /\ (j = n + 2 \/ j = n + 1 \/ (j = n /\ r = n))
            BY <1>1, <1>8, <2>2
        <3>2. j = n /\ r = n => x[j] = REDACTED
            BY <1>1, <1>3, <2>1
        <3>3. " " # "\n" /\ "[truncated]" # "\n"
            OBVIOUS
        <3> QED
            BY <1>2, <3>1, <3>2, <3>3, MarkersDiffer
    <2>5. ASSUME NEW marker \in Texts, r = p + Len(marker), r <= Len(x) + 1,
                 Scan(x, dialect, p) = _redact_line_comment(x, p, marker),
                 marker = SubSeq(u, p, r - 1)
          PROVE  Scan(x, dialect, p) = Written(SubSeq(u, p, r), Len(x) + 1)
        <3>1. x[Len(x)] # "\n" /\ r >= 1
            <4>1. "[truncated]" # "\n"
                OBVIOUS
            <4>2. r >= 1
                BY <1>1, <2>2
            <4> QED
                BY <1>2, <4>1, <4>2
        <3>2. Scan(x, dialect, p) = Written(marker \o <<REDACTED>>, Len(x) + 1)
            BY <1>1, <1>2, <2>4, <2>5, <3>1, LineOpen
        <3>3. SubSeq(u, p, r - 1) \o <<u[r]>> = SubSeq(u, p, r)
            BY <1>1, <2>2 DEF Texts, l
        <3> QED
            BY <2>1, <2>5, <3>2, <3>3
    <2>6. CASE r = p + 2 /\ u[p] = "-" /\ u[p + 1] = "-"
        <3>1. CASE n = p
            BY <2>6, <3>1, CutPlain
        <3>2. CASE n # p
            <4>1. p + 1 \in 1..n /\ p + 1 <= Len(x) /\ r <= Len(x) + 1 /\ p + 1 <= l /\ r - 1 = p + 1
                BY <1>1, <1>8, <2>6, <2>2, <3>2
            <4>2. StartsWith(x, p, <<"-", "-">>)
                BY <1>1, <1>3, <1>4, <2>6, <4>1, MarkersAt
            <4>3. Scan(x, dialect, p) = _redact_line_comment(x, p, <<"-", "-">>)
                BY <1>2, <1>4, <4>2, ScanCases
            <4>4. <<"-", "-">> = SubSeq(u, p, r - 1)
                <5>1. SubSeq(u, p, p + 1) = <<u[p], u[p + 1]>>
                    BY <1>4, <4>1, ShortParts DEF l
                <5> QED
                    BY <2>6, <4>1, <5>1
            <4>5. <<"-", "-">> \in Texts /\ r = p + Len(<<"-", "-">>)
                BY <2>6, Markers
            <4>6. Scan(x, dialect, p) = Written(SubSeq(u, p, r), Len(x) + 1)
                BY <2>5, <4>1, <4>3, <4>4, <4>5
            <4> QED
                BY <2>2, <2>3, <4>6 DEF l
        <3> QED
            BY <3>1, <3>2
    <2>7. CASE r = p + 1 /\ u[p] = "#" /\ dialect \in HashDialects
        <3>1. r <= Len(x) + 1 /\ r - 1 = p
            BY <1>1, <1>8, <2>7
        <3>2. Scan(x, dialect, p) = _redact_line_comment(x, p, <<"#">>)
            BY <1>2, <1>4, <2>7, ScanCases
        <3>3. <<"#">> = SubSeq(u, p, r - 1)
            <4>1. SubSeq(u, p, p) = <<u[p]>>
                BY <1>4, ShortParts DEF l
            <4> QED
                BY <2>7, <3>1, <4>1
        <3>4. <<"#">> \in Texts /\ r = p + Len(<<"#">>)
            BY <2>7, Markers
        <3>5. Scan(x, dialect, p) = Written(SubSeq(u, p, r), Len(x) + 1)
            BY <2>5, <3>1, <3>2, <3>3, <3>4
        <3> QED
            BY <2>2, <2>3, <3>5 DEF l
    <2> QED
        BY <2>1, <2>6, <2>7 DEF IsMarked
<1> QED
    BY <1>5, <1>6, <1>7 DEF Leaves

\* FlattenSeq goes through the concatenations of the first sequences.
LEMMA FlattenBy ==
    ASSUME NEW T, NEW seqs \in Seq(Seq(T)), NEW h, h[0] = <<>>,
           \A i \in 1..Len(seqs) : h[i] = h[i - 1] \o seqs[i]
    PROVE  FlattenSeq(seqs) = h[Len(seqs)]
<1> DEFINE n == Len(seqs)
<1>1. n \in Nat /\ \A i \in 1..n : seqs[i] \in Seq(T)
    OBVIOUS
<1>2. PICK g : /\ \A i \in 1..n : g[i] = IF i = 1 THEN seqs[i] ELSE g[i - 1] \o seqs[i]
               /\ FlattenSeq(seqs) = IF n = 0 THEN <<>> ELSE g[n]
    BY FlattenIs
<1> HIDE DEF n
<1> DEFINE S == {i \in 1..n : g[i] = h[i]}
<1>3. ASSUME NEW i \in 1..n, \A j \in 1..i - 1 : j \in S PROVE i \in S
    <2>1. CASE i = 1
        <3>1. i - 1 = 0 /\ \A s \in Seq(T) : <<>> \o s = s
            BY <2>1
        <3>2. h[i] = seqs[i]
            BY <1>1, <3>1 DEF n
        <3> QED
            BY <1>2, <2>1, <3>2
    <2>2. CASE i # 1
        <3>1. i - 1 \in 1..i - 1
            BY <1>1, <2>2
        <3>2. g[i - 1] = h[i - 1]
            BY <1>3, <3>1
        <3> QED
            BY <1>2, <2>2, <3>2 DEF n
    <2> QED
        BY <2>1, <2>2
<1>4. 1..n \subseteq S
    <2> HIDE DEF S
    <2> QED
        BY <1>1, <1>3, Ascending
<1>5. n # 0 => n \in 1..n
    BY <1>1
<1> QED
    BY <1>2, <1>4, <1>5 DEF n

\* The word of a cut text that ends at the cut begins behind q.
IsLastWord(q, u, n) ==
    /\ q \in 0..n /\ \A j \in q + 1..n : u[j] \in WordChars
    /\ q > 0 => u[q] \notin WordChars

LEMMA LastWord ==
    ASSUME NEW u, NEW n \in Nat
    PROVE  \E q : IsLastWord(q, u, n)
<1> DEFINE S == {j \in 1..n : u[j] \notin WordChars}
<1>1. CASE S = {}
    <2>1. IsLastWord(0, u, n)
        BY <1>1 DEF IsLastWord
    <2> QED
        BY <2>1
<1>2. CASE S # {}
    <2> DEFINE q == Max(S)
    <2>1. q \in S /\ \A j \in S : j <= q
        <3>1. S \subseteq 1..n
            OBVIOUS
        <3> HIDE DEF S
        <3> QED
            BY <1>2, <3>1, GreatestIs
    <2> HIDE DEF q
    <2>2. q \in 1..n /\ u[q] \notin WordChars
        BY <2>1
    <2>3. \A j \in q + 1..n : j \in 1..n /\ ~(j <= q)
        BY <2>2
    <2>4. \A j \in q + 1..n : u[j] \in WordChars
        BY <2>1, <2>3
    <2>5. IsLastWord(q, u, n)
        BY <2>2, <2>4 DEF IsLastWord
    <2> QED
        BY <2>5
<1> QED
    BY <1>1, <1>2

\* The numbers of a cut text whose whole had none: the digits a name begins with, when
\* it is cut behind them.
LEMMA CutNumbers ==
    ASSUME NEW u \in Texts, \A i \in 1..Len(u) : ~IsNumber(u, i),
           NEW n \in 1..Len(u) - 1, NEW x, IsCutAt(x, u, n), NEW q, IsLastWord(q, u, n)
    PROVE  \/ \A i \in 1..Len(x) : ~IsNumber(x, i)
           \/ /\ q < n /\ u[q + 1] \in Digits
              /\ \A i \in 1..Len(x) : IsNumber(x, i) <=> i \in q + 1..n
<1> DEFINE l == Len(u)
<1>1. l \in Nat /\ n \in Nat /\ n >= 1 /\ n < l /\ DOMAIN u = 1..l
    BY DEF Texts
<1>2. Len(x) = n + 2
    BY DEF IsCutAt
<1>3. x[n + 1] = " " /\ x[n + 2] = "[truncated]" /\ \A j \in 1..n : x[j] = u[j]
    BY DEF IsCutAt
<1>4. DOMAIN x = 1..n + 2
    <2>1. x \in Seq(Chars)
        BY DEF IsCutAt, Texts
    <2> QED
        BY <1>2, <2>1
<1>5. \A j \in 1..n + 2 : x[j] \in WordChars => j \in 1..n
    <2> SUFFICES ASSUME NEW j \in 1..n + 2, x[j] \in WordChars PROVE j \in 1..n
        OBVIOUS
    <2>1. j # n + 1 /\ j # n + 2
        BY <1>3, MarkerIs
    <2> QED
        BY <1>1, <2>1
<1>6. Letters \subseteq WordChars /\ Digits \subseteq WordChars /\ WordChars = Letters \cup Digits
    BY DEF WordChars
<1>7. /\ q \in 0..n /\ \A j \in q + 1..n : u[j] \in WordChars
      /\ q > 0 => u[q] \notin WordChars
    BY DEF IsLastWord
<1>8. \A i \in 1..l : ~IsNumber(u, i)
    OBVIOUS
<1> HIDE DEF l
<1>9. ASSUME NEW i \in 1..n + 2, IsNumber(x, i)
      PROVE  /\ i \in q + 1..n /\ u[i] \in Digits
             /\ \A j \in q + 1..n : u[j] \in Digits
    <2>1. /\ x[i] \in Digits
          /\ \A j \in 1..n + 2 : x[j] \in Letters =>
                \E k \in 1..n + 2 : (k \in i..j \/ k \in j..i) /\ x[k] \notin WordChars
        BY <1>4, <1>9 DEF IsNumber
    <2>2. i \in 1..n /\ u[i] \in Digits
        BY <1>3, <1>5, <1>6, <2>1
    <2>3. ASSUME i <= q PROVE FALSE
        <3>1. ASSUME NEW j \in 1..l, u[j] \in Letters
              PROVE  \E k \in 1..l : (k \in i..j \/ k \in j..i) /\ u[k] \notin WordChars
            <4>1. CASE j \in 1..n
                <5>1. x[j] \in Letters /\ j \in 1..n + 2
                    <6>1. j \in 1..n + 2
                        BY <1>1, <4>1
                    <6>2. x[j] = u[j]
                        BY <1>3, <4>1
                    <6> QED
                        BY <3>1, <6>1, <6>2
                <5>2. PICK k \in 1..n + 2 : (k \in i..j \/ k \in j..i) /\ x[k] \notin WordChars
                    BY <2>1, <5>1
                <5>3. k \in 1..n /\ k \in 1..l
                    BY <1>1, <2>2, <4>1, <5>2
                <5> QED
                    BY <1>3, <5>2, <5>3
            <4>2. CASE j \notin 1..n
                <5>1. q \in 1..l /\ q \in i..j /\ q > 0
                    BY <1>1, <1>7, <2>2, <2>3, <4>2
                <5> QED
                    BY <1>7, <5>1
            <4> QED
                BY <4>1, <4>2
        <3>2. i \in 1..l
            BY <1>1, <2>2
        <3>3. IsNumber(u, i)
            BY <1>1, <2>2, <3>1 DEF IsNumber
        <3> QED
            BY <1>8, <3>2, <3>3
    <2>4. i \in q + 1..n
        BY <1>7, <2>2, <2>3
    <2>5. ASSUME NEW j \in q + 1..n, u[j] \in Letters PROVE FALSE
        <3>1. j \in 1..n /\ j \in 1..n + 2
            BY <1>1, <1>7
        <3>2. PICK k \in 1..n + 2 : (k \in i..j \/ k \in j..i) /\ x[k] \notin WordChars
            BY <1>3, <2>1, <2>5, <3>1
        <3>3. k \in q + 1..n /\ k \in 1..n
            BY <1>7, <2>4, <3>1, <3>2
        <3> QED
            BY <1>3, <1>7, <3>2, <3>3
    <2> QED
        BY <1>6, <1>7, <2>2, <2>4, <2>5
<1>10. ASSUME NEW i \in q + 1..n, \A j \in q + 1..n : u[j] \in Digits PROVE IsNumber(x, i)
    <2>1. i \in 1..n
        BY <1>1, <1>7
    <2>2. x[i] \in Digits
        BY <1>3, <1>10, <2>1
    <2>3. ASSUME NEW j \in 1..n + 2, x[j] \in Letters
          PROVE  \E k \in 1..n + 2 : (k \in i..j \/ k \in j..i) /\ x[k] \notin WordChars
        <3>1. j \in 1..n /\ u[j] \in Letters
            BY <1>3, <1>5, <1>6, <2>3
        <3>2. j \notin q + 1..n
            <4>1. \A c \in Letters : c \notin Digits
                BY DEF Letters, Digits
            <4> QED
                BY <1>10, <3>1, <4>1
        <3>3. q > 0 /\ q \in j..i /\ q \in 1..n /\ q \in 1..n + 2
            BY <1>1, <1>7, <2>1, <3>1, <3>2
        <3>4. x[q] \notin WordChars
            BY <1>3, <1>7, <3>3
        <3> QED
            BY <3>3, <3>4
    <2> QED
        BY <1>4, <2>2, <2>3 DEF IsNumber
<1>11. CASE \E i \in 1..n + 2 : IsNumber(x, i)
    <2>1. PICK i \in 1..n + 2 : IsNumber(x, i)
        BY <1>11
    <2>2. i \in q + 1..n /\ \A j \in q + 1..n : u[j] \in Digits
        BY <1>9, <2>1
    <2>3. q < n /\ q + 1 \in q + 1..n
        BY <1>1, <1>7, <2>2
    <2>4. u[q + 1] \in Digits
        BY <2>2, <2>3
    <2>5. \A j \in 1..n + 2 : IsNumber(x, j) <=> j \in q + 1..n
        BY <1>9, <1>10, <2>2
    <2> QED
        BY <1>2, <2>3, <2>4, <2>5
<1> QED
    BY <1>2, <1>11

LEMMA TwoBehind ==
    ASSUME NEW e \in Seq(Chars), NEW y \in Chars, NEW z \in Chars
    PROVE  (e \o <<y>>) \o <<z>> = e \o <<y, z>>
<1> DEFINE a == <<y>>
           b == <<z>>
           c == <<y, z>>
<1>1. a \in Seq(Chars) /\ b \in Seq(Chars) /\ c \in Seq(Chars)
    OBVIOUS
<1>2. Len(a) = 1 /\ a[1] = y /\ Len(b) = 1 /\ b[1] = z /\ Len(c) = 2 /\ c[1] = y /\ c[2] = z
    OBVIOUS
<1> HIDE DEF a, b, c
<1>3. a \o b = c
    <2> DEFINE f == a \o b
    <2>4. /\ f \in Seq(Chars) /\ Len(f) = Len(a) + Len(b)
          /\ \A j \in 1..Len(a) : f[j] = a[j]
          /\ \A j \in 1..Len(b) : f[Len(a) + j] = b[j]
        BY <1>1
    <2>1. f \in Seq(Chars) /\ Len(f) = 2 /\ f[1] = y /\ f[2] = z
        BY <1>2, <2>4
    <2> HIDE DEF f
    <2>2. \A j \in 1..2 : f[j] = c[j]
        <3>1. \A j \in 1..2 : j = 1 \/ j = 2
            OBVIOUS
        <3> QED
            BY <1>2, <2>1, <3>1
    <2>3. f = c
        BY <1>1, <1>2, <2>1, <2>2
    <2> QED
        BY <2>3 DEF f
<1>4. (e \o a) \o b = e \o (a \o b)
    BY <1>1
<1>5. (e \o a) \o b = e \o c
    BY <1>3, <1>4
<1> QED
    BY <1>5 DEF a, b, c

\* What is left of a text that is cut behind the digits a name begins with.
LEMMA CutNumber ==
    ASSUME NEW u \in Texts, NEW n \in 1..Len(u) - 1, NEW x, IsCutAt(x, u, n),
           NEW q \in 0..n - 1, \A i \in 1..Len(x) : IsNumber(x, i) <=> i \in q + 1..n,
           q > 0 => u[q] \notin WordChars
    PROVE  WithoutNumbers(x) = SubSeq(u, 1, q) \o <<"?">> \o TRUNCATION_MARKER
<1> DEFINE pieces == [i \in DOMAIN x |-> NumberPiece(x, i)]
           a == SubSeq(u, 1, q)
           b == a \o <<"?">>
           m == n + 2
<1>1. n \in Nat /\ n >= 1 /\ n < Len(u) /\ Len(u) \in Nat /\ q \in Nat /\ q < n
    BY DEF Texts
<1>2. Len(x) = n + 2 /\ x \in Seq(Chars)
    BY DEF IsCutAt, Texts
<1>3. x[n + 1] = " " /\ x[n + 2] = "[truncated]" /\ \A j \in 1..n : x[j] = u[j]
    BY DEF IsCutAt
<1>4. DOMAIN x = 1..m /\ m \in Nat
    BY <1>1, <1>2
<1>5. WithoutNumbers(x) = FlattenSeq(pieces)
    BY DEF WithoutNumbers, NumberPiece
<1>6. \A i \in 1..m : /\ ~IsNumber(x, i) => pieces[i] = <<x[i]>>
                      /\ IsNumber(x, i) =>
                            pieces[i] = IF i > 1 /\ x[i - 1] \in Digits THEN <<>> ELSE <<"?">>
    BY <1>4 DEF NumberPiece
<1>7. pieces \in Seq(Seq(Chars)) /\ Len(pieces) = m
    <2>1. "?" \in Chars
        BY CharsAre
    <2>2. \A i \in 1..m : x[i] \in Chars
        BY <1>2, <1>4
    <2>3. \A c \in Chars : <<c>> \in Seq(Chars)
        OBVIOUS
    <2>4. <<>> \in Seq(Chars)
        OBVIOUS
    <2>5. \A i \in 1..m : pieces[i] \in Seq(Chars)
        <3> HIDE DEF pieces
        <3> QED
            BY <1>6, <2>1, <2>2, <2>3, <2>4
    <2>6. pieces = [i \in 1..m |-> pieces[i]]
        BY <1>4
    <2> HIDE DEF pieces, m
    <2>7. [i \in 1..m |-> pieces[i]] \in Seq(Seq(Chars)) /\ Len([i \in 1..m |-> pieces[i]]) = m
        BY <1>4, <2>5
    <2> QED
        BY <2>6, <2>7
<1> HIDE DEF pieces
\* The numbers are one word.
<1>8. \A i \in 1..m : IsNumber(x, i) <=> i \in q + 1..n
    BY <1>2
<1>9. \A i \in q + 1..n : x[i] \in Digits
    <2>1. \A i \in q + 1..n : i \in 1..m
        BY <1>1
    <2> QED
        BY <1>8, <2>1 DEF IsNumber
<1>10. \A i \in 1..m : i <= q => pieces[i] = <<u[i]>>
    <2> SUFFICES ASSUME NEW i \in 1..m, i <= q PROVE pieces[i] = <<u[i]>>
        OBVIOUS
    <2>1. i \in 1..n /\ i \notin q + 1..n
        BY <1>1
    <2>2. x[i] = u[i]
        BY <1>3, <2>1
    <2> QED
        BY <1>6, <1>8, <2>1, <2>2
<1>11. q + 1 \in 1..m /\ pieces[q + 1] = <<"?">>
    <2>1. q + 1 \in 1..m /\ q + 1 \in q + 1..n /\ (q + 1 > 1 => q > 0 /\ q \in 1..n)
          /\ q + 1 - 1 = q
        BY <1>1
    <2>2. q + 1 > 1 => x[q] \notin Digits
        <3>1. Digits \subseteq WordChars
            BY DEF WordChars
        <3> QED
            BY <1>3, <2>1, <3>1
    <2> DEFINE i == q + 1
    <2>3. i \in 1..m /\ IsNumber(x, i) /\ (i > 1 => x[i - 1] \notin Digits)
        BY <1>8, <2>1, <2>2
    <2> HIDE DEF i
    <2>4. pieces[i] = <<"?">>
        BY <1>6, <2>3
    <2> QED
        BY <2>1, <2>4 DEF i
<1>12. \A i \in 1..m : i > q + 1 /\ i <= n => pieces[i] = <<>>
    <2> SUFFICES ASSUME NEW i \in 1..m, i > q + 1, i <= n PROVE pieces[i] = <<>>
        OBVIOUS
    <2>1. i \in q + 1..n /\ i - 1 \in q + 1..n /\ i > 1
        BY <1>1
    <2> QED
        BY <1>6, <1>8, <1>9, <2>1
<1>13. pieces[n + 1] = <<" ">> /\ pieces[n + 2] = <<"[truncated]">>
    <2>1. n + 1 \in 1..m /\ n + 2 \in 1..m /\ n + 1 \notin q + 1..n /\ n + 2 \notin q + 1..n
        BY <1>1
    <2>2. pieces[n + 1] = <<x[n + 1]>> /\ pieces[n + 2] = <<x[n + 2]>>
        BY <1>6, <1>8, <2>1
    <2> QED
        BY <1>3, <2>2
\* The concatenations of the first pieces.
<1> DEFINE c == b \o <<" ">>
           d == c \o <<"[truncated]">>
           h == [i \in 0..m |-> IF i <= q THEN SubSeq(u, 1, i)
                                ELSE IF i <= n THEN b
                                ELSE IF i = n + 1 THEN c ELSE d]
<1>14. a \in Seq(Chars) /\ b \in Seq(Chars)
    <2>1. <<"?">> \in Seq(Chars)
        BY Markers DEF Texts
    <2>2. a \in Seq(Chars)
        BY <1>1 DEF Texts
    <2> QED
        BY <2>1, <2>2
<1>15. h[0] = <<>>
    <2>1. h[0] = SubSeq(u, 1, 0)
        BY <1>1, <1>4
    <2>2. SubSeq(u, 1, 0) = <<>>
        BY DEF Texts
    <2> QED
        BY <2>1, <2>2
<1>16. \A i \in 0..m : /\ i <= q => h[i] = SubSeq(u, 1, i)
                       /\ i > q /\ i <= n => h[i] = b
                       /\ i = n + 1 => h[i] = c
                       /\ i = n + 2 => h[i] = d
    <2> SUFFICES ASSUME NEW i \in 0..m
                 PROVE  /\ i <= q => h[i] = SubSeq(u, 1, i)
                        /\ i > q /\ i <= n => h[i] = b
                        /\ i = n + 1 => h[i] = c
                        /\ i = n + 2 => h[i] = d
        OBVIOUS
    <2>1. /\ (i = n + 1 => ~(i <= q) /\ ~(i <= n))
          /\ (i = n + 2 => ~(i <= q) /\ ~(i <= n) /\ i # n + 1)
          /\ (i > q => ~(i <= q))
        BY <1>1, <1>4
    <2> HIDE DEF b, c, d, m
    <2>2. h[i] = IF i <= q THEN SubSeq(u, 1, i) ELSE IF i <= n THEN b
                 ELSE IF i = n + 1 THEN c ELSE d
        OBVIOUS
    <2> HIDE DEF h
    <2> QED
        BY <2>1, <2>2
<1> HIDE DEF h
<1>17. ASSUME NEW i \in 1..m PROVE h[i] = h[i - 1] \o pieces[i]
    <2>1. i \in 0..m /\ i - 1 \in 0..m
        BY <1>4
    <2>2. CASE i <= q
        <3>3. i - 1 <= q
            BY <1>1, <1>4, <2>2
        <3>1. h[i] = SubSeq(u, 1, i) /\ h[i - 1] = SubSeq(u, 1, i - 1)
            BY <1>16, <2>1, <2>2, <3>3
        <3>2. SubSeq(u, 1, i - 1) \o <<u[i]>> = SubSeq(u, 1, i)
            BY <1>1, <1>4, <2>2 DEF Texts
        <3> QED
            BY <1>10, <2>2, <3>1, <3>2
    <2>3. CASE i = q + 1
        <3>1. i > q /\ i <= n /\ i - 1 <= q /\ i - 1 = q
            BY <1>1, <2>3
        <3>2. h[i] = b /\ h[i - 1] = a
            BY <1>16, <2>1, <3>1
        <3> QED
            BY <1>11, <2>3, <3>2
    <2>4. CASE i > q + 1 /\ i <= n
        <3>1. i > q /\ i - 1 > q /\ i - 1 <= n
            BY <1>1, <2>4
        <3>2. h[i] = b /\ h[i - 1] = b /\ pieces[i] = <<>>
            BY <1>12, <1>16, <2>1, <2>4, <3>1
        <3>3. \A e \in Seq(Chars) : e \o <<>> = e
            OBVIOUS
        <3> HIDE DEF b
        <3> QED
            BY <1>14, <3>2, <3>3
    <2>5. CASE i = n + 1
        <3>1. i - 1 > q /\ i - 1 <= n
            BY <1>1, <2>5
        <3>2. h[i] = c /\ h[i - 1] = b
            BY <1>16, <2>1, <2>5, <3>1
        <3> QED
            BY <1>13, <2>5, <3>2
    <2>6. CASE i = n + 2
        <3>1. i - 1 = n + 1
            BY <1>1, <2>6
        <3>2. h[i] = d /\ h[i - 1] = c
            BY <1>16, <2>1, <2>6, <3>1
        <3> QED
            BY <1>13, <2>6, <3>2
    <2>7. i <= q \/ i = q + 1 \/ (i > q + 1 /\ i <= n) \/ i = n + 1 \/ i = n + 2
        BY <1>1
    <2> QED
        BY <2>2, <2>3, <2>4, <2>5, <2>6, <2>7
<1>18. FlattenSeq(pieces) = h[m]
    BY <1>7, <1>15, <1>17, FlattenBy
<1>19. h[m] = d
    <2>1. m \in 0..m /\ m = n + 2
        BY <1>4
    <2> HIDE DEF m, d
    <2> QED
        BY <1>16, <2>1
<1>20. d = b \o TRUNCATION_MARKER
    <2>2. " " \in Chars /\ "[truncated]" \in Chars
        BY CharsAre
    <2> HIDE DEF b
    <2> QED
        BY <1>14, <2>2, TwoBehind DEF TRUNCATION_MARKER
<1> QED
    BY <1>5, <1>18, <1>19, <1>20

\* A part that ends with no character of a word has no numbers the whole has not.
LEMMA PrefixNumbers ==
    ASSUME NEW u \in Texts, \A i \in 1..Len(u) : ~IsNumber(u, i),
           NEW e \in 1..Len(u), u[e] \notin WordChars
    PROVE  WithoutNumbers(SubSeq(u, 1, e)) = SubSeq(u, 1, e)
<1> DEFINE v == SubSeq(u, 1, e)
           l == Len(u)
<1>1. /\ l \in Nat /\ e \in 1..l /\ DOMAIN u = 1..l
      /\ v \in Texts /\ Len(v) = e /\ DOMAIN v = 1..e /\ \A i \in 1..e : v[i] = u[i]
    BY DEF Texts
<1>2. Digits \subseteq WordChars
    BY DEF WordChars
<1>3. \A i \in 1..l : ~IsNumber(u, i)
    OBVIOUS
<1> HIDE DEF v, l
<1>4. ASSUME NEW i \in 1..Len(v), IsNumber(v, i) PROVE FALSE
    <2>1. i \in 1..e /\ i \in 1..l
        BY <1>1
    <2>2. u[i] \in Digits
        BY <1>1, <1>4, <2>1 DEF IsNumber
    <2>3. ASSUME NEW j \in 1..l, u[j] \in Letters
          PROVE  \E k \in 1..l : (k \in i..j \/ k \in j..i) /\ u[k] \notin WordChars
        <3>1. CASE j \in 1..e
            <4>1. v[j] \in Letters
                BY <1>1, <2>3, <3>1
            <4>2. PICK k \in 1..e : (k \in i..j \/ k \in j..i) /\ v[k] \notin WordChars
                BY <1>1, <1>4, <3>1, <4>1 DEF IsNumber
            <4>3. k \in 1..l /\ u[k] \notin WordChars
                BY <1>1, <4>2
            <4> QED
                BY <4>2, <4>3
        <3>2. CASE j \notin 1..e
            <4>1. e \in i..j /\ e \in 1..l
                BY <1>1, <2>1, <3>2
            <4> QED
                BY <4>1
        <3> QED
            BY <3>1, <3>2
    <2>4. IsNumber(u, i)
        BY <1>1, <2>2, <2>3 DEF IsNumber
    <2> QED
        BY <1>3, <2>1, <2>4
<1>5. WithoutNumbers(v) = v
    BY <1>1, <1>4, NumbersGone
<1> QED
    BY <1>5 DEF v

\* What a pass makes of a cut text: a name that is cut behind its first digits is read as
\* a number, and a cut comment swallows the marker.
IsReadCut(y, u) ==
    \E q \in 0..Len(u) - 1 :
        /\ u[q + 1] \in Digits
        /\ q > 0 => u[q] \notin WordChars
        /\ y = SubSeq(u, 1, q) \o <<"?">> \o TRUNCATION_MARKER

IsSwallowedCut(y, u) == \E e \in 1..Len(u) : Swallows(u, e) /\ y = SubSeq(u, 1, e)

LEMMA SwallowsIs ==
    ASSUME NEW u \in Texts, NEW e \in 1..Len(u), Swallows(u, e)
    PROVE  u[e] \notin WordChars /\ u[e] \notin Blanks
<1>1. REDACTED \notin WordChars /\ REDACTED \notin Blanks /\ "/" \notin WordChars /\ "/" \notin Blanks
    BY DEF REDACTED, WordChars, Letters, Digits, Blanks
<1>2. CASE u[e] = REDACTED
    BY <1>1, <1>2
<1>3. CASE e > 2 /\ StartsWith(u, e - 2, <<REDACTED, "*", "/">>)
    <2> DEFINE t == <<REDACTED, "*", "/">>
               q == e - 2
    <2>1. e \in Nat /\ q + 3 - 1 = e /\ 3 \in 1..3
        BY DEF Texts
    <2>2. Len(t) = 3 /\ t[3] = "/"
        OBVIOUS
    <2>3. StartsWith(u, q, t)
        BY <1>3
    <2> HIDE DEF t, q
    <2>4. u[q + 3 - 1] = t[3]
        BY <2>1, <2>2, <2>3 DEF StartsWith
    <2>5. u[e] = "/"
        BY <2>1, <2>2, <2>4
    <2> QED
        BY <1>1, <2>5
<1> QED
    BY <1>2, <1>3 DEF Swallows

LEMMA CutRedacted ==
    ASSUME NEW u \in Texts, NEW dialect, IsSettled(u, dialect), NEW n \in 1..Len(u) - 1,
           NEW x, IsCutAt(x, u, n), NEW y, y = _redact_sql_fragments(x, dialect)
    PROVE  y = x \/ IsReadCut(y, u) \/ IsSwallowedCut(y, u)
<1> DEFINE l == Len(u)
           L == Len(x)
<1>1. x \in Texts /\ L = n + 2
    BY DEF IsCutAt
<1>2. l \in Nat /\ n \in Nat /\ n >= 1 /\ n < l /\ n + 1 \in 1..L /\ n + 2 \in 1..L
    BY <1>1 DEF Texts
<1>3. PICK g : IsFragments(g, x, dialect) /\ y = WithoutNumbers(g[1])
    BY <1>1, FragmentsAre
<1>4. Steady(u, dialect) /\ \A i \in 1..l : ~IsNumber(u, i)
    BY DEF IsSettled
<1>5. PICK p \in 1..n + 1 : \E Q :
            /\ IsVisited(Q, u, dialect, p)
            /\ p = n + 1 \/ \E k \in n + 2..l + 1 : Leaves(u, dialect, p, k)
    BY <1>4, LastVisited
<1>6. PICK Q : /\ IsVisited(Q, u, dialect, p)
               /\ p = n + 1 \/ \E k \in n + 2..l + 1 : Leaves(u, dialect, p, k)
    BY <1>5
<1>7. IsVisited(Q, x, dialect, p)
    BY <1>6, KeptVisits
<1>8. p \in 1..L + 1
    BY <1>1, <1>2
<1>9. CASE \A i \in p..L : IsPlain(x, dialect, i)
    <2>1. Steady(x, dialect)
        BY <1>1, <1>7, <1>8, <1>9, VisitedSteady
    <2>2. y = WithoutNumbers(x)
        BY <1>1, <1>3, <2>1, SteadyIs
    <2>3. PICK q : IsLastWord(q, u, n)
        BY <1>2, LastWord
    <2>4. CASE \A i \in 1..L : ~IsNumber(x, i)
        BY <1>1, <2>2, <2>4, NumbersGone
    <2>5. CASE /\ q < n /\ u[q + 1] \in Digits
               /\ \A i \in 1..L : IsNumber(x, i) <=> i \in q + 1..n
        <3>1. q \in 0..n - 1 /\ q \in 0..l - 1 /\ (q > 0 => u[q] \notin WordChars)
            BY <1>2, <2>3, <2>5 DEF IsLastWord
        <3>2. WithoutNumbers(x) = SubSeq(u, 1, q) \o <<"?">> \o TRUNCATION_MARKER
            BY <2>5, <3>1, CutNumber
        <3> QED
            BY <2>2, <2>5, <3>1, <3>2 DEF IsReadCut
    <2> QED
        BY <1>4, <2>3, <2>4, <2>5, CutNumbers
<1>10. CASE p = n + 1
    <2>1. x[n + 1] = " " /\ x[n + 2] = "[truncated]"
        BY DEF IsCutAt
    <2>2. IsPlain(x, dialect, n + 1) /\ IsPlain(x, dialect, n + 2)
        BY <1>1, <1>2, <2>1, InertPlain, MarkerIs
    <2>3. \A i \in p..L : i = n + 1 \/ i = n + 2
        BY <1>1, <1>2, <1>10
    <2> QED
        BY <1>9, <2>2, <2>3
<1>11. CASE p # n + 1
    <2>1. p \in 1..n
        BY <1>2, <1>11
    <2>2. PICK k \in n + 2..l + 1 : Leaves(u, dialect, p, k)
        BY <1>6, <1>11
    <2>3. CASE \E e \in p..l : /\ Swallows(u, e)
                               /\ Scan(x, dialect, p) = Written(SubSeq(u, p, e), L + 1)
        <3>1. PICK e \in p..l : /\ Swallows(u, e)
                                /\ Scan(x, dialect, p) = Written(SubSeq(u, p, e), L + 1)
            BY <2>3
        <3> DEFINE r == SubSeq(u, p, e)
        <3>2. /\ e \in 1..l /\ p \in 1..L /\ r \in Seq(Chars) /\ u \in Seq(Chars)
              /\ SubSeq(u, 1, p - 1) \o r = SubSeq(u, 1, e)
            BY <1>1, <1>2, <2>1 DEF Texts
        <3>3. SubSeq(x, 1, p - 1) = SubSeq(u, 1, p - 1)
            <4>1. \A j \in 1..n : x[j] = u[j]
                BY DEF IsCutAt
            <4>2. p - 1 <= n /\ p - 1 <= L /\ p - 1 <= l /\ p - 1 \in Nat
                BY <1>1, <1>2, <2>1
            <4> DEFINE m == p - 1
            <4>3. m <= n /\ m <= L /\ m <= l /\ m \in Nat
                BY <4>2
            <4> HIDE DEF m
            <4>4. SubSeq(x, 1, m) = SubSeq(u, 1, m)
                <5> DEFINE a == SubSeq(x, 1, m)
                           b == SubSeq(u, 1, m)
                <5>1. a \in Seq(Chars) /\ Len(a) = m /\ \A j \in 1..m : a[j] = x[j]
                    BY <1>1, <4>3 DEF Texts
                <5>2. b \in Seq(Chars) /\ Len(b) = m /\ \A j \in 1..m : b[j] = u[j]
                    BY <4>3 DEF Texts
                <5> HIDE DEF a, b
                <5>3. \A j \in 1..m : a[j] = b[j]
                    BY <1>2, <4>1, <4>3, <5>1, <5>2
                <5>4. a = b
                    BY <5>1, <5>2, <5>3
                <5> QED
                    BY <5>4 DEF a, b
            <4> QED
                BY <4>4 DEF m
        <3> HIDE DEF r
        <3>4. Scan(x, dialect, p).text = r /\ Scan(x, dialect, p).next = L + 1
            BY <3>1 DEF Written, r
        <3>5. g[p] = r \o g[L + 1] /\ g[L + 1] = <<>>
            BY <1>3, <3>2, <3>4 DEF IsFragments
        <3>6. g[p] = r
            BY <3>2, <3>5
        <3>7. g[1] = SubSeq(x, 1, p - 1) \o g[p]
            BY <1>1, <1>3, <1>7, <1>8, VisitedTo
        <3>8. g[1] = SubSeq(u, 1, e)
            BY <3>2, <3>3, <3>6, <3>7
        <3>9. u[e] \notin WordChars
            BY <3>1, <3>2, SwallowsIs
        <3>10. y = SubSeq(u, 1, e)
            BY <1>3, <1>4, <3>2, <3>8, <3>9, PrefixNumbers
        <3> QED
            BY <3>1, <3>2, <3>10 DEF IsSwallowedCut
    <2> QED
        BY <1>9, <2>1, <2>2, <2>3, CutOpens
<1> QED
    BY <1>10, <1>11

\* A text that begins with ink.
IsTrimmed(u) == u \in Texts /\ Len(u) >= 1 /\ u[1] \notin Blanks

\* A text that is u but for its last three characters, at most.
Follows(y, u) ==
    y \in Texts /\ Len(y) <= Len(u) + 2 /\ \A j \in 1..Len(y) - 3 : y[j] = u[j]

\* A text that follows u and is cut once more is u, cut.
LEMMA TruncatedCut ==
    ASSUME NEW u \in Texts, NEW y, Follows(y, u), NEW m \in Nat, m >= 2, Len(y) > m
    PROVE  \E n \in 0..Len(u) - 1 : truncate_str(y, m) = SubSeq(u, 1, n) \o TRUNCATION_MARKER
<1> DEFINE n == m - 2
           a == SubSeq(y, 1, n)
           b == SubSeq(u, 1, n)
<1>1. /\ y \in Texts /\ Len(y) \in Nat /\ Len(u) \in Nat /\ Len(y) <= Len(u) + 2
      /\ \A j \in 1..Len(y) - 3 : y[j] = u[j]
    BY DEF Follows, Texts
<1>2. n \in Nat /\ n <= Len(y) - 3 /\ n <= Len(y) /\ n <= Len(u) /\ n \in 0..Len(u) - 1
    BY <1>1
<1>3. truncate_str(y, m) = a \o TRUNCATION_MARKER
    <2>1. Len(TRUNCATION_MARKER) = 2
        BY MarkerIs
    <2>2. ~(Len(y) <= m)
        BY <1>1
    <2> QED
        BY <2>1, <2>2 DEF truncate_str
<1> HIDE DEF n
<1>4. a \in Seq(Chars) /\ Len(a) = n /\ \A j \in 1..n : a[j] = y[j]
    BY <1>1, <1>2 DEF Texts
<1>5. b \in Seq(Chars) /\ Len(b) = n /\ \A j \in 1..n : b[j] = u[j]
    BY <1>2 DEF Texts
<1> HIDE DEF a, b
<1>6. \A j \in 1..n : a[j] = b[j]
    BY <1>1, <1>2, <1>4, <1>5
<1>7. a = b
    BY <1>4, <1>5, <1>6
<1> QED
    BY <1>2, <1>3, <1>7 DEF b

\* The cuts.
LEMMA CutFollows ==
    ASSUME NEW u, IsTrimmed(u), NEW n \in 0..Len(u) - 1, NEW x,
           x = SubSeq(u, 1, n) \o TRUNCATION_MARKER
    PROVE  /\ x \in Texts /\ Follows(x, u) /\ IsCutAt(x, u, n)
           /\ n # 0 => Strip(x) = x
           /\ n = 0 => Strip(x) = <<"[truncated]">>
<1>1. u \in Texts /\ Len(u) \in Nat /\ n \in Nat /\ n \in 0..Len(u) /\ n < Len(u)
    BY DEF IsTrimmed, Texts
<1>2. IsCutAt(x, u, n)
    BY <1>1, CutAtIs
<1>3. x \in Texts /\ Len(x) = n + 2 /\ \A j \in 1..n : x[j] = u[j]
    BY <1>2 DEF IsCutAt
<1>4. x[n + 1] = " " /\ x[n + 2] = "[truncated]"
    BY <1>2 DEF IsCutAt
<1>5. Follows(x, u)
    <2>1. Len(x) <= Len(u) + 2 /\ \A j \in 1..Len(x) - 3 : j \in 1..n
        BY <1>1, <1>3
    <2> QED
        BY <1>3, <2>1 DEF Follows
<1> DEFINE m == Len(x)
<1>6. m \in 1..m /\ m \in Nat /\ m = n + 2
    BY <1>1, <1>3
<1>7. x[m] \notin Blanks
    BY <1>4, <1>6, MarkerIs
<1> HIDE DEF m
<1>8. ASSUME n # 0 PROVE Strip(x) = x
    <2>1. 1 \in 1..n /\ m >= 1
        BY <1>1, <1>6, <1>8
    <2>2. x[1] \notin Blanks
        BY <1>3, <2>1 DEF IsTrimmed
    <2> QED
        BY <1>3, <1>7, <2>1, <2>2, StripsNothing DEF m
<1>9. ASSUME n = 0 PROVE Strip(x) = <<"[truncated]">>
    <2>1. m = 2 /\ 2 \in 1..m
        BY <1>6, <1>9
    <2>2. x[1] \in Blanks /\ x[2] = "[truncated]"
        <3>1. n + 1 = 1 /\ n + 2 = 2
            BY <1>9
        <3>2. " " \in Blanks
            BY DEF Blanks
        <3> QED
            BY <1>4, <3>1, <3>2
    <2>3. \A i \in 1..m : i = 1 \/ i = 2
        BY <2>1
    <2>4. IsInk(x, 2, 2)
        <3>1. 2 \in 1..m /\ 2 \in 2..m
            BY <2>1
        <3>2. x[2] \notin Blanks
            BY <1>7, <2>1
        <3>3. \A i \in 1..m : x[i] \notin Blanks => i \in 2..2
            <4> SUFFICES ASSUME NEW i \in 1..m, x[i] \notin Blanks PROVE i \in 2..2
                OBVIOUS
            <4>1. i = 2
                BY <2>2, <2>3
            <4> QED
                BY <4>1
        <3> QED
            BY <3>1, <3>2, <3>3 DEF IsInk, m
    <2>5. Strip(x) = SubSeq(x, 2, 2)
        BY <1>3, <2>1, <2>4, InkIs DEF m
    <2>6. SubSeq(x, 2, 2) = <<x[2]>>
        BY <1>3, <2>1, ShortParts DEF m
    <2> QED
        BY <2>2, <2>5, <2>6
<1> QED
    BY <1>2, <1>3, <1>5, <1>8, <1>9

LEMMA SwallowedFollows ==
    ASSUME NEW u, IsTrimmed(u), NEW y, IsSwallowedCut(y, u)
    PROVE  y \in Texts /\ Follows(y, u) /\ Strip(y) = y
<1>1. PICK e \in 1..Len(u) : Swallows(u, e) /\ y = SubSeq(u, 1, e)
    BY DEF IsSwallowedCut
<1>2. u \in Texts /\ Len(u) \in Nat /\ u[1] \notin Blanks
    BY DEF IsTrimmed, Texts
<1>3. y \in Texts /\ Len(y) = e /\ \A j \in 1..e : y[j] = u[j]
    BY <1>1, <1>2 DEF Texts
<1>4. y[1] \notin Blanks /\ y[e] \notin Blanks /\ e >= 1
    <2>1. 1 \in 1..e /\ e \in 1..e
        OBVIOUS
    <2>2. u[e] \notin Blanks
        BY <1>1, <1>2, SwallowsIs
    <2> QED
        BY <1>2, <1>3, <2>1, <2>2
<1>5. Strip(y) = y
    BY <1>3, <1>4, StripsNothing
<1>6. Follows(y, u)
    <2>1. Len(y) <= Len(u) + 2 /\ \A j \in 1..Len(y) - 3 : j \in 1..e
        BY <1>2, <1>3
    <2> QED
        BY <1>3, <2>1 DEF Follows
<1> QED
    BY <1>3, <1>5, <1>6

LEMMA ReadFollows ==
    ASSUME NEW u, IsTrimmed(u), NEW y, IsReadCut(y, u)
    PROVE  y \in Texts /\ Follows(y, u) /\ Strip(y) = y
<1>1. PICK q \in 0..Len(u) - 1 : y = SubSeq(u, 1, q) \o <<"?">> \o TRUNCATION_MARKER
    BY DEF IsReadCut
<1>2. u \in Texts /\ Len(u) \in Nat /\ u[1] \notin Blanks /\ q \in Nat /\ q < Len(u)
    BY DEF IsTrimmed, Texts
<1> DEFINE a == SubSeq(u, 1, q)
           b == <<"?">>
           c == TRUNCATION_MARKER
           v == a \o b
<1>3. a \in Texts /\ Len(a) = q /\ \A j \in 1..q : a[j] = u[j]
    BY <1>2 DEF Texts
<1>4. b \in Texts /\ Len(b) = 1 /\ b[1] \notin Blanks
    <2>1. b \in Texts
        BY Markers
    <2>2. "?" \notin Blanks
        BY DEF Blanks
    <2> QED
        BY <2>1, <2>2
<1>5. c \in Texts /\ Len(c) = 2 /\ c[2] \notin Blanks
    BY MarkerIs
<1>6. y = v \o c
    BY <1>1
<1> HIDE DEF a, b, c
<1>7. /\ v \in Texts /\ Len(v) = Len(a) + Len(b)
      /\ \A j \in 1..Len(a) : v[j] = a[j]
      /\ \A j \in 1..Len(b) : v[Len(a) + j] = b[j]
    BY <1>3, <1>4, Joined
<1> HIDE DEF v
<1>8. Len(v) = q + 1 /\ v[q + 1] \notin Blanks /\ \A j \in 1..q : v[j] = u[j]
    BY <1>2, <1>3, <1>4, <1>7
<1>9. /\ y \in Texts /\ Len(y) = Len(v) + Len(c)
      /\ \A j \in 1..Len(v) : y[j] = v[j]
      /\ \A j \in 1..Len(c) : y[Len(v) + j] = c[j]
    BY <1>5, <1>6, <1>7, Joined
<1>10. Len(y) = q + 3 /\ \A j \in 1..q + 1 : y[j] = v[j]
    BY <1>2, <1>5, <1>8, <1>9
<1>11. y[q + 3] \notin Blanks
    <2>1. (q + 1) + 2 = q + 3 /\ 2 \in 1..2
        BY <1>2
    <2>2. y[(q + 1) + 2] = c[2]
        BY <1>5, <1>8, <1>9, <2>1
    <2> QED
        BY <1>5, <2>1, <2>2
<1>12. y[1] \notin Blanks
    <2>1. y[1] = v[1]
        <3>1. 1 \in 1..q + 1
            BY <1>2
        <3> QED
            BY <1>10, <3>1
    <2>2. CASE q = 0
        BY <1>8, <2>1, <2>2
    <2>3. CASE q # 0
        <3>1. 1 \in 1..q
            BY <1>2, <2>3
        <3> QED
            BY <1>2, <1>8, <2>1, <3>1
    <2> QED
        BY <2>2, <2>3
<1>13. Strip(y) = y
    <2>1. Len(y) >= 1 /\ y[Len(y)] \notin Blanks
        BY <1>2, <1>10, <1>11
    <2> QED
        BY <1>9, <1>12, <2>1, StripsNothing
<1>14. Follows(y, u)
    <2>1. Len(y) <= Len(u) + 2 /\ \A j \in 1..Len(y) - 3 : j \in 1..q /\ j \in 1..q + 1
        BY <1>2, <1>10
    <2> QED
        BY <1>8, <1>9, <1>10, <2>1 DEF Follows
<1> QED
    BY <1>9, <1>13, <1>14

\* t is u, a text with ink in front that is settled, or what passes make of it when it is
\* too long for them.
Shows(t, u, dialect) ==
    \/ t = Strip(u)
    \/ \E n \in 0..Len(u) - 1 : t = Strip(SubSeq(u, 1, n) \o TRUNCATION_MARKER)
    \/ (IsReadCut(t, u) \/ IsSwallowedCut(t, u)) /\ IsSettled(t, dialect)

\* The marker alone is settled.
LEMMA MarkerSettles ==
    ASSUME NEW dialect
    PROVE  <<"[truncated]">> \in Texts /\ IsSettled(<<"[truncated]">>, dialect)
<1> DEFINE t == <<"[truncated]">>
<1>1. t \in Texts
    BY CharsAre, ShortTexts
<1>2. Len(t) = 1 /\ t[1] = "[truncated]"
    OBVIOUS
<1> HIDE DEF t
<1>3. Len(t) \in Nat /\ 1 \in 1..Len(t) /\ 1 \in 1..Len(t) + 1 /\ \A i \in 1..Len(t) : i = 1
    BY <1>2
<1>4. IsPlain(t, dialect, 1)
    BY <1>1, <1>2, <1>3, MarkerIs, InertPlain
<1>5. IsVisited({1}, t, dialect, 1)
    BY DEF IsVisited
<1>6. Steady(t, dialect)
    BY <1>1, <1>3, <1>4, <1>5, VisitedSteady
<1>7. \A i \in 1..Len(t) : ~IsNumber(t, i)
    <2>1. "[truncated]" \notin Digits
        BY DEF Digits
    <2>2. \A i \in 1..Len(t) : t[i] \notin Digits
        BY <1>2, <1>3, <2>1
    <2> QED
        BY <2>2 DEF IsNumber
<1>8. t \in Texts /\ IsSettled(t, dialect)
    BY <1>1, <1>6, <1>7 DEF IsSettled
<1> QED
    BY <1>8 DEF t

\* A text that follows u and is shown once the blanks around it are stripped may be cut.
LEMMA TruncatedShows ==
    ASSUME NEW u, IsTrimmed(u), NEW y, Follows(y, u), NEW m \in Nat, m >= 2,
           NEW dialect, Shows(Strip(y), u, dialect)
    PROVE  Shows(Strip(truncate_str(y, m)), u, dialect)
<1>1. y \in Texts /\ Len(y) \in Nat
    BY DEF Follows, Texts
<1>2. CASE Len(y) <= m
    BY <1>2 DEF truncate_str
<1>3. CASE ~(Len(y) <= m)
    <2>1. Len(y) > m
        BY <1>1, <1>3
    <2>2. \E n \in 0..Len(u) - 1 : truncate_str(y, m) = SubSeq(u, 1, n) \o TRUNCATION_MARKER
        BY <2>1, TruncatedCut DEF IsTrimmed
    <2> QED
        BY <2>2 DEF Shows
<1> QED
    BY <1>2, <1>3

\* The passes after the first leave a text that is shown one that is shown.
LEMMA PassShows ==
    ASSUME NEW u, IsTrimmed(u), NEW dialect, IsSettled(u, dialect),
           NEW t, Shows(t, u, dialect), NEW m \in Nat, m >= 2
    PROVE  Shows(Strip(redact_sql_statement(t, dialect, m)), u, dialect)
<1> DEFINE y == _redact_sql_fragments(t, dialect)
<1>1. u \in Texts /\ Len(u) \in Nat
    BY DEF IsTrimmed, Texts
<1>2. ASSUME t \in Texts, IsSettled(t, dialect) PROVE y = t
    BY <1>2, SettledIs
<1>3. Follows(y, u) /\ Shows(Strip(y), u, dialect)
    <2>1. CASE t = Strip(u)
        <3>1. t \in Texts /\ IsSettled(t, dialect)
            BY <1>1, <2>1, StripIs, StrippedSettles
        <3>2. y = t /\ Strip(y) = t
            BY <1>1, <1>2, <2>1, <3>1, StripStrip
        <3>3. Follows(t, u)
            <4>1. 1 \in 1..Len(u) /\ 1 \in DOMAIN u /\ IsNonBlank(u)
                <5>1. 1 \in 1..Len(u) /\ 1 \in DOMAIN u
                    BY <1>1 DEF IsTrimmed, Texts
                <5> QED
                    BY <5>1 DEF IsTrimmed, IsNonBlank
            <4>2. PICK a, b \in 1..Len(u) : IsInk(u, a, b) /\ t = SubSeq(u, a, b)
                BY <1>1, <2>1, <4>1, StripPart
            <4>3. a = 1
                <5>1. 1 \in a..b
                    BY <4>1, <4>2 DEF IsInk, IsTrimmed
                <5> QED
                    BY <4>2, <5>1
            <4>4. Len(t) = b /\ \A j \in 1..b : t[j] = u[j]
                BY <1>1, <4>2, <4>3 DEF Texts
            <4>5. Len(t) <= Len(u) + 2 /\ \A j \in 1..Len(t) - 3 : j \in 1..b
                BY <1>1, <4>4
            <4> QED
                BY <3>1, <4>4, <4>5 DEF Follows
        <3> QED
            BY <2>1, <3>2, <3>3 DEF Shows
    <2>2. CASE \E n \in 0..Len(u) - 1 : t = Strip(SubSeq(u, 1, n) \o TRUNCATION_MARKER)
        <3>1. PICK n \in 0..Len(u) - 1 : t = Strip(SubSeq(u, 1, n) \o TRUNCATION_MARKER)
            BY <2>2
        <3> DEFINE x == SubSeq(u, 1, n) \o TRUNCATION_MARKER
        <3>2. /\ x \in Texts /\ Follows(x, u) /\ IsCutAt(x, u, n)
              /\ n # 0 => Strip(x) = x
              /\ n = 0 => Strip(x) = <<"[truncated]">>
            BY CutFollows
        <3>3. t = Strip(x) /\ Shows(t, u, dialect)
            BY <3>1
        <3> HIDE DEF x
        <3>4. CASE n = 0
            <4>1. t = <<"[truncated]">>
                BY <3>2, <3>3, <3>4
            <4>2. t \in Texts /\ IsSettled(t, dialect)
                BY <4>1, MarkerSettles
            <4>3. y = t
                BY <1>2, <4>2
            <4>4. Strip(t) = t
                BY <3>2, <3>3, StripStrip
            <4>5. Follows(t, u)
                <5>1. Len(t) = 1
                    BY <4>1
                <5>2. Len(t) <= Len(u) + 2 /\ 1..Len(t) - 3 = {}
                    BY <1>1, <5>1
                <5> QED
                    BY <4>2, <5>2 DEF Follows
            <4> QED
                BY <3>3, <4>3, <4>4, <4>5
        <3>5. CASE n # 0
            <4>1. t = x
                BY <3>2, <3>3, <3>5
            <4>2. n \in 1..Len(u) - 1
                BY <1>1, <3>5
            <4>3. y = x \/ IsReadCut(y, u) \/ IsSwallowedCut(y, u)
                BY <1>1, <3>2, <4>1, <4>2, CutRedacted
            <4>4. IsSettled(y, dialect)
                BY <3>2, <4>1, RedactedSettles
            <4>5. CASE y = x
                BY <3>2, <3>3, <4>1, <4>5
            <4>6. CASE IsReadCut(y, u)
                BY <4>4, <4>6, ReadFollows DEF Shows
            <4>7. CASE IsSwallowedCut(y, u)
                BY <4>4, <4>7, SwallowedFollows DEF Shows
            <4> QED
                BY <4>3, <4>5, <4>6, <4>7
        <3> QED
            BY <3>4, <3>5
    <2>3. CASE IsReadCut(t, u) /\ IsSettled(t, dialect)
        <3>1. t \in Texts /\ Follows(t, u) /\ Strip(t) = t
            BY <2>3, ReadFollows
        <3> QED
            BY <1>2, <2>3, <3>1
    <2>4. CASE IsSwallowedCut(t, u) /\ IsSettled(t, dialect)
        <3>1. t \in Texts /\ Follows(t, u) /\ Strip(t) = t
            BY <2>4, SwallowedFollows
        <3> QED
            BY <1>2, <2>4, <3>1
    <2> QED
        BY <2>1, <2>2, <2>3, <2>4 DEF Shows
<1> HIDE DEF y
<1>4. Shows(Strip(truncate_str(y, m)), u, dialect)
    BY <1>3, TruncatedShows
<1> QED
    BY <1>4 DEF redact_sql_statement, y

\* u is s without the blanks in front, those of b.
IsRest(u, s, b) == b \in Texts /\ ~IsNonBlank(b) /\ IsTrimmed(u) /\ s = b \o u

LEMMA RestIs ==
    ASSUME NEW s \in Texts, IsNonBlank(s)
    PROVE  \E b, u : IsRest(u, s, b)
<1>1. PICK a \in 1..Len(s), c \in 1..Len(s) : IsInk(s, a, c)
    BY StripPart
<1> DEFINE l == Len(s)
           b == SubSeq(s, 1, a - 1)
           u == SubSeq(s, a, l)
<1>2. l \in Nat /\ a \in 1..l /\ s \in Seq(Chars)
    BY <1>1 DEF Texts
<1>3. b \in Seq(Chars) /\ Len(b) = a - 1 /\ DOMAIN b = 1..a - 1 /\ \A j \in 1..a - 1 : b[j] = s[j]
    BY <1>2
<1>4. u \in Seq(Chars) /\ Len(u) >= 1 /\ u[1] = s[a] /\ b \o u = s
    <2> HIDE DEF l
    <2>1. l = Len(s)
        BY DEF l
    <2>2. u \in Seq(Chars) /\ Len(u) = l - a + 1 /\ \A j \in 1..l - a + 1 : u[j] = s[a + j - 1]
        BY <1>2, <2>1
    <2>3. 1 \in 1..l - a + 1 /\ a + 1 - 1 = a /\ l - a + 1 >= 1
        BY <1>2
    <2>4. b \o u = s
        BY <1>2, <2>1
    <2> HIDE DEF u, b
    <2>5. Len(u) >= 1 /\ u[1] = s[a]
        BY <2>2, <2>3
    <2> QED
        BY <2>2, <2>4, <2>5
<1>5. s[a] \notin Blanks /\ \A i \in 1..l : s[i] \notin Blanks => i \in a..c
    BY <1>1 DEF IsInk
<1> HIDE DEF b, u
<1>6. ~IsNonBlank(b)
    <2> SUFFICES ASSUME NEW i \in 1..a - 1, b[i] \notin Blanks PROVE FALSE
        BY <1>3 DEF IsNonBlank
    <2>1. i \in 1..l /\ i \notin a..c
        BY <1>2
    <2> QED
        BY <1>3, <1>5, <2>1
<1> QED
    BY <1>3, <1>4, <1>5, <1>6 DEF IsRest, IsTrimmed, Texts

\* The first characters of a text with blanks in front.
LEMMA RestParts ==
    ASSUME NEW s, NEW b, NEW u, IsRest(u, s, b)
    PROVE  /\ s \in Texts /\ b \in Texts /\ u \in Texts
           /\ Len(b) \in Nat /\ Len(u) \in Nat /\ Len(s) = Len(b) + Len(u)
           /\ \A j \in 1..Len(u) : s[Len(b) + j] = u[j]
           /\ \A j \in 1..Len(b) : s[j] \in Blanks
           /\ \A n \in 0..Len(u) : SubSeq(s, 1, Len(b) + n) = b \o SubSeq(u, 1, n)
           /\ \A n \in 0..Len(b) :
                SubSeq(s, 1, n) \in Texts /\ ~IsNonBlank(SubSeq(s, 1, n))
           /\ Strip(s) = Strip(u)
<1>1. b \in Texts /\ ~IsNonBlank(b) /\ u \in Texts /\ s = b \o u
    BY DEF IsRest, IsTrimmed
<1>2. /\ s \in Texts /\ Len(b) \in Nat /\ Len(u) \in Nat /\ Len(s) = Len(b) + Len(u)
      /\ \A j \in 1..Len(b) : s[j] = b[j]
      /\ \A j \in 1..Len(u) : s[Len(b) + j] = u[j]
    BY <1>1, Joined
<1>3. Strip(s) = Strip(u)
    BY <1>1, StripBlanks
<1>4. \A j \in 1..Len(b) : s[j] \in Blanks
    <2>1. DOMAIN b = 1..Len(b)
        BY <1>1 DEF Texts
    <2> QED
        BY <1>1, <1>2, <2>1 DEF IsNonBlank
<1> DEFINE m == Len(b)
<1> HIDE DEF m
<1>5. ASSUME NEW n \in 0..Len(u) PROVE SubSeq(s, 1, m + n) = b \o SubSeq(u, 1, n)
    <2> DEFINE x == SubSeq(s, 1, m + n)
               c == SubSeq(u, 1, n)
               y == b \o c
    <2>1. m \in Nat /\ n \in Nat /\ m + n \in Nat /\ m + n <= Len(s) /\ n <= Len(u)
        BY <1>2 DEF m
    <2>2. x \in Seq(Chars) /\ Len(x) = m + n /\ \A j \in 1..m + n : x[j] = s[j]
        BY <1>2, <2>1 DEF Texts
    <2>3. c \in Texts /\ Len(c) = n /\ \A j \in 1..n : c[j] = u[j]
        BY <1>1, <2>1 DEF Texts
    <2> HIDE DEF x, c
    <2>4. /\ y \in Texts /\ Len(y) = m + n
          /\ \A j \in 1..m : y[j] = b[j]
          /\ \A j \in 1..n : y[m + j] = c[j]
        BY <1>1, <2>3, Joined DEF m
    <2> HIDE DEF y
    <2>5. ASSUME NEW j \in 1..m + n PROVE x[j] = y[j]
        <3>1. CASE j <= m
            <4>1. j \in 1..m
                BY <2>1, <3>1
            <4> QED
                BY <1>2, <2>2, <2>4, <4>1 DEF m
        <3>2. CASE ~(j <= m)
            <4>1. j - m \in 1..n /\ m + (j - m) = j /\ j - m \in 1..Len(u)
                BY <2>1, <3>2
            <4>2. s[m + (j - m)] = u[j - m] /\ y[m + (j - m)] = c[j - m]
                BY <1>2, <2>4, <4>1 DEF m
            <4> QED
                BY <2>2, <2>3, <4>1, <4>2
        <3> QED
            BY <3>1, <3>2
    <2>6. x = y
        BY <2>2, <2>4, <2>5 DEF Texts
    <2> QED
        BY <2>6 DEF x, y, c
<1>6. ASSUME NEW n \in 0..Len(b) PROVE SubSeq(s, 1, n) \in Texts /\ ~IsNonBlank(SubSeq(s, 1, n))
    <2> DEFINE x == SubSeq(s, 1, n)
    <2>1. n \in Nat /\ n <= Len(s) /\ n <= Len(b)
        BY <1>2
    <2>2. x \in Texts /\ DOMAIN x = 1..n /\ \A j \in 1..n : x[j] = s[j]
        BY <1>2, <2>1 DEF Texts
    <2> HIDE DEF x
    <2>3. \A j \in 1..n : x[j] \in Blanks
        BY <1>2, <1>4, <2>1, <2>2
    <2>4. x \in Texts /\ ~IsNonBlank(x)
        BY <2>2, <2>3 DEF IsNonBlank
    <2> QED
        BY <2>4 DEF x
<1> QED
    BY <1>1, <1>2, <1>3, <1>4, <1>5, <1>6 DEF m

\* t is s, redacted text, or what passes make of it when it is too long for them.
MayShow(t, s, dialect) == \E b, u : IsRest(u, s, b) /\ Shows(t, u, dialect)

\* What the first pass leaves of a text once it is redacted.
LEMMA FirstShows ==
    ASSUME NEW s \in Texts, IsNonBlank(s), NEW m \in Nat, m >= 2, NEW dialect
    PROVE  MayShow(Strip(truncate_str(s, m)), s, dialect)
<1>1. PICK b, u : IsRest(u, s, b)
    BY RestIs
<1> DEFINE k == Len(b)
           n == m - 2
           cut == SubSeq(s, 1, n)
<1>2. /\ s \in Texts /\ b \in Texts /\ u \in Texts
      /\ k \in Nat /\ Len(u) \in Nat /\ Len(s) = k + Len(u)
      /\ \A j \in 0..Len(u) : SubSeq(s, 1, k + j) = b \o SubSeq(u, 1, j)
      /\ \A j \in 0..k : SubSeq(s, 1, j) \in Texts /\ ~IsNonBlank(SubSeq(s, 1, j))
      /\ Strip(s) = Strip(u)
    BY <1>1, RestParts
<1>3. ~IsNonBlank(b) /\ Len(u) >= 1
    BY <1>1 DEF IsRest, IsTrimmed
<1>4. TRUNCATION_MARKER \in Texts /\ Len(TRUNCATION_MARKER) = 2
    BY MarkerIs
<1>5. n \in Nat
    OBVIOUS
<1> HIDE DEF k
<1>6. CASE Len(s) <= m
    <2>1. Strip(truncate_str(s, m)) = Strip(u)
        BY <1>2, <1>6 DEF truncate_str
    <2> QED
        BY <1>1, <2>1 DEF MayShow, Shows
<1>7. CASE ~(Len(s) <= m)
    <2>1. truncate_str(s, m) = cut \o TRUNCATION_MARKER
        BY <1>4, <1>7 DEF truncate_str
    <2>2. n < Len(s)
        BY <1>2, <1>7
    <2> HIDE DEF n
    <2> SUFFICES \E i \in 0..Len(u) - 1 :
                    Strip(cut \o TRUNCATION_MARKER)
                        = Strip(SubSeq(u, 1, i) \o TRUNCATION_MARKER)
        BY <1>1, <2>1 DEF MayShow, Shows
    <2>3. CASE n <= k
        <3>1. n \in 0..k /\ 0 \in 0..Len(u) - 1
            BY <1>2, <1>3, <1>5, <2>3
        <3>2. Strip(cut \o TRUNCATION_MARKER) = Strip(TRUNCATION_MARKER)
            BY <1>2, <1>4, <3>1, StripBlanks
        <3>3. SubSeq(u, 1, 0) \o TRUNCATION_MARKER = TRUNCATION_MARKER
            <4> DEFINE c == TRUNCATION_MARKER
            <4>1. c \in Seq(Chars)
                BY <1>4 DEF Texts
            <4> HIDE DEF c
            <4>2. SubSeq(u, 1, 0) = <<>> /\ <<>> \o c = c
                BY <1>2, <4>1 DEF Texts
            <4> QED
                BY <4>2 DEF c
        <3> QED
            BY <3>1, <3>2, <3>3
    <2>4. CASE ~(n <= k)
        <3> DEFINE i == n - k
                   c == SubSeq(u, 1, i)
        <3>1. i \in 0..Len(u) - 1 /\ i \in 0..Len(u) /\ k + i = n
            BY <1>2, <1>5, <2>2, <2>4
        <3>2. c \in Texts
            BY <1>2, <3>1 DEF Texts
        <3>3. cut = b \o c
            BY <1>2, <3>1
        <3>4. c \o TRUNCATION_MARKER \in Texts
            BY <1>4, <3>2, Joined
        <3> HIDE DEF c
        <3>5. \A x, y, z \in Seq(Chars) : (x \o y) \o z = x \o (y \o z)
            OBVIOUS
        <3>6. (b \o c) \o TRUNCATION_MARKER = b \o (c \o TRUNCATION_MARKER)
            BY <1>2, <1>4, <3>2, <3>5 DEF Texts
        <3>7. Strip(b \o (c \o TRUNCATION_MARKER)) = Strip(c \o TRUNCATION_MARKER)
            BY <1>2, <1>3, <3>4, StripBlanks
        <3> QED
            BY <3>1, <3>3, <3>6, <3>7 DEF c
    <2> QED
        BY <2>3, <2>4
<1> QED
    BY <1>6, <1>7

LEMMA RestSettles ==
    ASSUME NEW s, NEW b, NEW u, IsRest(u, s, b), NEW dialect, IsSettled(s, dialect)
    PROVE  IsSettled(u, dialect)
<1> DEFINE k == Len(b)
           l == Len(s)
<1>1. /\ s \in Texts /\ b \in Texts /\ u \in Texts
      /\ k \in Nat /\ Len(u) \in Nat /\ l = k + Len(u)
      /\ \A j \in 1..Len(u) : s[k + j] = u[j]
      /\ \A j \in 1..k : s[j] \in Blanks
    BY RestParts
<1>2. Len(u) >= 1
    BY DEF IsRest, IsTrimmed
<1> HIDE DEF k, l
<1>3. k + 1 \in 1..l /\ l \in k + 1..l /\ l \in Nat
    BY <1>1, <1>2
<1>4. \A i \in 1..l : s[i] \notin Blanks => i \in k + 1..l
    <2> SUFFICES ASSUME NEW i \in 1..l, s[i] \notin Blanks PROVE i \in k + 1..l
        OBVIOUS
    <2>1. i \notin 1..k
        BY <1>1
    <2> QED
        BY <1>1, <2>1
<1>5. IsSettled(SubSeq(s, k + 1, l), dialect)
    BY <1>1, <1>3, <1>4, PartSettles DEF l
<1>6. SubSeq(s, k + 1, l) = u
    <2> DEFINE x == SubSeq(s, k + 1, l)
    <2>1. x \in Seq(Chars) /\ Len(x) = Len(u) /\ \A j \in 1..Len(u) : x[j] = s[(k + 1) + j - 1]
        BY <1>1, <1>3 DEF Texts, l
    <2> HIDE DEF x
    <2>2. \A j \in 1..Len(u) : x[j] = u[j]
        <3> SUFFICES ASSUME NEW j \in 1..Len(u) PROVE x[j] = u[j]
            OBVIOUS
        <3>1. (k + 1) + j - 1 = k + j
            BY <1>1
        <3> QED
            BY <1>1, <2>1, <3>1
    <2>3. x = u
        BY <1>1, <2>1, <2>2 DEF Texts
    <2> QED
        BY <2>3 DEF x
<1> QED
    BY <1>5, <1>6

LEMMA NextShows ==
    ASSUME NEW s, NEW dialect, IsSettled(s, dialect), NEW t, MayShow(t, s, dialect),
           NEW m \in Nat, m >= 2
    PROVE  MayShow(Strip(redact_sql_statement(t, dialect, m)), s, dialect)
<1>1. PICK b, u : IsRest(u, s, b) /\ Shows(t, u, dialect)
    BY DEF MayShow
<1>2. IsTrimmed(u) /\ IsSettled(u, dialect)
    BY <1>1, RestSettles DEF IsRest
<1> QED
    BY <1>1, <1>2, PassShows DEF MayShow

\* What may be shown of a text is the text, stripped, or a cut of it.
LEMMA ShownIsCut ==
    ASSUME NEW s, NEW dialect, NEW t, MayShow(t, s, dialect)
    PROVE  t = Strip(s) \/ IsCutOf(t, s)
<1>1. PICK b, u : IsRest(u, s, b) /\ Shows(t, u, dialect)
    BY DEF MayShow
<1> DEFINE k == Len(b)
           l == Len(s)
           kept(n) == SubSeq(s, 1, n)
<1>2. /\ s \in Texts /\ b \in Texts /\ u \in Texts
      /\ k \in Nat /\ Len(u) \in Nat /\ l = k + Len(u)
      /\ \A j \in 1..Len(u) : s[k + j] = u[j]
      /\ \A j \in 1..k : s[j] \in Blanks
      /\ \A n \in 0..Len(u) : kept(k + n) = b \o SubSeq(u, 1, n)
      /\ Strip(s) = Strip(u)
    BY <1>1, RestParts
<1>3. ~IsNonBlank(b) /\ IsTrimmed(u)
    BY <1>1 DEF IsRest
<1>4. ASSUME NEW n \in 0..Len(u), NEW x \in Texts
      PROVE  Strip(kept(k + n) \o x) = Strip(SubSeq(u, 1, n) \o x)
    <2> DEFINE c == SubSeq(u, 1, n)
    <2>1. kept(k + n) = b \o c /\ c \in Texts
        BY <1>2 DEF Texts
    <2>2. c \o x \in Texts
        BY <2>1, Joined
    <2> HIDE DEF c, kept
    <2>3. \A e, y, z \in Seq(Chars) : (e \o y) \o z = e \o (y \o z)
        OBVIOUS
    <2>4. (b \o c) \o x = b \o (c \o x)
        BY <1>2, <2>1, <2>3 DEF Texts
    <2>5. Strip(b \o (c \o x)) = Strip(c \o x)
        BY <1>2, <1>3, <2>2, StripBlanks
    <2> QED
        BY <2>1, <2>4, <2>5 DEF c
<1>5. ASSUME NEW n \in 0..Len(u) PROVE Strip(kept(k + n)) = Strip(SubSeq(u, 1, n))
    <2>1. SubSeq(u, 1, n) \in Texts /\ kept(k + n) = b \o SubSeq(u, 1, n)
        BY <1>2 DEF Texts
    <2> QED
        BY <1>2, <1>3, <2>1, StripBlanks
<1> HIDE DEF k, l, kept
<1>6. IsCutOf(t, s) <=>
        \E n \in 0..l :
            \/ n < l /\ t = Strip(kept(n) \o TRUNCATION_MARKER)
            \/ /\ n < l /\ s[n + 1] \in Digits
               /\ n > 0 => s[n] \notin WordChars
               /\ t = Strip(kept(n) \o <<"?">> \o TRUNCATION_MARKER)
            \/ n > 0 /\ s[n] = REDACTED /\ t = Strip(kept(n))
            \/ n > 2 /\ StartsWith(s, n - 2, <<REDACTED, "*", "/">>) /\ t = Strip(kept(n))
    BY DEF IsCutOf, l, kept
<1>7. CASE t = Strip(u)
    BY <1>2, <1>7
<1>8. CASE \E n \in 0..Len(u) - 1 : t = Strip(SubSeq(u, 1, n) \o TRUNCATION_MARKER)
    <2>1. PICK n \in 0..Len(u) - 1 : t = Strip(SubSeq(u, 1, n) \o TRUNCATION_MARKER)
        BY <1>8
    <2>2. n \in 0..Len(u) /\ k + n \in 0..l /\ k + n < l
        BY <1>2
    <2>3. t = Strip(kept(k + n) \o TRUNCATION_MARKER)
        BY <1>4, <2>1, <2>2, MarkerIs
    <2> QED
        BY <1>6, <2>2, <2>3
<1>9. CASE IsReadCut(t, u)
    <2>1. PICK q \in 0..Len(u) - 1 :
                /\ u[q + 1] \in Digits /\ (q > 0 => u[q] \notin WordChars)
                /\ t = SubSeq(u, 1, q) \o <<"?">> \o TRUNCATION_MARKER
        BY <1>9 DEF IsReadCut
    <2>2. /\ q \in 0..Len(u) /\ q + 1 \in 1..Len(u) /\ (q > 0 => q \in 1..Len(u))
          /\ (k + q = 0 \/ q > 0 \/ (q = 0 /\ k \in 1..k))
          /\ k + q \in 0..l /\ k + q < l /\ (k + q) + 1 = k + (q + 1)
        BY <1>2
    <2>3. s[(k + q) + 1] \in Digits
        BY <1>2, <2>1, <2>2
    <2>4. k + q > 0 => s[k + q] \notin WordChars
        <3>1. CASE k + q = 0
            BY <3>1
        <3>2. CASE q > 0
            BY <1>2, <2>1, <2>2, <3>2
        <3>3. CASE q = 0 /\ k \in 1..k
            <4>1. s[k + q] \in Blanks
                BY <1>2, <3>3
            <4>2. \A x \in Blanks : x \notin WordChars
                BY DEF Blanks, WordChars, Letters, Digits
            <4> QED
                BY <4>1, <4>2
        <3> QED
            BY <2>2, <3>1, <3>2, <3>3
    <2> DEFINE d == <<"?">>
               e == d \o TRUNCATION_MARKER
               c == SubSeq(u, 1, q)
    <2>5. e \in Texts /\ d \in Texts
        <3>1. d \in Texts
            BY Markers
        <3> QED
            BY <3>1, MarkerIs, Joined
    <2>6. c \in Texts /\ kept(k + q) \in Texts
        BY <1>2, <2>2 DEF Texts, kept, l
    <2> HIDE DEF d, c
    <2>7. \A x \in Texts : (x \o d) \o TRUNCATION_MARKER = x \o e
        <3>1. \A x, y, z \in Seq(Chars) : (x \o y) \o z = x \o (y \o z)
            OBVIOUS
        <3>2. TRUNCATION_MARKER \in Texts
            BY MarkerIs
        <3> QED
            BY <2>5, <3>1, <3>2 DEF Texts
    <2>8. Strip(t) = t
        BY <1>3, <1>9, ReadFollows
    <2>9. t = c \o e
        BY <2>1, <2>6, <2>7 DEF c, d
    <2> HIDE DEF e
    <2>10. Strip(kept(k + q) \o e) = t
        BY <1>4, <2>2, <2>5, <2>8, <2>9 DEF c
    <2>11. t = Strip(kept(k + q) \o d \o TRUNCATION_MARKER)
        BY <2>6, <2>7, <2>10
    <2> QED
        BY <1>6, <2>2, <2>3, <2>4, <2>11 DEF d
<1>10. CASE IsSwallowedCut(t, u)
    <2>1. PICK e \in 1..Len(u) : Swallows(u, e) /\ t = SubSeq(u, 1, e)
        BY <1>10 DEF IsSwallowedCut
    <2>2. Strip(t) = t
        BY <1>3, <1>10, SwallowedFollows
    <2>3. e \in 0..Len(u) /\ k + e \in 0..l /\ k + e > 0
        BY <1>2
    <2>4. t = Strip(kept(k + e))
        BY <1>5, <2>1, <2>2, <2>3
    <2>5. CASE u[e] = REDACTED
        <3>1. s[k + e] = REDACTED
            BY <1>2, <2>5
        <3> QED
            BY <1>6, <2>3, <2>4, <3>1
    <2>6. CASE e > 2 /\ StartsWith(u, e - 2, <<REDACTED, "*", "/">>)
        <3> DEFINE m == <<REDACTED, "*", "/">>
                   p == e - 2
                   r == (k + e) - 2
        <3>1. Len(m) = 3
            OBVIOUS
        <3> HIDE DEF m
        <3>2. /\ p \in Nat /\ p >= 1 /\ r = k + p /\ p + 3 - 1 = e /\ r + 3 - 1 = k + e
              /\ k + e <= l /\ k + e > 2
              /\ \A j \in 1..3 : p + j - 1 \in 1..Len(u) /\ r + j - 1 = k + (p + j - 1)
            BY <1>2, <2>6
        <3>3. StartsWith(u, p, m)
            BY <2>6 DEF m
        <3> HIDE DEF p, r
        <3>4. \A j \in 1..3 : u[p + j - 1] = m[j]
            BY <3>1, <3>3 DEF StartsWith
        <3>5. \A j \in 1..3 : s[r + j - 1] = m[j]
            BY <1>2, <3>2, <3>4
        <3>6. StartsWith(s, r, m)
            BY <3>1, <3>2, <3>5 DEF StartsWith, l
        <3> QED
            BY <1>6, <2>3, <2>4, <3>2, <3>6 DEF m, r
    <2> QED
        BY <2>1, <2>5, <2>6 DEF Swallows
<1> QED
    BY <1>1, <1>7, <1>8, <1>9, <1>10 DEF Shows

\* A text that is cut fits.
LEMMA TruncatedFits ==
    ASSUME NEW s \in Texts, NEW m \in Nat, m >= 2
    PROVE  /\ truncate_str(s, m) \in Texts
           /\ Len(truncate_str(s, m)) <= m /\ Len(Strip(truncate_str(s, m))) <= m
<1> DEFINE n == m - 2
           a == SubSeq(s, 1, n)
           x == truncate_str(s, m)
<1>1. Len(s) \in Nat
    BY DEF Texts
<1>2. TRUNCATION_MARKER \in Texts /\ Len(TRUNCATION_MARKER) = 2
    BY MarkerIs
<1>3. CASE Len(s) <= m
    <2>1. x = s
        BY <1>3 DEF truncate_str
    <2>2. Len(Strip(s)) <= Len(s) /\ Len(Strip(s)) \in Nat
        BY StripIs, StripStrip DEF Texts
    <2>3. Len(Strip(s)) <= m
        BY <1>1, <1>3, <2>2
    <2> HIDE DEF x
    <2> QED
        BY <1>3, <2>1, <2>3 DEF x
<1>4. CASE ~(Len(s) <= m)
    <2>1. x = a \o TRUNCATION_MARKER
        BY <1>2, <1>4 DEF truncate_str
    <2>2. a \in Texts /\ Len(a) = n
        BY <1>1, <1>4 DEF Texts
    <2> HIDE DEF a, x
    <2>3. x \in Texts /\ Len(x) = Len(a) + Len(TRUNCATION_MARKER)
        BY <1>2, <2>1, <2>2, Joined
    <2>4. Len(x) = m
        BY <1>2, <2>2, <2>3
    <2>5. Len(Strip(x)) <= Len(x) /\ Len(Strip(x)) \in Nat
        BY <2>3, StripIs, StripStrip DEF Texts
    <2> QED
        BY <2>3, <2>4, <2>5 DEF x
<1> QED
    BY <1>3, <1>4

\* A statement that is not too long once it is redacted passes as it is.
LEMMA WholePasses ==
    ASSUME NEW s \in Texts, IsNonBlank(s), NEW dialect,
           NEW safe, safe = _redact_sql_fragments(s, dialect),
           NEW m \in Nat, Len(safe) <= m
    PROVE  /\ Strip(redact_sql_statement(s, dialect, m)) = Strip(safe)
           /\ Strip(redact_sql_statement(Strip(safe), dialect, m)) = Strip(safe)
           /\ Strip(truncate_str(make_sql_fingerprint(Strip(safe), dialect), m))
                = CollapseBlanks(safe)
<1> DEFINE t == Strip(safe)
           w == Squeezed(safe)
           p == CollapseBlanks(safe)
<1>1. safe \in Texts /\ IsNonBlank(safe)
    BY RedactedIs
<1>2. t \in Texts /\ Strip(t) = t /\ Len(t) <= Len(safe)
    BY <1>1, StripIs, StripStrip
<1>3. _redact_sql_fragments(t, dialect) = t
    <2>1. IsSettled(safe, dialect)
        BY RedactedSettles
    <2>2. IsSettled(t, dialect)
        BY <1>1, <2>1, StrippedSettles
    <2> QED
        BY <1>2, <2>2, SettledIs
<1>4. CollapseBlanks(t) = p
    BY <1>1, CollapseStripped
<1>5. p = Strip(w) /\ w \in Texts /\ Len(w) <= Len(safe)
    BY <1>1, SqueezedIs
<1>6. Strip(p) = p /\ Len(p) <= Len(w) /\ p \in Texts
    <2> HIDE DEF p, w
    <2> QED
        BY <1>5, StripIs, StripStrip
<1> HIDE DEF t, w, p
<1>7. Len(t) <= m /\ Len(p) <= m
    <2>1. Len(t) \in Nat /\ Len(p) \in Nat /\ Len(w) \in Nat /\ Len(safe) \in Nat
        BY <1>1, <1>2, <1>5, <1>6 DEF Texts
    <2> QED
        BY <1>2, <1>5, <1>6, <2>1
<1>8. redact_sql_statement(s, dialect, m) = safe
    BY DEF redact_sql_statement, truncate_str
<1>9. redact_sql_statement(t, dialect, m) = t
    BY <1>3, <1>7 DEF redact_sql_statement, truncate_str
<1>10. make_sql_fingerprint(t, dialect) = p
    BY <1>3, <1>4 DEF make_sql_fingerprint
<1>11. truncate_str(p, m) = p
    BY <1>7 DEF truncate_str
<1> QED
    BY <1>2, <1>6, <1>8, <1>9, <1>10, <1>11 DEF t, p

-----------------------------------------------------------------------------
(* What the passes of redaction make of a text. *)

\* Redaction leaves alone what it has made of a text, with the blanks around it or
\* without: the second and the third pass of a statement through privacy.py change
\* nothing but its length.
THEOREM RedactionSettles ==
    ASSUME NEW s \in Texts, NEW dialect, NEW once, once = _redact_sql_fragments(s, dialect)
    PROVE  /\ _redact_sql_fragments(once, dialect) = once
           /\ _redact_sql_fragments(Strip(once), dialect) = Strip(once)
<1>1. once \in Texts /\ IsSettled(once, dialect)
    BY RedactedIs, RedactedSettles
<1>2. Strip(once) \in Texts /\ IsSettled(Strip(once), dialect)
    BY <1>1, StripIs, StrippedSettles
<1> QED
    BY <1>1, <1>2, SettledIs

\* Two passes over a statement, the second over what the first has left: whatever the
\* limits, what comes out fits and is the statement, redacted once, or a cut of that; the
\* text behind a cut never makes up for what was cut, in privacy.py:96-115 and 248-279,
\* limits.py:22-27, and the validation of events.py:11-17.
THEOREM PassesCutOnly ==
    ASSUME NEW s \in Texts, IsNonBlank(s), NEW dialect,
           NEW once, once = _redact_sql_fragments(s, dialect),
           NEW m \in Nat, m >= 2, NEW n \in Nat, n >= 2,
           NEW first, first = Strip(redact_sql_statement(s, dialect, m)),
           NEW second, second = Strip(redact_sql_statement(first, dialect, n))
    PROVE  /\ Len(first) <= m /\ (first = Strip(once) \/ IsCutOf(first, once))
           /\ Len(second) <= n /\ (second = Strip(once) \/ IsCutOf(second, once))
<1>1. once \in Texts /\ IsNonBlank(once) /\ IsSettled(once, dialect)
    BY RedactedIs, RedactedSettles
<1>2. first = Strip(truncate_str(once, m))
    BY DEF redact_sql_statement
<1>3. MayShow(first, once, dialect) /\ Len(first) <= m
    BY <1>1, <1>2, FirstShows, TruncatedFits
<1>4. first \in Texts
    BY <1>1, <1>2, TruncatedFits, StripIs
<1>5. MayShow(second, once, dialect)
    BY <1>1, <1>3, NextShows
<1>6. Len(second) <= n
    <2>1. second = Strip(truncate_str(_redact_sql_fragments(first, dialect), n))
        BY DEF redact_sql_statement
    <2>2. _redact_sql_fragments(first, dialect) \in Texts
        BY <1>4, RedactedIs
    <2> QED
        BY <2>1, <2>2, TruncatedFits
<1> QED
    BY <1>3, <1>5, <1>6, ShownIsCut
=============================================================================
