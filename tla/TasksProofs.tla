---------------------------- MODULE TasksProofs ----------------------------
(***************************************************************************)
(* Proofs about Tasks, for every number of CPUs and tasks, every program   *)
(* and every clock width.  They rest on what the list operations of the    *)
(* kernel do to the lists, for rings of any finite size, which comes       *)
(* first.                                                                  *)
(***************************************************************************)
EXTENDS Tasks, FiniteSetTheorems, WellFoundedInduction, TLAPS

-----------------------------------------------------------------------------
(***************************************************************************)
(* Induction and recursion over the natural numbers, with a set for what   *)
(* the theorems of the library take an operator for.                       *)
(***************************************************************************)

\* A set of natural numbers that is not empty has a least element.
LEMMA Least ==
  ASSUME NEW T, T \subseteq Nat, T # {}
  PROVE  \E m \in T : \A k \in T : m <= k
  <1> DEFINE R == OpToRel(<, Nat)
  <1>1. IsWellFoundedOn(R, Nat)
    BY NatLessThanWellFounded
  <1>2. \A x, y \in Nat : x < y => <<x, y>> \in R
    BY DEF OpToRel
  <1> HIDE DEF R
  <1>3. PICK m \in T : \A k \in T : ~ (<<k, m>> \in R)
    BY <1>1, WFMin
  <1>4. ASSUME NEW k \in T PROVE m <= k
    <2>1. k \in Nat /\ m \in Nat
      OBVIOUS
    <2>2. k < m => <<k, m>> \in R
      BY <2>1, <1>2, Zenon
    <2>3. ~ (k < m)
      BY <2>2, <1>3, Zenon
    <2>4. QED
      BY <2>1, <2>3
  <1>5. QED
    BY <1>4

\* A set that holds 0 and with each number the next one holds them all.
LEMMA SetInduction ==
  ASSUME NEW S, 0 \in S, \A n \in Nat : n \in S => n + 1 \in S
  PROVE  Nat \subseteq S
  <1> SUFFICES ASSUME Nat \ S # {} PROVE FALSE
    OBVIOUS
  <1>1. PICK m \in Nat \ S : \A k \in Nat \ S : m <= k
    BY Least
  <1>2. m - 1 \in Nat /\ m - 1 \in S
    BY <1>1
  <1>3. QED
    BY <1>2

\* g is a start, of k steps, of the sequence that begins with v0 and goes from
\* v at n - 1 to D[n][v] at n.
Starts(g, v0, D, k) ==
  DOMAIN g = 0 .. k /\ g[0] = v0 /\ \A i \in 1 .. k : g[i] = D[i][g[i - 1]]

\* Such a start exists for every number of steps.
LEMMA StartExists ==
  ASSUME NEW v0, NEW D
  PROVE  \A k \in Nat : \E g : Starts(g, v0, D, k)
  <1> DEFINE S == {k \in Nat : \E g : Starts(g, v0, D, k)}
  <1>1. 0 \in S
    <2>1. Starts([i \in 0 .. 0 |-> v0], v0, D, 0)
      BY DEF Starts
    <2>2. QED
      BY <2>1
  <1>2. ASSUME NEW n \in Nat, n \in S
        PROVE  n + 1 \in S
    <2>1. PICK g : Starts(g, v0, D, n)
      BY <1>2
    <2> DEFINE f == [i \in 0 .. n + 1 |-> IF i <= n THEN g[i] ELSE D[n + 1][g[n]]]
    <2>2. f[0] = v0
      BY <2>1 DEF Starts
    <2>3. ASSUME NEW i \in 1 .. n + 1 PROVE f[i] = D[i][f[i - 1]]
      <3>1. CASE i <= n
        BY <2>1, <3>1 DEF Starts
      <3>2. CASE i = n + 1
        BY <2>1, <3>2 DEF Starts
      <3>3. QED
        BY <3>1, <3>2
    <2>4. Starts(f, v0, D, n + 1)
      BY <2>2, <2>3 DEF Starts
    <2>5. QED
      BY <2>4
  <1> HIDE DEF S
  <1>3. Nat \subseteq S
    BY <1>1, <1>2, SetInduction
  <1>4. QED
    BY <1>3 DEF S

\* Two starts agree as far as both go.
LEMMA StartsAgree ==
  ASSUME NEW v0, NEW D, NEW f, NEW g, NEW k \in Nat, NEW l \in Nat,
         Starts(f, v0, D, k), Starts(g, v0, D, l)
  PROVE  \A i \in Nat : i <= k /\ i <= l => f[i] = g[i]
  <1> DEFINE S == {i \in Nat : i <= k /\ i <= l => f[i] = g[i]}
  <1>1. 0 \in S
    BY DEF Starts
  <1>2. ASSUME NEW n \in Nat, n \in S
        PROVE  n + 1 \in S
    <2>1. ASSUME n + 1 <= k, n + 1 <= l
          PROVE  f[n + 1] = g[n + 1]
      <3>1. f[n] = g[n]
        BY <1>2, <2>1
      <3>2. n + 1 \in 1 .. k /\ n + 1 \in 1 .. l /\ (n + 1) - 1 = n
        BY <2>1
      <3>3. f[n + 1] = D[n + 1][f[n]] /\ g[n + 1] = D[n + 1][g[n]]
        BY <3>2 DEF Starts
      <3>4. QED
        BY <3>1, <3>3
    <2>2. QED
      BY <2>1
  <1> HIDE DEF S
  <1>3. Nat \subseteq S
    BY <1>1, <1>2, SetInduction
  <1>4. QED
    BY <1>3 DEF S

\* The whole sequence exists: what a recursive function on Nat stands for.
IsRecursive(g, v0, D) == g = [i \in Nat |-> IF i = 0 THEN v0 ELSE D[i][g[i - 1]]]

LEMMA Recursion ==
  ASSUME NEW v0, NEW D
  PROVE  \E g : IsRecursive(g, v0, D)
  <1> DEFINE start(k) == CHOOSE g : Starts(g, v0, D, k)
             g == [i \in Nat |-> start(i)[i]]
  <1>1. \A k \in Nat : Starts(start(k), v0, D, k)
    BY StartExists
  <1> HIDE DEF start
  <1>2. g[0] = v0
    BY <1>1 DEF Starts
  <1>3. ASSUME NEW i \in Nat \ {0}
        PROVE  g[i] = D[i][g[i - 1]]
    <2>1. i - 1 \in Nat /\ i \in 1 .. i /\ i - 1 <= i
      OBVIOUS
    <2>2. Starts(start(i), v0, D, i) /\ Starts(start(i - 1), v0, D, i - 1)
      BY <1>1, <2>1
    <2>3. start(i)[i] = D[i][start(i)[i - 1]]
      BY <2>1, <2>2 DEF Starts
    <2>4. start(i)[i - 1] = start(i - 1)[i - 1]
      BY <2>1, <2>2, StartsAgree
    <2>5. QED
      BY <2>1, <2>3, <2>4
  <1>4. g = [i \in Nat |-> IF i = 0 THEN v0 ELSE D[i][g[i - 1]]]
    <2> DEFINE f == [i \in Nat |-> IF i = 0 THEN v0 ELSE D[i][g[i - 1]]]
    <2>1. \A i \in Nat : g[i] = f[i]
      BY <1>2, <1>3
    <2>2. QED
      BY <2>1
  <1>5. QED
    BY <1>4 DEF IsRecursive

\* Sums: what a recursive function on 0 .. n stands for that adds e[i] to v0.
IsSum(g, n, v0, e) ==
  /\ g \in [0 .. n -> Int]
  /\ g = [i \in 0 .. n |-> IF i = 0 THEN v0 ELSE g[i - 1] + e[i]]

LEMMA Sums ==
  ASSUME NEW n \in Nat, NEW v0 \in Int, NEW e \in [1 .. n -> Int]
  PROVE  \E g : IsSum(g, n, v0, e)
  <1> DEFINE D == [i \in Nat |-> [v \in Int |-> v + e[i]]]
  <1>1. PICK f : Starts(f, v0, D, n)
    <2> HIDE DEF D
    <2>1. QED
      BY StartExists
  <1>2. f[0] = v0 /\ \A i \in 1 .. n : f[i] = D[i][f[i - 1]]
    BY <1>1 DEF Starts
  <1> DEFINE S == {i \in Nat : i <= n => f[i] \in Int}
  <1>3. 0 \in S
    BY <1>2
  <1>4. ASSUME NEW i \in Nat, i \in S
        PROVE  i + 1 \in S
    <2> SUFFICES ASSUME i + 1 <= n PROVE f[i + 1] \in Int
      OBVIOUS
    <2>1. f[i] \in Int /\ i + 1 \in 1 .. n /\ (i + 1) - 1 = i
      BY <1>4
    <2>2. f[i + 1] = D[i + 1][f[i]]
      BY <1>2, <2>1
    <2>3. D[i + 1][f[i]] = f[i] + e[i + 1]
      BY <2>1
    <2>4. e[i + 1] \in Int
      BY <2>1
    <2> HIDE DEF D
    <2>5. QED
      BY <2>1, <2>2, <2>3, <2>4
  <1>5. \A i \in 0 .. n : f[i] \in Int
    <2> HIDE DEF S
    <2>1. Nat \subseteq S
      BY <1>3, <1>4, SetInduction
    <2>2. QED
      BY <2>1 DEF S
  <1>6. ASSUME NEW i \in 1 .. n
        PROVE  f[i] = f[i - 1] + e[i]
    <2>1. i - 1 \in 0 .. n /\ i \in Nat
      OBVIOUS
    <2>2. PICK v \in Int : v = f[i - 1]
      BY <1>5, <2>1
    <2>3. D[i][v] = v + e[i]
      BY <2>1
    <2> HIDE DEF D
    <2>4. QED
      BY <1>2, <2>2, <2>3
  <1> DEFINE g == [i \in 0 .. n |-> f[i]]
  <1>7. g \in [0 .. n -> Int]
    BY <1>5
  <1>8. g = [i \in 0 .. n |-> IF i = 0 THEN v0 ELSE g[i - 1] + e[i]]
    <2> DEFINE q == [i \in 0 .. n |-> IF i = 0 THEN v0 ELSE g[i - 1] + e[i]]
    <2>1. \A i \in 0 .. n : g[i] = q[i]
      BY <1>2, <1>6
    <2>2. QED
      BY <2>1
  <1>9. QED
    BY <1>7, <1>8 DEF IsSum

-----------------------------------------------------------------------------
\* Sums over the members of a finite set, in the order in which CHOOSE takes
\* them: what MapThenSumSet stands for.
Pick(T) == CHOOSE x \in T : TRUE

IsTotal(g, f, S) ==
  g = [T \in SUBSET S |-> IF T = {} THEN 0 ELSE f[Pick(T)] + g[T \ {Pick(T)}]]

Total(f, S) == LET g == CHOOSE k : IsTotal(k, f, S) IN g[S]

\* Taking the next member of a set.
LEMMA Picked ==
  ASSUME NEW S, IsFiniteSet(S), NEW T \in SUBSET S, T # {}
  PROVE  /\ Pick(T) \in T /\ T \ {Pick(T)} \in SUBSET S
         /\ Cardinality(T) \in Nat /\ Cardinality(T) # 0
         /\ Cardinality(T \ {Pick(T)}) = Cardinality(T) - 1
  <1>1. Pick(T) \in T
    BY DEF Pick
  <1>2. IsFiniteSet(T)
    BY FS_Subset
  <1>3. Cardinality(T) \in Nat /\ Cardinality(T) # 0
    BY <1>2, FS_CardinalityType, FS_EmptySet
  <1>4. Cardinality(T \ {Pick(T)}) = Cardinality(T) - 1
    BY <1>1, <1>2, FS_RemoveElement
  <1>5. QED
    BY <1>1, <1>3, <1>4

LEMMA TotalExists ==
  ASSUME NEW S, IsFiniteSet(S), NEW f \in [S -> Int]
  PROVE  \E g \in [SUBSET S -> Int] : IsTotal(g, f, S)
  <1> DEFINE F == [SUBSET S -> Int]
             v0 == [T \in SUBSET S |-> 0]
             next(q) == [T \in SUBSET S |-> IF T = {} THEN 0 ELSE f[Pick(T)] + q[T \ {Pick(T)}]]
             D == [i \in Nat |-> [q \in F |-> next(q)]]
  <1>1. PICK h : IsRecursive(h, v0, D)
    <2> HIDE DEF v0, D
    <2>1. QED
      BY Recursion
  <1>2. h[0] = v0 /\ \A i \in Nat : i + 1 \in Nat /\ h[i + 1] = D[i + 1][h[i]]
    <2>1. \A i \in Nat : i + 1 \in Nat /\ i + 1 # 0 /\ (i + 1) - 1 = i
      OBVIOUS
    <2> HIDE DEF v0, D
    <2>2. QED
      BY <1>1, <2>1 DEF IsRecursive
  <1>3. \A q \in F : next(q) \in F
    <2> SUFFICES ASSUME NEW q \in F PROVE next(q) \in F
      OBVIOUS
    <2>1. ASSUME NEW T \in SUBSET S, T # {}
          PROVE  f[Pick(T)] + q[T \ {Pick(T)}] \in Int
      <3>1. Pick(T) \in S /\ T \ {Pick(T)} \in SUBSET S
        BY <2>1, Picked
      <3>2. f[Pick(T)] \in Int /\ q[T \ {Pick(T)}] \in Int
        BY <3>1
      <3>3. QED
        BY <3>2
    <2>2. QED
      BY <2>1
  <1>4. \A i \in Nat : h[i] \in F => h[i + 1] = next(h[i])
    <2> HIDE DEF F, next
    <2>1. QED
      BY <1>2
  <1>5. \A i \in Nat : h[i] \in F
    <2> DEFINE N == {i \in Nat : h[i] \in F}
    <2>1. v0 \in F /\ h[0] = v0
      BY <1>2
    <2> HIDE DEF v0, F
    <2>2. 0 \in N
      BY <2>1
    <2>3. \A i \in Nat : i \in N => i + 1 \in N
      <3> HIDE DEF next
      <3>1. QED
        BY <1>3, <1>4
    <2> HIDE DEF N
    <2>4. Nat \subseteq N
      BY <2>2, <2>3, SetInduction
    <2>5. QED
      BY <2>4 DEF N
  <1> DEFINE g == [T \in SUBSET S |-> h[Cardinality(T)][T]]
  <1>6. ASSUME NEW T \in SUBSET S
        PROVE  g[T] = (IF T = {} THEN 0 ELSE f[Pick(T)] + g[T \ {Pick(T)}]) /\ g[T] \in Int
    <2>1. CASE T = {}
      BY <1>2, <2>1, FS_EmptySet
    <2>2. CASE T # {}
      <3> DEFINE U == T \ {Pick(T)}
      <3>1. PICK n \in Nat : n = Cardinality(U) /\ Cardinality(T) = n + 1
        <4>1. /\ Cardinality(T) \in Nat /\ Cardinality(T) # 0
              /\ Cardinality(U) = Cardinality(T) - 1
          BY <2>2, Picked
        <4> HIDE DEF U
        <4>2. QED
          BY <4>1
      <3>2. PICK q \in F : q = h[n]
        BY <1>5
      <3>3. h[n + 1] = next(q) /\ next(q) \in F
        BY <1>3, <1>4, <3>2
      <3>4. U \in SUBSET S
        BY <2>2, Picked
      <3>5. g[T] = h[n + 1][T] /\ g[U] = h[n][U]
        BY <3>1, <3>4
      <3>6. next(q)[T] = f[Pick(T)] + q[U] /\ next(q)[T] \in Int
        BY <2>2, <3>3
      <3> HIDE DEF g, next
      <3>7. QED
        BY <2>2, <3>2, <3>3, <3>5, <3>6
    <2>3. QED
      BY <2>1, <2>2
  <1>7. g \in [SUBSET S -> Int]
    BY <1>6
  <1>8. IsTotal(g, f, S)
    <2> DEFINE k == [T \in SUBSET S |-> IF T = {} THEN 0 ELSE f[Pick(T)] + g[T \ {Pick(T)}]]
    <2>1. \A T \in SUBSET S : g[T] = k[T]
      BY <1>6
    <2>2. QED
      BY <2>1 DEF IsTotal
  <1>9. QED
    BY <1>7, <1>8

\* The equation of a total.
LEMMA Totalled ==
  ASSUME NEW S, IsFiniteSet(S), NEW g, NEW f, IsTotal(g, f, S), NEW T \in SUBSET S
  PROVE  g[T] = IF T = {} THEN 0 ELSE f[Pick(T)] + g[T \ {Pick(T)}]
  BY DEF IsTotal

\* There is one total, and it is an integer.
LEMMA TotalsAgree ==
  ASSUME NEW S, IsFiniteSet(S), NEW f \in [S -> Int], NEW e \in [S -> Int],
         NEW g, IsTotal(g, f, S), NEW k, IsTotal(k, e, S),
         NEW y \in S, \A x \in S : x # y => f[x] = e[x]
  PROVE  \A T \in SUBSET S :
           g[T] \in Int /\ k[T] \in Int /\ g[T] - k[T] = IF y \in T THEN f[y] - e[y] ELSE 0
  <1> DEFINE P(T) == /\ g[T] \in Int /\ k[T] \in Int
                     /\ g[T] - k[T] = IF y \in T THEN f[y] - e[y] ELSE 0
             N == {n \in Nat : \A T \in SUBSET S : Cardinality(T) = n => P(T)}
  <1>1. 0 \in N
    <2> SUFFICES ASSUME NEW T \in SUBSET S, Cardinality(T) = 0 PROVE P(T)
      OBVIOUS
    <2>1. T = {}
      BY FS_Subset, FS_EmptySet
    <2>2. g[T] = 0 /\ k[T] = 0
      BY <2>1, Totalled
    <2>3. QED
      BY <2>1, <2>2
  <1>2. ASSUME NEW n \in Nat, n \in N
        PROVE  n + 1 \in N
    <2> SUFFICES ASSUME NEW T \in SUBSET S, Cardinality(T) = n + 1 PROVE P(T)
      OBVIOUS
    <2>1. T # {}
      BY FS_EmptySet
    <2>2. PICK x \in T, U \in SUBSET S : x = Pick(T) /\ U = T \ {x} /\ Cardinality(U) = n
      <3>1. /\ Pick(T) \in T /\ T \ {Pick(T)} \in SUBSET S
            /\ Cardinality(T \ {Pick(T)}) = Cardinality(T) - 1
        BY <2>1, Picked
      <3>2. QED
        BY <3>1
    <2>3. P(U)
      BY <1>2, <2>2
    <2>4. g[T] = f[x] + g[U] /\ k[T] = e[x] + k[U]
      BY <2>1, <2>2, Totalled
    <2>5. f[x] \in Int /\ e[x] \in Int /\ f[y] \in Int /\ e[y] \in Int
      OBVIOUS
    <2>6. CASE x = y
      <3>1. y \notin U /\ y \in T
        BY <2>2, <2>6
      <3>2. QED
        BY <2>3, <2>4, <2>5, <2>6, <3>1
    <2>7. CASE x # y
      <3>1. (y \in U <=> y \in T) /\ f[x] = e[x]
        BY <2>2, <2>7
      <3>2. QED
        BY <2>3, <2>4, <2>5, <3>1
    <2>8. QED
      BY <2>6, <2>7
  <1> HIDE DEF N
  <1>3. Nat \subseteq N
    BY <1>1, <1>2, SetInduction
  <1>4. \A T \in SUBSET S : Cardinality(T) \in Nat
    BY FS_Subset, FS_CardinalityType
  <1>5. QED
    BY <1>3, <1>4 DEF N

LEMMA TotalIs ==
  ASSUME NEW S, IsFiniteSet(S), NEW f \in [S -> Int]
  PROVE  \E g \in [SUBSET S -> Int] : IsTotal(g, f, S) /\ Total(f, S) = g[S]
  <1>1. PICK g : g = CHOOSE k : IsTotal(k, f, S)
    OBVIOUS
  <1>2. PICK k \in [SUBSET S -> Int] : IsTotal(k, f, S)
    BY TotalExists
  <1>3. IsTotal(g, f, S)
    BY <1>1, <1>2
  <1>4. Total(f, S) = g[S]
    BY <1>1 DEF Total
  <1>5. CASE S = {}
    <2>1. g \in [SUBSET S -> Int]
      <3>1. \A T \in SUBSET S : T = {}
        BY <1>5
      <3>2. \A T \in SUBSET S : g[T] = 0
        BY <1>3, <3>1, Totalled
      <3>3. g = [T \in SUBSET S |-> g[T]]
        BY <1>3 DEF IsTotal
      <3>4. \A T \in SUBSET S : g[T] \in Int
        BY <3>2
      <3> HIDE <3>2
      <3>5. QED
        BY <3>3, <3>4
    <2>2. QED
      BY <1>3, <1>4, <2>1
  <1>6. CASE S # {}
    <2>1. PICK y \in S : TRUE
      BY <1>6
    <2>2. \A T \in SUBSET S : g[T] \in Int
      BY <1>3, <2>1, TotalsAgree
    <2>3. g = [T \in SUBSET S |-> g[T]]
      BY <1>3 DEF IsTotal
    <2>4. QED
      BY <1>3, <1>4, <2>2, <2>3
  <1>7. QED
    BY <1>5, <1>6

\* A total goes with each of its terms.
LEMMA TotalChange ==
  ASSUME NEW S, IsFiniteSet(S), NEW f \in [S -> Int], NEW e \in [S -> Int],
         NEW y \in S, \A x \in S : x # y => f[x] = e[x]
  PROVE  Total(f, S) \in Int /\ Total(e, S) \in Int
         /\ Total(f, S) - Total(e, S) = f[y] - e[y]
  <1>1. PICK g \in [SUBSET S -> Int] : IsTotal(g, f, S) /\ Total(f, S) = g[S]
    BY TotalIs
  <1>2. PICK k \in [SUBSET S -> Int] : IsTotal(k, e, S) /\ Total(e, S) = k[S]
    BY TotalIs
  <1>3. S \in SUBSET S
    OBVIOUS
  <1>4. g[S] - k[S] = IF y \in S THEN f[y] - e[y] ELSE 0
    BY <1>1, <1>2, <1>3, TotalsAgree
  <1>5. QED
    BY <1>1, <1>2, <1>3, <1>4

\* A total of natural numbers is one, and at least each of its terms; it is 0
\* if they all are.
LEMMA TotalNat ==
  ASSUME NEW S, IsFiniteSet(S), NEW f \in [S -> Nat]
  PROVE  /\ Total(f, S) \in Nat
         /\ \A x \in S : f[x] <= Total(f, S)
         /\ (\A x \in S : f[x] = 0) => Total(f, S) = 0
  <1>1. PICK g \in [SUBSET S -> Int] : IsTotal(g, f, S) /\ Total(f, S) = g[S]
    <2>1. f \in [S -> Int]
      OBVIOUS
    <2>2. QED
      BY <2>1, TotalIs
  <1> DEFINE P(T) == /\ g[T] \in Nat
                     /\ \A x \in T : f[x] <= g[T]
                     /\ (\A x \in S : f[x] = 0) => g[T] = 0
             N == {n \in Nat : \A T \in SUBSET S : Cardinality(T) = n => P(T)}
  <1>2. 0 \in N
    <2> SUFFICES ASSUME NEW T \in SUBSET S, Cardinality(T) = 0 PROVE P(T)
      OBVIOUS
    <2>1. T = {}
      BY FS_Subset, FS_EmptySet
    <2>2. g[T] = 0
      BY <1>1, <2>1, Totalled
    <2>3. QED
      BY <2>1, <2>2
  <1>3. ASSUME NEW n \in Nat, n \in N
        PROVE  n + 1 \in N
    <2> SUFFICES ASSUME NEW T \in SUBSET S, Cardinality(T) = n + 1 PROVE P(T)
      OBVIOUS
    <2>1. T # {}
      <3>1. Cardinality({}) = 0
        BY FS_EmptySet
      <3>2. n + 1 # 0
        OBVIOUS
      <3>3. CASE T = {}
        <4>1. Cardinality(T) = 0
          BY <3>1, <3>3
        <4>2. QED
          BY <3>2, <4>1
      <3>4. QED
        BY <3>3
    <2>2. PICK x \in T, U \in SUBSET S : x = Pick(T) /\ U = T \ {x} /\ Cardinality(U) = n
      <3>1. /\ Pick(T) \in T /\ T \ {Pick(T)} \in SUBSET S
            /\ Cardinality(T \ {Pick(T)}) = Cardinality(T) - 1
        BY <2>1, Picked
      <3>2. QED
        BY <3>1
    <2>3. P(U)
      BY <1>3, <2>2
    <2>4. g[T] = f[x] + g[U] /\ f[x] \in Nat
      BY <1>1, <2>1, <2>2, Totalled
    <2>5. \A z \in T : z = x \/ z \in U
      BY <2>2
    <2>6. \A z \in T : f[z] \in Nat
      OBVIOUS
    <2>7. QED
      BY <2>3, <2>4, <2>5, <2>6
  <1> HIDE DEF N
  <1>4. Nat \subseteq N
    BY <1>2, <1>3, SetInduction
  <1>5. S \in SUBSET S /\ Cardinality(S) \in Nat
    BY FS_CardinalityType
  <1>6. P(S)
    BY <1>4, <1>5 DEF N
  <1>7. QED
    BY <1>1, <1>6

-----------------------------------------------------------------------------
(***************************************************************************)
(* The list operations stay within the nodes of their ring.                *)
(***************************************************************************)

\* sched_ins in a ring gives a ring.
LEMMA InsertBeforeRing ==
  ASSUME NEW N, NEW r \in Ring(N), NEW x \in N, NEW y \in N
  PROVE  InsertBefore(r, y, x) \in Ring(N)
  BY DEF Ring, InsertBefore

\* ins_fifo, sched_timeout_ins in a ring give a ring.
LEMMA InsertAfterRing ==
  ASSUME NEW N, NEW r \in Ring(N), NEW x \in N, NEW p \in N
  PROVE  InsertAfter(r, p, x) \in Ring(N)
  BY DEF Ring, InsertAfter

\* sched_rem in a ring gives a ring.
LEMMA UnlinkRing ==
  ASSUME NEW N, NEW r \in Ring(N), NEW x \in N
  PROVE  Unlink(r, x) \in Ring(N)
  BY DEF Ring, Unlink

\* wlink_rem and sched_timeout_rem in a ring give a ring.
LEMMA UnlinkToSelfRing ==
  ASSUME NEW N, NEW r \in Ring(N), NEW x \in N
  PROVE  UnlinkToSelf(r, x) \in Ring(N)
  <1>1. Unlink(r, x) \in Ring(N)
    BY UnlinkRing
  <1>2. QED
    BY <1>1 DEF Ring, UnlinkToSelf

\* An empty set of lists is a ring.
LEMMA SelfLinkedRing ==
  ASSUME NEW N
  PROVE  SelfLinked(N) \in Ring(N)
  BY DEF Ring, SelfLinked

-----------------------------------------------------------------------------
(***************************************************************************)
(* Following the next pointers.                                            *)
(***************************************************************************)

\* Each hop follows one pointer.
Follows(N, r, h) ==
  /\ Hop(r, h) \in [Nat -> N]
  /\ Hop(r, h)[0] = h
  /\ \A i \in Nat : Hop(r, h)[i + 1] = r.next[Hop(r, h)[i]]

LEMMA Hops ==
  ASSUME NEW N, NEW r \in Ring(N), NEW h \in N
  PROVE  Follows(N, r, h)
  <1> DEFINE at == Hop(r, h)
             D == [i \in Nat |-> r.next]
             S == {i \in Nat : at[i] \in N}
  <1>1. at = [i \in Nat |-> IF i = 0 THEN h ELSE r.next[at[i - 1]]]
    <2>1. PICK g : g = [i \in Nat |-> IF i = 0 THEN h ELSE D[i][g[i - 1]]]
      <3> HIDE DEF D
      <3>1. PICK g : IsRecursive(g, h, D)
        BY Recursion
      <3>2. QED
        BY <3>1 DEF IsRecursive
    <2>2. \A i \in Nat : D[i] = r.next
      OBVIOUS
    <2>3. g = [i \in Nat |-> IF i = 0 THEN h ELSE r.next[g[i - 1]]]
      BY <2>1, <2>2
    <2>4. QED
      BY <2>3 DEF Hop
  <1> HIDE DEF at
  <1>2. at[0] = h
    BY <1>1
  <1>3. ASSUME NEW i \in Nat
        PROVE  at[i + 1] = r.next[at[i]]
    <2>1. i + 1 \in Nat /\ i + 1 # 0 /\ (i + 1) - 1 = i
      OBVIOUS
    <2>2. QED
      BY <1>1, <2>1
  <1>4. Nat \subseteq S
    <2>1. 0 \in S
      BY <1>2
    <2>2. \A i \in Nat : i \in S => i + 1 \in S
      BY <1>3 DEF Ring
    <2> HIDE DEF S
    <2>3. QED
      BY <2>1, <2>2, SetInduction
  <1>5. at \in [Nat -> N]
    BY <1>1, <1>4
  <1>6. QED
    BY <1>2, <1>3, <1>5 DEF at, Follows

(***************************************************************************)
(* A thread is a list spelt out: s goes from the head h over n nodes back  *)
(* to h, s[i] and s[i + 1] point at each other, and no node comes twice.   *)
(***************************************************************************)
Thread(N, r, h, n, s) ==
  /\ n \in Nat
  /\ s \in [0 .. n + 1 -> N]
  /\ s[0] = h /\ s[n + 1] = h
  /\ \A i \in 0 .. n : r.next[s[i]] = s[i + 1] /\ r.prev[s[i + 1]] = s[i]
  /\ \A i, j \in 0 .. n : s[i] = s[j] => i = j

Threaded(n, s) == {s[i] : i \in 1 .. n}

\* The walk from the head of a thread goes along it.
LEMMA ThreadHops ==
  ASSUME NEW N, NEW r \in Ring(N), NEW h \in N, NEW n, NEW s, Thread(N, r, h, n, s)
  PROVE  \A i \in 0 .. n + 1 : Hop(r, h)[i] = s[i]
  <1> DEFINE at == Hop(r, h)
             S == {i \in Nat : i <= n + 1 => at[i] = s[i]}
  <1>0. at[0] = h /\ \A i \in Nat : at[i + 1] = r.next[at[i]]
    <2>1. Follows(N, r, h)
      BY Hops
    <2>2. QED
      BY <2>1 DEF Follows
  <1> HIDE DEF at
  <1>1. 0 \in S
    BY <1>0 DEF Thread
  <1>2. ASSUME NEW i \in Nat, i \in S
        PROVE  i + 1 \in S
    <2>1. ASSUME i + 1 <= n + 1
          PROVE  at[i + 1] = s[i + 1]
      <3>1. i \in 0 .. n /\ i <= n + 1
        BY <2>1 DEF Thread
      <3>2. at[i + 1] = r.next[at[i]]
        BY <1>0
      <3>3. QED
        BY <1>2, <3>1, <3>2 DEF Thread
    <2>2. QED
      BY <2>1
  <1> HIDE DEF S
  <1>3. Nat \subseteq S
    BY <1>1, <1>2, SetInduction
  <1>4. ASSUME NEW i \in 0 .. n + 1
        PROVE  at[i] = s[i]
    <2>1. i \in Nat /\ i <= n + 1
      BY DEF Thread
    <2>2. QED
      BY <1>3, <2>1 DEF S
  <1>5. QED
    BY <1>4 DEF at

\* A thread has fewer nodes than its ring, so that the walk ends in time.
LEMMA ThreadFits ==
  ASSUME NEW N, IsFiniteSet(N), NEW r \in Ring(N), NEW h, NEW n, NEW s,
         Thread(N, r, h, n, s)
  PROVE  n + 1 \in Steps(r)
  <1>1. n \in Nat
    BY DEF Thread
  <1> DEFINE f == [i \in 0 .. n |-> s[i]]
  <1>2. f \in Injection(0 .. n, N)
    BY <1>1 DEF Thread, Injection, IsInjective
  <1>3. Cardinality(0 .. n) <= Cardinality(N)
    <2> HIDE DEF f
    <2>1. QED
      BY <1>2, FS_Injection
  <1>4. Cardinality(0 .. n) = n + 1
    BY <1>1, FS_Interval
  <1>5. Cardinality(N) \in Nat
    BY FS_CardinalityType
  <1>6. DOMAIN r.next = N
    BY DEF Ring
  <1>7. QED
    BY <1>1, <1>3, <1>4, <1>5, <1>6 DEF Steps

\* The kernel's loop over a list with a thread visits the thread.
LEMMA ThreadWalk ==
  ASSUME NEW N, IsFiniteSet(N), NEW r \in Ring(N), NEW h \in N, NEW n, NEW s,
         Thread(N, r, h, n, s)
  PROVE  /\ ~Endless(r, h)
         /\ Walk(r, h) = [i \in 1 .. n |-> s[i]]
  <1> DEFINE at == Hop(r, h)
             First(i) == at[i] = h /\ \A j \in 1 .. i - 1 : at[j] # h
             back == CHOOSE i \in Steps(r) : First(i)
  <1>1. n \in Nat /\ n + 1 \in Steps(r)
    <2>1. n + 1 \in Steps(r)
      BY ThreadFits
    <2>2. QED
      BY <2>1 DEF Thread
  <1>2. \A i \in 0 .. n + 1 : at[i] = s[i]
    BY ThreadHops
  <1> HIDE DEF at
  <1>3. First(n + 1)
    <2>1. at[n + 1] = h
      BY <1>1, <1>2 DEF Thread
    <2>2. ASSUME NEW j \in 1 .. n PROVE at[j] # h
      BY <1>1, <1>2 DEF Thread
    <2>3. QED
      BY <1>1, <2>1, <2>2
  <1>4. \A i \in Steps(r) : First(i) => i = n + 1
    <2>1. \A i \in Steps(r) : i \in Nat \ {0}
      BY <1>1 DEF Steps
    <2>2. ASSUME NEW i \in Steps(r), First(i)
          PROVE  i = n + 1
      <3>1. ~ (n + 1 \in 1 .. i - 1)
        BY <1>3, <2>2
      <3>2. ~ (i \in 1 .. n)
        BY <1>1, <1>3, <2>2
      <3>3. QED
        BY <1>1, <2>1, <3>1, <3>2
    <2>3. QED
      BY <2>2
  <1>5. back = n + 1
    <2> HIDE DEF First
    <2>1. QED
      BY <1>1, <1>3, <1>4
  <1>6. ~Endless(r, h)
    BY <1>1, <1>3 DEF Endless, at
  <1>7. Walk(r, h) = [i \in 1 .. back - 1 |-> at[i]]
    BY <1>6 DEF Walk, at
  <1>8. QED
    <2> HIDE DEF back
    <2>1. Walk(r, h) = [i \in 1 .. n |-> at[i]]
      BY <1>1, <1>5, <1>7
    <2>2. \A i \in 1 .. n : at[i] = s[i]
      BY <1>1, <1>2
    <2>3. QED
      BY <1>6, <2>1, <2>2

-----------------------------------------------------------------------------
(***************************************************************************)
(* HoldsExactly, the walk of the kernel's loops, and threads say the same. *)
(***************************************************************************)
IsList(N, r, h, S) == \E n, s : Thread(N, r, h, n, s) /\ S = Threaded(n, s)

\* A node list with a thread is what a loop over it finds.
LEMMA ListHolds ==
  ASSUME NEW N, IsFiniteSet(N), NEW r \in Ring(N), NEW h \in N, NEW S,
         IsList(N, r, h, S)
  PROVE  HoldsExactly(r, h, S)
  <1>1. PICK n, s : Thread(N, r, h, n, s) /\ S = Threaded(n, s)
    BY DEF IsList
  <1>2. ~Endless(r, h) /\ Walk(r, h) = [i \in 1 .. n |-> s[i]]
    BY <1>1, ThreadWalk
  <1>3. n \in Nat
    BY <1>1 DEF Thread
  <1> DEFINE w == [i \in 1 .. n |-> s[i]]
  <1>4. Len(w) = n
    BY <1>3
  <1>5. {w[i] : i \in 1 .. Len(w)} = S
    <2>1. \A i \in 1 .. n : w[i] = s[i]
      OBVIOUS
    <2> HIDE DEF w
    <2>2. QED
      BY <1>1, <1>4, <2>1 DEF Threaded
  <1>6. \A x \in S \cup {h} : r.prev[r.next[x]] = x
    <2>1. \A x \in S \cup {h} : \E i \in 0 .. n : x = s[i]
      BY <1>1, <1>3 DEF Threaded, Thread
    <2>2. \A i \in 0 .. n : r.prev[r.next[s[i]]] = s[i]
      BY <1>1 DEF Thread
    <2>3. QED
      BY <2>1, <2>2
  <1>7. Walk(r, h) = w /\ ~Endless(r, h)
    BY <1>2
  <1>8. QED
    <2> HIDE DEF w
    <2>1. {Walk(r, h)[i] : i \in 1 .. Len(Walk(r, h))} = S
      BY <1>5, <1>7
    <2>2. QED
      BY <1>6, <1>7, <2>1, Zenon DEF HoldsExactly

\* What a loop finds once, with prev mirroring next, is a list with a thread.
LEMMA HoldsList ==
  ASSUME NEW N, IsFiniteSet(N), NEW r \in Ring(N), NEW h \in N, NEW S,
         HoldsExactly(r, h, S)
  PROVE  IsList(N, r, h, S)
  <1> DEFINE at == Hop(r, h)
             Back(i) == at[i] = h
             T == {i \in Steps(r) : Back(i)}
  <1>1. at \in [Nat -> N] /\ at[0] = h /\ \A i \in Nat : at[i + 1] = r.next[at[i]]
    <2>1. Follows(N, r, h)
      BY Hops
    <2>2. QED
      BY <2>1 DEF Follows
  <1>2. Steps(r) \subseteq Nat \ {0} /\ Steps(r) = 1 .. Cardinality(N)
    <2>1. Cardinality(N) \in Nat
      BY FS_CardinalityType
    <2>2. QED
      BY <2>1 DEF Steps, Ring
  <1>3. T # {} /\ T \subseteq Nat
    BY <1>2 DEF HoldsExactly, Endless
  <1>4. PICK b \in T : \A k \in T : b <= k
    <2> HIDE DEF T
    <2>1. QED
      BY <1>3, Least
  <1>5. b \in Steps(r) /\ b \in Nat \ {0} /\ at[b] = h
    BY <1>2, <1>4
  <1>6. \A j \in 1 .. b - 1 : at[j] # h
    <2>1. ASSUME NEW j \in 1 .. b - 1, at[j] = h
          PROVE  FALSE
      <3>1. Cardinality(N) \in Nat
        BY FS_CardinalityType
      <3>2. j \in Steps(r)
        BY <1>2, <1>5, <3>1
      <3>3. j \in T
        BY <2>1, <3>2
      <3>4. QED
        BY <1>4, <1>5, <3>3
    <2>2. QED
      BY <2>1
  <1> DEFINE First(i) == at[i] = h /\ \A j \in 1 .. i - 1 : at[j] # h
             back == CHOOSE i \in Steps(r) : First(i)
  <1>7. back = b
    <2>1. First(b)
      BY <1>5, <1>6
    <2>2. ASSUME NEW i \in Steps(r), First(i)
          PROVE  i = b
      <3>1. i \in Nat \ {0}
        BY <1>2
      <3>2. ~ (b \in 1 .. i - 1) /\ ~ (i \in 1 .. b - 1)
        BY <1>5, <1>6, <2>2
      <3>3. QED
        BY <1>5, <3>1, <3>2
    <2> HIDE DEF First
    <2>3. QED
      BY <1>5, <2>1, <2>2
  <1>8. Walk(r, h) = [i \in 1 .. b - 1 |-> at[i]]
    <2>1. Walk(r, h) = [i \in 1 .. back - 1 |-> at[i]]
      BY DEF Walk, HoldsExactly
    <2> HIDE DEF back
    <2>2. QED
      BY <1>7, <2>1
  <1> DEFINE n == b - 1
             s == [i \in 0 .. n + 1 |-> at[i]]
  <1> HIDE DEF at
  <1>9. n \in Nat /\ n + 1 = b
    BY <1>5
  <1>10. S = {at[i] : i \in 1 .. n}
    <2> DEFINE w == [i \in 1 .. n |-> at[i]]
    <2>1. Len(w) = n
      BY <1>9
    <2>2. \A i \in 1 .. n : w[i] = at[i]
      OBVIOUS
    <2>3. Walk(r, h) = w
      BY <1>8
    <2> HIDE DEF w
    <2>4. S = {w[i] : i \in 1 .. Len(w)}
      BY <2>3 DEF HoldsExactly
    <2>5. QED
      BY <2>1, <2>2, <2>4
  <1>11. \A i \in 0 .. n : r.prev[at[i + 1]] = at[i]
    <2>1. ASSUME NEW i \in 0 .. n
          PROVE  at[i] \in S \cup {h}
      BY <1>1, <1>9, <1>10
    <2>2. \A x \in S \cup {h} : r.prev[r.next[x]] = x
      BY DEF HoldsExactly
    <2>3. \A i \in 0 .. n : at[i + 1] = r.next[at[i]]
      BY <1>1, <1>9
    <2>4. QED
      BY <2>1, <2>2, <2>3
  <1>12. ASSUME NEW i \in 0 .. n, NEW j \in 0 .. n, i < j
         PROVE  at[i] # at[j]
    <2> DEFINE A == {k \in Nat : k <= i => at[i - k] = at[j - k]}
    <2> SUFFICES ASSUME at[i] = at[j] PROVE FALSE
      OBVIOUS
    <2>1. 0 \in A
      BY <1>9
    <2>2. ASSUME NEW k \in Nat, k \in A
          PROVE  k + 1 \in A
      <3> SUFFICES ASSUME k + 1 <= i PROVE at[i - (k + 1)] = at[j - (k + 1)]
        OBVIOUS
      <3>1. at[i - k] = at[j - k]
        BY <2>2, <1>9
      <3>2. i - (k + 1) \in 0 .. n /\ j - (k + 1) \in 0 .. n
        BY <1>9, <1>12
      <3>3. (i - (k + 1)) + 1 = i - k /\ (j - (k + 1)) + 1 = j - k
        BY <1>9
      <3>4. r.prev[at[i - k]] = at[i - (k + 1)] /\ r.prev[at[j - k]] = at[j - (k + 1)]
        BY <1>11, <3>2, <3>3
      <3>5. QED
        BY <3>1, <3>4
    <2> HIDE DEF A
    <2>3. Nat \subseteq A
      BY <2>1, <2>2, SetInduction
    <2>4. i \in Nat /\ i <= i
      BY <1>9
    <2>5. at[i - i] = at[j - i]
      BY <2>3, <2>4 DEF A
    <2>6. i - i = 0 /\ j - i \in 1 .. n
      BY <1>9, <1>12
    <2>7. at[j - i] = h
      BY <1>1, <2>5, <2>6
    <2>8. QED
      BY <1>6, <2>6, <2>7
  <1>13. Thread(N, r, h, n, s)
    <2>1. s \in [0 .. n + 1 -> N]
      BY <1>1, <1>9
    <2>2. s[0] = h /\ s[n + 1] = h
      BY <1>1, <1>5, <1>9
    <2>3. ASSUME NEW i \in 0 .. n
          PROVE  r.next[s[i]] = s[i + 1] /\ r.prev[s[i + 1]] = s[i]
      <3>1. s[i] = at[i] /\ s[i + 1] = at[i + 1]
        BY <1>9
      <3>2. at[i + 1] = r.next[at[i]] /\ r.prev[at[i + 1]] = at[i]
        BY <1>1, <1>9, <1>11
      <3>3. QED
        BY <3>1, <3>2
    <2>4. \A i, j \in 0 .. n : s[i] = s[j] => i = j
      <3>1. \A i \in 0 .. n : s[i] = at[i]
        BY <1>9
      <3>2. ASSUME NEW i \in 0 .. n, NEW j \in 0 .. n, s[i] = s[j]
            PROVE  i = j
        <4>1. ~ (i < j) /\ ~ (j < i)
          BY <1>12, <3>1, <3>2
        <4>2. QED
          BY <1>9, <4>1
      <3>3. QED
        BY <3>2
    <2> HIDE DEF s
    <2>5. QED
      BY <1>9, <2>1, <2>2, <2>3, <2>4 DEF Thread
  <1>14. S = Threaded(n, s)
    <2>1. \A i \in 1 .. n : s[i] = at[i]
      BY <1>9
    <2> HIDE DEF s
    <2>2. QED
      BY <1>10, <2>1 DEF Threaded
  <1>15. QED
    BY <1>13, <1>14 DEF IsList

-----------------------------------------------------------------------------
(***************************************************************************)
(* What the operations do to a list, and that they leave others alone.     *)
(***************************************************************************)

\* The links of a list stay in it, mirror each other and lead elsewhere.
ListFacts(N, r, h, S) ==
  /\ S \subseteq N \ {h}
  /\ \A x \in S \cup {h} :
       /\ r.next[x] \in S \cup {h} /\ r.prev[x] \in S \cup {h}
       /\ r.prev[r.next[x]] = x /\ r.next[r.prev[x]] = x
  /\ \A x \in S : r.next[x] # x /\ r.prev[x] # x
  /\ S = {} <=> r.next[h] = h

LEMMA ListLinks ==
  ASSUME NEW N, NEW r, NEW h, NEW S, IsList(N, r, h, S)
  PROVE  ListFacts(N, r, h, S)
  <1>1. PICK n, s : Thread(N, r, h, n, s) /\ S = Threaded(n, s)
    BY DEF IsList
  <1>2. n \in Nat
    BY <1>1 DEF Thread
  <1>3. \A x \in S \cup {h} : \E i \in 0 .. n : x = s[i]
    BY <1>1, <1>2 DEF Thread, Threaded
  <1>4. \A i \in 0 .. n + 1 : s[i] \in S \cup {h}
    <2>1. ASSUME NEW i \in 0 .. n + 1
          PROVE  s[i] \in S \cup {h}
      <3>1. i = 0 \/ i = n + 1 \/ i \in 1 .. n
        BY <1>2
      <3>2. QED
        BY <1>1, <3>1 DEF Thread, Threaded
    <2>2. QED
      BY <2>1
  <1>5. S \subseteq N \ {h}
    <2>1. ASSUME NEW x \in S
          PROVE  x \in N /\ x # h
      <3>1. PICK i \in 1 .. n : x = s[i]
        BY <1>1 DEF Threaded
      <3>2. i \in 0 .. n /\ i \in 0 .. n + 1 /\ 0 \in 0 .. n /\ i # 0
        BY <1>2
      <3>3. QED
        BY <1>1, <3>1, <3>2 DEF Thread
    <2>2. QED
      BY <2>1
  <1>6. ASSUME NEW x \in S \cup {h}
        PROVE  /\ r.next[x] \in S \cup {h} /\ r.prev[x] \in S \cup {h}
               /\ r.prev[r.next[x]] = x /\ r.next[r.prev[x]] = x
               /\ x \in S => r.next[x] # x /\ r.prev[x] # x
    <2>1. PICK i \in 0 .. n : x = s[i]
      BY <1>3
    <2>2. i \in 0 .. n + 1 /\ i + 1 \in 0 .. n + 1
      BY <1>2
    <2>3. r.next[x] = s[i + 1] /\ r.prev[s[i + 1]] = x
      BY <1>1, <2>1 DEF Thread
    <2>4. PICK k \in 0 .. n : x = s[k + 1]
      <3>1. CASE i = 0
        BY <1>1, <1>2, <2>1, <3>1 DEF Thread
      <3>2. CASE i # 0
        <4>1. i - 1 \in 0 .. n /\ (i - 1) + 1 = i
          BY <1>2, <3>2
        <4>2. QED
          BY <2>1, <4>1
      <3>3. QED
        BY <3>1, <3>2
    <2>5. r.prev[x] = s[k] /\ r.next[s[k]] = x
      BY <1>1, <2>4 DEF Thread
    <2>6. k \in 0 .. n + 1
      BY <1>2
    <2>7. ASSUME x \in S
          PROVE  r.next[x] # x /\ r.prev[x] # x
      <3>1. x # h
        BY <1>5, <2>7
      <3>2. i # 0 /\ i # n + 1 /\ k # n /\ k + 1 \in 0 .. n
        <4>1. s[0] = h /\ s[n + 1] = h
          BY <1>1 DEF Thread
        <4>2. i # 0 /\ k # n
          BY <2>1, <2>4, <3>1, <4>1
        <4>3. QED
          BY <1>2, <4>2
      <3>3. i = k + 1
        BY <1>1, <2>1, <2>4, <3>2 DEF Thread
      <3>4. s[k] # x
        <4>1. k # k + 1
          OBVIOUS
        <4>2. QED
          BY <1>1, <2>4, <3>2, <4>1 DEF Thread
      <3>5. s[i + 1] # x
        <4>1. CASE i = n
          BY <1>1, <3>1, <4>1 DEF Thread
        <4>2. CASE i # n
          <5>1. i + 1 \in 0 .. n /\ i + 1 # i
            BY <1>2, <4>2
          <5>2. QED
            BY <1>1, <2>1, <5>1 DEF Thread
        <4>3. QED
          BY <4>1, <4>2
      <3>6. QED
        BY <2>3, <2>5, <3>4, <3>5
    <2>8. QED
      BY <1>4, <2>2, <2>3, <2>5, <2>6, <2>7
  <1>7. S = {} <=> r.next[h] = h
    <2>1. r.next[h] = s[1]
      BY <1>1, <1>2 DEF Thread
    <2>2. CASE n = 0
      BY <1>1, <2>1, <2>2 DEF Thread, Threaded
    <2>3. CASE n # 0
      <3>1. s[1] \in S
        BY <1>1, <1>2, <2>3 DEF Threaded
      <3>2. QED
        BY <1>5, <2>1, <3>1
    <2>4. QED
      BY <2>2, <2>3
  <1>8. QED
    BY <1>5, <1>6, <1>7 DEF ListFacts

\* A list only depends on the links of its own nodes.
LEMMA ThreadElsewhere ==
  ASSUME NEW N, NEW r, NEW h, NEW n, NEW s, Thread(N, r, h, n, s), NEW q,
         \A x \in Threaded(n, s) \cup {h} : q.next[x] = r.next[x] /\ q.prev[x] = r.prev[x]
  PROVE  Thread(N, q, h, n, s)
  <1>1. n \in Nat
    BY DEF Thread
  <1>2. \A i \in 0 .. n + 1 : s[i] \in Threaded(n, s) \cup {h}
    <2>1. ASSUME NEW i \in 0 .. n + 1
          PROVE  s[i] \in Threaded(n, s) \cup {h}
      <3>1. i = 0 \/ i = n + 1 \/ i \in 1 .. n
        BY <1>1
      <3>2. QED
        BY <3>1 DEF Thread, Threaded
    <2>2. QED
      BY <2>1
  <1>3. \A i \in 0 .. n : i \in 0 .. n + 1 /\ i + 1 \in 0 .. n + 1
    BY <1>1
  <1>4. \A i \in 0 .. n : q.next[s[i]] = s[i + 1] /\ q.prev[s[i + 1]] = s[i]
    <2>1. ASSUME NEW i \in 0 .. n
          PROVE  q.next[s[i]] = s[i + 1] /\ q.prev[s[i + 1]] = s[i]
      <3>1. s[i] \in Threaded(n, s) \cup {h} /\ s[i + 1] \in Threaded(n, s) \cup {h}
        BY <1>2, <1>3
      <3>2. r.next[s[i]] = s[i + 1] /\ r.prev[s[i + 1]] = s[i]
        BY DEF Thread
      <3>3. QED
        BY <3>1, <3>2
    <2>2. QED
      BY <2>1
  <1>5. QED
    BY <1>4 DEF Thread

LEMMA ListElsewhere ==
  ASSUME NEW N, NEW r, NEW h, NEW S, IsList(N, r, h, S), NEW q,
         \A x \in S \cup {h} : q.next[x] = r.next[x] /\ q.prev[x] = r.prev[x]
  PROVE  IsList(N, q, h, S)
  <1>1. PICK n, s : Thread(N, r, h, n, s) /\ S = Threaded(n, s)
    BY DEF IsList
  <1>2. Thread(N, q, h, n, s)
    BY <1>1, ThreadElsewhere
  <1>3. QED
    BY <1>1, <1>2 DEF IsList

\* ins_fifo, ins_pri, sched_timeout_ins: a node linked after a member of the
\* list, or its head, joins the list at that place.
LEMMA InsertAfterThread ==
  ASSUME NEW N, NEW r \in Ring(N), NEW h \in N, NEW n, NEW s, Thread(N, r, h, n, s),
         NEW k \in 0 .. n, NEW x \in N \ {h}, x \notin Threaded(n, s)
  PROVE  Thread(N, InsertAfter(r, s[k], x), h, n + 1,
                [i \in 0 .. n + 2 |-> IF i <= k THEN s[i]
                                      ELSE IF i = k + 1 THEN x ELSE s[i - 1]])
  <1> DEFINE q == InsertAfter(r, s[k], x)
             t == [i \in 0 .. n + 2 |-> IF i <= k THEN s[i]
                                        ELSE IF i = k + 1 THEN x ELSE s[i - 1]]
  <1>1. /\ n \in Nat /\ k \in Nat
        /\ s \in [0 .. n + 1 -> N]
        /\ s[0] = h /\ s[n + 1] = h
    BY DEF Thread
  <1>2. \A i \in 0 .. n : r.next[s[i]] = s[i + 1] /\ r.prev[s[i + 1]] = s[i]
    BY DEF Thread
  <1>3. \A i, j \in 0 .. n : s[i] = s[j] => i = j
    BY DEF Thread
  <1>4. \A i \in 0 .. n + 1 : s[i] # x
    <2>1. ASSUME NEW i \in 0 .. n + 1
          PROVE  s[i] # x
      <3>1. i = 0 \/ i = n + 1 \/ i \in 1 .. n
        BY <1>1
      <3>2. QED
        BY <1>1, <3>1 DEF Threaded
    <2>2. QED
      BY <2>1
  <1>5. \A i, j \in 1 .. n + 1 : s[i] = s[j] => i = j
    <2>1. ASSUME NEW i \in 1 .. n + 1, NEW j \in 1 .. n + 1, s[i] = s[j]
          PROVE  i = j
      <3>1. i - 1 \in 0 .. n /\ j - 1 \in 0 .. n /\ (i - 1) + 1 = i /\ (j - 1) + 1 = j
        BY <1>1
      <3>2. r.prev[s[i]] = s[i - 1] /\ r.prev[s[j]] = s[j - 1]
        BY <1>2, <3>1
      <3>3. i - 1 = j - 1
        BY <1>3, <2>1, <3>1, <3>2
      <3>4. QED
        BY <1>1, <3>3
    <2>2. QED
      BY <2>1
  <1>6. r.next[s[k]] = s[k + 1] /\ s[k] \in N /\ s[k + 1] \in N
    BY <1>1, <1>2
  <1>7. /\ q.next = [r.next EXCEPT ![x] = s[k + 1], ![s[k]] = x]
        /\ q.prev = [r.prev EXCEPT ![x] = s[k], ![s[k + 1]] = x]
    BY <1>6 DEF InsertAfter
  <1>8. /\ q.next[x] = s[k + 1] /\ q.next[s[k]] = x
        /\ q.prev[x] = s[k] /\ q.prev[s[k + 1]] = x
    <2>1. s[k] # x /\ s[k + 1] # x
      BY <1>1, <1>4
    <2>2. QED
      BY <1>6, <1>7, <2>1 DEF Ring
  <1>9. ASSUME NEW i \in 0 .. n, i # k
        PROVE  q.next[s[i]] = s[i + 1] /\ q.prev[s[i + 1]] = s[i]
    <2>1. s[i] # x /\ s[i + 1] # x /\ s[i] \in N /\ s[i + 1] \in N
      BY <1>1, <1>4
    <2>2. s[i] # s[k]
      BY <1>3, <1>9
    <2>3. s[i + 1] # s[k + 1]
      <3>1. i + 1 \in 1 .. n + 1 /\ k + 1 \in 1 .. n + 1 /\ i + 1 # k + 1
        BY <1>1, <1>9
      <3>2. QED
        BY <1>5, <3>1
    <2>4. QED
      BY <1>2, <1>7, <2>1, <2>2, <2>3 DEF Ring
  <1>10. n + 1 \in Nat /\ t \in [0 .. (n + 1) + 1 -> N]
    <2>1. (n + 1) + 1 = n + 2 /\ n + 1 \in Nat
      BY <1>1
    <2>2. \A i \in 0 .. n + 2 : t[i] \in N
      BY <1>1
    <2>3. t \in [0 .. n + 2 -> N]
      BY <2>2
    <2>4. QED
      BY <2>1, <2>3
  <1>11. t[0] = h /\ t[(n + 1) + 1] = h
    BY <1>1
  <1>12. ASSUME NEW i \in 0 .. n + 1
         PROVE  q.next[t[i]] = t[i + 1] /\ q.prev[t[i + 1]] = t[i]
    <2>1. CASE i < k
      <3>1. t[i] = s[i] /\ t[i + 1] = s[i + 1] /\ i \in 0 .. n /\ i # k
        BY <1>1, <2>1
      <3>2. QED
        BY <1>9, <3>1
    <2>2. CASE i = k
      <3>1. t[i] = s[k] /\ t[i + 1] = x
        BY <1>1, <2>2
      <3>2. QED
        BY <1>8, <3>1
    <2>3. CASE i = k + 1
      <3>1. t[i] = x /\ t[i + 1] = s[k + 1]
        BY <1>1, <2>3
      <3>2. QED
        BY <1>8, <3>1
    <2>4. CASE i > k + 1
      <3>1. t[i] = s[i - 1] /\ t[i + 1] = s[i] /\ i - 1 \in 0 .. n /\ i - 1 # k
        BY <1>1, <2>4
      <3>2. (i - 1) + 1 = i
        BY <1>1
      <3>3. q.next[s[i - 1]] = s[(i - 1) + 1] /\ q.prev[s[(i - 1) + 1]] = s[i - 1]
        BY <1>9, <3>1
      <3>4. QED
        BY <3>1, <3>2, <3>3
    <2>5. QED
      BY <1>1, <2>1, <2>2, <2>3, <2>4
  <1>13. ASSUME NEW i \in 0 .. n + 1, NEW j \in 0 .. n + 1, t[i] = t[j]
         PROVE  i = j
    <2> DEFINE back(a) == IF a <= k THEN a ELSE a - 1
    <2>1. \A a \in 0 .. n + 1 : a # k + 1 => t[a] = s[back(a)] /\ back(a) \in 0 .. n
      BY <1>1
    <2>2. t[k + 1] = x
      BY <1>1
    <2> HIDE DEF t
    <2>3. \A a \in 0 .. n + 1 : a # k + 1 => t[a] # x
      <3>1. \A a \in 0 .. n : a \in 0 .. n + 1
        BY <1>1
      <3>2. QED
        BY <1>4, <2>1, <3>1
    <2>4. CASE i = k + 1
      BY <1>13, <2>2, <2>3, <2>4
    <2>5. CASE j = k + 1
      BY <1>13, <2>2, <2>3, <2>5
    <2>6. CASE i # k + 1 /\ j # k + 1
      <3>1. back(i) = back(j)
        BY <1>3, <1>13, <2>1, <2>6
      <3>2. QED
        BY <1>1, <2>6, <3>1
    <2>7. QED
      BY <2>4, <2>5, <2>6
  <1>14. QED
    <2> HIDE DEF t, q
    <2>1. Thread(N, q, h, n + 1, t)
      BY <1>10, <1>11, <1>12, <1>13 DEF Thread
    <2>2. QED
      BY <2>1 DEF t, q

\* sched_rem: a member that is unlinked leaves the others in their order.
LEMMA UnlinkThread ==
  ASSUME NEW N, NEW r \in Ring(N), NEW h \in N, NEW n, NEW s, Thread(N, r, h, n, s),
         NEW k \in 1 .. n
  PROVE  Thread(N, Unlink(r, s[k]), h, n - 1,
                [i \in 0 .. n |-> IF i < k THEN s[i] ELSE s[i + 1]])
  <1> DEFINE q == Unlink(r, s[k])
             t == [i \in 0 .. n |-> IF i < k THEN s[i] ELSE s[i + 1]]
  <1>1. /\ n \in Nat /\ k \in Nat /\ n >= 1
        /\ s \in [0 .. n + 1 -> N]
        /\ s[0] = h /\ s[n + 1] = h
    BY DEF Thread
  <1>2. \A i \in 0 .. n : r.next[s[i]] = s[i + 1] /\ r.prev[s[i + 1]] = s[i]
    BY DEF Thread
  <1>3. \A i, j \in 0 .. n : s[i] = s[j] => i = j
    BY DEF Thread
  <1>4. k - 1 \in 0 .. n /\ (k - 1) + 1 = k /\ k \in 0 .. n /\ k + 1 \in 0 .. n + 1
    BY <1>1
  <1>5. \A i, j \in 1 .. n + 1 : s[i] = s[j] => i = j
    <2>1. ASSUME NEW i \in 1 .. n + 1, NEW j \in 1 .. n + 1, s[i] = s[j]
          PROVE  i = j
      <3>1. i - 1 \in 0 .. n /\ j - 1 \in 0 .. n /\ (i - 1) + 1 = i /\ (j - 1) + 1 = j
        BY <1>1
      <3>2. r.prev[s[i]] = s[i - 1] /\ r.prev[s[j]] = s[j - 1]
        BY <1>2, <3>1
      <3>3. i - 1 = j - 1
        BY <1>3, <2>1, <3>1, <3>2
      <3>4. QED
        BY <1>1, <3>3
    <2>2. QED
      BY <2>1
  <1>6. /\ q.next = [r.next EXCEPT ![s[k - 1]] = s[k + 1]]
        /\ q.prev = [r.prev EXCEPT ![s[k + 1]] = s[k - 1]]
    <2>1. r.next[s[k]] = s[k + 1] /\ r.prev[s[k]] = s[k - 1]
      BY <1>2, <1>4
    <2>2. QED
      BY <2>1 DEF Unlink
  <1>7. q.next[s[k - 1]] = s[k + 1] /\ q.prev[s[k + 1]] = s[k - 1]
    <2>1. s[k - 1] \in N /\ s[k + 1] \in N
      BY <1>1, <1>4
    <2>2. QED
      BY <1>6, <2>1 DEF Ring
  <1>8. ASSUME NEW i \in 0 .. n, i # k - 1, i # k
        PROVE  q.next[s[i]] = s[i + 1] /\ q.prev[s[i + 1]] = s[i]
    <2>1. s[i] # s[k - 1]
      BY <1>3, <1>4, <1>8
    <2>2. s[i + 1] # s[k + 1]
      <3>1. i + 1 \in 1 .. n + 1 /\ k + 1 \in 1 .. n + 1 /\ i + 1 # k + 1
        BY <1>1, <1>8
      <3>2. QED
        BY <1>5, <3>1
    <2>3. s[i] \in N /\ s[i + 1] \in N
      BY <1>1
    <2>4. QED
      BY <1>2, <1>6, <2>1, <2>2, <2>3 DEF Ring
  <1>9. n - 1 \in Nat /\ (n - 1) + 1 = n /\ t \in [0 .. n -> N]
    BY <1>1
  <1>10. t[0] = h /\ t[n] = h
    BY <1>1
  <1>11. ASSUME NEW i \in 0 .. n - 1
         PROVE  q.next[t[i]] = t[i + 1] /\ q.prev[t[i + 1]] = t[i]
    <2>1. CASE i < k - 1
      <3>1. t[i] = s[i] /\ t[i + 1] = s[i + 1] /\ i \in 0 .. n /\ i # k /\ i # k - 1
        BY <1>1, <2>1
      <3>2. QED
        BY <1>8, <3>1
    <2>2. CASE i = k - 1
      <3>1. t[i] = s[k - 1] /\ t[i + 1] = s[k + 1]
        BY <1>1, <2>2
      <3>2. QED
        BY <1>7, <3>1
    <2>3. CASE i >= k
      <3>1. t[i] = s[i + 1] /\ t[i + 1] = s[(i + 1) + 1]
        BY <1>1, <2>3
      <3>2. i + 1 \in 0 .. n /\ i + 1 # k /\ i + 1 # k - 1
        BY <1>1, <2>3
      <3>3. QED
        BY <1>8, <3>1, <3>2
    <2>4. QED
      BY <1>1, <2>1, <2>2, <2>3
  <1>12. ASSUME NEW i \in 0 .. n - 1, NEW j \in 0 .. n - 1, t[i] = t[j]
         PROVE  i = j
    <2> DEFINE at(a) == IF a < k THEN a ELSE a + 1
    <2>1. \A a \in 0 .. n - 1 : t[a] = s[at(a)] /\ at(a) \in 0 .. n
      BY <1>1
    <2>2. at(i) = at(j)
      <3> HIDE DEF t
      <3>1. QED
        BY <1>3, <1>12, <2>1
    <2>3. QED
      BY <1>1, <2>2
  <1>13. QED
    <2> HIDE DEF t, q
    <2>1. Thread(N, q, h, n - 1, t)
      BY <1>9, <1>10, <1>11, <1>12 DEF Thread
    <2>2. QED
      BY <2>1 DEF t, q

-----------------------------------------------------------------------------
(***************************************************************************)
(* The operations on lists given by their members.                         *)
(***************************************************************************)

\* Every list keeps its members but those whose links an operation writes;
\* the writes go to the node itself and to its neighbours.
Untouched(r, q, S) == \A y \in S : q.next[y] = r.next[y] /\ q.prev[y] = r.prev[y]

\* Linking x after p, a member or the head, adds x.
LEMMA InsertAfterList ==
  ASSUME NEW N, NEW r \in Ring(N), NEW h \in N, NEW S, IsList(N, r, h, S),
         NEW p \in S \cup {h}, NEW x \in N \ {h}, x \notin S
  PROVE  IsList(N, InsertAfter(r, p, x), h, S \cup {x})
  <1>1. PICK n, s : Thread(N, r, h, n, s) /\ S = Threaded(n, s)
    BY DEF IsList
  <1>2. n \in Nat
    BY <1>1 DEF Thread
  <1>3. PICK k \in 0 .. n : p = s[k]
    BY <1>1, <1>2 DEF Thread, Threaded
  <1> DEFINE t == [i \in 0 .. n + 2 |-> IF i <= k THEN s[i]
                                        ELSE IF i = k + 1 THEN x ELSE s[i - 1]]
  <1>4. Thread(N, InsertAfter(r, s[k], x), h, n + 1, t)
    BY <1>1, InsertAfterThread
  <1>5. \A j \in 1 .. n : s[j] \in S
    BY <1>1 DEF Threaded
  <1>6. \A i \in 1 .. n + 1 :
      \/ i \in 1 .. n /\ t[i] = s[i]
      \/ t[i] = x
      \/ i - 1 \in 1 .. n /\ t[i] = s[i - 1]
    BY <1>2
  <1>7. k + 1 \in 1 .. n + 1 /\ t[k + 1] = x
    BY <1>2
  <1>8. \A j \in 1 .. n :
      \/ j \in 1 .. n + 1 /\ t[j] = s[j]
      \/ j + 1 \in 1 .. n + 1 /\ t[j + 1] = s[j]
    BY <1>2
  <1> HIDE DEF t
  <1>9. \A i \in 1 .. n + 1 : t[i] \in S \cup {x}
    BY <1>5, <1>6
  <1>10. ASSUME NEW y \in S \cup {x}
         PROVE  \E i \in 1 .. n + 1 : y = t[i]
    <2>1. CASE y = x
      BY <1>7, <2>1
    <2>2. CASE y \in S
      <3>1. PICK j \in 1 .. n : y = s[j]
        BY <1>1, <2>2 DEF Threaded
      <3>2. QED
        BY <1>8, <3>1
    <2>3. QED
      BY <2>1, <2>2
  <1>11. Threaded(n + 1, t) = S \cup {x}
    BY <1>9, <1>10 DEF Threaded
  <1>12. QED
    BY <1>3, <1>4, <1>11 DEF IsList

\* Linking x in front of a member, or of the head, is linking it after the one
\* that comes before.
LEMMA BeforeIsAfter ==
  ASSUME NEW N, NEW r, NEW h, NEW S, IsList(N, r, h, S), NEW y \in S \cup {h}, NEW x
  PROVE  /\ r.prev[y] \in S \cup {h}
         /\ InsertBefore(r, y, x) = InsertAfter(r, r.prev[y], x)
  <1>1. r.prev[y] \in S \cup {h} /\ r.next[r.prev[y]] = y
    BY ListLinks DEF ListFacts
  <1>2. QED
    BY <1>1 DEF InsertBefore, InsertAfter

\* sched_ins: x joins the list of the head in front of which it is linked.
LEMMA InsertBeforeList ==
  ASSUME NEW N, NEW r \in Ring(N), NEW h \in N, NEW S, IsList(N, r, h, S),
         NEW x \in N \ {h}, x \notin S
  PROVE  IsList(N, InsertBefore(r, h, x), h, S \cup {x})
  <1>1. /\ r.prev[h] \in S \cup {h}
        /\ InsertBefore(r, h, x) = InsertAfter(r, r.prev[h], x)
    BY BeforeIsAfter
  <1>2. QED
    BY <1>1, InsertAfterList

\* sched_rem: the list keeps the others.
LEMMA UnlinkList ==
  ASSUME NEW N, NEW r \in Ring(N), NEW h \in N, NEW S, IsList(N, r, h, S), NEW x \in S
  PROVE  IsList(N, Unlink(r, x), h, S \ {x})
  <1>1. PICK n, s : Thread(N, r, h, n, s) /\ S = Threaded(n, s)
    BY DEF IsList
  <1>2. n \in Nat /\ \A i, j \in 0 .. n : s[i] = s[j] => i = j
    BY <1>1 DEF Thread
  <1>3. PICK k \in 1 .. n : x = s[k]
    BY <1>1 DEF Threaded
  <1> DEFINE t == [i \in 0 .. n |-> IF i < k THEN s[i] ELSE s[i + 1]]
  <1>4. Thread(N, Unlink(r, s[k]), h, n - 1, t)
    BY <1>1, UnlinkThread
  <1>5. \A j \in 1 .. n : s[j] \in S /\ (s[j] = x => j = k)
    <2>1. \A j \in 1 .. n : j \in 0 .. n
      BY <1>2
    <2>2. QED
      BY <1>1, <1>2, <1>3, <2>1 DEF Threaded
  <1>6. \A i \in 1 .. n - 1 :
      \/ i \in 1 .. n /\ i # k /\ t[i] = s[i]
      \/ i + 1 \in 1 .. n /\ i + 1 # k /\ t[i] = s[i + 1]
    BY <1>2
  <1>7. \A j \in 1 .. n :
      \/ j = k
      \/ j \in 1 .. n - 1 /\ t[j] = s[j]
      \/ j - 1 \in 1 .. n - 1 /\ t[j - 1] = s[j]
    BY <1>2
  <1> HIDE DEF t
  <1>8. \A i \in 1 .. n - 1 : t[i] \in S \ {x}
    BY <1>5, <1>6
  <1>9. ASSUME NEW y \in S \ {x}
        PROVE  \E i \in 1 .. n - 1 : y = t[i]
    <2>1. PICK j \in 1 .. n : y = s[j]
      BY <1>1 DEF Threaded
    <2>2. j # k
      BY <1>3, <2>1
    <2>3. QED
      BY <1>7, <2>1, <2>2
  <1>10. Threaded(n - 1, t) = S \ {x}
    BY <1>8, <1>9 DEF Threaded
  <1>11. QED
    BY <1>3, <1>4, <1>10 DEF IsList

\* wlink_rem, sched_timeout_rem: so they do, and x is then in no list.
LEMMA UnlinkToSelfList ==
  ASSUME NEW N, NEW r \in Ring(N), NEW h \in N, NEW S, IsList(N, r, h, S), NEW x \in S
  PROVE  IsList(N, UnlinkToSelf(r, x), h, S \ {x})
  <1>1. IsList(N, Unlink(r, x), h, S \ {x})
    BY UnlinkList
  <1>2. ListFacts(N, r, h, S)
    BY ListLinks
  <1>3. Unlink(r, x) \in Ring(N) /\ x # h
    BY <1>2, UnlinkRing DEF ListFacts
  <1> DEFINE u == Unlink(r, x)
             q == UnlinkToSelf(r, x)
  <1>4. \A y \in (S \ {x}) \cup {h} : q.next[y] = u.next[y] /\ q.prev[y] = u.prev[y]
    BY <1>3 DEF UnlinkToSelf
  <1>5. QED
    <2> HIDE DEF u, q
    <2>1. IsList(N, u, h, S \ {x})
      BY <1>1 DEF u
    <2>2. IsList(N, q, h, S \ {x})
      BY <1>4, <2>1, ListElsewhere
    <2>3. QED
      BY <2>2 DEF q

\* The operations on one list leave alone what is not in it.
LEMMA InsertAfterElsewhere ==
  ASSUME NEW N, NEW r \in Ring(N), NEW h \in N, NEW S, IsList(N, r, h, S),
         NEW p \in S \cup {h}, NEW x \in N, NEW O \in SUBSET N,
         O \cap (S \cup {h, x}) = {}
  PROVE  Untouched(r, InsertAfter(r, p, x), O)
  <1>1. ListFacts(N, r, h, S)
    BY ListLinks
  <1>2. r.next[p] \in S \cup {h}
    BY <1>1 DEF ListFacts
  <1>3. QED
    BY <1>2 DEF Untouched, InsertAfter, Ring

LEMMA InsertBeforeElsewhere ==
  ASSUME NEW N, NEW r \in Ring(N), NEW h \in N, NEW S, IsList(N, r, h, S),
         NEW x \in N, NEW O \in SUBSET N, O \cap (S \cup {h, x}) = {}
  PROVE  Untouched(r, InsertBefore(r, h, x), O)
  <1>1. /\ r.prev[h] \in S \cup {h}
        /\ InsertBefore(r, h, x) = InsertAfter(r, r.prev[h], x)
    BY BeforeIsAfter
  <1>2. QED
    BY <1>1, InsertAfterElsewhere

LEMMA UnlinkElsewhere ==
  ASSUME NEW N, NEW r \in Ring(N), NEW h \in N, NEW S, IsList(N, r, h, S),
         NEW x \in S, NEW O \in SUBSET N, O \cap (S \cup {h}) = {}
  PROVE  Untouched(r, Unlink(r, x), O) /\ Untouched(r, UnlinkToSelf(r, x), O)
  <1>1. ListFacts(N, r, h, S)
    BY ListLinks
  <1>2. /\ r.next[x] \in S \cup {h} /\ r.prev[x] \in S \cup {h}
    BY <1>1 DEF ListFacts
  <1>3. Untouched(r, Unlink(r, x), O)
    BY <1>2 DEF Untouched, Unlink, Ring
  <1>4. Unlink(r, x) \in Ring(N)
    BY <1>1, UnlinkRing DEF ListFacts
  <1>5. QED
    BY <1>3, <1>4 DEF Untouched, UnlinkToSelf, Ring

\* What a loop over a list visits.
LEMMA ListWalk ==
  ASSUME NEW N, IsFiniteSet(N), NEW r \in Ring(N), NEW h \in N, NEW S,
         IsList(N, r, h, S)
  PROVE  /\ Len(Walk(r, h)) \in Nat
         /\ S = {Walk(r, h)[i] : i \in 1 .. Len(Walk(r, h))}
  <1>1. PICK n, s : Thread(N, r, h, n, s) /\ S = Threaded(n, s)
    BY DEF IsList
  <1>2. Walk(r, h) = [i \in 1 .. n |-> s[i]]
    BY <1>1, ThreadWalk
  <1>3. n \in Nat
    BY <1>1 DEF Thread
  <1>4. Len(Walk(r, h)) = n
    BY <1>2, <1>3
  <1>5. HoldsExactly(r, h, S)
    BY ListHolds
  <1>6. {Walk(r, h)[i] : i \in 1 .. Len(Walk(r, h))} = S
    BY <1>5 DEF HoldsExactly
  <1>7. QED
    BY <1>3, <1>4, <1>6

-----------------------------------------------------------------------------
(***************************************************************************)
(* A family of lists that share the link field of their nodes: M[h] is     *)
(* what the list at the head h holds.                                      *)
(***************************************************************************)
Lists(N, r, H, M) ==
  /\ H \subseteq N
  /\ \A h \in H : IsList(N, r, h, M[h])
  /\ \A h \in H : M[h] \cap H = {}
  /\ \A g, h \in H : g # h => M[g] \cap M[h] = {}

\* Two lists of a family have no node in common.
LEMMA ListsApart ==
  ASSUME NEW N, NEW r, NEW H, NEW M, Lists(N, r, H, M),
         NEW g \in H, NEW h \in H, g # h
  PROVE  (M[g] \cup {g}) \cap (M[h] \cup {h}) = {}
  BY DEF Lists

\* A step that touches only the list at h, and leaves it a list that holds S,
\* gives the family with S at h.
LEMMA ListsStep ==
  ASSUME NEW N, NEW r, NEW H, NEW M, Lists(N, r, H, M), NEW h \in H, NEW S, NEW q,
         IsList(N, q, h, S), S \cap H = {},
         \A g \in H : g # h => /\ S \cap M[g] = {}
                               /\ Untouched(r, q, M[g] \cup {g}),
         NEW L, \A g \in H : L[g] = IF g = h THEN S ELSE M[g]
  PROVE  Lists(N, q, H, L)
  <1>1. ASSUME NEW g \in H
        PROVE  IsList(N, q, g, L[g])
    <2>1. CASE g = h
      BY <2>1
    <2>2. CASE g # h
      <3>1. \A x \in M[g] \cup {g} : q.next[x] = r.next[x] /\ q.prev[x] = r.prev[x]
        BY <2>2 DEF Untouched
      <3>2. IsList(N, r, g, M[g])
        BY DEF Lists
      <3>3. IsList(N, q, g, M[g])
        BY <3>1, <3>2, ListElsewhere
      <3>4. QED
        BY <2>2, <3>3
    <2>3. QED
      BY <2>1, <2>2
  <1>2. H \subseteq N /\ \A g \in H : L[g] \cap H = {}
    BY DEF Lists
  <1>3. \A f, g \in H : f # g => L[f] \cap L[g] = {}
    BY DEF Lists
  <1>4. QED
    BY <1>1, <1>2, <1>3 DEF Lists

\* x, in no list so far, is linked after a node of the list at h.
LEMMA ListsInsertAfter ==
  ASSUME NEW N, NEW r \in Ring(N), NEW H, NEW M, Lists(N, r, H, M), NEW h \in H,
         NEW p \in M[h] \cup {h}, NEW x \in N \ H, \A g \in H : x \notin M[g],
         NEW L, \A g \in H : L[g] = IF g = h THEN M[g] \cup {x} ELSE M[g]
  PROVE  Lists(N, InsertAfter(r, p, x), H, L)
  <1> DEFINE q == InsertAfter(r, p, x)
             S == M[h] \cup {x}
  <1>1. IsList(N, r, h, M[h]) /\ h \in N
    BY DEF Lists
  <1>2. IsList(N, q, h, S)
    BY <1>1, InsertAfterList
  <1>3. ASSUME NEW g \in H, g # h
        PROVE  S \cap M[g] = {} /\ Untouched(r, q, M[g] \cup {g})
    <2> DEFINE O == M[g] \cup {g}
    <2>1. O \cap (M[h] \cup {h, x}) = {}
      BY <1>3, ListsApart
    <2>2. O \subseteq N
      <3>1. IsList(N, r, g, M[g]) /\ g \in N
        BY DEF Lists
      <3>2. QED
        BY <3>1, ListLinks DEF ListFacts
    <2>3. S \cap M[g] = {}
      BY <2>1
    <2> HIDE DEF O
    <2>4. Untouched(r, q, O)
      BY <1>1, <2>1, <2>2, InsertAfterElsewhere
    <2>5. QED
      BY <2>3, <2>4 DEF O
  <1>4. S \cap H = {}
    BY DEF Lists
  <1>5. \A g \in H : L[g] = IF g = h THEN S ELSE M[g]
    OBVIOUS
  <1> HIDE DEF q, S
  <1>6. Lists(N, q, H, L)
    BY <1>2, <1>3, <1>4, <1>5, ListsStep
  <1>7. QED
    BY <1>6 DEF q

\* x, in no list so far, is linked in front of the head h.
LEMMA ListsInsertBefore ==
  ASSUME NEW N, NEW r \in Ring(N), NEW H, NEW M, Lists(N, r, H, M), NEW h \in H,
         NEW x \in N \ H, \A g \in H : x \notin M[g],
         NEW L, \A g \in H : L[g] = IF g = h THEN M[g] \cup {x} ELSE M[g]
  PROVE  Lists(N, InsertBefore(r, h, x), H, L)
  <1>1. IsList(N, r, h, M[h])
    BY DEF Lists
  <1>2. /\ r.prev[h] \in M[h] \cup {h}
        /\ InsertBefore(r, h, x) = InsertAfter(r, r.prev[h], x)
    BY <1>1, BeforeIsAfter
  <1>3. PICK p \in M[h] \cup {h} : p = r.prev[h]
    BY <1>2
  <1>4. Lists(N, InsertAfter(r, p, x), H, L)
    BY ListsInsertAfter, ZenonT(60)
  <1>5. QED
    BY <1>2, <1>3, <1>4

\* A node of the list at h is unlinked, or unlinked and marked.
LEMMA ListsUnlink ==
  ASSUME NEW N, NEW r \in Ring(N), NEW H, NEW M, Lists(N, r, H, M), NEW h \in H,
         NEW x \in M[h],
         NEW L, \A g \in H : L[g] = IF g = h THEN M[g] \ {x} ELSE M[g]
  PROVE  Lists(N, Unlink(r, x), H, L) /\ Lists(N, UnlinkToSelf(r, x), H, L)
  <1> DEFINE S == M[h] \ {x}
  <1>1. IsList(N, r, h, M[h]) /\ h \in N
    BY DEF Lists
  <1>2. IsList(N, Unlink(r, x), h, S) /\ IsList(N, UnlinkToSelf(r, x), h, S)
    BY <1>1, UnlinkList, UnlinkToSelfList
  <1>3. ASSUME NEW g \in H, g # h
        PROVE  /\ S \cap M[g] = {}
               /\ Untouched(r, Unlink(r, x), M[g] \cup {g})
               /\ Untouched(r, UnlinkToSelf(r, x), M[g] \cup {g})
    <2> DEFINE O == M[g] \cup {g}
    <2>1. O \cap (M[h] \cup {h}) = {}
      BY <1>3, ListsApart
    <2>2. O \subseteq N
      <3>1. IsList(N, r, g, M[g]) /\ g \in N
        BY DEF Lists
      <3>2. QED
        BY <3>1, ListLinks DEF ListFacts
    <2>3. S \cap M[g] = {}
      BY <2>1
    <2> HIDE DEF O
    <2>4. Untouched(r, Unlink(r, x), O) /\ Untouched(r, UnlinkToSelf(r, x), O)
      BY <1>1, <2>1, <2>2, UnlinkElsewhere
    <2>5. QED
      BY <2>3, <2>4 DEF O
  <1>4. S \cap H = {}
    BY DEF Lists
  <1>5. \A g \in H : L[g] = IF g = h THEN S ELSE M[g]
    OBVIOUS
  <1> HIDE DEF S
  <1>6. Lists(N, Unlink(r, x), H, L)
    BY <1>2, <1>3, <1>4, <1>5, ListsStep
  <1>7. Lists(N, UnlinkToSelf(r, x), H, L)
    BY <1>2, <1>3, <1>4, <1>5, ListsStep, SMTT(30)
  <1>8. QED
    BY <1>6, <1>7

(***************************************************************************)
(* A list whose nodes are marked: every node outside it links to itself,   *)
(* which is what the kernel tests.                                         *)
(***************************************************************************)
Linked(N, r, h) == {x \in N \ {h} : InQueue(r, x)}

LEMMA MarkedInsert ==
  ASSUME NEW N, NEW r \in Ring(N), NEW h \in N, IsList(N, r, h, Linked(N, r, h)),
         NEW p \in Linked(N, r, h) \cup {h}, NEW x \in N \ {h}, ~InQueue(r, x),
         NEW q, q = InsertAfter(r, p, x)
  PROVE  /\ Linked(N, q, h) = Linked(N, r, h) \cup {x}
         /\ IsList(N, q, h, Linked(N, q, h))
  <1> DEFINE S == Linked(N, r, h)
             O == (N \ {h}) \ (S \cup {x})
  <1>1. x \notin S
    BY DEF Linked
  <1>2. IsList(N, q, h, S \cup {x})
    <2> HIDE DEF S
    <2>1. IsList(N, r, h, S) /\ p \in S \cup {h}
      BY DEF S
    <2>2. QED
      BY <1>1, <2>1, InsertAfterList
  <1>3. \A y \in S \cup {x} : q.next[y] # y /\ y \in N \ {h}
    <2> HIDE DEF S
    <2>1. ListFacts(N, q, h, S \cup {x})
      BY <1>2, ListLinks
    <2>2. QED
      BY <2>1 DEF ListFacts
  <1>4. Untouched(r, q, O)
    <2>1. O \subseteq N /\ O \cap (S \cup {h, x}) = {}
      OBVIOUS
    <2> HIDE DEF S, O
    <2>2. IsList(N, r, h, S) /\ p \in S \cup {h}
      BY DEF S
    <2>3. QED
      BY <2>1, <2>2, InsertAfterElsewhere
  <1>5. \A y \in O : r.next[y] = y
    BY DEF Linked, InQueue
  <1>6. \A y \in O : q.next[y] = y
    <2> HIDE DEF O
    <2>1. QED
      BY <1>4, <1>5 DEF Untouched
  <1>7. Linked(N, q, h) = S \cup {x}
    <2>1. \A y \in N \ {h} : y \in S \cup {x} \/ y \in O
      OBVIOUS
    <2> HIDE DEF S, O
    <2>2. QED
      BY <1>3, <1>6, <2>1 DEF Linked, InQueue
  <1>8. QED
    BY <1>2, <1>7

LEMMA MarkedRemove ==
  ASSUME NEW N, NEW r \in Ring(N), NEW h \in N, IsList(N, r, h, Linked(N, r, h)),
         NEW x \in Linked(N, r, h), NEW q, q = UnlinkToSelf(r, x)
  PROVE  /\ Linked(N, q, h) = Linked(N, r, h) \ {x}
         /\ IsList(N, q, h, Linked(N, q, h))
  <1> DEFINE S == Linked(N, r, h)
             O == (N \ {h}) \ S
  <1>1. IsList(N, q, h, S \ {x})
    <2> HIDE DEF S
    <2>1. IsList(N, r, h, S) /\ x \in S
      BY DEF S
    <2>2. QED
      BY <2>1, UnlinkToSelfList
  <1>2. \A y \in S \ {x} : q.next[y] # y /\ y \in N \ {h}
    <2> HIDE DEF S
    <2>1. ListFacts(N, q, h, S \ {x})
      BY <1>1, ListLinks
    <2>2. QED
      BY <2>1 DEF ListFacts
  <1>3. Untouched(r, q, O)
    <2>1. O \subseteq N /\ O \cap (S \cup {h}) = {}
      OBVIOUS
    <2> HIDE DEF S, O
    <2>2. IsList(N, r, h, S) /\ x \in S
      BY DEF S
    <2>3. QED
      BY <2>1, <2>2, UnlinkElsewhere
  <1>4. \A y \in O : r.next[y] = y
    BY DEF Linked, InQueue
  <1>5. \A y \in O : q.next[y] = y
    <2> HIDE DEF O
    <2>1. QED
      BY <1>3, <1>4 DEF Untouched
  <1>6. q.next[x] = x
    <2>1. x \in N
      BY DEF Linked
    <2>2. Unlink(r, x) \in Ring(N)
      BY <2>1, UnlinkRing
    <2>3. QED
      BY <2>1, <2>2 DEF UnlinkToSelf, Ring
  <1>7. Linked(N, q, h) = S \ {x}
    <2>1. \A y \in N \ {h} : y \in S \ {x} \/ y \in O \/ y = x
      OBVIOUS
    <2> HIDE DEF S, O
    <2>2. QED
      BY <1>2, <1>5, <1>6, <2>1 DEF Linked, InQueue
  <1>8. QED
    BY <1>1, <1>7

-----------------------------------------------------------------------------
(***************************************************************************)
(* The operations on the walk along a list.                                *)
(***************************************************************************)

\* The sequence w of length n with x behind its first k elements, and without
\* its k-th element.
Inserted(w, n, k, x) ==
  [i \in 1 .. n + 1 |-> IF i <= k THEN w[i] ELSE IF i = k + 1 THEN x ELSE w[i - 1]]
Removed(w, n, k) == [i \in 1 .. n - 1 |-> IF i < k THEN w[i] ELSE w[i + 1]]

\* Linking x after the k-th node.
LEMMA InsertedWalk ==
  ASSUME NEW N, IsFiniteSet(N), NEW r \in Ring(N), NEW h \in N, NEW n, NEW s,
         Thread(N, r, h, n, s), NEW k \in 0 .. n, NEW x \in N \ {h}, x \notin Threaded(n, s)
  PROVE  Walk(InsertAfter(r, s[k], x), h) = Inserted(s, n, k, x)
  <1> DEFINE u == [i \in 0 .. n + 2 |-> IF i <= k THEN s[i]
                                       ELSE IF i = k + 1 THEN x ELSE s[i - 1]]
             q == InsertAfter(r, s[k], x)
  <1>1. Thread(N, q, h, n + 1, u)
    BY InsertAfterThread
  <1>2. n \in Nat /\ s[k] \in N
    BY DEF Thread
  <1>3. q \in Ring(N)
    BY <1>2, InsertAfterRing
  <1> HIDE DEF q
  <1>4. Walk(q, h) = [i \in 1 .. n + 1 |-> u[i]]
    <2> HIDE DEF u
    <2>1. QED
      BY <1>1, <1>3, ThreadWalk
  <1>5. \A i \in 1 .. n + 1 : u[i] = IF i <= k THEN s[i]
                                     ELSE IF i = k + 1 THEN x ELSE s[i - 1]
    BY <1>2
  <1> HIDE DEF u
  <1>6. QED
    BY <1>4, <1>5 DEF Inserted, q

\* Unlinking the k-th node.
LEMMA RemovedWalk ==
  ASSUME NEW N, IsFiniteSet(N), NEW r \in Ring(N), NEW h \in N, NEW n, NEW s,
         Thread(N, r, h, n, s), NEW k \in 1 .. n
  PROVE  Walk(UnlinkToSelf(r, s[k]), h) = Removed(s, n, k)
  <1> DEFINE u == [i \in 0 .. n |-> IF i < k THEN s[i] ELSE s[i + 1]]
             p == Unlink(r, s[k])
             q == UnlinkToSelf(r, s[k])
  <1>1. Thread(N, p, h, n - 1, u)
    BY UnlinkThread
  <1>2. n \in Nat /\ s[k] \in N /\ s[0] = h /\ s \in [0 .. n + 1 -> N]
        /\ \A i, j \in 0 .. n : s[i] = s[j] => i = j
    BY DEF Thread
  <1>3. p \in Ring(N) /\ q \in Ring(N)
    BY <1>2, UnlinkRing, UnlinkToSelfRing
  <1>4. s[k] \notin Threaded(n - 1, u) \cup {h}
    <2>1. s[k] # h
      BY <1>2
    <2>2. ASSUME NEW i \in 1 .. n - 1
          PROVE  u[i] # s[k]
      <3>1. i \in 0 .. n /\ i + 1 \in 0 .. n /\ k \in 0 .. n
        BY <1>2
      <3>2. QED
        BY <1>2, <3>1
    <2> HIDE DEF u
    <2>3. QED
      BY <2>1, <2>2 DEF Threaded
  <1>5. \A y \in N : y # s[k] => q.next[y] = p.next[y] /\ q.prev[y] = p.prev[y]
    BY <1>2, <1>3 DEF UnlinkToSelf, Ring
  <1>6. Threaded(n - 1, u) \cup {h} \subseteq N
    <2>1. u \in [0 .. n -> N]
      BY <1>1, <1>2 DEF Thread
    <2> HIDE DEF u
    <2>2. QED
      BY <1>2, <2>1 DEF Threaded
  <1> HIDE DEF p, q
  <1>7. Thread(N, q, h, n - 1, u)
    <2> HIDE DEF u
    <2>1. \A y \in Threaded(n - 1, u) \cup {h} : q.next[y] = p.next[y] /\ q.prev[y] = p.prev[y]
      BY <1>4, <1>5, <1>6
    <2>2. QED
      BY <1>1, <2>1, ThreadElsewhere
  <1>8. Walk(q, h) = [i \in 1 .. n - 1 |-> u[i]]
    <2> HIDE DEF u
    <2>1. QED
      BY <1>3, <1>7, ThreadWalk
  <1>9. \A i \in 1 .. n - 1 : u[i] = IF i < k THEN s[i] ELSE s[i + 1]
    BY <1>2
  <1> HIDE DEF u
  <1>10. QED
    BY <1>8, <1>9 DEF Removed, q

\* Changing links elsewhere.
LEMMA UntouchedWalk ==
  ASSUME NEW N, IsFiniteSet(N), NEW r \in Ring(N), NEW h \in N, NEW S, IsList(N, r, h, S),
         NEW q \in Ring(N), Untouched(r, q, S \cup {h})
  PROVE  Walk(q, h) = Walk(r, h)
  <1>1. PICK n, s : Thread(N, r, h, n, s) /\ S = Threaded(n, s)
    BY DEF IsList
  <1>2. Thread(N, q, h, n, s)
    BY <1>1, ThreadElsewhere DEF Untouched
  <1>3. Walk(q, h) = [i \in 1 .. n |-> s[i]]
    BY <1>2, ThreadWalk
  <1>4. Walk(r, h) = [i \in 1 .. n |-> s[i]]
    BY <1>1, ThreadWalk
  <1>5. QED
    BY <1>3, <1>4

-----------------------------------------------------------------------------
(***************************************************************************)
(* Types.  One lemma per part of the kernel that a step goes through.      *)
(***************************************************************************)

USE DEF Cur, PC, Stat

\* The constants of the error codes are integers, and the nodes of the lists.
LEMMA Nodes ==
  /\ Task \subseteq PNode /\ Task \subseteq TNode /\ Task \subseteq WNode
  /\ TimeoutHead \in TNode
  /\ \A p \in Pri : tsk_pri(p) \in PNode
  BY DEF PNode, TNode, WNode, PHead

\* Putting the running task to sleep keeps the types.
LEMMA BlockType ==
  ASSUME TypeOK, NEW t \in Task, Block(t)
  PROVE  /\ plink' \in Ring(PNode)
         /\ tskstat' \in [Task -> Stat]
         /\ next_tsk_flag' \in [Cpu -> {0, 1}]
  BY Nodes, UnlinkRing DEF TypeOK, Block, sched_next_tsk

\* Linking a task into its ready queue keeps the types.
LEMMA SchedInsType ==
  ASSUME TypeOK, NEW t \in Task, sched_ins(t)
  PROVE  plink' \in Ring(PNode)
  BY Nodes, InsertBeforeRing DEF TypeOK, sched_ins

\* Queueing a time-out keeps the types.
LEMMA TimeoutInsType ==
  ASSUME TypeOK, NEW t \in Task, NEW tmout, sched_timeout_ins(t, tmout)
  PROVE  tlink' \in Ring(TNode) /\ delta' \in [Task -> Int]
  <1>1. PICK y \in TNode, d \in 0 .. TmoMod - 1 :
          /\ tlink' = InsertAfter(tlink, tlink.prev[y], t)
          /\ delta' = [u \in Task |->
                 IF u = y THEN (IF y = t THEN 0 ELSE delta[y] - d)
                 ELSE IF u = t THEN d ELSE delta[u]]
    BY DEF sched_timeout_ins
  <1>2. tlink.prev[y] \in TNode
    BY DEF TypeOK, Ring
  <1>3. tlink' \in Ring(TNode)
    BY <1>1, <1>2, Nodes, InsertAfterRing DEF TypeOK
  <1>4. d \in Int
    BY TimeAssumption
  <1>5. delta' \in [Task -> Int]
    BY <1>1, <1>4 DEF TypeOK
  <1>6. QED
    BY <1>3, <1>5

\* Cancelling a time-out keeps the types.
LEMMA TimeoutRemType ==
  ASSUME TypeOK, NEW t \in Task, sched_timeout_rem(t)
  PROVE  tlink' \in Ring(TNode) /\ delta' \in [Task -> Int]
  <1> USE DEF sched_timeout_rem, RemTimeout
  <1>1. CASE InQueue(tlink, t)
    <2>1. tlink' = UnlinkToSelf(tlink, t)
      BY <1>1
    <2>2. delta' = [u \in Task |-> IF u = t THEN 0
                                  ELSE IF u = tlink.next[t]
                                       THEN (delta[u] + delta[t]) % TmoMod
                                       ELSE delta[u]]
      BY <1>1
    <2>3. \A u \in Task : (delta[u] + delta[t]) % TmoMod \in Int
      BY TimeAssumption DEF TypeOK
    <2>4. QED
      BY <2>1, <2>2, <2>3, Nodes, UnlinkToSelfRing DEF TypeOK
  <1>2. CASE ~InQueue(tlink, t)
    BY <1>2 DEF TypeOK
  <1>3. QED
    BY <1>1, <1>2

\* A system call keeps the types.
LEMMA SystemCallType ==
  ASSUME TypeOK, NEW c \in Cpu, SystemCall(c)
  PROVE  TypeOK'
  <1> USE DEF TypeOK, Trap, Return, lockVars, tcbVars, timeVars, readyVars
  <1> c_tskid[c] \in Task
    OBVIOUS
  <1> E_OK \in Int /\ E_OBJ \in Int /\ E_NOEXS \in Int /\ E_QOVR \in Int
    BY DEF E_OK, E_OBJ, E_NOEXS, E_QOVR
  <1>1. CASE slp_tsk(c)
    <2>1. CASE TakeWakeup(Cur(c))
      BY <1>1, <2>1, CountAssumption DEF slp_tsk, TakeWakeup
    <2>2. CASE Block(Cur(c)) /\ UNCHANGED <<wupcnt, timeVars>>
      BY <1>1, <2>2, BlockType DEF slp_tsk
    <2>3. QED
      BY <1>1, <2>1, <2>2 DEF slp_tsk, sys_slp_tsk
  <1>2. CASE tslp_tsk(c)
    <2> PICK tmout \in Tmo : sys_tslp_tsk(Cur(c), tmout)
      BY <1>2 DEF tslp_tsk
    <2>1. CASE TakeWakeup(Cur(c))
      BY <1>2, <2>1, CountAssumption DEF tslp_tsk, TakeWakeup
    <2>2. CASE Block(Cur(c)) /\ sched_timeout_ins(Cur(c), tmout) /\ UNCHANGED wupcnt
      BY <1>2, <2>2, BlockType, TimeoutInsType DEF tslp_tsk
    <2>3. QED
      BY <2>1, <2>2 DEF sys_tslp_tsk
  <1>3. CASE dly_tsk(c)
    <2> PICK dlytim \in Tmo :
          \/ dlytim = 0 /\ UNCHANGED <<readyVars, timeVars>>
          \/ dlytim # 0 /\ Block(Cur(c)) /\ sched_timeout_ins(Cur(c), dlytim)
      BY <1>3 DEF dly_tsk
    <2>1. CASE UNCHANGED <<readyVars, timeVars>>
      BY <1>3, <2>1 DEF dly_tsk
    <2>2. CASE Block(Cur(c)) /\ sched_timeout_ins(Cur(c), dlytim)
      BY <1>3, <2>2, BlockType, TimeoutInsType DEF dly_tsk
    <2>3. QED
      BY <2>1, <2>2
  <1>4. ASSUME NEW u \in Task, wup_tsk(c, u)
        PROVE  TypeOK'
    <2>1. CASE QueueWakeup(c, u)
      BY <1>4, <2>1, CountAssumption DEF wup_tsk, QueueWakeup, WakeupsFull
    <2>2. CASE WakeUp(c, u)
      <3>1. plink' \in Ring(PNode)
        BY <2>2, SchedInsType DEF WakeUp
      <3>2. tlink' \in Ring(TNode) /\ delta' \in [Task -> Int]
        BY <2>2, TimeoutRemType DEF WakeUp
      <3>3. tskstat' \in [Task -> Stat] /\ next_tsk_flag' \in [Cpu -> {0, 1}]
        BY <2>2 DEF WakeUp, sched_next_tsk
      <3>4. QED
        BY <1>4, <2>2, <3>1, <3>2, <3>3 DEF wup_tsk, WakeUp
    <2>3. CASE RefuseWakeup(c, u)
      BY <1>4, <2>3 DEF wup_tsk, RefuseWakeup
    <2>4. QED
      BY <1>4, <2>1, <2>2, <2>3 DEF wup_tsk
  <1>5. ASSUME NEW u \in Task, can_wup(c, u)
        PROVE  TypeOK'
    BY <1>5, CountAssumption, SMTT(30) DEF can_wup, RefuseWakeup
  <1>6. ASSUME NEW u \in Task, act_tsk(c, u)
        PROVE  TypeOK'
    <2>1. plink' \in Ring(PNode)
      BY <1>6, SchedInsType DEF act_tsk
    <2>2. actcnt' \in [Task -> 0 .. TMAX_ACTCNT]
      BY <1>6, CountAssumption DEF act_tsk
    <2>3. pc' \in [Cpu -> PC] /\ ret' \in [Cpu -> Int]
      BY <1>6 DEF act_tsk
    <2>4. tskstat' \in [Task -> Stat] /\ next_tsk_flag' \in [Cpu -> {0, 1}]
      BY <1>6 DEF act_tsk
    <2>5. QED
      BY <1>6, <2>1, <2>2, <2>3, <2>4 DEF act_tsk
  <1>7. QED
    BY <1>1, <1>2, <1>3, <1>4, <1>5, <1>6 DEF SystemCall

\* An interrupt and the steps of a CPU in the kernel keep the types.
LEMMA KernelType ==
  ASSUME TypeOK, NEW c \in Cpu, Interrupt(c) \/ Kernel(c)
  PROVE  TypeOK'
  <1> USE DEF TypeOK, lockVars, tcbVars, timeVars, readyVars
  <1> c_tskid[c] \in Task
    OBVIOUS
  <1> Popped \in Int /\ E_TMOUT \in Int
    BY DEF Popped, E_TMOUT
  <1>1. CASE irq0(c)
    <2>1. CASE FirstTimeout = TimeoutHead
      BY <1>1, <2>1 DEF irq0
    <2>2. CASE FirstTimeout # TimeoutHead
      <3>1. FirstTimeout \in Task
        BY <2>2, Nodes DEF FirstTimeout, Ring, TNode
      <3>2. (delta[FirstTimeout] - 1) % TmoMod \in Int
        BY <3>1, TimeAssumption
      <3>3. delta' \in [Task -> Int]
        BY <1>1, <2>2, <3>1, <3>2 DEF irq0
      <3>4. QED
        BY <1>1, <2>2, <3>3 DEF irq0
    <2>3. QED
      BY <2>1, <2>2
  <1>2. CASE apic_timer(c)
    BY <1>2 DEF apic_timer
  <1>3. CASE sched_timeout(c)
    <2>1. FirstTimeout \in Task
      BY <1>3, Nodes DEF sched_timeout, Expired, FirstTimeout, Ring, TNode
    <2>2. tlink' \in Ring(TNode)
      BY <1>3, <2>1, Nodes, UnlinkToSelfRing DEF sched_timeout
    <2>3. CASE TimeOutTask(FirstTimeout)
      <3>1. wlink' \in Ring(WNode) /\ plink' \in Ring(PNode)
        BY <2>1, <2>3, Nodes, UnlinkToSelfRing, SchedInsType DEF TimeOutTask
      <3>2. eax' \in [Task -> Int] /\ tskstat' \in [Task -> Stat] /\ woken' = TRUE
        BY <2>1, <2>3 DEF TimeOutTask
      <3>3. QED
        BY <1>3, <2>2, <3>1, <3>2 DEF sched_timeout
    <2>4. CASE UNCHANGED <<wlink, eax, tskstat, plink, woken>>
      BY <1>3, <2>2, <2>4 DEF sched_timeout
    <2>5. QED
      BY <1>3, <2>3, <2>4 DEF sched_timeout
  <1>4. CASE tick_done(c)
    BY <1>4 DEF tick_done, Unlock, sched_next_tsk
  <1>5. CASE store_ret(c)
    BY <1>5 DEF store_ret, E_OK
  <1>6. CASE intr_leave(c)
    BY <1>6 DEF intr_leave, Resume
  <1>7. CASE sched_do_next_tsk(c)
    <2>1. CASE \E t \in Task : Switch(c, t)
      BY <1>7, <2>1 DEF sched_do_next_tsk, Switch
    <2>2. CASE UNCHANGED <<tskstat, c_tskid>>
      BY <1>7, <2>2 DEF sched_do_next_tsk
    <2>3. QED
      BY <1>7, <2>1, <2>2 DEF sched_do_next_tsk
  <1>8. CASE clear_flag(c)
    BY <1>8 DEF clear_flag, Resume
  <1>9. QED
    BY <1>1, <1>2, <1>3, <1>4, <1>5, <1>6, <1>7, <1>8 DEF Interrupt, Kernel

\* The initial state is well typed.
LEMMA TypeInit == TasksInit => TypeOK
  <1> SUFFICES ASSUME TasksInit PROVE TypeOK
    OBVIOUS
  <1>1. wlink \in Ring(WNode) /\ tlink \in Ring(TNode) /\ plink \in Ring(PNode)
    BY SelfLinkedRing, LinkAssumption DEF TasksInit
  <1>2. tskstat \in [Task -> Stat] /\ tskpri \in [Task -> Pri]
    BY TaskAssumption DEF TasksInit
  <1>3. actcnt \in [Task -> 0 .. TMAX_ACTCNT] /\ wupcnt \in [Task -> 0 .. TMAX_WUPCNT + 1]
    BY CountAssumption DEF TasksInit
  <1>4. c_tskid \in [Cpu -> Task] /\ proc_cpu \in [Task -> Cpu]
    BY CpuAssumption, TaskAssumption DEF TasksInit
  <1>5. /\ pc \in [Cpu -> PC] /\ ret \in [Cpu -> Int]
        /\ next_tsk_flag \in [Cpu -> {0, 1}]
        /\ eax \in [Task -> Int] /\ delta \in [Task -> Int]
    BY DEF TasksInit, E_OK, Popped
  <1>6. kernel_lk \in {0, 1} /\ woken \in BOOLEAN
    BY DEF TasksInit
  <1>7. QED
    BY <1>1, <1>2, <1>3, <1>4, <1>5, <1>6 DEF TypeOK

\* A stuttering step keeps the types.
LEMMA StutterType == TypeOK /\ UNCHANGED vars => TypeOK'
  BY DEF vars, lockVars, tcbVars, timeVars, readyVars, TypeOK

\* The variables keep their types in every behaviour (tsk[], the lists and
\* the scheduler state of kernel/sched.c and kernel/sys_tsk.c).
THEOREM TypeCorrect == TasksSpec => []TypeOK
  <1>1. TypeOK /\ [TasksNext]_vars => TypeOK'
    BY SystemCallType, KernelType, StutterType DEF TasksNext
  <1>2. QED
    BY <1>1, TypeInit, PTL DEF TasksSpec

-----------------------------------------------------------------------------
(***************************************************************************)
(* Who runs where, and who writes the frame of a task.  RunIsCurrent holds *)
(* because a CPU only ever starts tasks pinned to it (Placed), the verdict *)
(* of a time-out on CPU 0 because the tick runs on that CPU (TickPlaced)   *)
(* and a task enters the kernel with a popped frame (FrameFresh).          *)
(***************************************************************************)
Placed == proc_cpu = home /\ \A c \in Cpu : home[c_tskid[c]] = c

TickPlaced == \A c \in Cpu : pc[c] = "tick" => c = TickCpu

FrameFresh ==
  pc[TickCpu] \in {"user", "ret"} => eax[c_tskid[TickCpu]] # E_TMOUT

IInv == TypeOK /\ Placed /\ RunIsCurrent /\ TickPlaced /\ FrameFresh

\* Only the dispatcher marks a task RUN or changes the current task.
LEMMA NobodyElseStarts ==
  ASSUME TypeOK, NEW c \in Cpu,
         SystemCall(c) \/ Interrupt(c) \/ Kernel(c), ~sched_do_next_tsk(c)
  PROVE  /\ UNCHANGED <<c_tskid, proc_cpu>>
         /\ \A t \in Task : tskstat'[t] = "RUN" => tskstat[t] = "RUN"
  <1> USE DEF TypeOK, lockVars, tcbVars, timeVars, readyVars, Return
  <1> c_tskid[c] \in Task
    OBVIOUS
  <1>1. CASE slp_tsk(c)
    BY <1>1 DEF slp_tsk, sys_slp_tsk, TakeWakeup, Block
  <1>2. CASE tslp_tsk(c)
    BY <1>2 DEF tslp_tsk, sys_tslp_tsk, TakeWakeup, Block
  <1>3. CASE dly_tsk(c)
    BY <1>3 DEF dly_tsk, Block
  <1>4. ASSUME NEW u \in Task, wup_tsk(c, u)
        PROVE  /\ UNCHANGED <<c_tskid, proc_cpu>>
               /\ \A t \in Task : tskstat'[t] = "RUN" => tskstat[t] = "RUN"
    BY <1>4 DEF wup_tsk, QueueWakeup, WakeUp, RefuseWakeup
  <1>5. ASSUME NEW u \in Task, can_wup(c, u)
        PROVE  /\ UNCHANGED <<c_tskid, proc_cpu>>
               /\ \A t \in Task : tskstat'[t] = "RUN" => tskstat[t] = "RUN"
    BY <1>5 DEF can_wup, RefuseWakeup
  <1>6. ASSUME NEW u \in Task, act_tsk(c, u)
        PROVE  /\ UNCHANGED <<c_tskid, proc_cpu>>
               /\ \A t \in Task : tskstat'[t] = "RUN" => tskstat[t] = "RUN"
    BY <1>6 DEF act_tsk
  <1>7. CASE irq0(c) \/ apic_timer(c) \/ tick_done(c) \/ store_ret(c)
    BY <1>7 DEF irq0, apic_timer, tick_done, store_ret
  <1>8. CASE sched_timeout(c)
    BY <1>8 DEF sched_timeout, TimeOutTask
  <1>9. CASE intr_leave(c) \/ clear_flag(c)
    BY <1>9 DEF intr_leave, clear_flag
  <1>10. QED
    BY <1>1, <1>2, <1>3, <1>4, <1>5, <1>6, <1>7, <1>8, <1>9
    DEF SystemCall, Interrupt, Kernel

\* The dispatcher of a CPU starts a task that is pinned to the CPU, or none.
LEMMA DispatcherPinned ==
  ASSUME NEW c \in Cpu, sched_do_next_tsk(c)
  PROVE  /\ UNCHANGED <<proc_cpu, eax>>
         /\ pc' = [pc EXCEPT ![c] = "clear"]
         /\ \/ UNCHANGED <<tskstat, c_tskid>>
            \/ \E t \in Task : proc_cpu[t] = c /\ Switch(c, t)
  <1>1. ASSUME NEW p \in Pri, NEW i \in Runnable(c, p), NEW t \in Task,
               t = Walk(plink, tsk_pri(p))[i]
        PROVE  proc_cpu[t] = c
    BY <1>1 DEF Runnable, Pinned
  <1>2. QED
    BY <1>1 DEF sched_do_next_tsk, tcbVars

\* A step keeps every current task on its CPU and every RUN task current.
LEMMA PlacedStep ==
  ASSUME TypeOK, Placed, RunIsCurrent, NEW c \in Cpu,
         SystemCall(c) \/ Interrupt(c) \/ Kernel(c)
  PROVE  Placed' /\ RunIsCurrent'
  <1>1. CASE ~sched_do_next_tsk(c)
    <2>1. /\ UNCHANGED <<c_tskid, proc_cpu>>
          /\ \A t \in Task : tskstat'[t] = "RUN" => tskstat[t] = "RUN"
      BY <1>1, NobodyElseStarts
    <2>2. QED
      BY <2>1 DEF Placed, RunIsCurrent
  <1>2. CASE sched_do_next_tsk(c)
    <2>1. CASE UNCHANGED <<tskstat, c_tskid>>
      BY <1>2, <2>1, DispatcherPinned DEF Placed, RunIsCurrent
    <2>2. ASSUME NEW t \in Task, proc_cpu[t] = c, Switch(c, t)
          PROVE  Placed' /\ RunIsCurrent'
      <3>1. proc_cpu' = proc_cpu
        BY <1>2, DispatcherPinned
      <3>2. c_tskid' = [c_tskid EXCEPT ![c] = t]
        BY <2>2 DEF Switch
      <3>3. Placed'
        BY <2>2, <3>1, <3>2 DEF Placed, TypeOK
      <3>4. ASSUME NEW u \in Task, tskstat'[u] = "RUN"
            PROVE  c_tskid'[proc_cpu'[u]] = u
        <4>1. CASE u = t
          BY <2>2, <3>1, <3>2, <4>1 DEF TypeOK
        <4>2. CASE u # t
          <5>1. tskstat[u] = "RUN" /\ u # c_tskid[c]
            BY <2>2, <3>4, <4>2 DEF Switch
          <5>2. c_tskid[proc_cpu[u]] = u
            BY <5>1 DEF RunIsCurrent
          <5>3. proc_cpu[u] # c
            BY <5>1, <5>2
          <5>4. QED
            BY <3>1, <3>2, <5>2, <5>3 DEF TypeOK
        <4>3. QED
          BY <4>1, <4>2
      <3>5. QED
        BY <3>3, <3>4 DEF RunIsCurrent
    <2>3. QED
      BY <1>2, <2>1, <2>2, DispatcherPinned
  <1>3. QED
    BY <1>1, <1>2

\* A step of CPU c leaves CPU 0 where it is, unless c is CPU 0.
LEMMA OtherPc ==
  ASSUME TypeOK, NEW c \in Cpu, c # TickCpu,
         SystemCall(c) \/ Interrupt(c) \/ Kernel(c)
  PROVE  pc'[TickCpu] = pc[TickCpu]
  <1> TickCpu \in Cpu
    BY CpuAssumption DEF TickCpu
  <1>1. CASE SystemCall(c)
    BY <1>1 DEF SystemCall, slp_tsk, tslp_tsk, dly_tsk, wup_tsk, QueueWakeup,
       WakeUp, RefuseWakeup, can_wup, act_tsk, Return, TypeOK
  <1>2. CASE Interrupt(c) \/ Kernel(c)
    BY <1>2 DEF Interrupt, Kernel, irq0, apic_timer, sched_timeout, tick_done,
       store_ret, intr_leave, sched_do_next_tsk, clear_flag, Resume, TypeOK
  <1>3. QED
    BY <1>1, <1>2

\* What a step of CPU c does to the frames and to its own place.
LEMMA FrameStep ==
  ASSUME TypeOK, NEW c \in Cpu, SystemCall(c) \/ Interrupt(c) \/ Kernel(c)
  PROVE  \/ eax' = eax /\ pc[c] = "user"
         \/ eax' = eax /\ pc'[c] \in {"leave", "clear"}
         \/ pc[c] = "ret" /\ pc'[c] = "leave"
            /\ eax' = [eax EXCEPT ![c_tskid[c]] = ret[c]]
         \/ pc'[c] = "user" /\ eax' = [eax EXCEPT ![c_tskid[c]] = Popped]
            /\ c_tskid' = c_tskid
         \/ pc[c] = "tick" /\ pc' = pc
            /\ (eax' = eax \/ \E t \in Task : eax' = [eax EXCEPT ![t] = E_TMOUT])
  <1>1. CASE SystemCall(c)
    BY <1>1 DEF SystemCall, slp_tsk, tslp_tsk, dly_tsk, wup_tsk, can_wup,
       act_tsk, Trap
  <1>2. CASE Interrupt(c)
    BY <1>2 DEF Interrupt, irq0, apic_timer
  <1>3. CASE sched_timeout(c)
    <2>1. FirstTimeout \in Task
      BY <1>3, Nodes DEF TypeOK, sched_timeout, Expired, FirstTimeout, Ring, TNode
    <2>2. QED
      BY <1>3, <2>1 DEF sched_timeout, TimeOutTask
  <1>4. CASE tick_done(c)
    BY <1>4 DEF tick_done, TypeOK
  <1>5. CASE store_ret(c)
    BY <1>5 DEF store_ret, TypeOK
  <1>6. CASE intr_leave(c) \/ clear_flag(c)
    BY <1>6 DEF intr_leave, clear_flag, Resume, TypeOK
  <1>7. CASE sched_do_next_tsk(c)
    BY <1>7, DispatcherPinned DEF TypeOK
  <1>8. QED
    BY <1>1, <1>2, <1>3, <1>4, <1>5, <1>6, <1>7 DEF Kernel

\* The tick stays on its CPU, and a CPU enters the kernel from user mode.
LEMMA TickStep ==
  ASSUME TypeOK, TickPlaced, NEW c \in Cpu,
         SystemCall(c) \/ Interrupt(c) \/ Kernel(c)
  PROVE  TickPlaced' /\ (pc'[c] = "ret" => pc[c] = "user")
  <1>1. CASE SystemCall(c)
    BY <1>1 DEF SystemCall, slp_tsk, tslp_tsk, dly_tsk, wup_tsk, QueueWakeup,
       WakeUp, RefuseWakeup, can_wup, act_tsk, Trap, Return, TypeOK, TickPlaced
  <1>2. CASE Interrupt(c) \/ Kernel(c)
    BY <1>2 DEF Interrupt, Kernel, irq0, apic_timer, sched_timeout, tick_done,
       store_ret, intr_leave, sched_do_next_tsk, clear_flag, Resume, TypeOK,
       TickPlaced
  <1>3. QED
    BY <1>1, <1>2

\* A step of CPU c changes the current task of no other CPU.
LEMMA OtherCurrent ==
  ASSUME TypeOK, NEW c \in Cpu, SystemCall(c) \/ Interrupt(c) \/ Kernel(c)
  PROVE  /\ \A b \in Cpu : b # c => c_tskid'[b] = c_tskid[b]
         /\ pc'[c] # "clear" => c_tskid' = c_tskid
  <1>1. CASE ~sched_do_next_tsk(c)
    BY <1>1, NobodyElseStarts
  <1>2. CASE sched_do_next_tsk(c)
    BY <1>2, DispatcherPinned DEF Switch, TypeOK
  <1>3. QED
    BY <1>1, <1>2

\* A task of CPU 0 enters the kernel, and leaves it, without an E_TMOUT that
\* it has not popped in its frame.
LEMMA FrameFreshStep ==
  ASSUME IInv, NEW c \in Cpu, SystemCall(c) \/ Interrupt(c) \/ Kernel(c)
  PROVE  FrameFresh'
  <1> USE DEF IInv
  <1> TickCpu \in Cpu
    BY CpuAssumption DEF TickCpu
  <1> SUFFICES ASSUME pc'[TickCpu] \in {"user", "ret"}
               PROVE  eax'[c_tskid'[TickCpu]] # E_TMOUT
    BY DEF FrameFresh
  <1> Popped # E_TMOUT
    BY DEF Popped, E_TMOUT
  <1>1. CASE c = TickCpu
    <2>1. c_tskid' = c_tskid
      BY <1>1, OtherCurrent
    <2>2. \/ eax' = eax /\ pc[c] = "user"
          \/ eax' = [eax EXCEPT ![c_tskid[c]] = Popped]
          \/ pc[c] = "tick" /\ pc' = pc
      BY <1>1, FrameStep
    <2>3. QED
      BY <1>1, <2>1, <2>2 DEF FrameFresh, TypeOK
  <1>2. CASE c # TickCpu
    <2>1. pc'[TickCpu] = pc[TickCpu]
      BY <1>2, OtherPc
    <2>2. c_tskid'[TickCpu] = c_tskid[TickCpu]
      BY <1>2, OtherCurrent
    <2>3. pc[c] # "tick"
      BY <1>2 DEF TickPlaced
    <2>4. eax' = eax \/ \E v : eax' = [eax EXCEPT ![c_tskid[c]] = v]
      BY <2>3, FrameStep
    <2>5. c_tskid[c] # c_tskid[TickCpu]
      BY <1>2 DEF Placed
    <2>6. eax'[c_tskid[TickCpu]] = eax[c_tskid[TickCpu]]
      BY <2>4, <2>5 DEF TypeOK
    <2>7. QED
      BY <2>1, <2>2, <2>6 DEF FrameFresh
  <1>3. QED
    BY <1>1, <1>2

\* The verdict of a time-out survives every step, for the tasks of CPU 0.
LEMMA VerdictStep ==
  ASSUME IInv, NEW c \in Cpu, SystemCall(c) \/ Interrupt(c) \/ Kernel(c),
         NEW t \in Task, home[t] = 0
  PROVE  KeepsVerdict(t)
  <1> USE DEF IInv
  <1> TickCpu \in Cpu
    BY CpuAssumption DEF TickCpu
  <1> SUFFICES ASSUME eax[t] = E_TMOUT PROVE eax'[t] \in {E_TMOUT, Popped}
    BY DEF KeepsVerdict
  <1>1. CASE pc[c] = "ret" /\ eax' = [eax EXCEPT ![c_tskid[c]] = ret[c]]
    <2>1. CASE c_tskid[c] = t
      <3>1. c = TickCpu
        BY <2>1 DEF Placed, TickCpu
      <3>2. eax[t] # E_TMOUT
        BY <1>1, <2>1, <3>1 DEF FrameFresh
      <3>3. QED
        BY <3>2
    <2>2. CASE c_tskid[c] # t
      BY <1>1, <2>2 DEF TypeOK
    <2>3. QED
      BY <2>1, <2>2
  <1>2. CASE eax' = eax
    BY <1>2
  <1>3. CASE eax' = [eax EXCEPT ![c_tskid[c]] = Popped]
    BY <1>3 DEF TypeOK
  <1>4. CASE \E u \in Task : eax' = [eax EXCEPT ![u] = E_TMOUT]
    BY <1>4 DEF TypeOK
  <1>5. QED
    BY <1>1, <1>2, <1>3, <1>4, FrameStep

\* The invariant holds at first, is kept by every step, and so always holds.
LEMMA InvInit == TasksInit => IInv
  <1> SUFFICES ASSUME TasksInit PROVE IInv
    OBVIOUS
  <1>1. TypeOK
    BY TypeInit
  <1>2. Placed /\ TickPlaced
    BY CpuAssumption, TaskAssumption DEF TasksInit, Placed, TickPlaced
  <1>3. RunIsCurrent
    BY CpuAssumption, TaskAssumption DEF TasksInit, RunIsCurrent
  <1>4. FrameFresh
    BY <1>1, CpuAssumption DEF TasksInit, FrameFresh, TickCpu, Popped, E_TMOUT
  <1>5. QED
    BY <1>1, <1>2, <1>3, <1>4 DEF IInv

LEMMA InvStep == IInv /\ [TasksNext]_vars => IInv'
  <1> SUFFICES ASSUME IInv, [TasksNext]_vars PROVE IInv'
    OBVIOUS
  <1>1. ASSUME NEW c \in Cpu, SystemCall(c) \/ Interrupt(c) \/ Kernel(c)
        PROVE  IInv'
    BY <1>1, SystemCallType, KernelType, PlacedStep, TickStep, FrameFreshStep
    DEF IInv
  <1>2. CASE UNCHANGED vars
    BY <1>2, StutterType DEF vars, lockVars, tcbVars, readyVars, IInv, Placed,
       RunIsCurrent, TickPlaced, FrameFresh
  <1>3. QED
    BY <1>1, <1>2 DEF TasksNext

LEMMA Invariance == TasksSpec => []IInv
  BY InvInit, InvStep, PTL DEF TasksSpec

\* No task runs on two CPUs: what is marked RUN is the current task of the one
\* CPU it is pinned to (sched_do_next_tsk, kernel/sched.c:114).
THEOREM OneCpuPerTask == TasksSpec => []RunIsCurrent
  BY Invariance, PTL DEF IInv

\* The E_TMOUT that sched_timeout writes into the frame of a task of CPU 0
\* stays there until the task pops it (kernel/sched.c:232).
THEOREM VerdictReachesTask == TasksSpec => VerdictKeptOnTickCpu
  <1>1. IInv /\ [TasksNext]_vars
          => [\A t \in Task : home[t] = 0 => KeepsVerdict(t)]_vars
    BY VerdictStep DEF TasksNext
  <1>2. QED
    BY <1>1, Invariance, PTL DEF TasksSpec, VerdictKeptOnTickCpu

-----------------------------------------------------------------------------
(***************************************************************************)
(* No ghosts.  A task that is no longer RUN while its CPU is in the kernel *)
(* has a reschedule pending, and the dispatcher replaces it as long as its *)
(* scan finds a task: what the idle tasks are for.                         *)
(***************************************************************************)
Replaceable ==
  \A c \in Cpu :
    /\ pc[c] \in {"user", "tick", "clear"} => tskstat[Cur(c)] = "RUN"
    /\ pc[c] \in {"ret", "leave"} /\ tskstat[Cur(c)] # "RUN" => next_tsk_flag[c] = 1

\* A system call by a RUN task leaves it RUN or asks for a reschedule.
LEMMA SystemCallReplaceable ==
  ASSUME TypeOK, Placed, Replaceable, NEW c \in Cpu, SystemCall(c)
  PROVE  Replaceable'
  <1> USE DEF TypeOK, readyVars, Trap, Return
  <1> DEFINE Cur0 == c_tskid[c]
  <1>1. Cur0 \in Task /\ pc[c] = "user" /\ tskstat[Cur0] = "RUN"
    BY DEF SystemCall, slp_tsk, tslp_tsk, dly_tsk, wup_tsk, can_wup, act_tsk,
       Replaceable
  <1>2. pc' = [pc EXCEPT ![c] = "ret"] /\ c_tskid' = c_tskid
    BY DEF SystemCall, slp_tsk, tslp_tsk, dly_tsk, wup_tsk, QueueWakeup, WakeUp,
       RefuseWakeup, can_wup, act_tsk
  <1>3. \/ UNCHANGED <<tskstat, next_tsk_flag>>
        \/ /\ next_tsk_flag' = [b \in Cpu |-> 1]
           /\ \A t \in Task : tskstat[t] = "RUN" /\ t # Cur0 => tskstat'[t] = "RUN"
        \/ /\ UNCHANGED next_tsk_flag
           /\ \A t \in Task : tskstat[t] = "RUN" => tskstat'[t] = "RUN"
           /\ \A t \in Task : tskstat'[t] # tskstat[t] => tskstat[t] = "DMT"
    <2>1. CASE slp_tsk(c) \/ tslp_tsk(c)
      BY <2>1 DEF slp_tsk, tslp_tsk, sys_slp_tsk, sys_tslp_tsk, TakeWakeup, Block,
         sched_next_tsk
    <2>2. CASE dly_tsk(c)
      BY <2>2 DEF dly_tsk, Block, sched_next_tsk
    <2>3. ASSUME NEW u \in Task, wup_tsk(c, u)
          PROVE  \/ UNCHANGED <<tskstat, next_tsk_flag>>
                 \/ /\ next_tsk_flag' = [b \in Cpu |-> 1]
                    /\ \A t \in Task : tskstat[t] = "RUN" /\ t # Cur0
                                      => tskstat'[t] = "RUN"
      BY <2>3 DEF wup_tsk, QueueWakeup, WakeUp, RefuseWakeup, sched_next_tsk
    <2>4. ASSUME NEW u \in Task, can_wup(c, u)
          PROVE  UNCHANGED <<tskstat, next_tsk_flag>>
      BY <2>4 DEF can_wup
    <2>5. ASSUME NEW u \in Task, act_tsk(c, u)
          PROVE  \/ UNCHANGED <<tskstat, next_tsk_flag>>
                 \/ /\ UNCHANGED next_tsk_flag
                    /\ \A t \in Task : tskstat[t] = "RUN" => tskstat'[t] = "RUN"
                    /\ \A t \in Task : tskstat'[t] # tskstat[t] => tskstat[t] = "DMT"
      BY <2>5 DEF act_tsk
    <2>6. QED
      BY <2>1, <2>2, <2>3, <2>4, <2>5 DEF SystemCall
  <1>4. ASSUME NEW b \in Cpu
        PROVE  /\ pc'[b] \in {"user", "tick", "clear"} => tskstat'[c_tskid'[b]] = "RUN"
               /\ pc'[b] \in {"ret", "leave"} /\ tskstat'[c_tskid'[b]] # "RUN"
                    => next_tsk_flag'[b] = 1
    <2>1. CASE b = c
      BY <1>1, <1>2, <1>3, <2>1
    <2>2. CASE b # c
      <3>1. pc'[b] = pc[b] /\ c_tskid'[b] = c_tskid[b] /\ c_tskid[b] \in Task
        BY <1>2, <2>2
      <3>2. c_tskid[b] # Cur0
        BY <2>2 DEF Placed
      <3>3. tskstat[c_tskid[b]] = "RUN" => tskstat'[c_tskid[b]] = "RUN"
        BY <1>3, <3>1, <3>2
      <3>4. next_tsk_flag[b] = 1 => next_tsk_flag'[b] = 1
        BY <1>3
      <3>5. QED
        BY <3>1, <3>3, <3>4 DEF Replaceable
    <2>3. QED
      BY <2>1, <2>2
  <1>5. QED
    BY <1>4 DEF Replaceable

\* An interrupt, or a step of a CPU in the kernel, does too; the dispatcher
\* if its scan finds a task.
LEMMA KernelReplaceable ==
  ASSUME TypeOK, Placed, Replaceable, IdleReady, NEW c \in Cpu, Interrupt(c) \/ Kernel(c)
  PROVE  Replaceable'
  <1> USE DEF TypeOK, readyVars
  <1>1. CASE irq0(c) \/ apic_timer(c)
    BY <1>1 DEF irq0, apic_timer, Replaceable
  <1>2. CASE sched_timeout(c)
    <2>1. /\ UNCHANGED <<pc, c_tskid, next_tsk_flag>>
          /\ \A t \in Task : tskstat[t] = "RUN" => tskstat'[t] = "RUN"
      BY <1>2 DEF sched_timeout, TimeOutTask
    <2>2. QED
      BY <2>1 DEF Replaceable
  <1>3. CASE tick_done(c) \/ store_ret(c)
    BY <1>3 DEF tick_done, store_ret, sched_next_tsk, Replaceable
  <1>4. CASE intr_leave(c)
    BY <1>4 DEF intr_leave, Resume, Replaceable
  <1>5. CASE sched_do_next_tsk(c)
    <2>1. PICK t \in Task : proc_cpu[t] = c /\ Switch(c, t)
      <3>1. \E p \in Pri : Runnable(c, p) # {}
        <4>1. PICK p \in Pri, u \in Idle :
                 /\ \E i \in 1 .. Len(Walk(plink, tsk_pri(p))) :
                      Walk(plink, tsk_pri(p))[i] = u
                 /\ proc_cpu[u] = c
                 /\ tskstat[u] = "RDY" \/ (u = Cur(c) /\ tskstat[u] = "RUN")
          BY DEF IdleReady
        <4>2. PICK i \in 1 .. Len(Walk(plink, tsk_pri(p))) :
                 Walk(plink, tsk_pri(p))[i] = u
          BY <4>1
        <4>3. u \in Task
          BY TaskAssumption
        <4>4. i \in Runnable(c, p)
          BY <4>1, <4>2, <4>3 DEF Runnable, Pinned
        <4>5. QED
          BY <4>4
      <3>2. ASSUME NEW p \in Pri, NEW i \in Runnable(c, p), NEW t \in Task,
                   t = Walk(plink, tsk_pri(p))[i]
            PROVE  proc_cpu[t] = c
        BY <3>2 DEF Runnable, Pinned
      <3>3. QED
        BY <1>5, <3>1, <3>2 DEF sched_do_next_tsk
    <2>2. UNCHANGED next_tsk_flag /\ pc' = [pc EXCEPT ![c] = "clear"]
      BY <1>5 DEF sched_do_next_tsk
    <2>3. ASSUME NEW b \in Cpu, b # c
          PROVE  /\ c_tskid'[b] = c_tskid[b]
                 /\ tskstat'[c_tskid[b]] = tskstat[c_tskid[b]]
      <3>1. c_tskid[b] # t /\ c_tskid[b] # c_tskid[c]
        BY <2>1, <2>3 DEF Placed
      <3>2. QED
        BY <2>1, <2>3, <3>1 DEF Switch
    <2>4. tskstat'[c_tskid'[c]] = "RUN"
      BY <2>1 DEF Switch
    <2>5. QED
      BY <2>2, <2>3, <2>4 DEF Replaceable
  <1>6. CASE clear_flag(c)
    BY <1>6 DEF clear_flag, Resume, Replaceable
  <1>7. QED
    BY <1>1, <1>2, <1>3, <1>4, <1>5, <1>6 DEF Interrupt, Kernel

-----------------------------------------------------------------------------
(***************************************************************************)
(* The ready queues.  They stay in step with the status of the tasks, and  *)
(* the idle tasks in their queue, as long as no ghost is put to sleep; the *)
(* idle tasks in turn keep the ghosts away.  So the three are proved       *)
(* together.                                                               *)
(***************************************************************************)
IsReady(t) == tskstat[t] \in {"RDY", "RUN"}

QueueOf == [h \in PHead |-> {t \in Task : tsk_pri(tskpri[t]) = h /\ IsReady(t)}]

ReadyLists == Lists(PNode, plink, PHead, QueueOf)

IdleKept == \A t \in Idle : IsReady(t)

\* The nodes of the ready queues: heads are no tasks, and there are finitely
\* many of both.
LEMMA ReadyNodes ==
  /\ PHead \subseteq PNode /\ Task \cap PHead = {}
  /\ \A p \in Pri : tsk_pri(p) \in PHead
  /\ \A p, q \in Pri : tsk_pri(p) = tsk_pri(q) => p = q
  /\ IsFiniteSet(PNode)
  <1>1. Pri \subseteq Nat \ {0} /\ Task \subseteq Nat \ {0}
    BY TaskAssumption DEF Pri
  <1>2. Task \cap PHead = {} /\ \A p, q \in Pri : tsk_pri(p) = tsk_pri(q) => p = q
    <2>1. \A p, q \in Pri : tsk_pri(p) = tsk_pri(q) => p = q
      BY <1>1 DEF tsk_pri
    <2>2. \A p \in Pri : tsk_pri(p) \notin Task
      <3> SUFFICES ASSUME NEW p \in Pri, NEW t \in Task, t = tsk_pri(p) PROVE FALSE
        OBVIOUS
      <3>1. p \in Nat \ {0} /\ t \in Nat \ {0} /\ t = -p
        BY <1>1 DEF tsk_pri
      <3>2. QED
        BY <3>1
    <2>3. QED
      BY <2>1, <2>2 DEF PHead
  <1> DEFINE f == [p \in Pri |-> tsk_pri(p)]
  <1>3. f \in Surjection(Pri, PHead)
    BY DEF PHead, Surjection
  <1>4. IsFiniteSet(Pri)
    BY TaskAssumption, FS_Interval DEF Pri
  <1>5. IsFiniteSet(PHead)
    <2> HIDE DEF f
    <2>1. QED
      BY <1>3, <1>4, FS_Surjection
  <1>6. IsFiniteSet(PNode)
    BY <1>5, FiniteAssumption, FS_Union DEF PNode
  <1>7. QED
    BY <1>2, <1>6 DEF PNode, PHead

\* Lists that hold the ready tasks are what the invariant asks of the queues.
LEMMA ReadyListsExact ==
  ASSUME plink \in Ring(PNode), tskpri \in [Task -> Pri]
  PROVE  ReadyLists <=> ReadyQueuesExact
  <1>1. \A p \in Pri : QueueOf[tsk_pri(p)]
                        = {t \in Task : tskpri[t] = p /\ tskstat[t] \in {"RDY", "RUN"}}
    <2>1. ASSUME NEW p \in Pri
          PROVE  QueueOf[tsk_pri(p)]
                   = {t \in Task : tskpri[t] = p /\ tskstat[t] \in {"RDY", "RUN"}}
      <3>1. \A t \in Task : tsk_pri(tskpri[t]) = tsk_pri(p) <=> tskpri[t] = p
        BY ReadyNodes
      <3>2. QED
        BY <3>1, ReadyNodes DEF QueueOf, IsReady
    <2>2. QED
      BY <2>1
  <1>2. ASSUME ReadyLists, NEW p \in Pri
        PROVE  HoldsExactly(plink, tsk_pri(p), QueueOf[tsk_pri(p)])
    <2>1. tsk_pri(p) \in PHead /\ tsk_pri(p) \in PNode
      BY ReadyNodes
    <2>2. IsList(PNode, plink, tsk_pri(p), QueueOf[tsk_pri(p)])
      BY <1>2, <2>1 DEF ReadyLists, Lists
    <2>3. QED
      BY <2>1, <2>2, ReadyNodes, ListHolds
  <1>3. ASSUME ReadyQueuesExact
        PROVE  ReadyLists
    <2>1. ASSUME NEW h \in PHead
          PROVE  IsList(PNode, plink, h, QueueOf[h])
      <3>1. PICK p \in Pri : h = tsk_pri(p)
        BY DEF PHead
      <3>2. HoldsExactly(plink, h, QueueOf[h])
        BY <1>1, <1>3, <3>1 DEF ReadyQueuesExact
      <3>3. h \in PNode
        BY ReadyNodes
      <3>4. QED
        BY <3>2, <3>3, ReadyNodes, HoldsList
    <2>2. \A h \in PHead : QueueOf[h] \cap PHead = {}
      BY ReadyNodes DEF QueueOf
    <2>3. \A g, h \in PHead : g # h => QueueOf[g] \cap QueueOf[h] = {}
      BY DEF QueueOf
    <2>4. QED
      BY <2>1, <2>2, <2>3, ReadyNodes DEF ReadyLists, Lists
  <1>4. ReadyLists => ReadyQueuesExact
    BY <1>1, <1>2 DEF ReadyQueuesExact
  <1>5. QED
    BY <1>3, <1>4

\* A task that becomes ready is linked in front of the head of its priority.
LEMMA ReadyLinked ==
  ASSUME TypeOK, ReadyLists, NEW u \in Task, ~IsReady(u), IsReady(u)',
         sched_ins(u), tskpri' = tskpri,
         \A t \in Task : t # u => (IsReady(t)' <=> IsReady(t))
  PROVE  ReadyLists'
  <1> DEFINE h == tsk_pri(tskpri[u])
  <1>1. plink \in Ring(PNode) /\ h \in PHead /\ u \in PNode \ PHead
    BY Nodes, ReadyNodes DEF TypeOK
  <1>2. \A g \in PHead : u \notin QueueOf[g]
    BY DEF QueueOf
  <1>3. \A g \in PHead : QueueOf'[g] = IF g = h THEN QueueOf[g] \cup {u} ELSE QueueOf[g]
    BY DEF QueueOf
  <1>4. plink' = InsertBefore(plink, h, u)
    BY DEF sched_ins
  <1> HIDE DEF h
  <1>5. Lists(PNode, InsertBefore(plink, h, u), PHead, QueueOf')
    <2> DEFINE L == QueueOf'
               M == QueueOf
    <2>1. Lists(PNode, plink, PHead, M)
      BY DEF ReadyLists
    <2>2. /\ \A g \in PHead : u \notin M[g]
          /\ \A g \in PHead : L[g] = IF g = h THEN M[g] \cup {u} ELSE M[g]
      BY <1>2, <1>3
    <2> HIDE DEF L, M
    <2>3. Lists(PNode, InsertBefore(plink, h, u), PHead, L)
      BY <1>1, <2>1, <2>2, ListsInsertBefore
    <2>4. QED
      BY <2>3 DEF L
  <1>6. QED
    BY <1>4, <1>5 DEF ReadyLists

\* A task that stops being ready is unlinked.
LEMMA ReadyUnlinked ==
  ASSUME TypeOK, ReadyLists, NEW u \in Task, IsReady(u), ~IsReady(u)',
         plink' = Unlink(plink, u), tskpri' = tskpri,
         \A t \in Task : t # u => (IsReady(t)' <=> IsReady(t))
  PROVE  ReadyLists'
  <1> DEFINE h == tsk_pri(tskpri[u])
  <1>1. plink \in Ring(PNode) /\ h \in PHead
    BY ReadyNodes DEF TypeOK
  <1>2. u \in QueueOf[h]
    BY <1>1 DEF QueueOf
  <1>3. \A g \in PHead : QueueOf'[g] = IF g = h THEN QueueOf[g] \ {u} ELSE QueueOf[g]
    BY DEF QueueOf
  <1> HIDE DEF h
  <1>4. Lists(PNode, Unlink(plink, u), PHead, QueueOf')
    <2> DEFINE L == QueueOf'
               M == QueueOf
    <2>1. Lists(PNode, plink, PHead, M) /\ u \in M[h]
      BY <1>2 DEF ReadyLists
    <2>2. \A g \in PHead : L[g] = IF g = h THEN M[g] \ {u} ELSE M[g]
      BY <1>3
    <2> HIDE DEF L, M
    <2>3. Lists(PNode, Unlink(plink, u), PHead, L)
      BY <1>1, <2>1, <2>2, ListsUnlink
    <2>4. QED
      BY <2>3 DEF L
  <1>5. QED
    BY <1>4 DEF ReadyLists

\* A step that makes no task ready or not ready leaves the queues as they are.
LEMMA ReadySame ==
  ASSUME ReadyLists, plink' = plink, tskpri' = tskpri,
         \A t \in Task : IsReady(t)' <=> IsReady(t)
  PROVE  ReadyLists'
  <1>1. QueueOf' = QueueOf
    BY DEF QueueOf
  <1>2. QED
    BY <1>1 DEF ReadyLists

\* The scan of a CPU finds its idle task.
LEMMA IdleFound ==
  ASSUME TypeOK, RunIsCurrent, ReadyLists, IdleKept, Idle # {},
         \A t \in Idle : proc_cpu[t] = home[t]
  PROVE  IdleReady
  <1> SUFFICES ASSUME NEW c \in Cpu
               PROVE  \E p \in Pri, t \in Idle :
                        /\ \E i \in 1 .. Len(Walk(plink, tsk_pri(p))) :
                             Walk(plink, tsk_pri(p))[i] = t
                        /\ proc_cpu[t] = c
                        /\ tskstat[t] = "RDY" \/ (t = Cur(c) /\ tskstat[t] = "RUN")
    BY DEF IdleReady
  <1>1. PICK t \in Idle : home[t] = c
    BY IdleAssumption
  <1>2. t \in Task /\ proc_cpu[t] = c /\ IsReady(t)
    BY <1>1, TaskAssumption DEF IdleKept
  <1>3. tskstat[t] = "RDY" \/ (t = Cur(c) /\ tskstat[t] = "RUN")
    BY <1>2 DEF IsReady, RunIsCurrent
  <1> DEFINE h == tsk_pri(tskpri[t])
  <1>4. tskpri[t] \in Pri /\ h \in PHead /\ h \in PNode /\ plink \in Ring(PNode)
    BY <1>2, ReadyNodes DEF TypeOK
  <1>5. t \in QueueOf[h]
    BY <1>2, <1>4 DEF QueueOf
  <1>6. IsList(PNode, plink, h, QueueOf[h])
    BY <1>4 DEF ReadyLists, Lists
  <1>7. QueueOf[h] = {Walk(plink, h)[i] : i \in 1 .. Len(Walk(plink, h))}
    BY <1>4, <1>6, ReadyNodes, ListWalk
  <1>8. \E i \in 1 .. Len(Walk(plink, h)) : Walk(plink, h)[i] = t
    BY <1>5, <1>7
  <1>9. QED
    BY <1>1, <1>2, <1>3, <1>4, <1>8

QInv == IInv /\ Replaceable /\ ReadyLists /\ IdleKept

\* The running task of a CPU in user mode is no idle task if it goes to sleep.
LEMMA SleeperIsNotIdle ==
  ASSUME NEW c \in Cpu, Idle # {},
         NEW call \in {"slp_tsk", "tslp_tsk", "dly_tsk"}, Trap(c, call, Cur(c))
  PROVE  Cur(c) \notin Idle
  BY IdleAssumption DEF Trap

\* Putting the running task to sleep.
LEMMA BlockReady ==
  ASSUME TypeOK, ReadyLists, IdleKept, NEW t \in Task, IsReady(t), t \notin Idle,
         Block(t), tskpri' = tskpri
  PROVE  ReadyLists' /\ IdleKept'
  <1>1. tskstat' = [tskstat EXCEPT ![t] = "WAI"] /\ plink' = Unlink(plink, t)
    BY DEF Block
  <1>2. ~IsReady(t)' /\ \A u \in Task : u # t => (IsReady(u)' <=> IsReady(u))
    BY <1>1 DEF IsReady, TypeOK
  <1>3. ReadyLists'
    BY <1>1, <1>2, ReadyUnlinked
  <1>4. IdleKept'
    BY <1>2, TaskAssumption DEF IdleKept
  <1>5. QED
    BY <1>3, <1>4

\* A system call keeps the ready queues and the idle tasks in them.
LEMMA SystemCallReady ==
  ASSUME TypeOK, ReadyLists, IdleKept, Idle # {}, NEW c \in Cpu, IsReady(Cur(c)),
         SystemCall(c)
  PROVE  ReadyLists' /\ IdleKept'
  <1>0. Cur(c) \in Task
    BY DEF TypeOK
  <1>a. Idle \subseteq Task
    BY TaskAssumption
  <1>b. ASSUME UNCHANGED readyVars, tskpri' = tskpri
        PROVE  ReadyLists' /\ IdleKept'
    BY <1>b, ReadySame DEF readyVars, IsReady, IdleKept
  <1>1. CASE slp_tsk(c)
    <2>1. Cur(c) \notin Idle /\ tskpri' = tskpri
      BY <1>1, SleeperIsNotIdle DEF slp_tsk, tcbVars
    <2>2. QED
      BY <1>0, <1>1, <1>b, <2>1, BlockReady DEF slp_tsk, sys_slp_tsk, TakeWakeup
  <1>2. CASE tslp_tsk(c)
    <2>1. Cur(c) \notin Idle /\ tskpri' = tskpri
      BY <1>2, SleeperIsNotIdle DEF tslp_tsk, tcbVars
    <2>2. QED
      BY <1>0, <1>2, <1>b, <2>1, BlockReady DEF tslp_tsk, sys_tslp_tsk, TakeWakeup
  <1>3. CASE dly_tsk(c)
    <2>1. Cur(c) \notin Idle /\ tskpri' = tskpri
      BY <1>3, SleeperIsNotIdle DEF dly_tsk, tcbVars
    <2>2. QED
      BY <1>0, <1>3, <1>b, <2>1, BlockReady DEF dly_tsk
  <1>4. ASSUME NEW u \in Task, wup_tsk(c, u)
        PROVE  ReadyLists' /\ IdleKept'
    <2>1. tskpri' = tskpri
      BY <1>4 DEF wup_tsk, tcbVars
    <2>2. CASE WakeUp(c, u)
      <3>1. /\ tskstat[u] = "WAI" /\ sched_ins(u)
            /\ tskstat' = [tskstat EXCEPT ![u] = "RDY", ![Cur(c)] = "RDY"]
        BY <2>2 DEF WakeUp
      <3>2. ~IsReady(u) /\ IsReady(u)' /\ \A t \in Task : t # u => (IsReady(t)' <=> IsReady(t))
        BY <1>0, <3>1 DEF IsReady, TypeOK
      <3>3. ReadyLists'
        BY <2>1, <3>1, <3>2, ReadyLinked
      <3>4. QED
        BY <1>a, <3>2, <3>3 DEF IdleKept
    <2>3. CASE QueueWakeup(c, u) \/ RefuseWakeup(c, u)
      BY <1>b, <2>1, <2>3 DEF QueueWakeup, RefuseWakeup
    <2>4. QED
      BY <1>4, <2>2, <2>3 DEF wup_tsk
  <1>5. ASSUME NEW u \in Task, can_wup(c, u)
        PROVE  ReadyLists' /\ IdleKept'
    BY <1>5, <1>b DEF can_wup, tcbVars
  <1>6. ASSUME NEW u \in Task, act_tsk(c, u)
        PROVE  ReadyLists' /\ IdleKept'
    <2>1. tskpri' = tskpri
      BY <1>6 DEF act_tsk
    <2>2. CASE UNCHANGED readyVars
      BY <1>b, <2>1, <2>2
    <2>3. CASE /\ tskstat[u] = "DMT" /\ sched_ins(u)
               /\ tskstat' = [tskstat EXCEPT ![u] = "RDY"]
      <3>1. ~IsReady(u) /\ IsReady(u)' /\ \A t \in Task : t # u => (IsReady(t)' <=> IsReady(t))
        BY <2>3 DEF IsReady, TypeOK
      <3>2. ReadyLists'
        BY <2>1, <2>3, <3>1, ReadyLinked
      <3>3. QED
        BY <1>a, <3>1, <3>2 DEF IdleKept
    <2>4. QED
      BY <1>6, <2>2, <2>3 DEF act_tsk
  <1>7. QED
    BY <1>1, <1>2, <1>3, <1>4, <1>5, <1>6 DEF SystemCall

\* What the dispatcher marks RUN was in a ready queue.
LEMMA DispatcherReady ==
  ASSUME TypeOK, ReadyLists, NEW c \in Cpu, sched_do_next_tsk(c)
  PROVE  \A t \in Task : IsReady(t)' <=> IsReady(t)
  <1>1. CASE UNCHANGED tskstat
    BY <1>1 DEF IsReady
  <1>2. ASSUME NEW p \in Pri, NEW i \in Runnable(c, p), NEW t \in Task,
               t = Walk(plink, tsk_pri(p))[i], Switch(c, t)
        PROVE  \A u \in Task : IsReady(u)' <=> IsReady(u)
    <2>1. IsReady(t)
      BY <1>2 DEF Runnable, IsReady
    <2>2. tskstat' = [u \in Task |-> IF u = t THEN "RUN"
                                    ELSE IF u = Cur(c) /\ tskstat[u] = "RUN" THEN "RDY"
                                    ELSE tskstat[u]]
      BY <1>2 DEF Switch
    <2>3. QED
      BY <2>1, <2>2 DEF IsReady
  <1>3. QED
    BY <1>1, <1>2 DEF sched_do_next_tsk

\* An interrupt and the steps of a CPU in the kernel keep them too.
LEMMA KernelReady ==
  ASSUME TypeOK, ReadyLists, IdleKept, NEW c \in Cpu, Interrupt(c) \/ Kernel(c)
  PROVE  ReadyLists' /\ IdleKept'
  <1>a. Idle \subseteq Task
    BY TaskAssumption
  <1>b. ASSUME plink' = plink, tskpri' = tskpri, \A t \in Task : IsReady(t)' <=> IsReady(t)
        PROVE  ReadyLists' /\ IdleKept'
    BY <1>a, <1>b, ReadySame DEF IdleKept
  <1>1. CASE irq0(c) \/ apic_timer(c) \/ tick_done(c) \/ store_ret(c)
             \/ intr_leave(c) \/ clear_flag(c)
    <2>1. UNCHANGED <<plink, tskstat, tskpri>>
      BY <1>1 DEF irq0, apic_timer, tick_done, store_ret, intr_leave, clear_flag,
         readyVars, tcbVars
    <2>2. QED
      BY <1>b, <2>1 DEF IsReady
  <1>2. CASE sched_timeout(c)
    <2>1. tskpri' = tskpri
      BY <1>2 DEF sched_timeout, tcbVars
    <2>2. FirstTimeout \in Task
      BY <1>2, Nodes DEF TypeOK, sched_timeout, Expired, FirstTimeout, Ring, TNode
    <2>3. CASE TimeOutTask(FirstTimeout)
      <3>1. PICK u \in Task : u = FirstTimeout
        BY <2>2
      <3>2. /\ tskstat[u] = "WAI" /\ sched_ins(u)
            /\ tskstat' = [tskstat EXCEPT ![u] = "RDY"]
        BY <2>3, <3>1 DEF TimeOutTask
      <3>3. ~IsReady(u) /\ IsReady(u)' /\ \A t \in Task : t # u => (IsReady(t)' <=> IsReady(t))
        BY <3>2 DEF IsReady, TypeOK
      <3>4. ReadyLists'
        BY <2>1, <3>2, <3>3, ReadyLinked
      <3>5. QED
        BY <1>a, <3>3, <3>4 DEF IdleKept
    <2>4. CASE UNCHANGED <<tskstat, plink>>
      BY <1>b, <2>1, <2>4 DEF IsReady
    <2>5. QED
      BY <1>2, <2>3, <2>4 DEF sched_timeout
  <1>3. CASE sched_do_next_tsk(c)
    BY <1>3, <1>b, DispatcherReady DEF sched_do_next_tsk, tcbVars
  <1>4. QED
    BY <1>1, <1>2, <1>3 DEF Interrupt, Kernel

\* proc_init leaves the queues in order and the idle tasks in theirs.
LEMMA ReadyInit ==
  ASSUME TasksInit
  PROVE  ReadyLists /\ IdleKept
  <1>1. \A t \in Task : IsReady(t) <=> Booted(t)
    BY DEF TasksInit, IsReady, Booted
  <1>2. TypeOK
    BY TypeInit
  <1>3. ReadyQueuesExact
    <2>1. ASSUME NEW p \in Pri
          PROVE  HoldsExactly(plink, tsk_pri(p),
                    {t \in Task : tskpri[t] = p /\ tskstat[t] \in {"RDY", "RUN"}})
      <3>1. plink = bootLinks /\ tskpri = itskpri
        BY DEF TasksInit
      <3>2. {t \in Task : tskpri[t] = p /\ tskstat[t] \in {"RDY", "RUN"}}
              = {t \in Task : itskpri[t] = p /\ Booted(t)}
        BY <1>1, <3>1 DEF IsReady
      <3>3. QED
        BY <3>1, <3>2, BootAssumption
    <2>2. QED
      BY <2>1 DEF ReadyQueuesExact
  <1>4. ReadyLists
    BY <1>2, <1>3, ReadyListsExact DEF TypeOK
  <1>5. IdleKept
    BY <1>1, TaskAssumption DEF IdleKept, Booted
  <1>6. QED
    BY <1>4, <1>5

\* With idle tasks, the whole invariant is inductive.
LEMMA QueueInvariance == Idle # {} /\ TasksSpec => []QInv
  <1> SUFFICES ASSUME Idle # {} PROVE TasksSpec => []QInv
    OBVIOUS
  <1>1. TasksInit => QInv
    <2> SUFFICES ASSUME TasksInit PROVE QInv
      OBVIOUS
    <2>1. IInv
      BY InvInit
    <2>2. Replaceable
      BY CpuAssumption DEF TasksInit, Replaceable
    <2>3. QED
      BY <2>1, <2>2, ReadyInit DEF QInv
  <1>2. QInv /\ [TasksNext]_vars => QInv'
    <2> SUFFICES ASSUME QInv, [TasksNext]_vars PROVE QInv'
      OBVIOUS
    <2>1. IInv'
      BY InvStep DEF QInv
    <2>2. IdleReady
      BY IdleFound, TaskAssumption DEF QInv, IInv, Placed
    <2>3. CASE TasksNext
      <3> PICK c \in Cpu : SystemCall(c) \/ Interrupt(c) \/ Kernel(c)
        BY <2>3 DEF TasksNext
      <3>1. Replaceable'
        BY <2>2, SystemCallReplaceable, KernelReplaceable DEF QInv, IInv
      <3>2. ReadyLists' /\ IdleKept'
        <4>1. ASSUME SystemCall(c)
              PROVE  IsReady(Cur(c))
          <5>1. pc[c] = "user"
            BY <4>1 DEF SystemCall, slp_tsk, tslp_tsk, dly_tsk, wup_tsk, can_wup, act_tsk,
               Trap
          <5>2. QED
            BY <5>1 DEF QInv, Replaceable, IsReady
        <4>2. QED
          BY <4>1, SystemCallReady, KernelReady DEF QInv, IInv
      <3>3. QED
        BY <2>1, <3>1, <3>2 DEF QInv
    <2>4. CASE UNCHANGED vars
      <3>1. Replaceable'
        BY <2>4 DEF vars, readyVars, Replaceable, QInv
      <3>2. ReadyLists' /\ IdleKept'
        BY <2>4, ReadySame DEF vars, readyVars, tcbVars, IsReady, IdleKept, QInv
      <3>3. QED
        BY <2>1, <3>1, <3>2 DEF QInv
    <2>5. QED
      BY <2>3, <2>4
  <1>3. QED
    BY <1>1, <1>2, PTL DEF TasksSpec

\* Every ready queue holds exactly the tasks that are ready at its priority,
\* once each, whatever the tasks and the interrupts do (sched_ins, sched_rem
\* and sched_do_next_tsk, kernel/sched.c:24-134).
THEOREM ReadyQueuesCorrect == Idle # {} /\ TasksSpec => []ReadyQueuesExact
  <1>1. QInv => ReadyQueuesExact
    BY ReadyListsExact DEF QInv, IInv, TypeOK
  <1>2. QED
    BY <1>1, QueueInvariance, PTL

\* The scan of a CPU always finds a task: the idle tasks stay ready and linked
\* (smp-basics.md:692).
THEOREM IdleAlwaysReady == Idle # {} /\ TasksSpec => []IdleReady
  <1> SUFFICES ASSUME Idle # {} PROVE TasksSpec => []IdleReady
    OBVIOUS
  <1>1. QInv => IdleReady
    BY IdleFound, TaskAssumption DEF QInv, IInv, Placed
  <1>2. QED
    BY <1>1, QueueInvariance, PTL

\* With idle tasks no CPU executes a task that is not RUN: there are no ghosts
\* (kernel/user.c:19), whatever the tasks do.
THEOREM NoGhosts == Idle # {} /\ TasksSpec => []NoGhost
  <1>1. QInv => NoGhost
    BY DEF QInv, Replaceable, NoGhost
  <1>2. QED
    BY <1>1, QueueInvariance, PTL

-----------------------------------------------------------------------------
(***************************************************************************)
(* The timeout queue.  A task is in it while its link is not to itself, and *)
(* only a task that runs enters it.                                        *)
(***************************************************************************)
TimedTasks == Linked(TNode, tlink, TimeoutHead)

TimeoutList ==
  /\ IsList(TNode, tlink, TimeoutHead, TimedTasks)
  /\ \A t \in Task : Timed(t) => tskstat[t] = "WAI"

LEMMA TimeoutNodes ==
  /\ TNode \ {TimeoutHead} = Task
  /\ IsFiniteSet(TNode)
  /\ TimedTasks = {t \in Task : Timed(t)}
  <1>1. TimeoutHead \notin Task
    BY TaskAssumption DEF TimeoutHead
  <1>2. IsFiniteSet(TNode)
    BY FiniteAssumption, FS_Singleton, FS_Union DEF TNode
  <1>3. TNode \ {TimeoutHead} = Task
    BY <1>1 DEF TNode
  <1>4. QED
    BY <1>2, <1>3 DEF TimedTasks, Linked, Timed

\* Whatever Position finds, it is the head or an entry of the queue.
LEMMA PositionInQueue ==
  ASSUME TypeOK, TimeoutList, NEW t, NEW tmout, NEW y, NEW d,
         Position(t, tmout) = [before |-> y, left |-> d]
  PROVE  y \in TimedTasks \cup {TimeoutHead}
  <1> DEFINE w == Walk(tlink, TimeoutHead)
             left == CHOOSE left : left = [i \in 0 .. Len(w) |->
                       IF i = 0 THEN tmout ELSE left[i - 1] - delta[w[i]]]
             stops == {i \in 1 .. Len(w) : w[i] = t \/ delta[w[i]] >= left[i - 1]}
  <1>1. Position(t, tmout) =
          IF stops = {} THEN [before |-> TimeoutHead, left |-> left[Len(w)]]
          ELSE [before |-> w[Min(stops)], left |-> left[Min(stops) - 1]]
    BY DEF Position
  <1>2. /\ Len(w) \in Nat
        /\ TimedTasks = {w[i] : i \in 1 .. Len(w)}
    <2>1. /\ TimeoutHead \in TNode /\ tlink \in Ring(TNode) /\ IsFiniteSet(TNode)
          /\ IsList(TNode, tlink, TimeoutHead, TimedTasks)
      BY TimeoutNodes DEF TypeOK, TimeoutList, TNode
    <2>2. QED
      BY <2>1, ListWalk
  <1> HIDE DEF w, left
  <1>3. stops # {} => Min(stops) \in 1 .. Len(w)
    <2>1. stops \subseteq Nat
      BY <1>2
    <2> SUFFICES ASSUME stops # {} PROVE Min(stops) \in stops
      BY <1>2
    <2>2. PICK m \in stops : \A k \in stops : m <= k
      <3> HIDE DEF stops
      <3>1. QED
        BY <2>1, Least
    <2> HIDE DEF stops
    <2>3. QED
      BY <2>2 DEF Min
  <1>4. CASE stops = {}
    BY <1>1, <1>4
  <1>5. CASE stops # {}
    <2>1. y = w[Min(stops)]
      BY <1>1, <1>5
    <2> HIDE DEF stops
    <2>2. QED
      BY <1>2, <1>3, <1>5, <2>1
  <1>6. QED
    BY <1>4, <1>5

\* A task that enters the queue.
LEMMA TimeoutEntered ==
  ASSUME TypeOK, TimeoutList, NEW t \in Task, ~Timed(t), NEW tmout,
         sched_timeout_ins(t, tmout)
  PROVE  /\ IsList(TNode, tlink', TimeoutHead, TimedTasks')
         /\ TimedTasks' = TimedTasks \cup {t}
  <1>1. PICK y \in TNode, d \in 0 .. TmoMod - 1 :
          /\ Position(t, tmout) = [before |-> y, left |-> d]
          /\ tlink' = InsertAfter(tlink, tlink.prev[y], t)
    BY DEF sched_timeout_ins
  <1>2. y \in TimedTasks \cup {TimeoutHead}
    BY <1>1, PositionInQueue
  <1>3. PICK p \in TimedTasks \cup {TimeoutHead} : p = tlink.prev[y]
    BY <1>2, ListLinks DEF TimeoutList, ListFacts
  <1>4. tlink \in Ring(TNode) /\ TimeoutHead \in TNode /\ t \in TNode \ {TimeoutHead}
    BY TimeoutNodes, Nodes DEF TypeOK
  <1> DEFINE S == TimedTasks
  <1>5. /\ Linked(TNode, tlink', TimeoutHead)
             = Linked(TNode, tlink, TimeoutHead) \cup {t}
        /\ IsList(TNode, tlink', TimeoutHead, Linked(TNode, tlink', TimeoutHead))
    BY <1>1, <1>3, <1>4, MarkedInsert DEF TimeoutList, TimedTasks, Timed
  <1>6. QED
    BY <1>5 DEF TimedTasks

\* A task that leaves the queue.
LEMMA TimeoutLeft ==
  ASSUME TypeOK, TimeoutList, NEW t \in TimedTasks, tlink' = UnlinkToSelf(tlink, t)
  PROVE  /\ IsList(TNode, tlink', TimeoutHead, TimedTasks')
         /\ TimedTasks' = TimedTasks \ {t}
  <1>1. tlink \in Ring(TNode) /\ TimeoutHead \in TNode
    BY Nodes DEF TypeOK
  <1>2. /\ Linked(TNode, tlink', TimeoutHead)
             = Linked(TNode, tlink, TimeoutHead) \ {t}
        /\ IsList(TNode, tlink', TimeoutHead, Linked(TNode, tlink', TimeoutHead))
    BY <1>1, MarkedRemove DEF TimeoutList, TimedTasks
  <1>3. QED
    BY <1>2 DEF TimedTasks

\* A step that leaves the queue and the sleepers in it alone.
LEMMA TimeoutSame ==
  ASSUME TimeoutList, tlink' = tlink,
         \A t \in Task : tskstat[t] = "WAI" => tskstat'[t] = "WAI"
  PROVE  TimeoutList'
  BY DEF TimeoutList, TimedTasks, Timed

\* The first entry is an entry.
LEMMA FirstIsTimed ==
  ASSUME TypeOK, TimeoutList, FirstTimeout # TimeoutHead
  PROVE  FirstTimeout \in TimedTasks
  BY ListLinks DEF TimeoutList, ListFacts, FirstTimeout

\* The running task goes to sleep with a time-out.
LEMMA BlockTimed ==
  ASSUME TypeOK, TimeoutList, NEW t \in Task, tskstat[t] = "RUN", NEW tmout,
         Block(t), sched_timeout_ins(t, tmout)
  PROVE  TimeoutList'
  <1>1. ~Timed(t)
    BY DEF TimeoutList
  <1>2. /\ IsList(TNode, tlink', TimeoutHead, TimedTasks')
        /\ TimedTasks' = TimedTasks \cup {t}
    BY <1>1, TimeoutEntered
  <1>3. \A u \in Task : Timed(u)' => Timed(u) \/ u = t
    <2>1. TimedTasks' = {u \in Task : Timed(u)'}
      BY TimeoutNodes DEF TimedTasks, Linked, Timed
    <2>2. QED
      BY <1>2, <2>1, TimeoutNodes
  <1>4. tskstat' = [tskstat EXCEPT ![t] = "WAI"]
    BY DEF Block
  <1>5. QED
    BY <1>2, <1>3, <1>4 DEF TimeoutList, TypeOK

\* A task that sleeps or waits is made ready, and leaves the queue.
LEMMA WokenTimed ==
  ASSUME TypeOK, TimeoutList, NEW t \in Task,
         \/ t \in TimedTasks /\ tlink' = UnlinkToSelf(tlink, t)
         \/ t \notin TimedTasks /\ tlink' = tlink,
         \A u \in Task \ {t} : tskstat[u] = "WAI" => tskstat'[u] = "WAI"
  PROVE  TimeoutList'
  <1>1. /\ IsList(TNode, tlink', TimeoutHead, TimedTasks')
        /\ TimedTasks' = TimedTasks \ {t}
    <2>1. CASE t \in TimedTasks /\ tlink' = UnlinkToSelf(tlink, t)
      BY <2>1, TimeoutLeft
    <2>2. CASE t \notin TimedTasks /\ tlink' = tlink
      BY <2>2 DEF TimeoutList, TimedTasks
    <2>3. QED
      BY <2>1, <2>2
  <1>2. \A u \in Task : Timed(u)' => Timed(u) /\ u # t
    <2>1. TimedTasks' = {u \in Task : Timed(u)'}
      BY TimeoutNodes DEF TimedTasks, Linked, Timed
    <2>2. QED
      BY <1>1, <2>1, TimeoutNodes
  <1>3. QED
    BY <1>1, <1>2 DEF TimeoutList

\* sched_timeout_rem_if_exist unlinks its task, or finds it in no queue.
LEMMA RemTimeoutLinks ==
  ASSUME TypeOK, NEW t \in Task, sched_timeout_rem(t)
  PROVE  \/ t \in TimedTasks /\ tlink' = UnlinkToSelf(tlink, t)
         \/ t \notin TimedTasks /\ tlink' = tlink
  BY TimeoutNodes DEF sched_timeout_rem, RemTimeout, Timed

LEMMA SystemCallTimed ==
  ASSUME QInv, TimeoutList, NEW c \in Cpu, SystemCall(c)
  PROVE  TimeoutList'
  <1> USE DEF QInv, IInv
  <1>0. Cur(c) \in Task /\ tskstat[Cur(c)] = "RUN"
    <2>1. pc[c] = "user"
      BY DEF SystemCall, slp_tsk, tslp_tsk, dly_tsk, wup_tsk, can_wup, act_tsk, Trap
    <2>2. QED
      BY <2>1 DEF Replaceable, TypeOK
  <1>b. ASSUME UNCHANGED readyVars, UNCHANGED timeVars
        PROVE  TimeoutList'
    BY <1>b, TimeoutSame DEF readyVars, timeVars
  <1>1. CASE slp_tsk(c)
    <2>1. CASE Block(Cur(c)) /\ UNCHANGED timeVars
      BY <1>0, <2>1, TimeoutSame DEF Block, TypeOK, timeVars
    <2>2. QED
      BY <1>1, <1>b, <2>1 DEF slp_tsk, sys_slp_tsk, TakeWakeup
  <1>2. CASE tslp_tsk(c)
    BY <1>0, <1>2, <1>b, BlockTimed DEF tslp_tsk, sys_tslp_tsk, TakeWakeup
  <1>3. CASE dly_tsk(c)
    BY <1>0, <1>3, <1>b, BlockTimed DEF dly_tsk
  <1>4. ASSUME NEW u \in Task, wup_tsk(c, u)
        PROVE  TimeoutList'
    <2>1. CASE WakeUp(c, u)
      <3>1. /\ tskstat' = [tskstat EXCEPT ![u] = "RDY", ![Cur(c)] = "RDY"]
            /\ sched_timeout_rem(u)
        BY <2>1 DEF WakeUp
      <3>2. \A t \in Task \ {u} : tskstat[t] = "WAI" => tskstat'[t] = "WAI"
        BY <1>0, <3>1 DEF TypeOK
      <3>3. QED
        BY <3>1, <3>2, RemTimeoutLinks, WokenTimed
    <2>2. CASE QueueWakeup(c, u) \/ RefuseWakeup(c, u)
      BY <1>b, <2>2 DEF QueueWakeup, RefuseWakeup
    <2>3. QED
      BY <1>4, <2>1, <2>2 DEF wup_tsk
  <1>5. ASSUME NEW u \in Task, can_wup(c, u)
        PROVE  TimeoutList'
    BY <1>5, <1>b DEF can_wup
  <1>6. ASSUME NEW u \in Task, act_tsk(c, u)
        PROVE  TimeoutList'
    BY <1>6, TimeoutSame DEF act_tsk, readyVars, timeVars, TypeOK
  <1>7. QED
    BY <1>1, <1>2, <1>3, <1>4, <1>5, <1>6 DEF SystemCall

LEMMA KernelTimed ==
  ASSUME QInv, TimeoutList, NEW c \in Cpu, Interrupt(c) \/ Kernel(c)
  PROVE  TimeoutList'
  <1> USE DEF QInv, IInv
  <1>1. CASE irq0(c) \/ apic_timer(c) \/ tick_done(c) \/ store_ret(c)
             \/ intr_leave(c) \/ clear_flag(c)
    <2>1. UNCHANGED <<tlink, tskstat>>
      BY <1>1 DEF irq0, apic_timer, tick_done, store_ret, intr_leave, clear_flag,
         readyVars, timeVars
    <2>2. QED
      BY <2>1, TimeoutSame
  <1>2. CASE sched_timeout(c)
    <2>1. PICK u \in TimedTasks : u = FirstTimeout
      BY <1>2, FirstIsTimed DEF sched_timeout, Expired
    <2>2. u \in Task /\ tlink' = UnlinkToSelf(tlink, u)
      BY <1>2, <2>1, TimeoutNodes DEF sched_timeout
    <2>3. \A t \in Task \ {u} : tskstat[t] = "WAI" => tskstat'[t] = "WAI"
      BY <1>2, <2>1, <2>2 DEF sched_timeout, TimeOutTask, TypeOK
    <2>4. QED
      BY <2>2, <2>3, WokenTimed
  <1>3. CASE sched_do_next_tsk(c)
    <2>1. \A t \in Task : IsReady(t)' <=> IsReady(t)
      BY <1>3, DispatcherReady
    <2>2. tlink' = tlink
      BY <1>3 DEF sched_do_next_tsk, timeVars
    <2>3. \A t \in Task : tskstat[t] = "WAI" => tskstat'[t] = "WAI"
      <3>1. CASE UNCHANGED tskstat
        BY <3>1
      <3>2. ASSUME NEW t \in Task, IsReady(t), Switch(c, t)
            PROVE  \A u \in Task : tskstat[u] = "WAI" => tskstat'[u] = "WAI"
        BY <3>2 DEF Switch, IsReady
      <3>3. QED
        BY <1>3, <3>1, <3>2 DEF sched_do_next_tsk, Runnable, IsReady
    <2>4. QED
      BY <2>2, <2>3, TimeoutSame
  <1>4. QED
    BY <1>1, <1>2, <1>3 DEF Interrupt, Kernel

LEMMA TimeoutInit ==
  ASSUME TasksInit
  PROVE  TimeoutList
  <1>1. TypeOK
    BY TypeInit
  <1>2. tlink = SelfLinked(TNode)
    BY DEF TasksInit
  <1>3. \A n \in TNode : tlink.next[n] = n /\ tlink.prev[n] = n
    BY <1>2 DEF SelfLinked
  <1>4. TimedTasks = {}
    BY <1>3 DEF TimedTasks, Linked, InQueue
  <1>5. IsList(TNode, tlink, TimeoutHead, {})
    <2> DEFINE s == [i \in 0 .. 1 |-> TimeoutHead]
    <2>1. TimeoutHead \in TNode
      BY Nodes
    <2>2. Thread(TNode, tlink, TimeoutHead, 0, s)
      BY <1>3, <2>1 DEF Thread
    <2>3. Threaded(0, s) = {}
      BY DEF Threaded
    <2> HIDE DEF s
    <2>4. QED
      BY <2>2, <2>3 DEF IsList
  <1>6. QED
    BY <1>4, <1>5, TimeoutNodes DEF TimeoutList

LEMMA TimeoutInvariance == Idle # {} /\ TasksSpec => [](QInv /\ TimeoutList)
  <1> SUFFICES ASSUME Idle # {} PROVE TasksSpec => [](QInv /\ TimeoutList)
    OBVIOUS
  <1>1. QInv /\ TimeoutList /\ [TasksNext]_vars => TimeoutList'
    <2> SUFFICES ASSUME QInv, TimeoutList, [TasksNext]_vars PROVE TimeoutList'
      OBVIOUS
    <2>1. CASE TasksNext
      BY <2>1, SystemCallTimed, KernelTimed DEF TasksNext
    <2>2. CASE UNCHANGED vars
      BY <2>2, TimeoutSame DEF vars, readyVars, timeVars
    <2>3. QED
      BY <2>1, <2>2
  <1>2. TasksSpec => []QInv
    BY QueueInvariance
  <1>3. QED
    BY <1>1, <1>2, TimeoutInit, PTL DEF TasksSpec

\* No service leaves a task in the timeout queue that no longer waits, and the
\* queue and the marks in the tasks agree (kernel/sched.c:137-253).
THEOREM TimeoutQueueCorrect == Idle # {} /\ TasksSpec => []TimeoutQueueExact
  <1>1. QInv /\ TimeoutList => TimeoutQueueExact
    BY TimeoutNodes, ListHolds DEF QInv, IInv, TypeOK, TimeoutList, TimeoutQueueExact,
       TNode
  <1>2. QED
    BY <1>1, TimeoutInvariance, PTL

-----------------------------------------------------------------------------
(***************************************************************************)
(* The deltas.  The time left of an entry is a sum along the queue; D says *)
(* the same of each entry and the one before it, which is all that a step  *)
(* of the kernel touches.                                                  *)
(***************************************************************************)
IsDue(r, d, S, D) ==
  /\ D[TimeoutHead] = 0
  /\ \A x \in S : x \in Task /\ D[x] \in Int /\ D[x] = D[r.prev[x]] + d[x]

\* The sum spelt out along the thread s of the queue.
DueRun(r, d, S, n, s, g) ==
  /\ Thread(TNode, r, TimeoutHead, n, s) /\ S = Threaded(n, s)
  /\ g \in [0 .. n -> Int] /\ g[0] = 0
  /\ \A i \in 1 .. n : s[i] \in Task /\ g[i] = g[i - 1] + d[s[i]]
  /\ \A i \in 1 .. n : DueIn(r, d, s[i]) = g[i]

LEMMA DueSum ==
  ASSUME NEW r \in Ring(TNode), NEW S, IsList(TNode, r, TimeoutHead, S),
         NEW d \in [Task -> Int]
  PROVE  \E n, s, g : DueRun(r, d, S, n, s, g)
  <1>1. PICK n, s : Thread(TNode, r, TimeoutHead, n, s) /\ S = Threaded(n, s)
    BY DEF IsList
  <1>2. n \in Nat /\ \A i \in 1 .. n : s[i] \in Task
    <2>1. n \in Nat /\ s \in [0 .. n + 1 -> TNode] /\ s[0] = TimeoutHead
      BY <1>1 DEF Thread
    <2>2. \A i \in 1 .. n : i \in 0 .. n /\ i # 0 /\ i \in 0 .. n + 1
      BY <2>1
    <2>3. 0 \in 0 .. n
      BY <2>1
    <2>4. \A i \in 1 .. n : s[i] # TimeoutHead
      BY <1>1, <2>1, <2>2, <2>3 DEF Thread
    <2>5. QED
      BY <2>1, <2>2, <2>4, TimeoutNodes
  <1> DEFINE w == Walk(r, TimeoutHead)
             sum == CHOOSE sum : sum = [i \in 0 .. Len(w) |->
                      IF i = 0 THEN 0 ELSE sum[i - 1] + d[w[i]]]
             e == [i \in 1 .. n |-> d[s[i]]]
  <1>3. Len(w) = n /\ \A i \in 1 .. n : w[i] = s[i]
    <2>1. w = [i \in 1 .. n |-> s[i]]
      BY <1>1, ThreadWalk, TimeoutNodes, Nodes
    <2> HIDE DEF w
    <2>2. QED
      BY <1>2, <2>1
  <1>4. \A t : DueIn(r, d, t) = sum[CHOOSE i \in 1 .. Len(w) : w[i] = t]
    BY DEF DueIn
  <1>5. PICK g : IsSum(g, n, 0, e)
    <2>1. e \in [1 .. n -> Int]
      BY <1>2
    <2> HIDE DEF e
    <2>2. PICK z \in Int : z = 0
      OBVIOUS
    <2>3. \E g : IsSum(g, n, z, e)
      BY <1>2, <2>1, Sums
    <2>4. QED
      BY <2>2, <2>3
  <1>6. \A i \in 1 .. n : e[i] = d[w[i]]
    <2> HIDE DEF w
    <2>1. QED
      BY <1>3
  <1> HIDE DEF w, e
  <1>7. sum = [i \in 0 .. n |-> IF i = 0 THEN 0 ELSE sum[i - 1] + d[w[i]]]
    <2>1. g = [i \in 0 .. n |-> IF i = 0 THEN 0 ELSE g[i - 1] + d[w[i]]]
      <3> DEFINE q == [i \in 0 .. n |-> IF i = 0 THEN 0 ELSE g[i - 1] + d[w[i]]]
      <3>1. g = [i \in 0 .. n |-> IF i = 0 THEN 0 ELSE g[i - 1] + e[i]]
        BY <1>5 DEF IsSum
      <3>2. \A i \in 0 .. n : g[i] = IF i = 0 THEN 0 ELSE g[i - 1] + e[i]
        BY <3>1
      <3>3. \A i \in 0 .. n : i # 0 => i \in 1 .. n
        BY <1>2
      <3>4. \A i \in 0 .. n : g[i] = q[i]
        BY <1>6, <3>2, <3>3
      <3>5. g \in [0 .. n -> Int]
        BY <1>5 DEF IsSum
      <3>6. QED
        BY <3>4, <3>5
    <2>2. QED
      BY <1>3, <2>1
  <1> HIDE DEF sum
  <1>8. sum[0] = 0 /\ \A i \in 1 .. n : sum[i] = sum[i - 1] + d[s[i]]
    <2>1. \A i \in 0 .. n : sum[i] = IF i = 0 THEN 0 ELSE sum[i - 1] + d[w[i]]
      BY <1>7
    <2>2. 0 \in 0 .. n /\ \A i \in 1 .. n : i \in 0 .. n /\ i # 0
      BY <1>2
    <2>3. QED
      BY <1>3, <2>1, <2>2
  <1> DEFINE T == {i \in Nat : i <= n => sum[i] \in Int}
  <1>9. Nat \subseteq T
    <2>1. 0 \in T
      BY <1>8
    <2>2. ASSUME NEW i \in Nat, i \in T
          PROVE  i + 1 \in T
      <3> SUFFICES ASSUME i + 1 <= n PROVE sum[i + 1] \in Int
        OBVIOUS
      <3>1. sum[i] \in Int /\ i + 1 \in 1 .. n /\ (i + 1) - 1 = i
        BY <1>2, <2>2
      <3>2. d[s[i + 1]] \in Int
        BY <1>2, <3>1
      <3>3. QED
        BY <1>8, <3>1, <3>2
    <2> HIDE DEF T
    <2>3. QED
      BY <2>1, <2>2, SetInduction
  <1>10. \A i \in 0 .. n : sum[i] \in Int
    BY <1>2, <1>9
  <1>11. \A k \in 1 .. n : (CHOOSE i \in 1 .. Len(w) : w[i] = s[k]) = k
    <2> SUFFICES ASSUME NEW k \in 1 .. n
                 PROVE  (CHOOSE i \in 1 .. n : w[i] = s[k]) = k
      BY <1>3
    <2>1. \A i \in 1 .. n : w[i] = s[k] => i = k
      <3>1. \A i \in 1 .. n : i \in 0 .. n
        BY <1>2
      <3>2. QED
        BY <1>1, <1>3, <3>1 DEF Thread
    <2>2. QED
      BY <1>3, <2>1
  <1> DEFINE f == [i \in 0 .. n |-> sum[i]]
  <1>12. DueRun(r, d, S, n, s, f)
    <2>1. f \in [0 .. n -> Int] /\ f[0] = 0
      BY <1>2, <1>8, <1>10
    <2>2. \A i \in 1 .. n : i \in 0 .. n /\ i - 1 \in 0 .. n
      BY <1>2
    <2>3. \A i \in 1 .. n : s[i] \in Task /\ f[i] = f[i - 1] + d[s[i]]
      BY <1>2, <1>8, <2>2
    <2>4. \A i \in 1 .. n : DueIn(r, d, s[i]) = f[i]
      BY <1>4, <1>11, <2>2
    <2> HIDE DEF f
    <2>5. QED
      BY <1>1, <2>1, <2>3, <2>4 DEF DueRun
  <1>13. QED
    BY <1>12

\* The times left are such a D, and no other is.
LEMMA DueUnique ==
  ASSUME NEW r \in Ring(TNode), NEW S, IsList(TNode, r, TimeoutHead, S),
         NEW d \in [Task -> Int], NEW D, IsDue(r, d, S, D)
  PROVE  \A x \in S : DueIn(r, d, x) = D[x]
  <1>1. PICK n, s, g : DueRun(r, d, S, n, s, g)
    BY DueSum
  <1>2. n \in Nat /\ s[0] = TimeoutHead /\ \A i \in 0 .. n : r.prev[s[i + 1]] = s[i]
    BY <1>1 DEF DueRun, Thread
  <1>3. S = {s[i] : i \in 1 .. n}
    BY <1>1 DEF DueRun, Threaded
  <1>4. g[0] = 0 /\ \A i \in 1 .. n : g[i] = g[i - 1] + d[s[i]] /\ DueIn(r, d, s[i]) = g[i]
    BY <1>1 DEF DueRun
  <1> DEFINE T == {i \in Nat : i <= n => g[i] = D[s[i]]}
  <1>5. 0 \in T
    BY <1>2, <1>4 DEF IsDue
  <1>6. ASSUME NEW i \in Nat, i \in T
        PROVE  i + 1 \in T
    <2> SUFFICES ASSUME i + 1 <= n PROVE g[i + 1] = D[s[i + 1]]
      OBVIOUS
    <2>1. i + 1 \in 1 .. n /\ (i + 1) - 1 = i /\ i \in 0 .. n /\ g[i] = D[s[i]]
      BY <1>2, <1>6
    <2>2. s[i + 1] \in S
      BY <1>3, <2>1
    <2>3. D[s[i + 1]] = D[s[i]] + d[s[i + 1]]
      BY <1>2, <2>1, <2>2 DEF IsDue
    <2>4. QED
      BY <1>4, <2>1, <2>3
  <1>7. Nat \subseteq T
    <2> HIDE DEF T
    <2>1. QED
      BY <1>5, <1>6, SetInduction
  <1>8. \A i \in 1 .. n : g[i] = D[s[i]]
    BY <1>2, <1>7
  <1>9. QED
    BY <1>3, <1>4, <1>8

DueOf(r, d) == [x \in TNode |-> IF x = TimeoutHead THEN 0 ELSE DueIn(r, d, x)]

LEMMA DueExists ==
  ASSUME NEW r \in Ring(TNode), NEW S, IsList(TNode, r, TimeoutHead, S),
         NEW d \in [Task -> Int]
  PROVE  IsDue(r, d, S, DueOf(r, d))
  <1>1. PICK n, s, g : DueRun(r, d, S, n, s, g)
    BY DueSum
  <1>2. n \in Nat /\ s[0] = TimeoutHead /\ \A i \in 0 .. n : r.prev[s[i + 1]] = s[i]
    BY <1>1 DEF DueRun, Thread
  <1>3. S = {s[i] : i \in 1 .. n}
    BY <1>1 DEF DueRun, Threaded
  <1>4. g[0] = 0 /\ \A i \in 1 .. n : g[i] = g[i - 1] + d[s[i]] /\ DueIn(r, d, s[i]) = g[i]
    BY <1>1 DEF DueRun
  <1>5. g \in [0 .. n -> Int] /\ \A i \in 1 .. n : s[i] \in Task
    BY <1>1 DEF DueRun
  <1> DEFINE D == DueOf(r, d)
  <1>6. D[TimeoutHead] = 0
    BY Nodes DEF DueOf
  <1>7. \A x \in Task : D[x] = DueIn(r, d, x)
    BY Nodes, TimeoutNodes DEF DueOf
  <1> HIDE DEF D
  <1>8. \A i \in 0 .. n : D[s[i]] = g[i]
    <2>1. \A i \in 0 .. n : i = 0 \/ i \in 1 .. n
      BY <1>2
    <2>2. QED
      BY <1>2, <1>4, <1>5, <1>6, <1>7, <2>1
  <1>9. ASSUME NEW x \in S
        PROVE  x \in Task /\ D[x] \in Int /\ D[x] = D[r.prev[x]] + d[x]
    <2>1. PICK i \in 1 .. n : x = s[i]
      BY <1>3
    <2>2. i \in 0 .. n /\ i - 1 \in 0 .. n /\ (i - 1) + 1 = i
      BY <1>2
    <2>3. r.prev[x] = s[i - 1] /\ D[x] = g[i] /\ D[s[i - 1]] = g[i - 1] /\ g[i] \in Int
      BY <1>2, <1>5, <1>8, <2>1, <2>2
    <2>4. QED
      BY <1>4, <1>5, <2>1, <2>3
  <1>10. IsDue(r, d, S, D)
    BY <1>6, <1>9 DEF IsDue
  <1>11. QED
    BY <1>10 DEF D

\* If no delta is negative, no entry is due before the first.
LEMMA DueFirst ==
  ASSUME NEW r \in Ring(TNode), NEW S, IsList(TNode, r, TimeoutHead, S),
         NEW d \in [Task -> Int], \A x \in S : d[x] >= 0, NEW x \in S
  PROVE  r.next[TimeoutHead] \in Task /\ DueIn(r, d, x) >= d[r.next[TimeoutHead]]
  <1>1. PICK n, s, g : DueRun(r, d, S, n, s, g)
    BY DueSum
  <1>2. n \in Nat /\ s[0] = TimeoutHead /\ \A i \in 0 .. n : r.next[s[i]] = s[i + 1]
    BY <1>1 DEF DueRun, Thread
  <1>3. S = {s[i] : i \in 1 .. n}
    BY <1>1 DEF DueRun, Threaded
  <1>4. g[0] = 0 /\ \A i \in 1 .. n : g[i] = g[i - 1] + d[s[i]] /\ DueIn(r, d, s[i]) = g[i]
    BY <1>1 DEF DueRun
  <1>5. g \in [0 .. n -> Int] /\ \A i \in 1 .. n : s[i] \in Task
    BY <1>1 DEF DueRun
  <1>6. PICK k \in 1 .. n : x = s[k]
    BY <1>3
  <1>7. 1 \in 1 .. n /\ 0 \in 0 .. n /\ 0 + 1 = 1 /\ 1 - 1 = 0
    BY <1>2, <1>6
  <1>8. r.next[TimeoutHead] = s[1] /\ g[1] = d[s[1]] /\ s[1] \in Task
    <2>1. r.next[TimeoutHead] = s[1]
      BY <1>2, <1>7
    <2>2. g[1] = g[0] + d[s[1]] /\ s[1] \in Task
      BY <1>4, <1>5, <1>7
    <2>3. d[s[1]] \in Int
      BY <2>2
    <2>4. QED
      BY <1>4, <2>1, <2>2, <2>3
  <1> DEFINE T == {i \in Nat : i + 1 <= n => g[i + 1] >= g[1]}
  <1>9. Nat \subseteq T
    <2>1. 0 \in T
      BY <1>5, <1>7
    <2>2. ASSUME NEW i \in Nat, i \in T
          PROVE  i + 1 \in T
      <3> SUFFICES ASSUME (i + 1) + 1 <= n PROVE g[(i + 1) + 1] >= g[1]
        OBVIOUS
      <3>1. PICK j \in 1 .. n : j = i + 1
        BY <1>2
      <3>2. j + 1 \in 1 .. n /\ (j + 1) - 1 = j /\ j \in 0 .. n /\ j + 1 \in 0 .. n
            /\ 1 \in 0 .. n
        BY <1>2, <3>1
      <3>3. g[j] >= g[1]
        BY <1>2, <2>2, <3>1
      <3>4. g[j + 1] = g[j] + d[s[j + 1]]
        BY <1>4, <3>2
      <3>5. d[s[j + 1]] >= 0 /\ d[s[j + 1]] \in Int
        BY <1>3, <1>5, <3>2
      <3>6. g[j] \in Int /\ g[1] \in Int /\ g[j + 1] \in Int
        BY <1>5, <3>2
      <3>7. QED
        BY <3>1, <3>3, <3>4, <3>5, <3>6
    <2> HIDE DEF T
    <2>3. QED
      BY <2>1, <2>2, SetInduction
  <1>10. g[k] >= g[1]
    <2>1. k - 1 \in Nat /\ (k - 1) + 1 = k /\ k <= n
      BY <1>2
    <2>2. k - 1 \in T
      BY <1>9, <2>1
    <2>3. QED
      BY <2>1, <2>2
  <1>11. QED
    BY <1>4, <1>6, <1>8, <1>10

-----------------------------------------------------------------------------
\* What sched_timeout_ins is left with in front of y is the time asked for
\* less the time left of the entry before y, and no more than the delta of y.
LEMMA PositionLeft ==
  ASSUME TypeOK, TimeoutList, NEW t \in Task, ~Timed(t), NEW tmout \in Int,
         NEW y, NEW d, Position(t, tmout) = [before |-> y, left |-> d],
         NEW D, IsDue(tlink, delta, TimedTasks, D)
  PROVE  /\ d = tmout - D[tlink.prev[y]]
         /\ y \in TimedTasks => delta[y] >= d
  <1>0. /\ tlink \in Ring(TNode) /\ IsList(TNode, tlink, TimeoutHead, TimedTasks)
        /\ delta \in [Task -> Int] /\ IsFiniteSet(TNode) /\ TimeoutHead \in TNode
        /\ TimeoutHead \notin TimedTasks
    BY TimeoutNodes, Nodes DEF TypeOK, TimeoutList, TimedTasks, Linked
  <1>1. PICK n, s, g : DueRun(tlink, delta, TimedTasks, n, s, g)
    BY <1>0, DueSum
  <1>2. /\ n \in Nat /\ s[0] = TimeoutHead /\ s[n + 1] = TimeoutHead
        /\ \A i \in 0 .. n : tlink.prev[s[i + 1]] = s[i]
    BY <1>1 DEF DueRun, Thread
  <1>3. TimedTasks = {s[i] : i \in 1 .. n}
    BY <1>1 DEF DueRun, Threaded
  <1>4. g[0] = 0 /\ \A i \in 1 .. n : /\ g[i] = g[i - 1] + delta[s[i]]
                                      /\ DueIn(tlink, delta, s[i]) = g[i]
    BY <1>1 DEF DueRun
  <1>5. g \in [0 .. n -> Int] /\ \A i \in 1 .. n : s[i] \in Task /\ delta[s[i]] \in Int
    BY <1>0, <1>1 DEF DueRun
  <1>6. \A i \in 0 .. n : g[i] = D[s[i]]
    <2>1. \A i \in 0 .. n : i = 0 \/ i \in 1 .. n
      BY <1>2
    <2>2. \A x \in TimedTasks : DueIn(tlink, delta, x) = D[x]
      BY <1>0, DueUnique
    <2>3. \A i \in 1 .. n : g[i] = D[s[i]]
      BY <1>3, <1>4, <2>2
    <2>4. D[TimeoutHead] = 0
      BY DEF IsDue
    <2>5. QED
      BY <1>2, <1>4, <2>1, <2>3, <2>4
  <1> DEFINE w == Walk(tlink, TimeoutHead)
             left == CHOOSE left : left = [i \in 0 .. Len(w) |->
                       IF i = 0 THEN tmout ELSE left[i - 1] - delta[w[i]]]
             stops == {i \in 1 .. Len(w) : w[i] = t \/ delta[w[i]] >= left[i - 1]}
             e == [i \in 1 .. n |-> -delta[s[i]]]
  <1>7. Position(t, tmout) =
          IF stops = {} THEN [before |-> TimeoutHead, left |-> left[Len(w)]]
          ELSE [before |-> w[Min(stops)], left |-> left[Min(stops) - 1]]
    BY DEF Position
  <1>8. Len(w) = n /\ \A i \in 1 .. n : w[i] = s[i]
    <2>1. w = [i \in 1 .. n |-> s[i]]
      <3>1. Thread(TNode, tlink, TimeoutHead, n, s)
        BY <1>1 DEF DueRun
      <3>2. QED
        BY <1>0, <3>1, ThreadWalk
    <2> HIDE DEF w
    <2>2. QED
      BY <1>2, <2>1
  <1>9. PICK f : IsSum(f, n, tmout, e)
    <2>1. e \in [1 .. n -> Int]
      BY <1>5
    <2> HIDE DEF e
    <2>2. QED
      BY <1>2, <2>1, Sums
  <1>10. \A i \in 1 .. n : e[i] = -delta[w[i]] /\ delta[w[i]] \in Int
    <2> HIDE DEF w
    <2>1. QED
      BY <1>5, <1>8
  <1> HIDE DEF w, e
  <1>11. left = [i \in 0 .. n |-> IF i = 0 THEN tmout ELSE left[i - 1] - delta[w[i]]]
    <2>1. f = [i \in 0 .. n |-> IF i = 0 THEN tmout ELSE f[i - 1] - delta[w[i]]]
      <3> DEFINE q == [i \in 0 .. n |-> IF i = 0 THEN tmout ELSE f[i - 1] - delta[w[i]]]
      <3>1. f = [i \in 0 .. n |-> IF i = 0 THEN tmout ELSE f[i - 1] + e[i]]
        BY <1>9 DEF IsSum
      <3>2. \A i \in 0 .. n : f[i] = IF i = 0 THEN tmout ELSE f[i - 1] + e[i]
        BY <3>1
      <3>3. \A i \in 0 .. n : i # 0 => i \in 1 .. n /\ i - 1 \in 0 .. n
        BY <1>2
      <3>4. f \in [0 .. n -> Int]
        BY <1>9 DEF IsSum
      <3>5. \A i \in 1 .. n : f[i - 1] + e[i] = f[i - 1] - delta[w[i]]
        BY <1>10, <3>3, <3>4
      <3>6. \A i \in 0 .. n : f[i] = q[i]
        BY <3>2, <3>3, <3>5
      <3>7. QED
        BY <3>4, <3>6
    <2>2. QED
      BY <1>8, <2>1
  <1> HIDE DEF left
  <1>12. left[0] = tmout /\ \A i \in 1 .. n : left[i] = left[i - 1] - delta[s[i]]
    <2>1. \A i \in 0 .. n : left[i] = IF i = 0 THEN tmout ELSE left[i - 1] - delta[w[i]]
      BY <1>11
    <2>2. 0 \in 0 .. n /\ \A i \in 1 .. n : i \in 0 .. n /\ i # 0
      BY <1>2
    <2>3. QED
      BY <1>8, <2>1, <2>2
  <1> DEFINE T == {i \in Nat : i <= n => left[i] = tmout - g[i]}
  <1>13. Nat \subseteq T
    <2>1. 0 \in T
      BY <1>4, <1>12
    <2>2. ASSUME NEW i \in Nat, i \in T
          PROVE  i + 1 \in T
      <3> SUFFICES ASSUME i + 1 <= n PROVE left[i + 1] = tmout - g[i + 1]
        OBVIOUS
      <3>1. i + 1 \in 1 .. n /\ (i + 1) - 1 = i /\ i \in 0 .. n
        BY <1>2
      <3>2. left[i] = tmout - g[i] /\ g[i] \in Int /\ delta[s[i + 1]] \in Int
        BY <1>5, <2>2, <3>1
      <3>3. left[i + 1] = left[i] - delta[s[i + 1]] /\ g[i + 1] = g[i] + delta[s[i + 1]]
        BY <1>4, <1>12, <3>1
      <3>4. QED
        BY <3>2, <3>3
    <2> HIDE DEF T
    <2>3. QED
      BY <2>1, <2>2, SetInduction
  <1>14. \A i \in 0 .. n : left[i] = tmout - g[i]
    BY <1>2, <1>13
  <1>15. CASE stops = {}
    <2>1. y = TimeoutHead /\ d = left[n]
      BY <1>7, <1>8, <1>15
    <2>2. n \in 0 .. n /\ tlink.prev[TimeoutHead] = s[n]
      BY <1>2
    <2>3. d = tmout - D[s[n]]
      BY <1>6, <1>14, <2>1, <2>2
    <2>4. QED
      BY <1>0, <2>1, <2>2, <2>3
  <1>16. CASE stops # {}
    <2>1. stops \subseteq Nat
      BY <1>2, <1>8
    <2>2. PICK m \in stops : m = Min(stops)
      <3>1. PICK m \in stops : \A k \in stops : m <= k
        <4> HIDE DEF stops
        <4>1. QED
          BY <1>16, <2>1, Least
      <3> HIDE DEF stops
      <3>2. QED
        BY <3>1 DEF Min
    <2>3. y = w[m] /\ d = left[m - 1]
      BY <1>7, <1>16, <2>2
    <2>4. m \in 1 .. n /\ (w[m] = t \/ delta[w[m]] >= left[m - 1])
      BY <1>8
    <2>5. m - 1 \in 0 .. n /\ (m - 1) + 1 = m
      BY <1>2, <2>4
    <2>6. w[m] = s[m] /\ w[m] # t
      <3>1. w[m] = s[m] /\ s[m] \in TimedTasks
        BY <1>3, <1>8, <2>4
      <3>2. QED
        BY <3>1, TimeoutNodes
    <2>7. tlink.prev[y] = s[m - 1]
      BY <1>2, <2>3, <2>5, <2>6
    <2>8. d = tmout - D[s[m - 1]]
      BY <1>6, <1>14, <2>3, <2>5
    <2>9. QED
      BY <2>3, <2>4, <2>6, <2>7, <2>8
  <1>17. QED
    BY <1>15, <1>16

\* An entry that joins has the time its task asked for; the others keep theirs.
LEMMA DueInserted ==
  ASSUME TypeOK, TypeOK', TimeoutList, NEW t \in Task, ~Timed(t), NEW tmout \in Tmo,
         sched_timeout_ins(t, tmout), IsList(TNode, tlink', TimeoutHead, TimedTasks'),
         TimedTasks' = TimedTasks \cup {t}, \A x \in TimedTasks : delta[x] >= 0
  PROVE  /\ \A x \in TimedTasks : TimeLeft(x)' = TimeLeft(x)
         /\ TimeLeft(t)' = tmout
         /\ \A x \in TimedTasks' : delta'[x] >= 0
  <1>0. /\ tlink \in Ring(TNode) /\ tlink' \in Ring(TNode) /\ delta \in [Task -> Int]
        /\ delta' \in [Task -> Int] /\ IsList(TNode, tlink, TimeoutHead, TimedTasks)
        /\ tmout \in Int /\ t \in TNode /\ t # TimeoutHead /\ TimedTasks \subseteq Task
        /\ TimeoutHead \notin TimedTasks /\ t \notin TimedTasks
    BY TimeoutNodes, Nodes, TimeAssumption DEF TypeOK, TimeoutList, TimedTasks, Linked
  <1>1. PICK y \in TNode, d \in 0 .. TmoMod - 1 :
          /\ Position(t, tmout) = [before |-> y, left |-> d]
          /\ tlink' = InsertAfter(tlink, tlink.prev[y], t)
          /\ delta' = [u \in Task |-> IF u = y THEN (IF y = t THEN 0 ELSE delta[y] - d)
                                      ELSE IF u = t THEN d ELSE delta[u]]
    BY DEF sched_timeout_ins
  <1> DEFINE D == DueOf(tlink, delta)
             E == [x \in TNode |-> IF x = t THEN tmout ELSE D[x]]
             S == TimedTasks
  <1>2. IsDue(tlink, delta, S, D)
    BY <1>0, DueExists
  <1>3. y \in S \cup {TimeoutHead}
    BY <1>1, PositionInQueue
  <1>4. d = tmout - D[tlink.prev[y]] /\ (y \in S => delta[y] >= d)
    <2> HIDE DEF D
    <2>1. QED
      BY <1>0, <1>1, <1>2, PositionLeft
  <1>5. ListFacts(TNode, tlink, TimeoutHead, S)
    BY <1>0, ListLinks
  <1>6. PICK p \in S \cup {TimeoutHead} : p = tlink.prev[y] /\ tlink.next[p] = y
    BY <1>3, <1>5 DEF ListFacts
  <1>7. /\ \A x \in S \cup {TimeoutHead} : tlink.prev[x] \in S \cup {TimeoutHead}
    BY <1>5 DEF ListFacts
  <1>8. tlink'.prev = [tlink.prev EXCEPT ![t] = p, ![y] = t]
    BY <1>1, <1>6 DEF InsertAfter
  <1>9. \A x \in S \cup {TimeoutHead} : E[x] = D[x] /\ x # t
    BY <1>0, Nodes
  <1>10. E[t] = tmout /\ E[TimeoutHead] = 0
    BY <1>0, <1>2, Nodes DEF IsDue
  <1>11. \A x \in S \cup {TimeoutHead} : D[x] \in Int
    BY <1>2 DEF IsDue
  <1>12. y # t /\ p # t
    BY <1>0, <1>3
  <1>13. \A x \in S : x \in Task /\ delta[x] \in Int /\ D[x] = D[tlink.prev[x]] + delta[x]
    BY <1>0, <1>2 DEF IsDue
  <1> HIDE DEF D, E
  <1>14. /\ tlink'.prev[t] = p /\ tlink'.prev[y] = t
         /\ \A x \in S : x # y => tlink'.prev[x] = tlink.prev[x]
    <2>1. tlink.prev \in [TNode -> TNode] /\ S \subseteq TNode
      BY <1>0, Nodes DEF Ring
    <2>2. QED
      BY <1>0, <1>1, <1>8, <1>12, <2>1
  <1>15. delta'[t] = d /\ \A x \in S : delta'[x] = IF x = y THEN delta[y] - d ELSE delta[x]
    BY <1>0, <1>1, <1>12
  <1>16. ASSUME NEW x \in S \cup {t}
         PROVE  x \in Task /\ E[x] \in Int /\ E[x] = E[tlink'.prev[x]] + delta'[x]
    <2>1. CASE x = t
      BY <1>0, <1>4, <1>6, <1>9, <1>10, <1>11, <1>14, <1>15, <2>1
    <2>2. CASE x \in S /\ x = y
      <3>1. E[x] = D[x] /\ D[x] = D[p] + delta[x] /\ D[p] \in Int /\ delta[x] \in Int
        BY <1>6, <1>9, <1>11, <1>13, <2>2
      <3>2. E[tlink'.prev[x]] = tmout /\ delta'[x] = delta[x] - (tmout - D[p])
        BY <1>4, <1>6, <1>10, <1>14, <1>15, <2>2
      <3>3. QED
        BY <1>0, <1>11, <1>13, <2>2, <3>1, <3>2
    <2>3. CASE x \in S /\ x # y
      <3>1. tlink.prev[x] \in S \cup {TimeoutHead}
        BY <1>7, <2>3
      <3>2. QED
        BY <1>9, <1>11, <1>13, <1>14, <1>15, <2>3, <3>1
    <2>4. QED
      BY <2>1, <2>2, <2>3
  <1>17. IsDue(tlink', delta', TimedTasks', E)
    BY <1>10, <1>16 DEF IsDue
  <1>18. \A x \in TimedTasks' : DueIn(tlink', delta', x) = E[x]
    BY <1>0, <1>17, DueUnique
  <1>19. \A x \in S : TimeLeft(x) = D[x]
    BY <1>0, <1>2, DueUnique DEF TimeLeft
  <1>20. \A x \in TimedTasks' : TimeLeft(x)' = E[x]
    BY <1>18 DEF TimeLeft
  <1>21. \A x \in TimedTasks' : delta'[x] >= 0
    BY <1>0, <1>4, <1>13, <1>15
  <1>22. QED
    BY <1>9, <1>10, <1>19, <1>20, <1>21

\* An entry that leaves and passes its delta on to the next takes no time from
\* the others.
LEMMA DueRemoved ==
  ASSUME TypeOK, TypeOK', TimeoutList, NEW t \in TimedTasks,
         tlink' = UnlinkToSelf(tlink, t),
         IsList(TNode, tlink', TimeoutHead, TimedTasks'),
         TimedTasks' = TimedTasks \ {t}, \A x \in TimedTasks : delta[x] >= 0,
         \A x \in TimedTasks \ {t} :
           delta'[x] = IF x = tlink.next[t] THEN delta[x] + delta[t] ELSE delta[x]
  PROVE  \A x \in TimedTasks' : TimeLeft(x)' = TimeLeft(x) /\ delta'[x] >= 0
  <1>0. /\ tlink \in Ring(TNode) /\ tlink' \in Ring(TNode) /\ delta \in [Task -> Int]
        /\ delta' \in [Task -> Int] /\ IsList(TNode, tlink, TimeoutHead, TimedTasks)
        /\ t \in TNode /\ t # TimeoutHead /\ TimedTasks \subseteq Task
        /\ TimeoutHead \notin TimedTasks
    BY TimeoutNodes, Nodes DEF TypeOK, TimeoutList, TimedTasks, Linked
  <1> DEFINE D == DueOf(tlink, delta)
             S == TimedTasks
  <1>1. IsDue(tlink, delta, S, D)
    BY <1>0, DueExists
  <1>2. ListFacts(TNode, tlink, TimeoutHead, S)
    BY <1>0, ListLinks
  <1>3. /\ \A x \in S \cup {TimeoutHead} : /\ tlink.prev[x] \in S \cup {TimeoutHead}
                                          /\ tlink.next[tlink.prev[x]] = x
                                          /\ tlink.prev[tlink.next[x]] = x
        /\ tlink.next[t] # t /\ tlink.prev[t] # t
    BY <1>2 DEF ListFacts
  <1>4. \A x \in S \cup {TimeoutHead} : D[x] \in Int
    BY <1>1 DEF IsDue
  <1>5. \A x \in S : x \in Task /\ delta[x] \in Int /\ D[x] = D[tlink.prev[x]] + delta[x]
    BY <1>0, <1>1 DEF IsDue
  <1>6. \A x \in S \ {t} : tlink'.prev[x] = IF x = tlink.next[t] THEN tlink.prev[t]
                                            ELSE tlink.prev[x]
    <2>1. /\ tlink.prev \in [TNode -> TNode] /\ S \subseteq TNode
          /\ tlink.next[t] \in TNode
      BY <1>0, Nodes DEF Ring
    <2>2. tlink'.prev = [[tlink.prev EXCEPT ![tlink.next[t]] = tlink.prev[t]]
                           EXCEPT ![t] = t]
      BY <1>0 DEF UnlinkToSelf, Unlink
    <2>3. QED
      BY <2>1, <2>2
  <1> HIDE DEF D
  <1>7. ASSUME NEW x \in S \ {t}
        PROVE  x \in Task /\ D[x] \in Int /\ D[x] = D[tlink'.prev[x]] + delta'[x]
    <2>1. CASE x = tlink.next[t]
      <3>1. tlink.prev[x] = t /\ tlink.prev[t] \in S \cup {TimeoutHead}
        BY <1>3, <2>1
      <3>2. PICK b \in Int : b = D[tlink.prev[t]]
        BY <1>4, <3>1
      <3>3. D[x] = D[t] + delta[x] /\ D[t] = b + delta[t]
        BY <1>5, <3>1, <3>2
      <3>4. delta'[x] = delta[x] + delta[t] /\ D[tlink'.prev[x]] = b
        BY <1>6, <2>1, <3>2
      <3>5. delta[x] \in Int /\ delta[t] \in Int /\ x \in Task
        BY <1>5
      <3>6. QED
        BY <3>3, <3>4, <3>5
    <2>2. CASE x # tlink.next[t]
      BY <1>4, <1>5, <1>6, <2>2
    <2>3. QED
      BY <2>1, <2>2
  <1>8. IsDue(tlink', delta', TimedTasks', D)
    BY <1>1, <1>7 DEF IsDue
  <1>9. \A x \in TimedTasks' : DueIn(tlink', delta', x) = D[x]
    BY <1>0, <1>8, DueUnique
  <1>10. \A x \in S : TimeLeft(x) = D[x]
    BY <1>0, <1>1, DueUnique DEF TimeLeft
  <1>11. \A x \in TimedTasks' : delta'[x] >= 0
    BY <1>5
  <1>12. QED
    BY <1>9, <1>10, <1>11 DEF TimeLeft

\* The first entry is due when its delta is used up.
LEMMA FirstDue ==
  ASSUME TypeOK, TimeoutList, FirstTimeout # TimeoutHead
  PROVE  FirstTimeout \in TimedTasks /\ TimeLeft(FirstTimeout) = delta[FirstTimeout]
  <1>1. FirstTimeout \in TimedTasks
    BY FirstIsTimed
  <1>2. /\ tlink \in Ring(TNode) /\ IsList(TNode, tlink, TimeoutHead, TimedTasks)
        /\ delta \in [Task -> Int]
    BY DEF TypeOK, TimeoutList
  <1> DEFINE D == DueOf(tlink, delta)
  <1>3. IsDue(tlink, delta, TimedTasks, D)
    BY <1>2, DueExists
  <1>4. tlink.prev[FirstTimeout] = TimeoutHead
    BY <1>2, ListLinks DEF ListFacts, FirstTimeout
  <1>5. \A x \in TimedTasks : TimeLeft(x) = D[x]
    BY <1>2, <1>3, DueUnique DEF TimeLeft
  <1> HIDE DEF D
  <1>6. FirstTimeout \in Task /\ delta[FirstTimeout] \in Int
    BY <1>1, <1>2, TimeoutNodes
  <1>7. QED
    BY <1>1, <1>3, <1>4, <1>5, <1>6 DEF IsDue

\* The tick takes one from the first delta, and so from every time left.
LEMMA DueTick ==
  ASSUME TypeOK, TypeOK', TimeoutList, FirstTimeout # TimeoutHead, tlink' = tlink,
         \A x \in TimedTasks : delta[x] >= 0,
         delta[FirstTimeout] >= 1,
         delta' = [delta EXCEPT ![FirstTimeout] = @ - 1]
  PROVE  \A x \in TimedTasks : TimeLeft(x)' = TimeLeft(x) - 1 /\ delta'[x] >= 0
  <1>0. /\ tlink \in Ring(TNode) /\ delta \in [Task -> Int] /\ delta' \in [Task -> Int]
        /\ IsList(TNode, tlink, TimeoutHead, TimedTasks)
        /\ TimeoutHead \notin TimedTasks /\ TimedTasks \subseteq TNode
    BY DEF TypeOK, TimeoutList, TimedTasks, Linked
  <1> DEFINE D == DueOf(tlink, delta)
             E == [x \in TNode |-> IF x = TimeoutHead THEN 0 ELSE D[x] - 1]
             S == TimedTasks
  <1>1. IsDue(tlink, delta, S, D)
    BY <1>0, DueExists
  <1>2. ListFacts(TNode, tlink, TimeoutHead, S)
    BY <1>0, ListLinks
  <1>3. PICK f \in S : f = FirstTimeout
    BY FirstIsTimed
  <1>4. /\ tlink.prev[f] = TimeoutHead
        /\ \A x \in S : x # f => tlink.prev[x] \in S
    BY <1>2, <1>3 DEF ListFacts, FirstTimeout
  <1>5. D[TimeoutHead] = 0 /\ \A x \in S : /\ x \in Task /\ D[x] \in Int /\ delta[x] \in Int
                                           /\ D[x] = D[tlink.prev[x]] + delta[x]
    BY <1>0, <1>1 DEF IsDue
  <1>6. E[TimeoutHead] = 0 /\ \A x \in S : E[x] = D[x] - 1
    BY <1>0, Nodes
  <1> HIDE DEF D, E
  <1>7. \A x \in S : delta'[x] = IF x = f THEN delta[x] - 1 ELSE delta[x]
    BY <1>0, <1>3, <1>5
  <1>8. ASSUME NEW x \in S
        PROVE  x \in Task /\ E[x] \in Int /\ E[x] = E[tlink.prev[x]] + delta'[x]
    <2>1. CASE x = f
      BY <1>4, <1>5, <1>6, <1>7, <2>1
    <2>2. CASE x # f
      <3>1. tlink.prev[x] \in S
        BY <1>4, <2>2
      <3>2. QED
        BY <1>5, <1>6, <1>7, <2>2, <3>1
    <2>3. QED
      BY <2>1, <2>2
  <1>9. IsDue(tlink, delta', S, E)
    BY <1>6, <1>8 DEF IsDue
  <1>10. \A x \in S : DueIn(tlink, delta', x) = E[x]
    <2>1. PICK d \in [Task -> Int] : d = delta'
      BY <1>0
    <2>2. IsDue(tlink, d, S, E)
      BY <1>9, <2>1
    <2>3. \A x \in S : DueIn(tlink, d, x) = E[x]
      BY <1>0, <2>2, DueUnique
    <2>4. QED
      BY <2>1, <2>3
  <1>11. \A x \in S : TimeLeft(x) = D[x]
    BY <1>0, <1>1, DueUnique DEF TimeLeft
  <1>12. \A x \in S : delta'[x] >= 0
    BY <1>3, <1>5, <1>7
  <1>13. QED
    BY <1>6, <1>10, <1>11, <1>12 DEF TimeLeft

-----------------------------------------------------------------------------
(***************************************************************************)
(* Every step keeps the deadlines, and with them the bounds under which    *)
(* the arithmetic on the deltas does not wrap.                             *)
(***************************************************************************)
LockTick == kernel_lk = IF pc[TickCpu] = "tick" THEN 1 ELSE 0

DueOK ==
  \A x \in TimedTasks :
    /\ delta[x] >= 0 /\ TimeLeft(x) >= 0
    /\ kernel_lk = 0 => TimeLeft(x) >= 1
    /\ \E d \in Tmo : TimeLeft(x) <= d

DueInv == QInv /\ TimeoutList /\ LockTick /\ DueOK

DueStep ==
  /\ \A x \in TimedTasks' :
       /\ x \in TimedTasks =>
            TimeLeft(x)' = TimeLeft(x) - (IF TickStarts THEN 1 ELSE 0)
       /\ x \notin TimedTasks => TimeLeft(x)' \in Tmo
       /\ delta'[x] >= 0
       /\ kernel_lk = 1 /\ kernel_lk' = 0 => TimeLeft(x)' >= 1
  /\ kernel_lk = 1 => \A x \in TimedTasks \ TimedTasks' : TimeLeft(x) = 0

LEMMA TimeLeftType ==
  ASSUME TypeOK, TimeoutList
  PROVE  \A x \in TimedTasks : TimeLeft(x) \in Int /\ delta[x] \in Int
  <1> DEFINE D == DueOf(tlink, delta)
  <1>1. /\ tlink \in Ring(TNode) /\ IsList(TNode, tlink, TimeoutHead, TimedTasks)
        /\ delta \in [Task -> Int]
    BY DEF TypeOK, TimeoutList
  <1>2. IsDue(tlink, delta, TimedTasks, D)
    BY <1>1, DueExists
  <1>3. \A x \in TimedTasks : TimeLeft(x) = D[x]
    BY <1>1, <1>2, DueUnique DEF TimeLeft
  <1> HIDE DEF D
  <1>4. QED
    BY <1>1, <1>2, <1>3 DEF IsDue

\* Nothing happens to the timeout queue.
LEMMA DueSame ==
  ASSUME TypeOK, TimeoutList, DueOK, UNCHANGED timeVars, ~TickStarts,
         ~(kernel_lk = 1 /\ kernel_lk' = 0)
  PROVE  DueStep
  <1>1. tlink' = tlink /\ delta' = delta
    BY DEF timeVars
  <1>2. TimedTasks' = TimedTasks
    BY <1>1 DEF TimedTasks
  <1>3. \A x \in TimedTasks : TimeLeft(x)' = TimeLeft(x)
    BY <1>1 DEF TimeLeft
  <1>4. QED
    BY <1>1, <1>2, <1>3, TimeLeftType DEF DueStep, DueOK

\* The deltas of an entry and of the next one do not wrap when they are added.
LEMMA NoWrap ==
  ASSUME TypeOK, TimeoutList, DueOK, NEW t \in TimedTasks,
         NEW x \in TimedTasks, x = tlink.next[t]
  PROVE  (delta[x] + delta[t]) % TmoMod = delta[x] + delta[t]
  <1> DEFINE D == DueOf(tlink, delta)
  <1>1. /\ tlink \in Ring(TNode) /\ IsList(TNode, tlink, TimeoutHead, TimedTasks)
        /\ delta \in [Task -> Int]
    BY DEF TypeOK, TimeoutList
  <1>2. IsDue(tlink, delta, TimedTasks, D)
    BY <1>1, DueExists
  <1>3. \A u \in TimedTasks : TimeLeft(u) = D[u]
    BY <1>1, <1>2, DueUnique DEF TimeLeft
  <1> HIDE DEF D
  <1>4. tlink.prev[x] = t /\ tlink.prev[t] \in TimedTasks \cup {TimeoutHead}
    BY <1>1, ListLinks DEF ListFacts
  <1>5. PICK b : b = D[tlink.prev[t]]
    OBVIOUS
  <1>6. b \in Int /\ b >= 0
    BY <1>2, <1>3, <1>4, <1>5 DEF IsDue, DueOK
  <1>7. D[x] = (b + delta[t]) + delta[x] /\ D[x] \in Int
    BY <1>2, <1>4, <1>5 DEF IsDue
  <1>8. PICK d \in Tmo : D[x] <= d
    BY <1>3 DEF DueOK
  <1>9. delta[x] >= 0 /\ delta[t] >= 0 /\ delta[x] \in Int /\ delta[t] \in Int
    BY TimeLeftType DEF DueOK
  <1>10. d \in 0 .. TmoMod - 1 /\ TmoMod \in Nat \ {0}
    BY TimeAssumption
  <1>11. delta[x] + delta[t] \in 0 .. TmoMod - 1
    BY <1>6, <1>7, <1>8, <1>9, <1>10
  <1>12. \A k \in 0 .. TmoMod - 1 : k % TmoMod = k
    BY <1>10
  <1>13. QED
    BY <1>11, <1>12

\* sched_timeout_rem_if_exist takes no time from the others.
LEMMA DueLeft ==
  ASSUME TypeOK, TypeOK', TimeoutList, TimeoutList', DueOK, NEW t \in Task,
         sched_timeout_rem(t)
  PROVE  /\ TimedTasks' = TimedTasks \ {t}
         /\ \A x \in TimedTasks' : TimeLeft(x)' = TimeLeft(x) /\ delta'[x] >= 0
  <1>0. IsList(TNode, tlink', TimeoutHead, TimedTasks')
    BY DEF TimeoutList
  <1>1. CASE t \in TimedTasks
    <2>1. tlink' = UnlinkToSelf(tlink, t)
      BY <1>1, RemTimeoutLinks
    <2>2. TimedTasks' = TimedTasks \ {t}
      BY <1>1, <2>1, TimeoutLeft
    <2>3. \A u \in Task : u # t => delta'[u] = IF u = tlink.next[t]
                                      THEN (delta[u] + delta[t]) % TmoMod ELSE delta[u]
      BY <1>1, TimeoutNodes DEF sched_timeout_rem, RemTimeout, Timed
    <2>4. \A x \in TimedTasks \ {t} :
            delta'[x] = IF x = tlink.next[t] THEN delta[x] + delta[t] ELSE delta[x]
      BY <1>1, <2>3, NoWrap, TimeoutNodes
    <2>5. \A x \in TimedTasks : delta[x] >= 0
      BY DEF DueOK
    <2>6. QED
      BY <1>0, <1>1, <2>1, <2>2, <2>4, <2>5, DueRemoved
  <1>2. CASE t \notin TimedTasks
    <2>1. tlink' = tlink /\ delta' = delta
      BY <1>2, TimeoutNodes DEF sched_timeout_rem, RemTimeout, Timed
    <2>2. TimedTasks' = TimedTasks
      BY <2>1 DEF TimedTasks
    <2>3. QED
      BY <1>2, <2>1, <2>2 DEF TimeLeft, DueOK
  <1>3. QED
    BY <1>1, <1>2

\* Going to sleep with a time-out.
LEMMA DueBlock ==
  ASSUME TypeOK, TypeOK', TimeoutList, TimeoutList', DueOK, NEW t \in Task,
         tskstat[t] = "RUN", NEW tmout \in Tmo, sched_timeout_ins(t, tmout),
         ~TickStarts, kernel_lk = 0
  PROVE  DueStep
  <1>1. ~Timed(t)
    BY DEF TimeoutList
  <1>2. /\ IsList(TNode, tlink', TimeoutHead, TimedTasks')
        /\ TimedTasks' = TimedTasks \cup {t}
    BY <1>1, TimeoutEntered
  <1>3. \A x \in TimedTasks : delta[x] >= 0
    BY DEF DueOK
  <1>4. /\ \A x \in TimedTasks : TimeLeft(x)' = TimeLeft(x)
        /\ TimeLeft(t)' = tmout
        /\ \A x \in TimedTasks' : delta'[x] >= 0
    BY <1>1, <1>2, <1>3, DueInserted
  <1>5. QED
    BY <1>2, <1>4, TimeLeftType DEF DueStep

LEMMA SystemCallDue ==
  ASSUME DueInv, TypeOK', TimeoutList', NEW c \in Cpu, SystemCall(c)
  PROVE  DueStep
  <1> USE DEF DueInv, QInv, IInv
  <1>0. Cur(c) \in Task /\ tskstat[Cur(c)] = "RUN" /\ kernel_lk = 0
    <2>1. pc[c] = "user" /\ kernel_lk = 0
      BY DEF SystemCall, slp_tsk, tslp_tsk, dly_tsk, wup_tsk, can_wup, act_tsk, Trap
    <2>2. QED
      BY <2>1 DEF Replaceable, TypeOK
  <1>a. ~TickStarts
    <2>1. \E r : Return(c, r)
      BY DEF SystemCall, slp_tsk, tslp_tsk, dly_tsk, wup_tsk, can_wup, act_tsk,
         QueueWakeup, WakeUp, RefuseWakeup
    <2>2. pc' = [pc EXCEPT ![c] = "ret"]
      BY <2>1 DEF Return
    <2>3. QED
      BY <2>2 DEF TickStarts, TypeOK
  <1>b. UNCHANGED timeVars => DueStep
    BY <1>0, <1>a, DueSame
  <1>1. CASE slp_tsk(c)
    BY <1>1, <1>b DEF slp_tsk, sys_slp_tsk, TakeWakeup
  <1>2. CASE tslp_tsk(c)
    BY <1>0, <1>2, <1>a, <1>b, DueBlock DEF tslp_tsk, sys_tslp_tsk, TakeWakeup
  <1>3. CASE dly_tsk(c)
    BY <1>0, <1>3, <1>a, <1>b, DueBlock DEF dly_tsk
  <1>4. ASSUME NEW u \in Task, wup_tsk(c, u)
        PROVE  DueStep
    <2>1. CASE WakeUp(c, u)
      <3>1. sched_timeout_rem(u)
        BY <2>1 DEF WakeUp
      <3>2. /\ TimedTasks' = TimedTasks \ {u}
            /\ \A x \in TimedTasks' : TimeLeft(x)' = TimeLeft(x) /\ delta'[x] >= 0
        BY <3>1, DueLeft
      <3>3. QED
        BY <1>0, <1>a, <3>2, TimeLeftType DEF DueStep
    <2>2. CASE QueueWakeup(c, u) \/ RefuseWakeup(c, u)
      BY <1>b, <2>2 DEF QueueWakeup, RefuseWakeup
    <2>3. QED
      BY <1>4, <2>1, <2>2 DEF wup_tsk
  <1>5. ASSUME NEW u \in Task, can_wup(c, u)
        PROVE  DueStep
    BY <1>5, <1>b DEF can_wup
  <1>6. ASSUME NEW u \in Task, act_tsk(c, u)
        PROVE  DueStep
    BY <1>6, <1>b DEF act_tsk
  <1>7. QED
    BY <1>1, <1>2, <1>3, <1>4, <1>5, <1>6 DEF SystemCall

LEMMA KernelDue ==
  ASSUME DueInv, TypeOK', TimeoutList', NEW c \in Cpu, Interrupt(c) \/ Kernel(c)
  PROVE  DueStep
  <1> USE DEF DueInv, QInv, IInv
  <1>1. CASE apic_timer(c) \/ store_ret(c) \/ intr_leave(c) \/ clear_flag(c)
             \/ sched_do_next_tsk(c)
    <2>1. UNCHANGED timeVars /\ UNCHANGED kernel_lk
      BY <1>1 DEF apic_timer, store_ret, intr_leave, clear_flag, sched_do_next_tsk,
         lockVars
    <2>2. ~TickStarts
      BY <1>1 DEF apic_timer, store_ret, intr_leave, clear_flag, sched_do_next_tsk,
         Resume, TickStarts, TypeOK
    <2>3. kernel_lk' = kernel_lk
      BY <2>1
    <2>4. ~(kernel_lk = 1 /\ kernel_lk' = 0)
      BY <2>3
    <2>5. QED
      BY <2>1, <2>2, <2>4, DueSame
  <1>2. CASE irq0(c)
    <2>1. CASE FirstTimeout = TimeoutHead
      <3>1. UNCHANGED timeVars /\ kernel_lk = 0 /\ ~TickStarts
        BY <1>2, <2>1 DEF irq0, timeVars, TickStarts, TypeOK
      <3>2. QED
        BY <3>1, DueSame
    <2>2. CASE FirstTimeout # TimeoutHead
      <3>1. /\ tlink' = tlink /\ kernel_lk = 0 /\ pc[c] = "user"
            /\ pc' = [pc EXCEPT ![c] = "tick"]
            /\ delta' = [delta EXCEPT ![FirstTimeout] = (@ - 1) % TmoMod]
        BY <1>2, <2>2 DEF irq0
      <3>2. PICK f \in TimedTasks : f = FirstTimeout /\ TimeLeft(f) = delta[f]
        BY <2>2, FirstDue
      <3>3. PICK d \in Tmo : delta[f] >= 1 /\ delta[f] <= d /\ delta[f] \in Int
        BY <3>1, <3>2, TimeLeftType DEF DueOK
      <3>4. d \in 0 .. TmoMod - 1 /\ TmoMod \in Nat \ {0}
        BY TimeAssumption
      <3>5. delta[f] - 1 \in 0 .. TmoMod - 1
        BY <3>3, <3>4
      <3>6. \A k \in 0 .. TmoMod - 1 : k % TmoMod = k
        BY <3>4
      <3>7. delta' = [delta EXCEPT ![FirstTimeout] = @ - 1]
        BY <3>1, <3>2, <3>5, <3>6
      <3>8. \A x \in TimedTasks : delta[x] >= 0
        BY DEF DueOK
      <3>9. delta[FirstTimeout] >= 1
        BY <3>2, <3>3
      <3>10. \A x \in TimedTasks : TimeLeft(x)' = TimeLeft(x) - 1 /\ delta'[x] >= 0
        BY <2>2, <3>1, <3>7, <3>8, <3>9, DueTick
      <3>11. TimedTasks' = TimedTasks
        BY <3>1 DEF TimedTasks
      <3>12. TickStarts
        BY <3>1 DEF TickStarts, TypeOK
      <3>13. QED
        BY <3>1, <3>10, <3>11, <3>12 DEF DueStep
    <2>3. QED
      BY <2>1, <2>2
  <1>3. CASE sched_timeout(c)
    <2>1. /\ FirstTimeout # TimeoutHead /\ delta[FirstTimeout] = 0
          /\ tlink' = UnlinkToSelf(tlink, FirstTimeout)
          /\ delta' = delta /\ pc' = pc /\ kernel_lk' = kernel_lk
      BY <1>3 DEF sched_timeout, Expired
    <2>2. PICK f \in TimedTasks : f = FirstTimeout /\ TimeLeft(f) = delta[f]
      BY <2>1, FirstDue
    <2>3. TimedTasks' = TimedTasks \ {f}
      BY <2>1, <2>2, TimeoutLeft
    <2>4. \A x \in TimedTasks \ {f} :
            delta'[x] = IF x = tlink.next[f] THEN delta[x] + delta[f] ELSE delta[x]
      BY <2>1, <2>2, TimeLeftType
    <2>5. \A x \in TimedTasks : delta[x] >= 0
      BY DEF DueOK
    <2>6. IsList(TNode, tlink', TimeoutHead, TimedTasks')
      BY DEF TimeoutList
    <2>7. \A x \in TimedTasks' : TimeLeft(x)' = TimeLeft(x) /\ delta'[x] >= 0
      BY <2>1, <2>2, <2>3, <2>4, <2>5, <2>6, DueRemoved
    <2>8. ~TickStarts
      BY <2>1 DEF TickStarts
    <2>9. QED
      BY <2>1, <2>2, <2>3, <2>7, <2>8, TimeLeftType DEF DueStep
  <1>4. CASE tick_done(c)
    <2>1. /\ ~Expired /\ UNCHANGED timeVars /\ pc' = [pc EXCEPT ![c] = "leave"]
      BY <1>4 DEF tick_done
    <2>2. ~TickStarts
      BY <2>1 DEF TickStarts, TypeOK
    <2>3. /\ tlink' = tlink /\ delta' = delta
      BY <2>1 DEF timeVars
    <2>4. TimedTasks' = TimedTasks /\ \A x \in TimedTasks : TimeLeft(x)' = TimeLeft(x)
      BY <2>3 DEF TimedTasks, TimeLeft
    <2>5. ASSUME NEW x \in TimedTasks
          PROVE  TimeLeft(x) >= 1
      <3>1. /\ tlink \in Ring(TNode) /\ IsList(TNode, tlink, TimeoutHead, TimedTasks)
            /\ delta \in [Task -> Int] /\ \A u \in TimedTasks : delta[u] >= 0
        BY DEF TypeOK, TimeoutList, DueOK
      <3>2. FirstTimeout # TimeoutHead
        BY <3>1, ListLinks DEF ListFacts, FirstTimeout
      <3>3. PICK f \in TimedTasks : f = FirstTimeout
        BY <3>2, FirstIsTimed
      <3>4. delta[f] # 0 /\ delta[f] >= 0 /\ delta[f] \in Int
        BY <2>1, <3>1, <3>2, <3>3, TimeLeftType DEF Expired
      <3>5. TimeLeft(x) >= delta[f]
        BY <3>1, <3>3, DueFirst DEF TimeLeft, FirstTimeout
      <3>6. TimeLeft(x) \in Int
        BY TimeLeftType
      <3>7. QED
        BY <3>4, <3>5, <3>6
    <2>6. QED
      BY <2>2, <2>3, <2>4, <2>5, TimeLeftType DEF DueStep, DueOK
  <1>5. QED
    BY <1>1, <1>2, <1>3, <1>4 DEF Interrupt, Kernel

\* The lock is held from step to step by the tick alone.
LEMMA LockTickStep ==
  ASSUME IInv, LockTick, NEW c \in Cpu, SystemCall(c) \/ Interrupt(c) \/ Kernel(c)
  PROVE  LockTick'
  <1> USE CpuAssumption DEF IInv, TypeOK, TickPlaced, LockTick, TickCpu
  <1>1. CASE SystemCall(c)
    <2>1. \E r : Return(c, r)
      BY <1>1 DEF SystemCall, slp_tsk, tslp_tsk, dly_tsk, wup_tsk, can_wup, act_tsk,
         QueueWakeup, WakeUp, RefuseWakeup
    <2>2. pc[c] = "user"
      BY <1>1 DEF SystemCall, slp_tsk, tslp_tsk, dly_tsk, wup_tsk, can_wup, act_tsk, Trap
    <2>3. QED
      BY <2>1, <2>2 DEF Return, lockVars
  <1>2. CASE Interrupt(c)
    BY <1>2 DEF Interrupt, irq0, apic_timer, lockVars
  <1>3. CASE Kernel(c)
    BY <1>3 DEF Kernel, sched_timeout, tick_done, store_ret, intr_leave,
       sched_do_next_tsk, clear_flag, Resume, Unlock, lockVars
  <1>4. QED
    BY <1>1, <1>2, <1>3

\* A step that keeps the deadlines keeps them in bounds.
LEMMA DueKept ==
  ASSUME DueInv, 0 \notin Tmo, DueStep, IInv', TimeoutList', LockTick'
  PROVE  DueOK'
  <1> SUFFICES ASSUME NEW x \in TimedTasks'
               PROVE  /\ delta'[x] >= 0 /\ TimeLeft(x)' >= 0
                      /\ kernel_lk' = 0 => TimeLeft(x)' >= 1
                      /\ \E d \in Tmo : TimeLeft(x)' <= d
    BY DEF DueOK
  <1>0. delta'[x] >= 0 /\ kernel_lk \in {0, 1} /\ kernel_lk' \in {0, 1}
    BY DEF DueStep, IInv, DueInv, QInv, TypeOK
  <1>1. CASE x \notin TimedTasks
    <2>1. PICK d \in Tmo : d = TimeLeft(x)'
      BY <1>1 DEF DueStep
    <2>2. d \in 0 .. TmoMod - 1 /\ d # 0
      BY TimeAssumption
    <2>3. d >= 0 /\ d >= 1 /\ d <= d
      BY <2>2, TimeAssumption
    <2>4. QED
      BY <1>0, <2>1, <2>3
  <1>2. CASE x \in TimedTasks
    <2>1. PICK v \in Int : v = TimeLeft(x)
      BY <1>2, TimeLeftType DEF DueInv, QInv, IInv
    <2>2. PICK d \in Tmo : v <= d
      BY <1>2, <2>1 DEF DueInv, DueOK
    <2>3. d \in Int
      BY TimeAssumption
    <2>4. v >= 0 /\ (kernel_lk = 0 => v >= 1)
      BY <1>2, <2>1 DEF DueInv, DueOK
    <2>5. CASE TickStarts
      <3>1. pc[TickCpu] = "user" /\ pc'[TickCpu] = "tick"
        BY <2>5 DEF TickStarts, IInv, TickPlaced
      <3>2. kernel_lk = 0 /\ kernel_lk' = 1
        BY <3>1 DEF LockTick, DueInv
      <3>3. TimeLeft(x)' = v - 1
        BY <1>2, <2>1, <2>5 DEF DueStep
      <3>4. v - 1 >= 0 /\ v - 1 <= d
        BY <2>2, <2>3, <2>4, <3>2
      <3>5. QED
        BY <1>0, <3>2, <3>3, <3>4
    <2>6. CASE ~TickStarts
      <3>1. TimeLeft(x)' = v - 0
        BY <1>2, <2>1, <2>6 DEF DueStep
      <3>2. TimeLeft(x)' = v
        BY <3>1
      <3>3. kernel_lk = 1 /\ kernel_lk' = 0 => TimeLeft(x)' >= 1
        BY DEF DueStep
      <3>4. QED
        BY <1>0, <2>2, <2>4, <3>2, <3>3
    <2>7. QED
      BY <2>5, <2>6
  <1>3. QED
    BY <1>1, <1>2

LEMMA DueEveryStep ==
  ASSUME DueInv, Idle # {}, 0 \notin Tmo, [TasksNext]_vars, QInv', TimeoutList'
  PROVE  DueStep /\ DueInv'
  <1>1. IInv /\ TypeOK /\ TypeOK' /\ IInv' /\ TimeoutList /\ DueOK
    BY DEF DueInv, QInv, IInv
  <1>2. CASE TasksNext
    <2> PICK c \in Cpu : SystemCall(c) \/ Interrupt(c) \/ Kernel(c)
      BY <1>2 DEF TasksNext
    <2>1. LockTick'
      BY <1>1, LockTickStep DEF DueInv
    <2>2. DueStep
      BY <1>1, SystemCallDue, KernelDue
    <2>3. QED
      BY <1>1, <2>1, <2>2, DueKept DEF DueInv
  <1>3. CASE UNCHANGED vars
    <2>1. UNCHANGED timeVars /\ kernel_lk' = kernel_lk /\ pc' = pc
      BY <1>3 DEF vars, lockVars
    <2>2. ~TickStarts /\ ~(kernel_lk = 1 /\ kernel_lk' = 0)
      BY <2>1 DEF TickStarts
    <2>3. DueStep
      BY <1>1, <2>1, <2>2, DueSame
    <2>4. LockTick'
      BY <2>1 DEF LockTick, DueInv
    <2>5. QED
      BY <1>1, <2>3, <2>4, DueKept DEF DueInv
  <1>4. QED
    BY <1>2, <1>3

LEMMA DueInvariance == Idle # {} /\ 0 \notin Tmo /\ TasksSpec => []DueInv
  <1> SUFFICES ASSUME Idle # {}, 0 \notin Tmo PROVE TasksSpec => []DueInv
    OBVIOUS
  <1>1. TasksInit => LockTick /\ (TimeoutList => DueOK)
    <2> SUFFICES ASSUME TasksInit PROVE LockTick /\ (TimeoutList => DueOK)
      OBVIOUS
    <2>1. LockTick
      BY CpuAssumption DEF TasksInit, LockTick, TickCpu
    <2>2. TimedTasks = {}
      BY DEF TasksInit, TimedTasks, Linked, SelfLinked, InQueue
    <2>3. QED
      BY <2>1, <2>2 DEF DueOK
  <1>2. TasksSpec => [](QInv /\ TimeoutList)
    BY TimeoutInvariance
  <1>3. (QInv /\ TimeoutList) /\ (QInv /\ TimeoutList)' /\ (LockTick /\ DueOK)
          /\ [TasksNext]_vars => (LockTick /\ DueOK)'
    BY DueEveryStep DEF DueInv
  <1>4. QInv /\ TimeoutList /\ LockTick /\ DueOK => DueInv
    BY DEF DueInv
  <1>5. QED
    BY <1>1, <1>2, <1>3, <1>4, PTL DEF TasksSpec

\* No entry of the timeout queue has more time left than the longest time-out
\* ever asked for: with no time-out of zero, which would wrap at the first tick,
\* sched_timeout takes every entry when it is due (kernel/sched.c:163).
THEOREM NothingOverdue == Idle # {} /\ 0 \notin Tmo /\ TasksSpec => []NoEntryOverdue
  <1>1. DueInv => NoEntryOverdue
    BY TimeoutNodes DEF DueInv, DueOK, NoEntryOverdue
  <1>2. QED
    BY <1>1, DueInvariance, PTL

\* The delta encoding keeps every deadline: what the others do to the queue
\* neither takes time from an entry nor gives it any (kernel/sched.c:137-253).
THEOREM DeadlinesAreKept ==
  Idle # {} /\ 0 \notin Tmo /\ TasksSpec => DeadlinesKept
  <1> SUFFICES ASSUME Idle # {}, 0 \notin Tmo PROVE TasksSpec => DeadlinesKept
    OBVIOUS
  <1>1. DueInv /\ DueInv' /\ [TasksNext]_vars =>
          [\A t \in Task :
             /\ Timed(t) /\ Timed(t)' =>
                  TimeLeft(t)' = TimeLeft(t) - (IF TickStarts THEN 1 ELSE 0)
             /\ ~Timed(t) /\ Timed(t)' => TimeLeft(t)' \in Tmo
             /\ Timed(t) /\ ~Timed(t)' /\ kernel_lk = 1 => TimeLeft(t) = 0]_vars
    <2> SUFFICES ASSUME DueInv, DueInv', [TasksNext]_vars, NEW t \in Task
                 PROVE  /\ Timed(t) /\ Timed(t)' =>
                             TimeLeft(t)' = TimeLeft(t) - (IF TickStarts THEN 1 ELSE 0)
                        /\ ~Timed(t) /\ Timed(t)' => TimeLeft(t)' \in Tmo
                        /\ Timed(t) /\ ~Timed(t)' /\ kernel_lk = 1 => TimeLeft(t) = 0
      OBVIOUS
    <2>1. DueStep
      BY DueEveryStep DEF DueInv
    <2>2. TimedTasks = {u \in Task : Timed(u)} /\ TimedTasks' = {u \in Task : Timed(u)'}
      BY TimeoutNodes DEF TimedTasks, Linked, Timed
    <2>3. QED
      BY <2>1, <2>2 DEF DueStep
  <1>2. QED
    BY <1>1, DueInvariance, PTL DEF TasksSpec, DeadlinesKept

-----------------------------------------------------------------------------
(***************************************************************************)
(* The choice of the dispatcher.                                           *)
(***************************************************************************)

\* Every task a CPU may take is in the queue of its priority.
LEMMA RunnableFound ==
  ASSUME TypeOK, ReadyLists, NEW c \in Cpu, NEW t \in Task, proc_cpu[t] = c,
         tskstat[t] = "RDY" \/ (t = Cur(c) /\ tskstat[t] = "RUN")
  PROVE  tskpri[t] \in Pri /\ Runnable(c, tskpri[t]) # {}
  <1> DEFINE h == tsk_pri(tskpri[t])
  <1>1. tskpri[t] \in Pri /\ h \in PHead /\ h \in PNode /\ plink \in Ring(PNode)
    BY ReadyNodes DEF TypeOK
  <1>2. t \in QueueOf[h]
    BY <1>1 DEF QueueOf, IsReady
  <1>3. IsList(PNode, plink, h, QueueOf[h])
    BY <1>1 DEF ReadyLists, Lists
  <1>4. QueueOf[h] = {Walk(plink, h)[i] : i \in 1 .. Len(Walk(plink, h))}
    BY <1>1, <1>3, ReadyNodes, ListWalk
  <1>5. PICK i \in 1 .. Len(Walk(plink, h)) : Walk(plink, h)[i] = t
    BY <1>2, <1>4
  <1>6. i \in Runnable(c, tskpri[t])
    BY <1>5 DEF Runnable, Pinned
  <1>7. QED
    BY <1>1, <1>6

\* ... and a queue holds tasks of its priority only.
LEMMA RunnablePri ==
  ASSUME TypeOK, ReadyLists, NEW c \in Cpu, NEW p \in Pri, NEW i \in Runnable(c, p)
  PROVE  tskpri[Walk(plink, tsk_pri(p))[i]] = p
  <1> DEFINE h == tsk_pri(p)
  <1>1. h \in PHead /\ h \in PNode /\ plink \in Ring(PNode)
    BY ReadyNodes DEF TypeOK
  <1>2. IsList(PNode, plink, h, QueueOf[h])
    BY <1>1 DEF ReadyLists, Lists
  <1>3. QueueOf[h] = {Walk(plink, h)[j] : j \in 1 .. Len(Walk(plink, h))}
    BY <1>1, <1>2, ReadyNodes, ListWalk
  <1>4. i \in 1 .. Len(Walk(plink, h))
    BY DEF Runnable
  <1>5. PICK t \in QueueOf[h] : t = Walk(plink, h)[i]
    BY <1>3, <1>4
  <1>6. t \in Task /\ tsk_pri(tskpri[t]) = h
    BY <1>1, <1>5 DEF QueueOf
  <1>7. QED
    BY <1>5, <1>6, ReadyNodes DEF TypeOK

UrgentAt(c) ==
  \A t \in Task : tskstat[t] = "RDY" /\ proc_cpu[t] = c => tskpri[Cur(c)] <= tskpri[t]

LEMMA ChoiceIsUrgent ==
  ASSUME TypeOK, Placed, RunIsCurrent, ReadyLists, NEW c \in Cpu, sched_do_next_tsk(c)
  PROVE  /\ \A t \in Task : tskstat'[t] = "RDY" /\ proc_cpu[t] = c =>
                              tskpri[c_tskid'[c]] <= tskpri[t]
         /\ \A b \in Cpu : b # c => c_tskid'[b] = c_tskid[b]
  <1>1. ASSUME NEW p \in Pri, NEW i \in Runnable(c, p), NEW u \in Task,
               \A q \in MoreUrgent(p) : Runnable(c, q) = {},
               u = Walk(plink, tsk_pri(p))[i], Switch(c, u)
        PROVE  /\ \A t \in Task : tskstat'[t] = "RDY" /\ proc_cpu[t] = c =>
                                    tskpri[c_tskid'[c]] <= tskpri[t]
               /\ \A b \in Cpu : b # c => c_tskid'[b] = c_tskid[b]
    <2>1. tskpri[u] = p
      BY <1>1, RunnablePri
    <2>2. c_tskid' = [c_tskid EXCEPT ![c] = u]
          /\ tskstat' = [t \in Task |-> IF t = u THEN "RUN"
                          ELSE IF t = Cur(c) /\ tskstat[t] = "RUN" THEN "RDY"
                          ELSE tskstat[t]]
      BY <1>1 DEF Switch
    <2>3. ASSUME NEW t \in Task, tskstat'[t] = "RDY", proc_cpu[t] = c
          PROVE  p <= tskpri[t]
      <3>1. tskstat[t] = "RDY" \/ (t = Cur(c) /\ tskstat[t] = "RUN")
        BY <2>2, <2>3
      <3>2. tskpri[t] \in Pri /\ Runnable(c, tskpri[t]) # {}
        BY <2>3, <3>1, RunnableFound
      <3>3. tskpri[t] \notin MoreUrgent(p)
        BY <1>1, <3>2
      <3>4. tskpri[t] \in Nat /\ tskpri[t] >= 1 /\ p \in Nat
        BY <3>2, TaskAssumption DEF Pri
      <3>5. QED
        BY <3>3, <3>4 DEF MoreUrgent
    <2>4. c_tskid'[c] = u /\ \A b \in Cpu : b # c => c_tskid'[b] = c_tskid[b]
      BY <2>2 DEF TypeOK
    <2>5. QED
      BY <2>1, <2>3, <2>4
  <1>2. ASSUME \A p \in Pri : Runnable(c, p) = {}, UNCHANGED <<tskstat, c_tskid>>
        PROVE  /\ \A t \in Task : tskstat'[t] = "RDY" /\ proc_cpu[t] = c =>
                                    tskpri[c_tskid'[c]] <= tskpri[t]
               /\ \A b \in Cpu : b # c => c_tskid'[b] = c_tskid[b]
    BY <1>2, RunnableFound
  <1>3. QED
    BY <1>1, <1>2 DEF sched_do_next_tsk

\* The dispatcher chooses by priority among all the tasks pinned to its CPU
\* that are ready, wherever they are linked (kernel/sched.c:60-134).
THEOREM DispatcherChoosesUrgent == Idle # {} /\ TasksSpec => MostUrgentChosen
  <1> SUFFICES ASSUME Idle # {} PROVE TasksSpec => MostUrgentChosen
    OBVIOUS
  <1>1. QInv /\ [TasksNext]_vars =>
          [\A c \in Cpu : pc[c] = "leave" /\ pc'[c] = "clear" =>
             \A t \in Task : tskstat'[t] = "RDY" /\ proc_cpu[t] = c =>
                tskpri[c_tskid'[c]] <= tskpri[t]]_vars
    <2> SUFFICES ASSUME QInv, [TasksNext]_vars, NEW c \in Cpu, pc[c] = "leave",
                        pc'[c] = "clear", NEW t \in Task, tskstat'[t] = "RDY",
                        proc_cpu[t] = c
                 PROVE  tskpri[c_tskid'[c]] <= tskpri[t]
      OBVIOUS
    <2>1. pc' # pc
      OBVIOUS
    <2>2. PICK b \in Cpu : SystemCall(b) \/ Interrupt(b) \/ Kernel(b)
      BY <2>1 DEF TasksNext, vars
    <2>3. sched_do_next_tsk(b) /\ b = c
      <3>1. ~SystemCall(b)
        <4>1. SystemCall(b) => \E r : Return(b, r)
          BY DEF SystemCall, slp_tsk, tslp_tsk, dly_tsk, wup_tsk, can_wup, act_tsk,
             QueueWakeup, WakeUp, RefuseWakeup
        <4>2. QED
          BY <4>1 DEF Return, QInv, IInv, TypeOK
      <3>2. QED
        BY <2>2, <3>1 DEF Interrupt, Kernel, irq0, apic_timer, sched_timeout, tick_done,
           store_ret, intr_leave, clear_flag, sched_do_next_tsk, Resume, QInv, IInv, TypeOK
    <2>4. QED
      BY <2>3, ChoiceIsUrgent DEF QInv, IInv
  <1>2. QED
    BY <1>1, QueueInvariance, PTL DEF TasksSpec, MostUrgentChosen

-----------------------------------------------------------------------------
(***************************************************************************)
(* Preemption on one CPU.  Two things can spoil it, and the hypotheses say *)
(* so: a flag that another CPU sets is cleared unseen, and an activation   *)
(* asks nobody to reschedule.                                              *)
(***************************************************************************)
OneCpuApplication ==
  /\ Cpu = {TickCpu}
  /\ \A t, u \in Task : Issues(t, "act_tsk", u) => itskpri[t] <= itskpri[u]
  /\ \A t \in Task, u \in Idle : itskpri[t] <= itskpri[u]

\* No CPU is on its way back to user mode past a more urgent task.
Urgent ==
  /\ tskpri = itskpri
  /\ \A c \in Cpu :
       \/ pc[c] \in {"user", "ret", "leave"} /\ next_tsk_flag[c] = 0
       \/ pc[c] = "tick" /\ next_tsk_flag[c] = 0 /\ ~woken
       \/ pc[c] = "clear"
       => UrgentAt(c)

LEMMA UrgentSystemCall ==
  ASSUME QInv, Urgent, OneCpuApplication, NEW c \in Cpu, SystemCall(c)
  PROVE  Urgent'
  <1> USE DEF QInv, IInv
  <1>0. /\ Cur(c) \in Task /\ tskstat[Cur(c)] = "RUN" /\ pc[c] = "user" /\ c = TickCpu
        /\ tskpri = itskpri
    <2>1. pc[c] = "user"
      BY DEF SystemCall, slp_tsk, tslp_tsk, dly_tsk, wup_tsk, can_wup, act_tsk, Trap
    <2>2. QED
      BY <2>1 DEF Replaceable, TypeOK, OneCpuApplication, Urgent
  <1>1. /\ pc' = [pc EXCEPT ![c] = "ret"] /\ c_tskid' = c_tskid
        /\ tskpri' = tskpri /\ proc_cpu' = proc_cpu
    <2>1. (\E r : Return(c, r)) /\ tskpri' = tskpri /\ proc_cpu' = proc_cpu
      BY DEF SystemCall, slp_tsk, tslp_tsk, dly_tsk, wup_tsk, can_wup, act_tsk,
         QueueWakeup, WakeUp, RefuseWakeup, tcbVars
    <2>2. QED
      BY <2>1 DEF Return
  <1>2. pc'[c] = "ret" /\ \A b \in Cpu : b = c
    BY <1>0, <1>1 DEF TypeOK, OneCpuApplication
  <1>3. (next_tsk_flag'[c] = 0 => UrgentAt(c)') => Urgent'
    BY <1>0, <1>1, <1>2 DEF Urgent
  <1>a. ASSUME UNCHANGED readyVars
        PROVE  Urgent'
    <2>1. tskstat' = tskstat /\ next_tsk_flag' = next_tsk_flag
      BY <1>a DEF readyVars
    <2>2. next_tsk_flag[c] = 0 => UrgentAt(c)
      BY <1>0 DEF Urgent
    <2>3. UrgentAt(c)' <=> UrgentAt(c)
      BY <1>1, <2>1 DEF UrgentAt
    <2>4. QED
      BY <1>3, <2>1, <2>2, <2>3
  <1>b. ASSUME sched_next_tsk
        PROVE  Urgent'
    BY <1>3, <1>b DEF sched_next_tsk
  <1>4. CASE slp_tsk(c)
    BY <1>4, <1>a, <1>b DEF slp_tsk, sys_slp_tsk, TakeWakeup, Block
  <1>5. CASE tslp_tsk(c)
    BY <1>5, <1>a, <1>b DEF tslp_tsk, sys_tslp_tsk, TakeWakeup, Block
  <1>6. CASE dly_tsk(c)
    BY <1>6, <1>a, <1>b DEF dly_tsk, Block
  <1>7. ASSUME NEW u \in Task, wup_tsk(c, u) \/ can_wup(c, u)
        PROVE  Urgent'
    BY <1>7, <1>a, <1>b DEF wup_tsk, can_wup, QueueWakeup, WakeUp, RefuseWakeup
  <1>8. ASSUME NEW u \in Task, act_tsk(c, u)
        PROVE  Urgent'
    <2>1. CASE UNCHANGED readyVars
      BY <1>a, <2>1
    <2>2. CASE tskstat' = [tskstat EXCEPT ![u] = "RDY"] /\ next_tsk_flag' = next_tsk_flag
      <3>1. next_tsk_flag[c] = 0 => UrgentAt(c)
        BY <1>0 DEF Urgent
      <3>2. tskpri[Cur(c)] <= tskpri[u]
        BY <1>0, <1>8 DEF act_tsk, Trap, OneCpuApplication
      <3>3. UrgentAt(c) => UrgentAt(c)'
        BY <1>1, <2>2, <3>2 DEF UrgentAt, TypeOK
      <3>4. QED
        BY <1>3, <2>2, <3>1, <3>3
    <2>3. QED
      BY <1>8, <2>1, <2>2 DEF act_tsk
  <1>9. QED
    BY <1>4, <1>5, <1>6, <1>7, <1>8 DEF SystemCall

LEMMA UrgentKernel ==
  ASSUME QInv, Urgent, OneCpuApplication, NEW c \in Cpu, Interrupt(c) \/ Kernel(c)
  PROVE  Urgent'
  <1> USE DEF QInv, IInv
  <1>0. c = TickCpu /\ \A b \in Cpu : b = c
    BY DEF OneCpuApplication
  <1>1. tskpri' = tskpri /\ proc_cpu' = proc_cpu /\ tskpri = itskpri
    BY DEF Urgent, Interrupt, Kernel, irq0, apic_timer, sched_timeout, tick_done,
       store_ret, intr_leave, clear_flag, sched_do_next_tsk, tcbVars
  <1>2. ASSUME UNCHANGED <<tskstat, c_tskid>>
        PROVE  UrgentAt(c)' <=> UrgentAt(c)
    BY <1>1, <1>2 DEF UrgentAt
  <1>3. CASE irq0(c)
    <2>1. UNCHANGED <<tskstat, c_tskid, next_tsk_flag>> /\ pc[c] = "user"
          /\ pc'[c] \in {"leave", "tick"}
      BY <1>3 DEF irq0, readyVars, TypeOK
    <2>2. QED
      BY <1>0, <1>1, <1>2, <2>1 DEF Urgent
  <1>4. CASE apic_timer(c) \/ store_ret(c) \/ intr_leave(c)
    <2>1. /\ UNCHANGED <<tskstat, c_tskid, next_tsk_flag>>
          /\ pc[c] \in {"user", "ret", "leave"}
          /\ pc'[c] \in {"user", "ret", "leave"}
      BY <1>4 DEF apic_timer, store_ret, intr_leave, Resume, readyVars, TypeOK
    <2>2. QED
      BY <1>0, <1>1, <1>2, <2>1 DEF Urgent
  <1>5. CASE sched_timeout(c)
    <2>1. /\ pc' = pc /\ pc[c] = "tick" /\ c_tskid' = c_tskid
          /\ next_tsk_flag' = next_tsk_flag
          /\ woken' = TRUE \/ UNCHANGED <<tskstat, woken>>
      BY <1>5 DEF sched_timeout, TimeOutTask
    <2>2. CASE woken' = TRUE
      BY <1>0, <1>1, <2>1, <2>2 DEF Urgent
    <2>3. CASE tskstat' = tskstat /\ woken' = woken
      BY <1>0, <1>1, <1>2, <2>1, <2>3 DEF Urgent
    <2>4. QED
      BY <2>1, <2>2, <2>3
  <1>6. CASE tick_done(c)
    <2>1. /\ pc[c] = "tick" /\ pc'[c] = "leave" /\ UNCHANGED <<tskstat, c_tskid>>
          /\ \/ woken /\ next_tsk_flag'[c] = 1
             \/ ~woken /\ next_tsk_flag' = next_tsk_flag
      BY <1>6 DEF tick_done, sched_next_tsk, TypeOK
    <2>2. QED
      BY <1>0, <1>1, <1>2, <2>1 DEF Urgent
  <1>7. CASE clear_flag(c)
    <2>1. pc[c] = "clear" /\ pc'[c] = "user" /\ UNCHANGED <<tskstat, c_tskid>>
      BY <1>7 DEF clear_flag, Resume, TypeOK
    <2>2. QED
      BY <1>0, <1>1, <1>2, <2>1 DEF Urgent
  <1>8. CASE sched_do_next_tsk(c)
    <2>1. \A t \in Task : tskstat'[t] = "RDY" /\ proc_cpu[t] = c =>
                            tskpri[c_tskid'[c]] <= tskpri[t]
      BY <1>8, ChoiceIsUrgent
    <2>2. UrgentAt(c)'
      BY <1>1, <2>1 DEF UrgentAt
    <2>3. QED
      BY <1>0, <1>1, <2>2 DEF Urgent
  <1>9. QED
    BY <1>3, <1>4, <1>5, <1>6, <1>7, <1>8 DEF Interrupt, Kernel

\* With one CPU, idle tasks of the lowest priority and no activation of a more
\* urgent task, a CPU is back in user mode only with its most urgent ready task
\* (the way out of the kernel, i386/intr.s and kernel/sched.c:60-134).
THEOREM OneCpuPreempts ==
  Idle # {} /\ OneCpuApplication /\ TasksSpec => []NoMissedPreemption
  <1> SUFFICES ASSUME Idle # {}, OneCpuApplication
               PROVE  TasksSpec => []NoMissedPreemption
    OBVIOUS
  <1>1. TasksInit => Urgent
    <2> SUFFICES ASSUME TasksInit, NEW c \in Cpu, NEW t \in Task, tskstat[t] = "RDY"
                 PROVE  tskpri[Cur(c)] <= tskpri[t]
      BY DEF Urgent, UrgentAt, TasksInit
    <2>1. t \in Idle /\ first[c] \in Task
      BY CpuAssumption DEF TasksInit
    <2>2. QED
      BY <2>1 DEF TasksInit, OneCpuApplication
  <1>2. QInv /\ Urgent /\ [TasksNext]_vars => Urgent'
    <2> SUFFICES ASSUME QInv, Urgent, [TasksNext]_vars PROVE Urgent'
      OBVIOUS
    <2>1. CASE TasksNext
      BY <2>1, UrgentSystemCall, UrgentKernel DEF TasksNext
    <2>2. CASE UNCHANGED vars
      BY <2>2 DEF vars, lockVars, readyVars, tcbVars, Urgent, UrgentAt
    <2>3. QED
      BY <2>1, <2>2
  <1>3. Urgent => NoMissedPreemption
    BY DEF Urgent, UrgentAt, NoMissedPreemption
  <1>4. TasksSpec => []QInv
    BY QueueInvariance
  <1>5. QED
    BY <1>1, <1>2, <1>3, <1>4, PTL DEF TasksSpec
=============================================================================
