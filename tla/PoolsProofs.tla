---------------------------- MODULE PoolsProofs ----------------------------
(***************************************************************************)
(* Proofs about memory pools: that the table of a pool describes blocks    *)
(* which do not overlap, on the lemmas of WaitsProofs about wait queues.   *)
(***************************************************************************)
EXTENDS Pools, WaitsProofs, SequenceTheorems, TLAPS

USE DEF Cur, PC, Stat

-----------------------------------------------------------------------------
(***************************************************************************)
(* The table: its regions follow each other without a gap from the start   *)
(* of the memory, up to the first of size 0.                               *)
(***************************************************************************)
\* What the regions of a pool are counted in, and the memory its blocks take.
Unit(m) == IF m \in MpfId THEN Rounded(blksz[m]) ELSE Align
Room(m) == IF m \in MpfId THEN blkcnt[m] * Unit(m) ELSE mplsz[m]
Multiple(x, u) == \E k \in Nat : x = k * u

LEMMA Grows ==
  ASSUME NEW i \in Nat, NEW j \in Nat, i <= j, NEW u \in Nat
  PROVE  i * u <= j * u
  <1>1. PICK d \in Nat : j = i + d
    <2>1. j - i \in Nat /\ j = i + (j - i)
      OBVIOUS
    <2>2. QED
      BY <2>1
  <1>2. j * u = i * u + d * u /\ d * u \in Nat /\ i * u \in Nat
    BY <1>1
  <1>3. QED
    BY <1>2

LEMMA Multiples ==
  ASSUME NEW u \in Nat \ {0}, NEW x, NEW y, Multiple(x, u), Multiple(y, u)
  PROVE  /\ x \in Nat /\ y \in Nat /\ Multiple(x + y, u)
         /\ x > 0 => x >= u
         /\ x > y => Multiple(x - y, u) /\ x - y >= u
  <1>1. PICK i \in Nat, j \in Nat : x = i * u /\ y = j * u
    BY DEF Multiple
  <1>2. x \in Nat /\ y \in Nat
    BY <1>1
  <1>3. x + y = (i + j) * u /\ i + j \in Nat
    BY <1>1
  <1>4. ASSUME x > 0 PROVE x >= u
    <2>1. i >= 1
      BY <1>1, <1>4
    <2>2. 1 * u <= i * u
      BY <2>1, Grows
    <2>3. QED
      BY <1>1, <2>2
  <1>5. ASSUME x > y PROVE Multiple(x - y, u) /\ x - y >= u
    <2>1. i > j
      BY <1>1, <1>2, <1>5, Grows
    <2>2. PICK d \in Nat : d = i - j /\ d >= 1
      BY <2>1
    <2>3. x - y = d * u
      BY <1>1, <2>2
    <2>4. 1 * u <= d * u /\ 1 * u = u
      BY <2>2, Grows
    <2>5. x - y >= u
      BY <2>3, <2>4
    <2>6. Multiple(x - y, u)
      BY <2>2, <2>3 DEF Multiple
    <2>7. QED
      BY <2>5, <2>6
  <1>6. QED
    BY <1>2, <1>3, <1>4, <1>5 DEF Multiple

LEMMA Quotient ==
  ASSUME NEW y \in Nat, NEW u \in Nat \ {0}
  PROVE  y \div u \in Nat /\ (y \div u) * u <= y /\ y < (y \div u) * u + u
  OBVIOUS

\* Sizes are rounded up to the next multiple of the alignment.
LEMMA RoundedIs ==
  ASSUME NEW x \in Nat
  PROVE  /\ Multiple(Rounded(x), Align) /\ x <= Rounded(x)
         /\ Multiple(x, Align) => Rounded(x) = x
  <1>1. PICK u \in Nat \ {0} : u = Align
    BY PoolAssumption
  <1>2. PICK y \in Nat : y = x + u - 1
    OBVIOUS
  <1>3. PICK q \in Nat : q = y \div u /\ q * u <= y /\ y < q * u + u
    BY Quotient
  <1>4. Rounded(x) = q * u
    BY <1>1, <1>2, <1>3 DEF Rounded
  <1>5. q * u \in Nat /\ x <= q * u
    BY <1>2, <1>3
  <1>6. ASSUME NEW k \in Nat, x = k * u
        PROVE  q * u = x
    <2>1. k * u \in Nat /\ q * u <= k * u + u - 1
      BY <1>2, <1>3, <1>6
    <2>2. q <= k
      <3> SUFFICES ASSUME k + 1 <= q PROVE FALSE
        OBVIOUS
      <3>1. (k + 1) * u <= q * u /\ (k + 1) * u = k * u + u
        BY Grows
      <3>2. QED
        BY <2>1, <3>1
    <2>3. q * u <= k * u
      BY <2>2, Grows
    <2>4. QED
      BY <1>5, <1>6, <2>1, <2>3
  <1>7. QED
    BY <1>1, <1>4, <1>5, <1>6 DEF Multiple

\* The constants of a pool; with n units inside its memory there is room in the
\* table for n regions, one more and the end.
LEMMA PoolConstants ==
  ASSUME NEW m \in PoolId
  PROVE  /\ Base \in Nat \ {0} /\ Base # None /\ Align \in Nat \ {0}
         /\ Unit(m) \in Nat \ {0} /\ Multiple(Unit(m), Align)
         /\ Room(m) \in Nat /\ Slots(m) \in Nat /\ Slots(m) >= 2
         /\ m \in MpfId => /\ Unit(m) = Rounded(blksz[m])
                           /\ blksz[m] \in Nat \ {0} /\ blkcnt[m] \in Nat
                           /\ Room(m) = blkcnt[m] * Unit(m)
         /\ m \notin MpfId => m \in MplId /\ Unit(m) = Align
         /\ m \in MplId => m \notin MpfId
         /\ \A n \in Nat : n * Unit(m) <= Room(m) => n + 1 < Slots(m)
  <1>1. /\ Base \in Nat \ {0} /\ Base # None /\ Align \in Nat \ {0}
        /\ m \in MplId => m \notin MpfId
        /\ m \notin MpfId => m \in MplId
    BY PoolAssumption DEF None, PoolId
  <1>2. CASE m \in MpfId
    <2>1. PICK x \in Nat \ {0}, k \in Nat : x = blksz[m] /\ k = blkcnt[m] /\ k > 1
      BY <1>2, PoolAssumption
    <2>2. PICK u : u = Rounded(x)
      OBVIOUS
    <2>3. u \in Nat \ {0} /\ Multiple(u, Align)
      <3>1. Multiple(u, Align) /\ x <= u
        BY <2>2, RoundedIs
      <3>2. u \in Nat
        BY <1>1, <3>1, Multiples
      <3>3. QED
        BY <3>1, <3>2
    <2>4. Unit(m) = u /\ Room(m) = k * u /\ k * u \in Nat /\ Slots(m) = k + 2
      BY <1>2, <2>1, <2>2, <2>3 DEF Unit, Room, Slots
    <2>5. ASSUME NEW n \in Nat, n * u <= k * u
          PROVE  n + 1 < k + 2
      <3> SUFFICES ASSUME k + 1 <= n PROVE FALSE
        OBVIOUS
      <3>1. (k + 1) * u <= n * u /\ (k + 1) * u = k * u + u
        BY <2>3, Grows
      <3>2. n * u \in Nat
        BY <2>3
      <3>3. QED
        BY <2>3, <2>4, <2>5, <3>1, <3>2
    <2>6. QED
      BY <1>1, <1>2, <2>1, <2>2, <2>3, <2>4, <2>5
  <1>3. CASE m \notin MpfId
    <2>1. PICK u \in Nat \ {0}, e \in Nat : u = Align /\ e = mplsz[m]
      BY <1>1, <1>3, PoolAssumption
    <2>2. PICK q \in Nat : q = e \div u /\ q * u <= e /\ e < q * u + u
      BY Quotient
    <2>3. Unit(m) = u /\ Room(m) = e /\ Slots(m) = q + 2
      BY <1>3, <2>1, <2>2 DEF Unit, Room, Slots
    <2>4. Multiple(u, u)
      BY DEF Multiple
    <2>5. ASSUME NEW n \in Nat, n * u <= e
          PROVE  n + 1 < q + 2
      <3> SUFFICES ASSUME q + 1 <= n PROVE FALSE
        OBVIOUS
      <3>1. (q + 1) * u <= n * u /\ (q + 1) * u = q * u + u
        BY Grows
      <3>2. n * u \in Nat /\ q * u \in Nat
        OBVIOUS
      <3>3. QED
        BY <2>2, <2>5, <3>1, <3>2
    <2>6. QED
      BY <1>1, <1>3, <2>1, <2>3, <2>4, <2>5
  <1>4. QED
    BY <1>2, <1>3

\* The first n of N entries are regions, the others have size 0.
Area == [base : Nat, size : Nat, free : BOOLEAN]
Ended(a, n, N) ==
  /\ n \in Nat /\ N \in Nat /\ n < N /\ a \in [1 .. N -> Area]
  /\ \A i \in 1 .. N : a[i].size > 0 <=> i <= n

LEMMA SmallestIs ==
  ASSUME NEW S, S \subseteq Nat, NEW x \in S, \A y \in S : x <= y
  PROVE  Min(S) = x
  <1>1. PICK z : z = Min(S)
    OBVIOUS
  <1>2. z \in S /\ \A y \in S : z <= y
    BY <1>1 DEF Min
  <1>3. z \in Nat /\ x \in Nat /\ z <= x /\ x <= z
    BY <1>2
  <1>4. QED
    BY <1>1, <1>3

LEMMA EndIs ==
  ASSUME NEW a, NEW n, NEW N, Ended(a, n, N), NEW k \in 1 .. n + 1
  PROVE  EndOf(a, k) = n + 1 /\ DOMAIN a = 1 .. N
  <1>1. /\ n \in Nat /\ N \in Nat /\ n + 1 \in 1 .. N /\ DOMAIN a = 1 .. N
        /\ \A i \in 1 .. N : a[i].size \in Nat /\ (a[i].size > 0 <=> i <= n)
    BY DEF Ended, Area
  <1>2. Len(a) = N
    <2>1. a = [i \in 1 .. N |-> a[i]]
      BY DEF Ended
    <2>2. QED
      BY <1>1, <2>1
  <1>3. PICK S : S = {i \in k .. N : a[i].size = 0}
    OBVIOUS
  <1>4. n + 1 \in S /\ S \subseteq Nat /\ \A y \in S : n + 1 <= y
    BY <1>1, <1>3
  <1>5. Min(S) = n + 1
    BY <1>4, SmallestIs
  <1>6. QED
    BY <1>1, <1>2, <1>3, <1>5 DEF EndOf

\* What pool_ins and pool_rem make of such a table.
LEMMA InsertIs ==
  ASSUME NEW a, NEW n, NEW N, Ended(a, n, N), n + 1 < N, NEW k \in 1 .. n + 1,
         NEW r \in Area, r.size > 0
  PROVE  LET b == pool_ins(a, k, r)
         IN  /\ Ended(b, n + 1, N)
             /\ \A i \in 1 .. N : b[i] = IF i = k THEN r
                                         ELSE IF i > k /\ i <= n + 1 THEN a[i - 1] ELSE a[i]
  <1>1. EndOf(a, k) = n + 1 /\ DOMAIN a = 1 .. N
    BY EndIs
  <1>2. PICK b : b = pool_ins(a, k, r)
    OBVIOUS
  <1>3. b = [i \in 1 .. N |-> IF i = k THEN r
                              ELSE IF i > k /\ i <= n + 1 THEN a[i - 1] ELSE a[i]]
    BY <1>1, <1>2 DEF pool_ins
  <1>4. /\ n \in Nat /\ N \in Nat /\ k \in Nat
        /\ \A i \in 1 .. N : a[i] \in Area /\ (a[i].size > 0 <=> i <= n)
        /\ \A i \in 1 .. N : i > k => i - 1 \in 1 .. N
    BY DEF Ended
  <1>5. b \in [1 .. N -> Area]
    BY <1>3, <1>4
  <1>6. ASSUME NEW i \in 1 .. N
        PROVE  b[i].size > 0 <=> i <= n + 1
    <2>1. CASE i = k
      BY <1>3, <1>4, <2>1
    <2>2. CASE i # k /\ ~(i > k /\ i <= n + 1)
      BY <1>3, <1>4, <2>2
    <2>3. CASE i # k /\ i > k /\ i <= n + 1
      <3>1. b[i] = a[i - 1] /\ i - 1 \in 1 .. N /\ i - 1 <= n
        BY <1>3, <1>4, <2>3
      <3>2. QED
        BY <1>4, <2>3, <3>1
    <2>4. QED
      BY <2>1, <2>2, <2>3
  <1>7. Ended(b, n + 1, N)
    BY <1>4, <1>5, <1>6 DEF Ended
  <1>8. QED
    BY <1>2, <1>3, <1>7

LEMMA RemoveIs ==
  ASSUME NEW a, NEW n, NEW N, Ended(a, n, N), NEW k \in 1 .. n
  PROVE  LET b == pool_rem(a, k)
         IN  /\ Ended(b, n - 1, N)
             /\ \A i \in 1 .. N : b[i] = IF i >= k /\ i <= n THEN a[i + 1] ELSE a[i]
  <1>0. n \in Nat /\ k \in 1 .. n + 1
    BY DEF Ended
  <1>1. EndOf(a, k) = n + 1 /\ DOMAIN a = 1 .. N
    BY <1>0, EndIs
  <1>2. PICK b : b = pool_rem(a, k)
    OBVIOUS
  <1>3. b = [i \in 1 .. N |-> IF i >= k /\ i < n + 1 THEN a[i + 1] ELSE a[i]]
    BY <1>1, <1>2 DEF pool_rem
  <1>4. /\ n \in Nat /\ N \in Nat /\ k \in Nat /\ n - 1 \in Nat /\ n - 1 < N
        /\ \A i \in 1 .. N : a[i] \in Area /\ (a[i].size > 0 <=> i <= n)
        /\ \A i \in 1 .. N : i <= n => i + 1 \in 1 .. N
        /\ \A i \in 1 .. N : i < n + 1 <=> i <= n
    BY DEF Ended
  <1>5. b \in [1 .. N -> Area] /\ \A i \in 1 .. N : b[i] = IF i >= k /\ i <= n THEN a[i + 1] ELSE a[i]
    BY <1>3, <1>4
  <1>6. ASSUME NEW i \in 1 .. N
        PROVE  b[i].size > 0 <=> i <= n - 1
    <2>1. CASE i >= k /\ i <= n
      <3>1. b[i] = a[i + 1] /\ i + 1 \in 1 .. N
        BY <1>4, <1>5, <2>1
      <3>2. QED
        BY <1>4, <3>1
    <2>2. CASE ~(i >= k /\ i <= n)
      BY <1>4, <1>5, <2>2
    <2>3. QED
      BY <2>1, <2>2
  <1>7. Ended(b, n - 1, N)
    BY <1>4, <1>5, <1>6 DEF Ended
  <1>8. QED
    BY <1>2, <1>5, <1>7

\* There is nothing to remove at the end.
LEMMA RemoveNothing ==
  ASSUME NEW a, NEW n, NEW N, Ended(a, n, N)
  PROVE  pool_rem(a, n + 1) = a
  <1>1. n \in Nat /\ n + 1 \in 1 .. n + 1 /\ N \in Nat
    BY DEF Ended
  <1>2. EndOf(a, n + 1) = n + 1 /\ DOMAIN a = 1 .. N
    BY <1>1, EndIs
  <1>3. pool_rem(a, n + 1) = [i \in 1 .. N |-> IF i >= n + 1 /\ i < n + 1 THEN a[i + 1] ELSE a[i]]
    BY <1>2 DEF pool_rem
  <1>4. \A i \in 1 .. N : ~(i >= n + 1 /\ i < n + 1)
    BY <1>1
  <1>5. a = [i \in 1 .. N |-> a[i]]
    BY DEF Ended
  <1>6. QED
    BY <1>3, <1>4, <1>5

Table(m, a, n) ==
  /\ Ended(a, n, Slots(m))
  /\ n > 0 => a[1].base = Base
  /\ \A i \in 1 .. n - 1 : a[i + 1].base = a[i].base + a[i].size /\ Multiple(a[i].size, Unit(m))

\* The last region of a fixed pool may reach beyond the memory while it is free.
Within(m, a, n) ==
  /\ n > 0 => a[n].base <= Base + Room(m)
  /\ n > 0 /\ (m \in MplId \/ ~a[n].free) => a[n].base + a[n].size <= Base + Room(m)
  /\ m \in MpfId => \A i \in 1 .. n : ~a[i].free => a[i].size = Unit(m)

LentBlock == [base : Nat, size : Nat, by : Task, again : BOOLEAN]
Given(a, n, K) ==
  /\ \A b \in K :
       /\ b \in LentBlock
       /\ \E i \in 1 .. n : ~a[i].free /\ a[i].base = b.base /\ a[i].size = Rounded(b.size)
  /\ \A b, d \in K : b.base = d.base => b = d
  /\ \A i \in 1 .. n : ~a[i].free => \E b \in K : b.base = a[i].base

\* The table a with n regions, out of which the blocks of K are lent.
Lease(m, a, n, K) == Table(m, a, n) /\ Within(m, a, n) /\ Given(a, n, K)

\* No two free regions follow each other, but perhaps those at P.
Apart(a, n, P) == \A k \in 1 .. n - 1 : k \notin P => ~(a[k].free /\ a[k + 1].free)

Kept(m, a, n, K) == Lease(m, a, n, K) /\ Apart(a, n, {})

LEMMA RegionsAre ==
  ASSUME NEW m \in PoolId, NEW a, NEW n, Table(m, a, n)
  PROVE  /\ n \in Nat /\ Slots(m) \in Nat /\ n < Slots(m) /\ Unit(m) \in Nat \ {0}
         /\ \A i \in 1 .. Slots(m) :
              /\ a[i] \in Area /\ a[i].base \in Nat /\ a[i].size \in Nat /\ a[i].free \in BOOLEAN
              /\ a[i].size > 0 <=> i <= n
         /\ \A i \in 1 .. n : i \in 1 .. Slots(m) /\ i \in Nat
         /\ \A i \in 1 .. n - 1 : a[i].size >= Unit(m)
  <1>1. Ended(a, n, Slots(m)) /\ Unit(m) \in Nat \ {0}
    BY PoolConstants DEF Table
  <1>2. /\ n \in Nat /\ Slots(m) \in Nat /\ n < Slots(m)
        /\ \A i \in 1 .. Slots(m) :
             /\ a[i] \in Area /\ a[i].base \in Nat /\ a[i].size \in Nat /\ a[i].free \in BOOLEAN
             /\ a[i].size > 0 <=> i <= n
    BY <1>1 DEF Ended, Area
  <1>3. \A i \in 1 .. n : i \in 1 .. Slots(m) /\ i \in Nat
    BY <1>2
  <1>4. ASSUME NEW i \in 1 .. n - 1
        PROVE  a[i].size >= Unit(m)
    <2>1. Multiple(a[i].size, Unit(m))
      BY DEF Table
    <2>2. a[i].size > 0
      BY <1>2, <1>3
    <2>3. QED
      BY <1>1, <2>1, <2>2, Multiples
  <1>5. QED
    BY <1>1, <1>2, <1>3, <1>4

\* A region ends at least as many units before another as there are regions
\* between them.
LEMMA Spread ==
  ASSUME NEW m \in PoolId, NEW a, NEW n, Table(m, a, n),
         NEW i \in 1 .. n, NEW j \in 1 .. n, i < j
  PROVE  a[i].base + a[i].size + (j - i - 1) * Unit(m) <= a[j].base
  <1>1. PICK u \in Nat : u = Unit(m)
    BY RegionsAre
  <1>2. /\ n \in Nat /\ i \in Nat /\ j \in Nat
        /\ \A k \in 1 .. n : a[k].base \in Nat /\ a[k].size \in Nat
        /\ \A k \in 1 .. n - 1 : a[k].size >= u /\ a[k + 1].base = a[k].base + a[k].size
    BY <1>1, RegionsAre DEF Table
  <1> DEFINE T == {d \in Nat : i + 1 + d <= n =>
                     a[i].base + a[i].size + d * u <= a[i + 1 + d].base}
  <1>3. 0 \in T
    <2> SUFFICES ASSUME i + 1 <= n
                 PROVE  a[i].base + a[i].size + 0 * u <= a[i + 1 + 0].base
      OBVIOUS
    <2>1. i \in 1 .. n - 1 /\ i + 1 \in 1 .. n /\ i + 1 + 0 = i + 1 /\ 0 * u = 0
      BY <1>2
    <2>2. QED
      BY <1>2, <2>1
  <1>4. ASSUME NEW d \in Nat, d \in T
        PROVE  d + 1 \in T
    <2> SUFFICES ASSUME i + 1 + (d + 1) <= n
                 PROVE  a[i].base + a[i].size + (d + 1) * u <= a[i + 1 + (d + 1)].base
      OBVIOUS
    <2>1. PICK k : k = i + 1 + d /\ k \in 1 .. n - 1 /\ k \in 1 .. n /\ k + 1 \in 1 .. n
      BY <1>2
    <2>2. a[i].base + a[i].size + d * u <= a[k].base
      BY <1>4, <2>1
    <2>3. a[k + 1].base = a[k].base + a[k].size /\ a[k].size >= u
      BY <1>2, <2>1
    <2>4. (d + 1) * u = d * u + u /\ d * u \in Nat /\ i + 1 + (d + 1) = k + 1
      BY <1>2, <2>1
    <2>5. QED
      BY <1>2, <2>1, <2>2, <2>3, <2>4
  <1> HIDE DEF T
  <1>5. Nat \subseteq T
    BY <1>3, <1>4, SetInduction
  <1>6. PICK d \in Nat : d = j - i - 1 /\ i + 1 + d = j
    BY <1>2
  <1>7. d \in T /\ j <= n
    BY <1>2, <1>5
  <1>8. QED
    BY <1>1, <1>6, <1>7 DEF T

\* The regions start at or after the base, and none at the place of another.
LEMMA Starting ==
  ASSUME NEW m \in PoolId, NEW a, NEW n, Table(m, a, n)
  PROVE  /\ \A i \in 1 .. n : Base + (i - 1) * Unit(m) <= a[i].base
         /\ \A i, j \in 1 .. n : i < j => a[i].base + a[i].size <= a[j].base
         /\ \A i, j \in 1 .. n : a[i].base = a[j].base => i = j
  <1>1. PICK u \in Nat \ {0} : u = Unit(m)
    BY RegionsAre
  <1>2. /\ n \in Nat /\ Base \in Nat
        /\ \A k \in 1 .. n : a[k].base \in Nat /\ a[k].size \in Nat /\ a[k].size > 0 /\ k \in Nat
        /\ \A k \in 1 .. n - 1 : a[k].size >= u
        /\ n > 0 => a[1].base = Base
    BY <1>1, RegionsAre, PoolConstants DEF Table
  <1>3. ASSUME NEW i \in 1 .. n, NEW j \in 1 .. n, i < j
        PROVE  a[i].base + a[i].size <= a[j].base
    <2>1. PICK d \in Nat : d = j - i - 1
      BY <1>2, <1>3
    <2>2. a[i].base + a[i].size + d * u <= a[j].base /\ d * u \in Nat
      BY <1>1, <1>3, <2>1, Spread
    <2>3. QED
      BY <1>2, <2>2
  <1>4. ASSUME NEW i \in 1 .. n
        PROVE  Base + (i - 1) * u <= a[i].base
    <2>1. CASE i = 1
      BY <1>2, <2>1
    <2>2. CASE i > 1
      <3>1. 1 \in 1 .. n /\ 1 \in 1 .. n - 1 /\ i - 1 - 1 = i - 2
        BY <1>2, <2>2
      <3>2. a[1].base + a[1].size + (i - 1 - 1) * u <= a[i].base
        BY <1>1, <2>2, <3>1, Spread
      <3>3. (i - 1) * u = (i - 1 - 1) * u + u /\ (i - 1 - 1) * u \in Int
        BY <1>2
      <3>4. a[1].base = Base /\ a[1].size >= u /\ a[1].size \in Nat
        BY <1>2, <3>1
      <3>5. QED
        BY <1>2, <3>2, <3>3, <3>4
    <2>3. QED
      BY <1>2, <2>1, <2>2
  <1>5. ASSUME NEW i \in 1 .. n, NEW j \in 1 .. n, a[i].base = a[j].base
        PROVE  i = j
    <2>1. ~(i < j) /\ ~(j < i)
      BY <1>2, <1>3, <1>5
    <2>2. QED
      BY <1>2, <2>1
  <1>6. QED
    BY <1>1, <1>3, <1>4, <1>5

\* Behind nothing but lent blocks of a fixed pool.
LEMMA Packed ==
  ASSUME NEW m \in MpfId, NEW a, NEW n, Table(m, a, n), Within(m, a, n),
         NEW i \in 1 .. n, \A j \in 1 .. i - 1 : ~a[j].free
  PROVE  a[i].base = Base + (i - 1) * Unit(m)
  <1>0. m \in PoolId
    BY DEF PoolId
  <1>1. PICK u \in Nat : u = Unit(m)
    BY <1>0, RegionsAre
  <1>2. /\ n \in Nat /\ i \in Nat /\ Base \in Nat /\ a[1].base = Base
        /\ \A k \in 1 .. n : a[k].base \in Nat /\ a[k].size \in Nat
        /\ \A k \in 1 .. n - 1 : a[k + 1].base = a[k].base + a[k].size
        /\ \A k \in 1 .. i - 1 : a[k].size = u
    <2>1. \A k \in 1 .. n : ~a[k].free => a[k].size = u
      BY <1>0, <1>1 DEF Within
    <2>2. n \in Nat /\ \A k \in 1 .. i - 1 : k \in 1 .. n
      BY <1>0, RegionsAre
    <2>3. n > 0
      BY <2>2
    <2>4. QED
      BY <1>0, <1>1, <2>1, <2>2, <2>3, RegionsAre, PoolConstants DEF Table
  <1> DEFINE T == {d \in Nat : d < i => a[d + 1].base = Base + d * u}
  <1>3. 0 \in T
    BY <1>2
  <1>4. ASSUME NEW d \in Nat, d \in T
        PROVE  d + 1 \in T
    <2> SUFFICES ASSUME d + 1 < i
                 PROVE  a[(d + 1) + 1].base = Base + (d + 1) * u
      OBVIOUS
    <2>1. PICK k : k = d + 1 /\ k \in 1 .. n - 1 /\ k \in 1 .. i - 1
      BY <1>2
    <2>2. a[k].base = Base + d * u /\ a[k + 1].base = a[k].base + a[k].size /\ a[k].size = u
      BY <1>2, <1>4, <2>1
    <2>3. (d + 1) * u = d * u + u /\ d * u \in Nat
      OBVIOUS
    <2>4. QED
      BY <1>2, <2>1, <2>2, <2>3
  <1> HIDE DEF T
  <1>5. Nat \subseteq T
    BY <1>3, <1>4, SetInduction
  <1>6. PICK d \in Nat : d = i - 1 /\ d < i /\ d + 1 = i
    BY <1>2
  <1>7. QED
    BY <1>1, <1>5, <1>6 DEF T

LEMMA SameArea ==
  ASSUME NEW x \in Area, NEW y \in Area,
         x.base = y.base, x.size = y.size, x.free = y.free
  PROVE  x = y
  BY DEF Area

\* Two free regions become one; behind the last one there is nothing to join.
MergeAt(a, p) == pool_rem([a EXCEPT ![p].size = @ + a[p + 1].size], p + 1)

MergesInto(a, n, b, k, p) ==
  /\ p <= k /\ b[p].free
  /\ \A i \in 1 .. k : i < p => i \in 1 .. n /\ b[i] = a[i]
  /\ \A i \in 1 .. k : i > p => i + 1 \in 1 .. n /\ b[i] = a[i + 1]

LEMMA Merged ==
  ASSUME NEW m \in PoolId, NEW a, NEW n, NEW K, Lease(m, a, n, K),
         NEW p \in 1 .. n, a[p].free, p < n => a[p + 1].free
  PROVE  \E k \in Nat : Lease(m, MergeAt(a, p), k, K) /\ MergesInto(a, n, MergeAt(a, p), k, p)
  <1>1. PICK N, u, T : N = Slots(m) /\ u = Unit(m) /\ T = Base + Room(m)
    OBVIOUS
  <1>2. /\ n \in Nat /\ N \in Nat /\ n < N /\ u \in Nat \ {0} /\ p \in Nat /\ T \in Nat
        /\ \A i \in 1 .. N : a[i] \in Area /\ a[i].base \in Nat /\ a[i].size \in Nat
                             /\ a[i].free \in BOOLEAN /\ (a[i].size > 0 <=> i <= n)
        /\ \A i \in 1 .. n : i \in 1 .. N /\ i \in Nat
        /\ p \in 1 .. N /\ p + 1 \in 1 .. N /\ a \in [1 .. N -> Area]
        /\ m \in MplId => m \notin MpfId
    <2>1. Table(m, a, n) /\ Ended(a, n, N)
      BY <1>1 DEF Lease, Table
    <2>2. /\ n \in Nat /\ N \in Nat /\ n < N /\ u \in Nat \ {0} /\ a \in [1 .. N -> Area]
          /\ \A i \in 1 .. N : a[i] \in Area /\ a[i].base \in Nat /\ a[i].size \in Nat
                               /\ a[i].free \in BOOLEAN /\ (a[i].size > 0 <=> i <= n)
          /\ \A i \in 1 .. n : i \in 1 .. N /\ i \in Nat
      BY <1>1, <2>1, RegionsAre DEF Ended
    <2>3. T \in Nat /\ (m \in MplId => m \notin MpfId)
      BY <1>1, PoolConstants
    <2>4. p \in Nat /\ p \in 1 .. N /\ p + 1 \in 1 .. N
      BY <2>2
    <2>5. QED
      BY <2>2, <2>3, <2>4
  <1>3. PICK c : c = [a EXCEPT ![p].size = @ + a[p + 1].size]
    OBVIOUS
  <1>4. /\ c \in [1 .. N -> Area]
        /\ \A i \in 1 .. N : i # p => c[i] = a[i]
        /\ c[p].base = a[p].base /\ c[p].free = a[p].free
        /\ c[p].size = a[p].size + a[p + 1].size
    <2>1. c = [i \in 1 .. N |-> IF i = p THEN [a[p] EXCEPT !.size = a[p].size + a[p + 1].size]
                                ELSE a[i]]
      BY <1>2, <1>3
    <2>2. PICK r : r = [a[p] EXCEPT !.size = a[p].size + a[p + 1].size]
      OBVIOUS
    <2>3. /\ r \in Area /\ r.base = a[p].base /\ r.free = a[p].free
          /\ r.size = a[p].size + a[p + 1].size
      <3>1. a[p] \in Area /\ a[p].size + a[p + 1].size \in Nat
        BY <1>2
      <3>2. QED
        BY <2>2, <3>1 DEF Area
    <2>4. QED
      BY <1>2, <2>1, <2>2, <2>3
  <1>5. CASE p = n
    <2>1. a[p + 1].size = 0
      BY <1>2, <1>5
    <2>2. c = a
      <3>1. c[p].size = a[p].size
        BY <1>2, <1>4, <2>1
      <3>2. c[p] = a[p]
        <4>1. c[p] \in Area /\ a[p] \in Area
          BY <1>2, <1>4
        <4>2. QED
          BY <1>4, <3>1, <4>1, SameArea
      <3>3. QED
        BY <1>2, <1>4, <3>2
    <2>3. MergeAt(a, p) = a
      BY <1>3, <1>5, <2>2, RemoveNothing DEF MergeAt, Lease, Table
    <2>4. MergesInto(a, n, a, n, p)
      BY <1>2, <1>5 DEF MergesInto
    <2>5. QED
      BY <1>2, <2>3, <2>4
  <1>6. CASE p # n
    <2>1. p < n /\ a[p + 1].free /\ p + 1 \in 1 .. n /\ p \in 1 .. n - 1
      BY <1>2, <1>6
    <2>2. Ended(c, n, N)
      <3>1. c[p].size > 0
        BY <1>2, <1>4
      <3>2. \A i \in 1 .. N : c[i].size > 0 <=> i <= n
        BY <1>2, <1>4, <3>1
      <3>3. QED
        BY <1>2, <1>4, <3>2 DEF Ended
    <2>3. PICK b : b = MergeAt(a, p)
      OBVIOUS
    <2>4. /\ Ended(b, n - 1, N)
          /\ \A i \in 1 .. N : b[i] = IF i >= p + 1 /\ i <= n THEN c[i + 1] ELSE c[i]
      <3>1. b = pool_rem(c, p + 1)
        BY <1>3, <2>3 DEF MergeAt
      <3>2. PICK k \in 1 .. n : k = p + 1
        BY <2>1
      <3>3. QED
        BY <2>2, <3>1, <3>2, RemoveIs
    <2>5. /\ \A i \in 1 .. p - 1 : b[i] = a[i]
          /\ b[p] = c[p]
          /\ \A i \in p + 1 .. n - 1 : b[i] = a[i + 1]
      <3>1. \A i \in 1 .. p - 1 : i \in 1 .. N /\ i # p /\ ~(i >= p + 1)
        BY <1>2
      <3>2. ~(p >= p + 1)
        BY <1>2
      <3>3. \A i \in p + 1 .. n - 1 : i \in 1 .. N /\ i + 1 \in 1 .. N /\ i + 1 # p
                                      /\ i >= p + 1 /\ i <= n
        BY <1>2
      <3>4. QED
        BY <1>2, <1>4, <2>4, <3>1, <3>2, <3>3
    <2>6. /\ n > 0 => a[1].base = Base
          /\ \A i \in 1 .. n - 1 : a[i + 1].base = a[i].base + a[i].size /\ Multiple(a[i].size, u)
      BY <1>1 DEF Lease, Table
    <2>7. n - 1 > 0 => b[1].base = Base
      <3>1. CASE p = 1
        BY <1>2, <1>4, <2>5, <2>6, <3>1
      <3>2. CASE p > 1
        <4>1. 1 \in 1 .. p - 1
          BY <1>2, <3>2
        <4>2. QED
          BY <1>2, <2>5, <2>6, <4>1
      <3>3. QED
        BY <1>2, <3>1, <3>2
    <2>8. ASSUME NEW i \in 1 .. n - 1 - 1
          PROVE  b[i + 1].base = b[i].base + b[i].size /\ Multiple(b[i].size, u)
      <3>1. CASE i + 1 < p
        <4>1. i \in 1 .. p - 1 /\ i + 1 \in 1 .. p - 1 /\ i \in 1 .. n - 1
          BY <1>2, <3>1
        <4>2. QED
          BY <2>5, <2>6, <4>1
      <3>2. CASE i + 1 = p
        <4>1. i \in 1 .. p - 1 /\ i \in 1 .. n - 1
          BY <1>2, <3>2
        <4>2. QED
          BY <1>4, <2>5, <2>6, <3>2, <4>1
      <3>3. CASE i = p
        <4>1. p + 1 \in p + 1 .. n - 1 /\ p + 1 \in 1 .. n - 1 /\ p + 1 \in 1 .. N
              /\ p + 1 + 1 \in 1 .. N
          BY <1>2, <3>3
        <4>2. b[p + 1] = a[p + 1 + 1]
          BY <2>5, <4>1
        <4>3. /\ a[p + 1].base = a[p].base + a[p].size
              /\ a[p + 1 + 1].base = a[p + 1].base + a[p + 1].size
              /\ Multiple(a[p].size, u) /\ Multiple(a[p + 1].size, u)
          BY <2>1, <2>6, <4>1
        <4>4. Multiple(c[p].size, u)
          BY <1>2, <1>4, <4>3, Multiples
        <4>5. a[p + 1 + 1].base = a[p].base + (a[p].size + a[p + 1].size)
          <5>1. a[p].base \in Nat /\ a[p].size \in Nat /\ a[p + 1].size \in Nat
            BY <1>2
          <5>2. QED
            BY <4>3, <5>1
        <4>6. QED
          BY <1>4, <2>5, <3>3, <4>2, <4>4, <4>5
      <3>4. CASE i > p
        <4>1. i \in p + 1 .. n - 1 /\ i + 1 \in p + 1 .. n - 1 /\ i + 1 \in 1 .. n - 1
          BY <1>2, <3>4
        <4>2. b[i] = a[i + 1] /\ b[i + 1] = a[i + 1 + 1]
          BY <2>5, <4>1
        <4>3. QED
          BY <2>6, <4>1, <4>2
      <3>5. QED
        BY <1>2, <3>1, <3>2, <3>3, <3>4
    <2>9. Table(m, b, n - 1)
      BY <1>1, <2>4, <2>7, <2>8 DEF Table
    <2>10. \A i \in 1 .. n - 1 : ~b[i].free =>
             \E j \in 1 .. n : ~a[j].free /\ b[i] = a[j]
      <3> SUFFICES ASSUME NEW i \in 1 .. n - 1, ~b[i].free
                   PROVE  \E j \in 1 .. n : ~a[j].free /\ b[i] = a[j]
        OBVIOUS
      <3>1. CASE i < p
        <4>1. i \in 1 .. p - 1 /\ i \in 1 .. n
          BY <1>2, <3>1
        <4>2. QED
          BY <2>5, <4>1
      <3>2. CASE i > p
        <4>1. i \in p + 1 .. n - 1 /\ i + 1 \in 1 .. n
          BY <1>2, <3>2
        <4>2. QED
          BY <2>5, <4>1
      <3>3. i # p
        BY <1>4, <2>5
      <3>4. QED
        BY <1>2, <3>1, <3>2, <3>3
    <2>11. Within(m, b, n - 1)
      <3>1. /\ a[n].base <= T
            /\ m \in MplId \/ ~a[n].free => a[n].base + a[n].size <= T
            /\ m \in MpfId => \A i \in 1 .. n : ~a[i].free => a[i].size = Unit(m)
        BY <1>1, <1>2, <2>1 DEF Lease, Within
      <3>2. /\ b[n - 1].base <= T
            /\ m \in MplId \/ ~b[n - 1].free => b[n - 1].base + b[n - 1].size <= T
        <4>1. CASE n - 1 = p
          <5>1. a[n].base = a[p].base + a[p].size /\ p + 1 = n
            BY <1>2, <2>1, <2>6, <4>1
          <5>2. a[p].base \in Nat /\ a[p].size \in Nat /\ a[n].size \in Nat
            BY <1>2, <5>1
          <5>3. a[p].base <= T
            BY <1>2, <3>1, <5>1, <5>2
          <5>4. a[p].base + (a[p].size + a[n].size) = a[n].base + a[n].size
            BY <5>1, <5>2
          <5>5. b[n - 1] = c[p] /\ ~(~b[n - 1].free)
            BY <1>4, <2>5, <4>1
          <5>6. QED
            BY <1>4, <3>1, <5>1, <5>3, <5>4, <5>5
        <4>2. CASE n - 1 # p
          <5>1. n - 1 \in p + 1 .. n - 1 /\ n - 1 + 1 = n
            BY <1>2, <2>1, <4>2
          <5>2. QED
            BY <2>5, <3>1, <5>1
        <4>3. QED
          BY <4>1, <4>2
      <3>3. m \in MpfId => \A i \in 1 .. n - 1 : ~b[i].free => b[i].size = Unit(m)
        BY <2>10, <3>1
      <3>4. QED
        BY <1>1, <3>2, <3>3 DEF Within
    <2>12. Given(b, n - 1, K)
      <3>1. /\ \A d \in K : /\ d \in LentBlock
                            /\ \E i \in 1 .. n : ~a[i].free /\ a[i].base = d.base /\ a[i].size = Rounded(d.size)
            /\ \A d, e \in K : d.base = e.base => d = e
            /\ \A i \in 1 .. n : ~a[i].free => \E d \in K : d.base = a[i].base
        BY DEF Lease, Given
      <3>2. \A j \in 1 .. n : ~a[j].free => \E i \in 1 .. n - 1 : b[i] = a[j]
        <4> SUFFICES ASSUME NEW j \in 1 .. n, ~a[j].free
                     PROVE  \E i \in 1 .. n - 1 : b[i] = a[j]
          OBVIOUS
        <4>1. j # p /\ j # p + 1
          BY <2>1
        <4>2. CASE j < p
          <5>1. j \in 1 .. p - 1 /\ j \in 1 .. n - 1
            BY <1>2, <4>2
          <5>2. QED
            BY <2>5, <5>1
        <4>3. CASE j > p + 1
          <5>1. j - 1 \in p + 1 .. n - 1 /\ j - 1 \in 1 .. n - 1 /\ (j - 1) + 1 = j
            BY <1>2, <4>3
          <5>2. QED
            BY <2>5, <5>1
        <4>4. QED
          BY <1>2, <4>1, <4>2, <4>3
      <3>3. \A d \in K : \E i \in 1 .. n - 1 : ~b[i].free /\ b[i].base = d.base /\ b[i].size = Rounded(d.size)
        <4> SUFFICES ASSUME NEW d \in K
                     PROVE  \E i \in 1 .. n - 1 : ~b[i].free /\ b[i].base = d.base
                                                  /\ b[i].size = Rounded(d.size)
          OBVIOUS
        <4>1. PICK j \in 1 .. n : ~a[j].free /\ a[j].base = d.base /\ a[j].size = Rounded(d.size)
          BY <3>1
        <4>2. PICK i \in 1 .. n - 1 : b[i] = a[j]
          BY <3>2, <4>1
        <4>3. QED
          BY <4>1, <4>2
      <3>4. \A i \in 1 .. n - 1 : ~b[i].free => \E d \in K : d.base = b[i].base
        BY <2>10, <3>1
      <3>5. QED
        BY <3>1, <3>3, <3>4 DEF Given
    <2>13. n - 1 \in Nat /\ MergesInto(a, n, b, n - 1, p)
      <3>1. n - 1 \in Nat /\ p <= n - 1 /\ b[p].free
        <4>1. n - 1 \in Nat /\ p <= n - 1
          BY <1>2, <2>1
        <4>2. b[p].free
          BY <1>4, <2>5
        <4>3. QED
          BY <4>1, <4>2
      <3>2. \A i \in 1 .. n - 1 : i < p => i \in 1 .. n /\ i \in 1 .. p - 1
        BY <1>2
      <3>3. \A i \in 1 .. n - 1 : i > p => i + 1 \in 1 .. n /\ i \in p + 1 .. n - 1
        BY <1>2
      <3>4. QED
        BY <2>5, <3>1, <3>2, <3>3 DEF MergesInto
    <2>14. QED
      BY <2>3, <2>9, <2>11, <2>12, <2>13 DEF Lease
  <1>7. QED
    BY <1>5, <1>6

\* When the two are joined, the regions after them have no free neighbour.
LEMMA StillApart ==
  ASSUME NEW a, NEW n \in Nat, NEW b, NEW k \in Nat, NEW p \in 1 .. n,
         MergesInto(a, n, b, k, p), a[p].free, p < n => a[p + 1].free
  PROVE  /\ Apart(a, n, {p}) => Apart(b, k, {})
         /\ p = 1 /\ Apart(a, n, {1, 2}) => Apart(b, k, {1})
  <1>1. /\ \A i \in 1 .. k : i < p => i \in 1 .. n /\ b[i] = a[i]
        /\ \A i \in 1 .. k : i > p => i + 1 \in 1 .. n /\ b[i] = a[i + 1]
    BY DEF MergesInto
  <1>2. ASSUME NEW q \in 1 .. k - 1, q > p, NEW S, Apart(a, n, S), q + 1 \notin S
        PROVE  ~(b[q].free /\ b[q + 1].free)
    <2>1. q \in 1 .. k /\ q + 1 \in 1 .. k /\ q + 1 > p
      BY <1>2
    <2>2. PICK j : j = q + 1
      OBVIOUS
    <2>3. b[q] = a[j] /\ b[j] = a[j + 1] /\ j \in 1 .. n /\ j + 1 \in 1 .. n
      BY <1>1, <1>2, <2>1, <2>2
    <2>4. j \in 1 .. n - 1
      BY <2>3
    <2>5. QED
      BY <1>2, <2>2, <2>3, <2>4 DEF Apart
  <1>3. ASSUME Apart(a, n, {p}), NEW q \in 1 .. k - 1
        PROVE  ~(b[q].free /\ b[q + 1].free)
    <2>1. CASE q > p
      BY <1>2, <1>3, <2>1
    <2>2. CASE q = p
      <3>1. q + 1 \in 1 .. k /\ q + 1 > p /\ q + 1 + 1 \in 1 .. n /\ b[q + 1] = a[q + 1 + 1]
        BY <1>1, <2>2
      <3>2. p + 1 \in 1 .. n - 1 /\ p + 1 # p /\ p < n
        BY <2>2, <3>1
      <3>3. ~a[p + 1 + 1].free
        BY <1>3, <3>2 DEF Apart
      <3>4. QED
        BY <2>2, <3>1, <3>3
    <2>3. CASE q < p
      <3>1. q \in 1 .. k /\ q \in 1 .. n - 1 /\ b[q] = a[q] /\ q # p
        BY <1>1, <2>3
      <3>2. ~(a[q].free /\ a[q + 1].free)
        BY <1>3, <3>1 DEF Apart
      <3>3. CASE q + 1 < p
        <4>1. q + 1 \in 1 .. k
          BY <3>1
        <4>2. QED
          BY <1>1, <3>1, <3>2, <3>3, <4>1
      <3>4. CASE q + 1 = p
        BY <3>1, <3>2, <3>4
      <3>5. QED
        BY <2>3, <3>3, <3>4
    <2>4. QED
      BY <2>1, <2>2, <2>3
  <1>4. ASSUME p = 1, Apart(a, n, {1, 2}), NEW q \in 1 .. k - 1, q # 1
        PROVE  ~(b[q].free /\ b[q + 1].free)
    <2>1. q > p /\ q + 1 \notin {1, 2}
      BY <1>4
    <2>2. QED
      BY <1>2, <1>4, <2>1
  <1>5. QED
    BY <1>3, <1>4 DEF Apart

\* Which regions are free does not matter to the table.
LEMMA SameTable ==
  ASSUME NEW m \in PoolId, NEW a, NEW n, Table(m, a, n),
         NEW c \in [1 .. Slots(m) -> Area],
         \A j \in 1 .. Slots(m) : c[j].base = a[j].base /\ c[j].size = a[j].size
  PROVE  Table(m, c, n)
  <1>1. PICK N : N = Slots(m)
    OBVIOUS
  <1>2. Ended(a, n, N)
    BY <1>1 DEF Table
  <1>3. /\ n \in Nat /\ N \in Nat /\ n < N
        /\ \A j \in 1 .. N : a[j].size > 0 <=> j <= n
    BY <1>2 DEF Ended
  <1>4. Ended(c, n, N)
    BY <1>1, <1>3 DEF Ended
  <1>5. n > 0 => c[1].base = Base
    BY <1>1, <1>3 DEF Table
  <1>6. \A j \in 1 .. n - 1 : j \in 1 .. N /\ j + 1 \in 1 .. N
    BY <1>3
  <1>7. \A j \in 1 .. n - 1 : c[j + 1].base = c[j].base + c[j].size
                              /\ Multiple(c[j].size, Unit(m))
    BY <1>1, <1>6 DEF Table
  <1>8. QED
    BY <1>1, <1>4, <1>5, <1>7 DEF Table

\* A block comes back: its region is free.
Unlent(a, i) == [a EXCEPT ![i].free = TRUE]

LEMMA Marked ==
  ASSUME NEW m \in PoolId, NEW a, NEW n, NEW K, Lease(m, a, n, K),
         NEW d \in K, NEW i \in 1 .. n, a[i].base = d.base, NEW c, c = Unlent(a, i)
  PROVE  /\ Lease(m, c, n, K \ {d}) /\ c[i].free
         /\ \A j \in 1 .. Slots(m) : (j # i => c[j] = a[j]) /\ c[j].size = a[j].size
  <1>1. PICK N : N = Slots(m)
    OBVIOUS
  <1>2. Table(m, a, n) /\ Ended(a, n, N)
    BY <1>1 DEF Lease, Table
  <1>3. /\ n \in Nat /\ N \in Nat /\ n < N /\ a \in [1 .. N -> Area]
        /\ \A j \in 1 .. N : a[j] \in Area /\ (a[j].size > 0 <=> j <= n)
        /\ \A j \in 1 .. n : j \in 1 .. N /\ j \in Nat
    BY <1>1, <1>2, RegionsAre DEF Ended
  <1>5. /\ c \in [1 .. N -> Area]
        /\ \A j \in 1 .. N : /\ j # i => c[j] = a[j]
                             /\ c[j].size = a[j].size /\ c[j].base = a[j].base
        /\ c[i].free
    <2>1. PICK r : r = [a[i] EXCEPT !.free = TRUE]
      OBVIOUS
    <2>2. r \in Area /\ r.base = a[i].base /\ r.size = a[i].size /\ r.free
      <3>1. a[i] \in Area
        BY <1>3
      <3>2. QED
        BY <2>1, <3>1 DEF Area
    <2>3. c = [j \in 1 .. N |-> IF j = i THEN r ELSE a[j]]
      BY <1>3, <2>1 DEF Unlent
    <2>4. QED
      BY <1>3, <2>2, <2>3
  <1>6. Table(m, c, n)
    BY <1>1, <1>2, <1>5, SameTable
  <1>7. Within(m, c, n)
    <2>1. \A j \in 1 .. n : ~c[j].free => j # i /\ c[j] = a[j]
      BY <1>3, <1>5
    <2>2. n > 0 => n \in 1 .. n /\ c[n].base = a[n].base /\ c[n].size = a[n].size
      BY <1>3, <1>5
    <2>3. QED
      BY <2>1, <2>2 DEF Lease, Within
  <1>8. Given(c, n, K \ {d})
    <2>1. /\ \A e \in K : /\ e \in LentBlock
                          /\ \E j \in 1 .. n : ~a[j].free /\ a[j].base = e.base
                                               /\ a[j].size = Rounded(e.size)
          /\ \A e, f \in K : e.base = f.base => e = f
          /\ \A j \in 1 .. n : ~a[j].free => \E e \in K : e.base = a[j].base
      BY DEF Lease, Given
    <2>2. ASSUME NEW e \in K \ {d}
          PROVE  \E j \in 1 .. n : ~c[j].free /\ c[j].base = e.base /\ c[j].size = Rounded(e.size)
      <3>1. PICK j \in 1 .. n : ~a[j].free /\ a[j].base = e.base /\ a[j].size = Rounded(e.size)
        BY <2>1
      <3>2. j # i
        BY <2>1, <3>1
      <3>3. c[j] = a[j]
        BY <1>3, <1>5, <3>2
      <3>4. QED
        BY <3>1, <3>3
    <2>3. ASSUME NEW j \in 1 .. n, ~c[j].free
          PROVE  \E e \in K \ {d} : e.base = c[j].base
      <3>1. j # i /\ c[j] = a[j]
        BY <1>3, <1>5, <2>3
      <3>2. PICK e \in K : e.base = a[j].base
        BY <2>1, <2>3, <3>1
      <3>3. e # d
        BY <1>2, <3>1, <3>2, Starting
      <3>4. QED
        BY <3>1, <3>2, <3>3
    <2>4. QED
      BY <2>1, <2>2, <2>3 DEF Given
  <1>9. Lease(m, c, n, K \ {d})
    BY <1>6, <1>7, <1>8 DEF Lease
  <1>10. QED
    BY <1>1, <1>5, <1>9

\* A table out of which nothing is lent has no region behind its second entry.
Clean(a) == \A i \in DOMAIN a : i > 2 => a[i].size = 0

LEMMA Empty ==
  ASSUME NEW m \in PoolId, NEW a, NEW n, Kept(m, a, n, {})
  PROVE  Clean(a)
  <1>1. Ended(a, n, Slots(m))
    BY DEF Kept, Lease, Table
  <1>2. /\ n \in Nat /\ DOMAIN a = 1 .. Slots(m) /\ Slots(m) \in Nat
        /\ \A i \in 1 .. Slots(m) : a[i].size \in Nat /\ (a[i].size > 0 <=> i <= n)
    BY <1>1 DEF Ended, Area
  <1>3. \A i \in 1 .. n : a[i].free
    BY DEF Kept, Lease, Given
  <1>4. n <= 1
    <2> SUFFICES ASSUME n >= 2 PROVE FALSE
      BY <1>2
    <2>1. 1 \in 1 .. n /\ 2 \in 1 .. n /\ 1 \in 1 .. n - 1 /\ 1 + 1 = 2
      BY <1>2
    <2>2. ~(a[1].free /\ a[2].free)
      BY <2>1 DEF Kept, Apart
    <2>3. QED
      BY <1>3, <2>1, <2>2
  <1>5. ASSUME NEW i \in 1 .. Slots(m), i > 2
        PROVE  a[i].size = 0
    <2>1. ~(i <= n)
      BY <1>2, <1>4, <1>5
    <2>2. QED
      BY <1>2, <2>1
  <1>6. QED
    BY <1>2, <1>5 DEF Clean

\* pool_free removes the right entry of a region joined with the one before it.
SoundToFree(a, i) == MergesUp(a, i) => i = 2

LEMMA InOrder ==
  ASSUME NEW m \in PoolId, NEW a, NEW n, NEW K, Kept(m, a, n, K), NEW d \in K,
         NEW i \in 1 .. n, a[i].base = d.base,
         \/ \E e \in K : e.base + Rounded(e.size) = d.base
         \/ \A e \in K : e.base >= d.base
  PROVE  SoundToFree(a, i)
  <1>1. Table(m, a, n) /\ Given(a, n, K) /\ Apart(a, n, {})
    BY DEF Kept, Lease
  <1>2. /\ n \in Nat /\ i \in Nat
        /\ \A j \in 1 .. n : a[j].base \in Nat /\ a[j].size \in Nat /\ a[j].size > 0 /\ j \in Nat
        /\ \A j, k \in 1 .. n : j < k => a[j].base + a[j].size <= a[k].base
    BY <1>1, RegionsAre, Starting
  <1>3. ASSUME NEW e \in K, e.base + Rounded(e.size) = d.base
        PROVE  ~MergesUp(a, i)
    <2>1. PICK j \in 1 .. n : ~a[j].free /\ a[j].base = e.base /\ a[j].size = Rounded(e.size)
      BY <1>1 DEF Given
    <2>2. a[j].base + a[j].size = a[i].base
      BY <1>3, <2>1
    <2>3. j < i
      BY <1>2, <2>2
    <2>4. j = i - 1
      <3> SUFFICES ASSUME j < i - 1 PROVE FALSE
        BY <1>2, <2>3
      <3>1. PICK k \in 1 .. n : k = i - 1 /\ j < k /\ k < i
        BY <1>2
      <3>2. a[j].base + a[j].size <= a[k].base /\ a[k].base + a[k].size <= a[i].base
        BY <1>2, <3>1
      <3>3. QED
        BY <1>2, <2>2, <3>2
    <2>5. QED
      BY <2>1, <2>4 DEF MergesUp
  <1>4. ASSUME \A e \in K : e.base >= d.base, i > 2
        PROVE  FALSE
    <2>1. 1 \in 1 .. n /\ 2 \in 1 .. n /\ 1 \in 1 .. n - 1 /\ 1 + 1 = 2 /\ 1 < i /\ 2 < i
      BY <1>2, <1>4
    <2>2. ASSUME NEW j \in 1 .. n, j < i, ~a[j].free
          PROVE  FALSE
      <3>1. PICK e \in K : e.base = a[j].base
        BY <1>1, <2>2 DEF Given
      <3>2. a[j].base >= a[i].base
        BY <1>4, <3>1
      <3>3. QED
        BY <1>2, <2>2, <3>2
    <2>3. a[1].free /\ a[2].free
      BY <2>1, <2>2
    <2>4. QED
      BY <1>1, <2>1, <2>3 DEF Apart
  <1>5. QED
    BY <1>2, <1>3, <1>4 DEF SoundToFree, MergesUp

LEMMA BlockFreed ==
  ASSUME NEW m \in PoolId, NEW a, NEW n, NEW K, Kept(m, a, n, K), NEW d \in K,
         \/ \E e \in K : e.base + Rounded(e.size) = d.base
         \/ \A e \in K : e.base >= d.base
  PROVE  \E k \in Nat : Kept(m, pool_free(a, d.base), k, K \ {d})
  <1>0. Lease(m, a, n, K) /\ Apart(a, n, {})
    BY DEF Kept
  <1>1. PICK N : N = Slots(m)
    OBVIOUS
  <1>2. Table(m, a, n) /\ Ended(a, n, N)
    BY <1>0, <1>1 DEF Lease, Table
  <1>3. /\ n \in Nat /\ N \in Nat /\ n < N /\ a \in [1 .. N -> Area] /\ DOMAIN a = 1 .. N
        /\ \A j \in 1 .. n : j \in 1 .. N /\ j \in Nat
    BY <1>1, <1>2, RegionsAre DEF Ended
  <1>4. PICK i \in 1 .. n : a[i].base = d.base
    BY <1>0 DEF Lease, Given
  <1>5. EndOf(a, 1) = n + 1
    <2>1. 1 \in 1 .. n + 1
      BY <1>3
    <2>2. QED
      BY <1>2, <2>1, EndIs
  <1>6. Places(a, d.base) = {i}
    <2>1. \A j \in 1 .. n : a[j].base = d.base => j = i
      BY <1>2, <1>4, Starting
    <2>2. \A j \in 1 .. N : j < n + 1 => j \in 1 .. n
      BY <1>3
    <2>3. i \in 1 .. N /\ i < n + 1
      BY <1>3
    <2>4. QED
      BY <1>3, <1>4, <1>5, <2>1, <2>2, <2>3 DEF Places
  <1>7. Min({i}) = i
    <2>1. {i} \subseteq Nat /\ i \in {i} /\ \A y \in {i} : i <= y
      BY <1>3
    <2>2. QED
      BY <2>1, SmallestIs
  <1>8. pool_free(a, d.base) = FreeAt(a, i)
    BY <1>6, <1>7 DEF pool_free
  <1>9. PICK c, D : c = Unlent(a, i) /\ D = K \ {d}
    OBVIOUS
  <1>10. /\ Lease(m, c, n, D) /\ c[i].free
         /\ \A j \in 1 .. N : (j # i => c[j] = a[j]) /\ c[j].size = a[j].size
    <2>1. /\ Lease(m, c, n, D) /\ c[i].free
          /\ \A j \in 1 .. Slots(m) : (j # i => c[j] = a[j]) /\ c[j].size = a[j].size
      BY ONLY m \in PoolId, <1>0, d \in K, <1>4, <1>9, Marked
    <2>2. QED
      BY ONLY <1>1, <2>1
  <1>11. Apart(c, n, {i - 1, i})
    <2> SUFFICES ASSUME NEW k \in 1 .. n - 1, k \notin {i - 1, i}
                 PROVE  ~(c[k].free /\ c[k + 1].free)
      BY DEF Apart
    <2>1. k \in 1 .. N /\ k + 1 \in 1 .. N /\ k # i /\ k + 1 # i
      BY <1>3
    <2>2. c[k] = a[k] /\ c[k + 1] = a[k + 1]
      BY <1>10, <2>1
    <2>3. QED
      BY <1>0, <2>2 DEF Apart
  <1>12. CASE MergesUp(a, i)
    <2>1. i = 2 /\ a[1].free /\ 1 \in 1 .. n /\ 1 \in 1 .. N /\ 2 \in 1 .. N
      <3>1. SoundToFree(a, i)
        BY <1>4, InOrder
      <3>2. i = 2
        BY <1>12, <3>1 DEF SoundToFree
      <3>3. QED
        BY <1>3, <1>12, <3>2 DEF MergesUp
    <2>2. PICK b : b = MergeAt(c, 1)
      OBVIOUS
    <2>3. b = pool_rem([c EXCEPT ![i - 1].size = @ + a[i].size], 2)
      <3>1. i - 1 = 1 /\ 1 + 1 = 2 /\ c[2].size = a[i].size
        BY <1>10, <2>1
      <3>2. QED
        BY <2>1, <2>2, <3>1 DEF MergeAt
    <2>4. c[1].free /\ c[1 + 1].free
      BY <1>10, <2>1
    <2>5. PICK k \in Nat : Lease(m, b, k, D) /\ MergesInto(c, n, b, k, 1)
      BY <1>10, <2>1, <2>2, <2>4, Merged
    <2>6. 1 <= k /\ b[1].free /\ Apart(b, k, {1})
      <3>1. Apart(c, n, {1, 2})
        <4>1. {i - 1, i} = {1, 2}
          BY <2>1
        <4>2. QED
          BY <1>11, <4>1
      <3>2. Apart(b, k, {1})
        BY <1>3, <2>1, <2>4, <2>5, <3>1, StillApart
      <3>3. QED
        BY <2>5, <3>2 DEF MergesInto
    <2>7. FreeAt(a, i) = IF b[2].free THEN MergeAt(b, 1) ELSE b
      <3>1. i - 1 = 1 /\ 1 + 1 = 2
        BY <2>1
      <3>2. QED
        BY <1>9, <1>12, <2>3, <3>1 DEF FreeAt, MergeAt, Unlent
    <2>8. CASE b[2].free
      <3>1. 1 \in 1 .. k /\ 1 + 1 = 2
        BY <2>6
      <3>2. PICK l \in Nat : Lease(m, MergeAt(b, 1), l, D) /\ MergesInto(b, k, MergeAt(b, 1), l, 1)
        BY <2>5, <2>6, <2>8, <3>1, Merged
      <3>3. Apart(MergeAt(b, 1), l, {})
        BY <2>6, <2>8, <3>1, <3>2, StillApart
      <3>4. QED
        BY <1>8, <1>9, <2>7, <2>8, <3>2, <3>3 DEF Kept
    <2>9. CASE ~b[2].free
      <3>1. Apart(b, k, {})
        BY <2>6, <2>9 DEF Apart
      <3>2. QED
        BY <1>8, <1>9, <2>5, <2>7, <2>9, <3>1 DEF Kept
    <2>10. QED
      BY <2>8, <2>9
  <1>13. CASE ~MergesUp(a, i)
    <2>1. FreeAt(a, i) = IF c[i + 1].free THEN MergeAt(c, i) ELSE c
      BY <1>9, <1>13 DEF FreeAt, MergeAt, Unlent
    <2>2. Apart(c, n, {i})
      <3> SUFFICES ASSUME NEW k \in 1 .. n - 1, k \notin {i}
                   PROVE  ~(c[k].free /\ c[k + 1].free)
        BY DEF Apart
      <3>1. CASE k = i - 1
        <4>1. i > 1 /\ k \in 1 .. N /\ k # i
          BY <1>3, <3>1
        <4>2. ~a[k].free
          BY <1>13, <3>1, <4>1 DEF MergesUp
        <4>3. QED
          BY <1>10, <4>1, <4>2
      <3>2. CASE k # i - 1
        BY <1>11, <3>2 DEF Apart
      <3>3. QED
        BY <3>1, <3>2
    <2>3. CASE c[i + 1].free
      <3>1. PICK l \in Nat : Lease(m, MergeAt(c, i), l, D) /\ MergesInto(c, n, MergeAt(c, i), l, i)
        BY <1>10, <2>3, Merged
      <3>2. Apart(MergeAt(c, i), l, {})
        BY <1>3, <1>10, <2>2, <2>3, <3>1, StillApart
      <3>3. QED
        BY <1>8, <1>9, <2>1, <2>3, <3>1, <3>2 DEF Kept
    <2>4. CASE ~c[i + 1].free
      <3>1. Apart(c, n, {})
        BY <2>2, <2>4 DEF Apart
      <3>2. QED
        BY <1>3, <1>8, <1>9, <1>10, <2>1, <2>4, <3>1 DEF Kept
    <2>5. QED
      BY <2>3, <2>4
  <1>14. QED
    BY <1>12, <1>13

\* A pool is created over a table that is clean behind the second entry.
LEMMA BaseAligned == Rounded(Base) = Base
  <1>1. PICK u \in Nat \ {0}, y \in Nat : u = Align /\ y = Base /\ y % u = 0
    BY PoolAssumption
  <1>2. y = u * (y \div u) + (y % u) /\ y \div u \in Nat
    OBVIOUS
  <1>3. PICK q \in Nat : q = y \div u
    BY <1>2
  <1>4. y = q * u
    BY <1>1, <1>2, <1>3
  <1>5. Multiple(y, u)
    BY <1>4 DEF Multiple
  <1>6. QED
    BY <1>1, <1>5, RoundedIs

LEMMA Residue ==
  ASSUME NEW x \in Int, NEW s \in Nat \ {0}
  PROVE  x % s \in Nat /\ (x >= 0 => x % s <= x)
  <1>1. x % s \in 0 .. s - 1
    OBVIOUS
  <1>2. x = s * (x \div s) + (x % s) /\ x \div s \in Int
    OBVIOUS
  <1>3. PICK q \in Int, r \in 0 .. s - 1 : q = x \div s /\ r = x % s /\ x = s * q + r
    BY <1>1, <1>2
  <1>4. ASSUME x >= 0 PROVE r <= x
    <2>1. q >= 0
      <3> SUFFICES ASSUME q <= -1 PROVE FALSE
        OBVIOUS
      <3>1. PICK k \in Nat : q = -1 - k
        <4>1. -1 - q \in Nat /\ q = -1 - (-1 - q)
          OBVIOUS
        <4>2. QED
          BY <4>1
      <3>2. s * q = -s - s * k /\ s * k \in Nat
        BY <3>1
      <3>3. QED
        BY <1>3, <1>4, <3>2
    <2>2. s * q \in Nat
      BY <2>1
    <2>3. QED
      BY <1>3, <2>2
  <1>5. QED
    BY <1>3, <1>4

LEMMA Initialised ==
  ASSUME NEW m \in PoolId, NEW a \in [1 .. Slots(m) -> Area], Clean(a),
         NEW end \in Nat, m \in MplId => end = Base + Room(m)
  PROVE  \E k \in Nat : Kept(m, pool_init(a, Base, end), k, {})
  <1>1. PICK N, u : N = Slots(m) /\ u = Align
    OBVIOUS
  <1>2. /\ N \in Nat /\ 1 \in 1 .. N /\ 2 \in 1 .. N /\ N >= 2 /\ Base \in Nat /\ Room(m) \in Nat
        /\ u \in Nat \ {0} /\ SizeMod \in Nat \ {0}
    <2>1. N \in Nat /\ N >= 2 /\ Base \in Nat /\ Room(m) \in Nat /\ u \in Nat \ {0}
      BY <1>1, PoolConstants
    <2>2. SizeMod \in Nat \ {0}
      BY PoolAssumption
    <2>3. QED
      BY <2>1, <2>2
  <1>3. PICK x \in Int : x = (end \div u) * u - Base /\ x + Base <= end
    <2>1. PICK q \in Nat : q = end \div u /\ q * u <= end
      BY <1>2, Quotient
    <2>2. q * u - Base \in Int /\ (q * u - Base) + Base <= end
      BY <1>2, <2>1
    <2>3. QED
      BY <2>1, <2>2
  <1>4. PICK s \in Nat : s = x % SizeMod /\ (x >= 0 => s <= x)
    BY <1>2, Residue
  <1>5. PICK b : b = pool_init(a, Base, end)
    OBVIOUS
  <1>6. PICK r : r = Region(Base, s, TRUE)
    OBVIOUS
  <1>7. r \in Area /\ r.base = Base /\ r.size = s /\ r.free
    BY <1>2, <1>6 DEF Region, Area
  <1>8. b = [a EXCEPT ![1] = r, ![2].size = 0]
    BY <1>1, <1>3, <1>4, <1>5, <1>6, BaseAligned DEF pool_init
  <1>9. /\ b \in [1 .. N -> Area] /\ b[1] = r
        /\ \A i \in 2 .. N : b[i].size = 0
    <2>1. b = [i \in 1 .. N |-> IF i = 2 THEN [a[2] EXCEPT !.size = 0]
                                ELSE IF i = 1 THEN r ELSE a[i]]
      <3>1. PICK g : g = [i \in 1 .. N |-> IF i = 1 THEN r ELSE a[i]]
        OBVIOUS
      <3>2. g = [a EXCEPT ![1] = r] /\ g[2] = a[2] /\ \A i \in 1 .. N : g[i] = IF i = 1 THEN r ELSE a[i]
        <4>1. a \in [1 .. N -> Area]
          BY <1>1
        <4>2. g = [a EXCEPT ![1] = r]
          BY <3>1, <4>1
        <4>3. g[2] = a[2] /\ \A i \in 1 .. N : g[i] = IF i = 1 THEN r ELSE a[i]
          BY <1>2, <3>1
        <4>4. QED
          BY <4>2, <4>3
      <3>3. b = [g EXCEPT ![2].size = 0]
        BY <1>8, <3>2
      <3>4. b = [i \in 1 .. N |-> IF i = 2 THEN [g[2] EXCEPT !.size = 0] ELSE g[i]]
        BY <3>1, <3>3
      <3>5. QED
        BY <3>2, <3>4
    <2>2. PICK z : z = [a[2] EXCEPT !.size = 0]
      OBVIOUS
    <2>3. z \in Area /\ z.size = 0
      <3>1. a[2] \in Area
        BY <1>1, <1>2
      <3>2. QED
        BY <2>2, <3>1 DEF Area
    <2>4. \A i \in 1 .. N : a[i] \in Area /\ (i > 2 => a[i].size = 0)
      BY <1>1 DEF Clean
    <2>5. QED
      BY <1>2, <1>7, <2>1, <2>2, <2>3, <2>4
  <1>10. PICK n \in Nat : n = (IF s > 0 THEN 1 ELSE 0)
    OBVIOUS
  <1>11. Ended(b, n, N)
    <2>1. ASSUME NEW i \in 1 .. N PROVE b[i].size > 0 <=> i <= n
      <3>1. CASE i = 1
        BY <1>7, <1>9, <1>10, <3>1
      <3>2. CASE i # 1
        <4>1. i \in 2 .. N
          BY <1>2, <3>2
        <4>2. QED
          BY <1>9, <1>10, <4>1
      <3>3. QED
        BY <3>1, <3>2
    <2>2. QED
      BY <1>2, <1>9, <1>10, <2>1 DEF Ended
  <1>12. Table(m, b, n)
    <2>1. \A i \in 1 .. n - 1 : FALSE
      BY <1>10
    <2>2. QED
      BY <1>1, <1>7, <1>9, <1>11, <2>1 DEF Table
  <1>13. Within(m, b, n)
    <2>1. \A i \in 1 .. n : i = 1 /\ n = 1
      BY <1>10
    <2>2. n > 0 => n = 1 /\ b[n].base = Base /\ b[n].free /\ b[n].size = s
      BY <1>7, <1>9, <1>10
    <2>3. m \in MplId /\ n > 0 => Base + s <= Base + Room(m)
      <3> SUFFICES ASSUME m \in MplId, n > 0 PROVE Base + s <= Base + Room(m)
        OBVIOUS
      <3>1. Rounded(Base) = Base /\ end = Base + Room(m)
        BY BaseAligned
      <3>2. x <= Room(m)
        BY <1>2, <1>3, <3>1
      <3>3. x >= 0
        <4>1. PICK y \in Nat, q \in Nat : y = Base /\ y = q * u
          <5>1. Multiple(Base, u)
            BY <1>1, <1>2, RoundedIs, BaseAligned
          <5>2. QED
            BY <1>2, <5>1 DEF Multiple
        <4>2. PICK e \in Nat : e = end \div u /\ e * u <= end /\ end < e * u + u
          BY <1>2, Quotient
        <4>3. q * u < e * u + u
          <5>1. y <= end
            BY <1>2, <3>1, <4>1
          <5>2. y < e * u + u
            BY <1>2, <4>2, <5>1
          <5>3. QED
            BY <4>1, <5>2
        <4>4. q <= e
          <5> SUFFICES ASSUME e + 1 <= q PROVE FALSE
            OBVIOUS
          <5>1. (e + 1) * u <= q * u /\ (e + 1) * u = e * u + u
            BY <1>2, Grows
          <5>2. q * u \in Nat /\ e * u \in Nat
            BY <1>2
          <5>3. QED
            BY <1>2, <4>3, <5>1, <5>2
        <4>5. q * u <= e * u
          BY <1>2, <4>4, Grows
        <4>6. QED
          BY <1>2, <1>3, <4>1, <4>2, <4>5
      <3>4. QED
        BY <1>2, <1>4, <3>2, <3>3
    <2>4. QED
      BY <1>2, <2>1, <2>2, <2>3 DEF Within
  <1>14. Given(b, n, {})
    <2>1. \A i \in 1 .. n : b[i].free
      <3>1. \A i \in 1 .. n : i = 1
        BY <1>10
      <3>2. QED
        BY <1>7, <1>9, <3>1
    <2>2. QED
      BY <2>1 DEF Given
  <1>15. Apart(b, n, {})
    <2>1. \A i \in 1 .. n - 1 : FALSE
      BY <1>10
    <2>2. QED
      BY <2>1 DEF Apart
  <1>16. QED
    BY <1>5, <1>12, <1>13, <1>14, <1>15 DEF Kept, Lease

-----------------------------------------------------------------------------
(***************************************************************************)
(* Allocation.  x bytes are asked for, which a fixed pool rounds to one    *)
(* unit, and region i of a is the first that is free and large enough.     *)
(***************************************************************************)
Asked(m, x, max) ==
  /\ x \in Nat \ {0}
  /\ m \in MpfId => x = blksz[m] /\ max = blkcnt[m]

FirstFit(a, n, s, max, i) ==
  /\ i \in 1 .. n /\ i <= max /\ a[i].free /\ a[i].size >= s
  /\ \A j \in 1 .. i - 1 : ~a[j].free \/ ~(a[j].size >= s)

LEMMA FitIs ==
  ASSUME NEW a, NEW n, NEW N, Ended(a, n, N), NEW s, NEW max \in Nat, Fits(a, s, max) # {}
  PROVE  FirstFit(a, n, s, max, Min(Fits(a, s, max)))
  <1>1. /\ n \in Nat /\ N \in Nat /\ n < N /\ DOMAIN a = 1 .. N /\ EndOf(a, 1) = n + 1
    <2>1. n \in Nat /\ N \in Nat /\ n < N /\ 1 \in 1 .. n + 1
      BY DEF Ended
    <2>2. QED
      BY <2>1, EndIs
  <1>2. PICK F : F = Fits(a, s, max)
    OBVIOUS
  <1>3. \A i : i \in F <=> /\ i \in 1 .. N /\ i <= max /\ i < n + 1
                           /\ a[i].free /\ a[i].size >= s
    BY <1>1, <1>2 DEF Fits
  <1>4. F \subseteq Nat /\ F # {}
    BY <1>1, <1>2, <1>3
  <1>5. PICK i \in F : \A j \in F : i <= j
    BY <1>4, Least
  <1>6. Min(F) = i
    BY <1>4, <1>5, SmallestIs
  <1>7. i \in 1 .. n /\ i <= max /\ a[i].free /\ a[i].size >= s
    BY <1>1, <1>3
  <1>8. ASSUME NEW j \in 1 .. i - 1
        PROVE  ~a[j].free \/ ~(a[j].size >= s)
    <2>1. j \in 1 .. N /\ j <= max /\ j < n + 1 /\ ~(i <= j)
      BY <1>1, <1>7
    <2>2. j \notin F
      BY <1>5, <2>1
    <2>3. QED
      BY <1>3, <2>1, <2>2
  <1>9. QED
    BY <1>2, <1>6, <1>7, <1>8 DEF FirstFit

\* The block lies in the memory, and a larger region leaves room in the table.
LEMMA Inside ==
  ASSUME NEW m \in PoolId, NEW a, NEW n, NEW K, Lease(m, a, n, K),
         NEW x, NEW max \in Nat, Asked(m, x, max), NEW s, s = Rounded(x),
         NEW i, FirstFit(a, n, s, max, i)
  PROVE  /\ a[i].base + s <= Base + Room(m)
         /\ a[i].size > s => n + 1 < Slots(m)
  <1>1. PICK u \in Nat \ {0}, E \in Nat : u = Unit(m) /\ E = Room(m)
    BY PoolConstants
  <1>2. Table(m, a, n) /\ Within(m, a, n)
    BY DEF Lease
  <1>3. /\ n \in Nat /\ Base \in Nat
        /\ \A j \in 1 .. n : a[j].base \in Nat /\ a[j].size \in Nat /\ a[j].size > 0 /\ j \in Nat
        /\ i \in 1 .. n /\ i \in Nat /\ a[i].size >= s /\ n \in 1 .. n
    <2>1. i \in 1 .. n /\ a[i].size >= s
      BY DEF FirstFit
    <2>2. /\ n \in Nat
          /\ \A j \in 1 .. n : a[j].base \in Nat /\ a[j].size \in Nat /\ a[j].size > 0 /\ j \in Nat
      BY <1>2, RegionsAre
    <2>3. Base \in Nat
      BY PoolConstants
    <2>4. QED
      BY <2>1, <2>2, <2>3
  <1>4. Multiple(s, u) /\ s \in Nat /\ s >= u
    <2>1. x \in Nat /\ x > 0
      BY DEF Asked
    <2>2. Multiple(s, Align) /\ x <= s /\ (Multiple(x, Align) => s = x)
      BY <2>1, RoundedIs
    <2>3. Multiple(s, u)
      <3>1. CASE m \in MpfId
        <4>1. s = u
          BY <1>1, <3>1, PoolConstants DEF Asked
        <4>2. s = 1 * u
          BY <1>1, <4>1
        <4>3. QED
          BY <4>2 DEF Multiple
      <3>2. CASE m \notin MpfId
        BY <1>1, <2>2, <3>2, PoolConstants
      <3>3. QED
        BY <3>1, <3>2
    <2>4. s \in Nat /\ s > 0
      <3>1. s \in Nat
        BY <2>3, Multiples
      <3>2. QED
        BY <2>1, <2>2, <3>1
    <2>5. QED
      BY <2>3, <2>4, Multiples
  <1>5. ASSUME NEW k \in Nat, k * u <= E
        PROVE  k + 1 < Slots(m)
    BY <1>1, <1>5, PoolConstants
  <1>6. CASE i < n
    <2>1. a[i].base + a[i].size <= a[n].base
      BY <1>2, <1>3, <1>6, Starting
    <2>2. a[n].base <= Base + E
      BY <1>1, <1>2, <1>3 DEF Within
    <2>3. a[i].base + s <= Base + E
      BY <1>3, <1>4, <2>1, <2>2
    <2>4. ASSUME a[i].size > s PROVE n * u <= E
      <3>1. i \in 1 .. n - 1
        BY <1>3, <1>6
      <3>2. a[i].size - s >= u
        <4>1. Multiple(a[i].size, u)
          BY <1>1, <1>2, <3>1 DEF Table
        <4>2. QED
          BY <1>4, <2>4, <4>1, Multiples
      <3>3. PICK d \in Nat, e \in Nat : d = n - i - 1 /\ e = i - 1 /\ n = d + e + 2
        <4>1. n - i - 1 \in Nat /\ i - 1 \in Nat /\ n = (n - i - 1) + (i - 1) + 2
          BY <1>3, <1>6
        <4>2. QED
          BY <4>1
      <3>4. a[i].base + a[i].size + d * u <= a[n].base
        BY <1>1, <1>2, <1>3, <1>6, <3>3, Spread
      <3>5. Base + e * u <= a[i].base
        BY <1>1, <1>2, <1>3, <3>3, Starting
      <3>6. n * u = d * u + e * u + u + u /\ d * u \in Nat /\ e * u \in Nat
        BY <3>3
      <3>7. QED
        BY <1>3, <1>4, <2>2, <3>2, <3>4, <3>5, <3>6
    <2>5. QED
      BY <1>1, <1>3, <1>5, <2>3, <2>4
  <1>7. CASE i = n /\ m \in MpfId
    <2>1. s = u /\ n <= blkcnt[m] /\ blkcnt[m] \in Nat /\ E = blkcnt[m] * u
      <3>1. blkcnt[m] \in Nat /\ E = blkcnt[m] * u /\ max = blkcnt[m]
        BY <1>1, <1>7, PoolConstants DEF Asked
      <3>2. s = u
        BY <1>1, <1>7, PoolConstants DEF Asked
      <3>3. QED
        BY <1>7, <3>1, <3>2 DEF FirstFit
    <2>2. \A j \in 1 .. i - 1 : ~a[j].free
      <3>1. \A j \in 1 .. i - 1 : j \in 1 .. n - 1
        BY <1>7
      <3>2. \A j \in 1 .. n - 1 : a[j].size >= u /\ a[j].size \in Nat
        <4>1. \A j \in 1 .. n - 1 : j \in 1 .. n
          BY <1>3
        <4>2. QED
          BY <1>1, <1>2, <1>3, <4>1, RegionsAre
      <3>3. \A j \in 1 .. i - 1 : a[j].size >= u
        BY <3>1, <3>2
      <3>4. QED
        BY <2>1, <3>3 DEF FirstFit
    <2>3. a[n].base = Base + (n - 1) * u
      BY <1>1, <1>2, <1>3, <1>7, <2>2, Packed
    <2>4. (n - 1) * u + u = n * u /\ n * u \in Nat /\ (n - 1) * u \in Nat
      <3>1. PICK k \in Nat : k = n - 1 /\ n = k + 1
        BY <1>3
      <3>2. k * u + u = (k + 1) * u /\ (k + 1) * u \in Nat /\ k * u \in Nat
        OBVIOUS
      <3>3. QED
        BY <3>1, <3>2
    <2>5. n * u <= E
      BY <1>3, <2>1, Grows
    <2>6. a[n].base + s <= Base + E
      BY <1>3, <2>1, <2>3, <2>4, <2>5
    <2>7. QED
      BY <1>1, <1>3, <1>5, <1>7, <2>5, <2>6
  <1>8. CASE i = n /\ m \notin MpfId
    <2>1. a[n].base + a[n].size <= Base + E
      <3>1. m \in MplId /\ n > 0
        BY <1>3, <1>8, PoolConstants
      <3>2. QED
        BY <1>1, <1>2, <3>1 DEF Within
    <2>2. a[n].base + s <= Base + E
      BY <1>3, <1>4, <1>8, <2>1
    <2>3. ASSUME a[i].size > s PROVE n * u <= E
      <3>1. PICK k \in Nat : k = n - 1 /\ n = k + 1
        BY <1>3
      <3>2. Base + k * u <= a[n].base
        BY <1>1, <1>2, <1>3, <3>1, Starting
      <3>3. n * u = k * u + u /\ k * u \in Nat
        BY <3>1
      <3>4. QED
        BY <1>3, <1>4, <1>8, <2>1, <2>3, <3>2, <3>3
    <2>4. QED
      BY <1>1, <1>3, <1>5, <1>8, <2>2, <2>3
  <1>9. QED
    BY <1>3, <1>6, <1>7, <1>8

\* Region i is taken as it is.
Taken(a, i, s) == [a EXCEPT ![i] = Region(@.base, s, FALSE)]

LEMMA TakenWhole ==
  ASSUME NEW m \in PoolId, NEW a, NEW n, NEW K, Lease(m, a, n, K),
         NEW s \in Nat, NEW i \in 1 .. n, a[i].free, a[i].size = s,
         a[i].base + s <= Base + Room(m), m \in MpfId => s = Unit(m),
         NEW e \in LentBlock, e.base = a[i].base, Rounded(e.size) = s,
         NEW c, c = Taken(a, i, s)
  PROVE  /\ Lease(m, c, n, K \cup {e})
         /\ Apart(a, n, {}) => Apart(c, n, {})
  <1>1. PICK N : N = Slots(m)
    OBVIOUS
  <1>2. Table(m, a, n) /\ Ended(a, n, N) /\ Within(m, a, n) /\ Given(a, n, K)
    BY <1>1 DEF Lease, Table
  <1>3. /\ n \in Nat /\ N \in Nat /\ n < N /\ a \in [1 .. N -> Area]
        /\ \A j \in 1 .. N : a[j] \in Area /\ (a[j].size > 0 <=> j <= n)
        /\ \A j \in 1 .. n : j \in 1 .. N /\ j \in Nat
    BY <1>1, <1>2, RegionsAre DEF Ended
  <1>4. PICK r : r = Region(a[i].base, s, FALSE)
    OBVIOUS
  <1>5. r \in Area /\ r.base = a[i].base /\ r.size = a[i].size /\ ~r.free
    <2>1. a[i].base \in Nat
      BY <1>3 DEF Area
    <2>2. QED
      BY <1>4, <2>1 DEF Region, Area
  <1>6. /\ c \in [1 .. N -> Area]
        /\ \A j \in 1 .. N : /\ j # i => c[j] = a[j]
                             /\ c[j].size = a[j].size /\ c[j].base = a[j].base
        /\ c[i] = r
    <2>1. c = [j \in 1 .. N |-> IF j = i THEN r ELSE a[j]]
      BY <1>3, <1>4 DEF Taken
    <2>2. QED
      BY <1>3, <1>5, <2>1
  <1>7. Table(m, c, n)
    BY <1>1, <1>2, <1>6, SameTable
  <1>8. Within(m, c, n)
    <2>1. n \in 1 .. N /\ n > 0
      BY <1>3
    <2>2. c[n].base = a[n].base /\ c[n].size = a[n].size
      BY <1>6, <2>1
    <2>3. c[n].base <= Base + Room(m)
      BY <1>2, <2>1, <2>2 DEF Within
    <2>4. m \in MplId \/ ~c[n].free => c[n].base + c[n].size <= Base + Room(m)
      <3>1. CASE n = i
        BY <2>2, <3>1
      <3>2. CASE n # i
        BY <1>2, <1>6, <2>1, <2>2, <3>2 DEF Within
      <3>3. QED
        BY <3>1, <3>2
    <2>5. m \in MpfId => \A j \in 1 .. n : ~c[j].free => c[j].size = Unit(m)
      <3> SUFFICES ASSUME m \in MpfId, NEW j \in 1 .. n, ~c[j].free
                   PROVE  c[j].size = Unit(m)
        OBVIOUS
      <3>1. CASE j = i
        BY <1>5, <1>6, <3>1
      <3>2. CASE j # i
        BY <1>2, <1>3, <1>6, <3>2 DEF Within
      <3>3. QED
        BY <3>1, <3>2
    <2>6. QED
      BY <2>3, <2>4, <2>5 DEF Within
  <1>9. /\ \A d \in K : /\ d \in LentBlock
                        /\ \E j \in 1 .. n : ~a[j].free /\ a[j].base = d.base /\ a[j].size = Rounded(d.size)
        /\ \A d, f \in K : d.base = f.base => d = f
        /\ \A j \in 1 .. n : ~a[j].free => \E d \in K : d.base = a[j].base
    BY <1>2 DEF Given
  <1>10. \A d \in K : d.base # e.base
    <2> SUFFICES ASSUME NEW d \in K, d.base = e.base PROVE FALSE
      OBVIOUS
    <2>1. PICK j \in 1 .. n : ~a[j].free /\ a[j].base = d.base
      BY <1>9
    <2>2. j = i
      BY <1>2, <2>1, Starting
    <2>3. QED
      BY <2>1, <2>2
  <1>11. Given(c, n, K \cup {e})
    <2>1. \A d \in K : \E j \in 1 .. n : ~c[j].free /\ c[j].base = d.base /\ c[j].size = Rounded(d.size)
      <3> SUFFICES ASSUME NEW d \in K
                   PROVE  \E j \in 1 .. n : ~c[j].free /\ c[j].base = d.base /\ c[j].size = Rounded(d.size)
        OBVIOUS
      <3>1. PICK j \in 1 .. n : ~a[j].free /\ a[j].base = d.base /\ a[j].size = Rounded(d.size)
        BY <1>9
      <3>2. j # i
        BY <3>1
      <3>3. c[j] = a[j]
        BY <1>3, <1>6, <3>2
      <3>4. QED
        BY <3>1, <3>3
    <2>2. ~c[i].free /\ c[i].base = e.base /\ c[i].size = Rounded(e.size)
      BY <1>5, <1>6
    <2>3. \A d, f \in K \cup {e} : d.base = f.base => d = f
      BY <1>9, <1>10
    <2>4. \A j \in 1 .. n : ~c[j].free => \E d \in K \cup {e} : d.base = c[j].base
      <3> SUFFICES ASSUME NEW j \in 1 .. n, ~c[j].free
                   PROVE  \E d \in K \cup {e} : d.base = c[j].base
        OBVIOUS
      <3>1. CASE j = i
        BY <2>2, <3>1
      <3>2. CASE j # i
        <4>1. c[j] = a[j]
          BY <1>3, <1>6, <3>2
        <4>2. PICK d \in K : d.base = a[j].base
          BY <1>9, <4>1
        <4>3. d \in K \cup {e} /\ d.base = c[j].base
          BY <4>1, <4>2
        <4>4. QED
          BY <4>3
      <3>3. QED
        BY <3>1, <3>2
    <2>5. QED
      BY <1>9, <2>1, <2>2, <2>3, <2>4 DEF Given
  <1>12. ASSUME Apart(a, n, {}) PROVE Apart(c, n, {})
    <2>1. \A j \in 1 .. n : c[j].free => a[j].free
      BY <1>3, <1>5, <1>6
    <2>2. \A j \in 1 .. n - 1 : j \in 1 .. n /\ j + 1 \in 1 .. n
      BY <1>3
    <2>3. QED
      BY <1>12, <2>1, <2>2 DEF Apart
  <1>13. QED
    BY <1>7, <1>8, <1>11, <1>12 DEF Lease

\* Region i is larger: what is left of it follows as a region of its own.
Split(a, i, s) ==
  pool_ins(Taken(a, i, s), i + 1,
           Region(a[i].base + s, a[i].size - s, TRUE))

IsSplit(a, b, n, i, s, N) ==
  /\ Ended(b, n + 1, N)
  /\ \A j \in 1 .. i - 1 : b[j] = a[j]
  /\ b[i].base = a[i].base /\ b[i].size = s /\ ~b[i].free
  /\ b[i + 1].base = a[i].base + s /\ b[i + 1].size = a[i].size - s /\ b[i + 1].free
  /\ \A j \in i + 2 .. n + 1 : b[j] = a[j - 1]

LEMMA SplitIs ==
  ASSUME NEW a, NEW n, NEW N, Ended(a, n, N), n + 1 < N, NEW i \in 1 .. n,
         NEW s \in Nat, s > 0, a[i].size > s
  PROVE  IsSplit(a, Split(a, i, s), n, i, s, N)
  <1>1. /\ n \in Nat /\ N \in Nat /\ i \in Nat
        /\ \A j \in 1 .. N : /\ a[j] \in Area /\ a[j].base \in Nat /\ a[j].size \in Nat
                             /\ a[j].size > 0 <=> j <= n
        /\ i \in 1 .. N /\ i + 1 \in 1 .. n + 1 /\ a \in [1 .. N -> Area]
    BY DEF Ended, Area
  <1>2. PICK r, z : r = Region(a[i].base, s, FALSE) /\ z = Region(a[i].base + s, a[i].size - s, TRUE)
    OBVIOUS
  <1>3. /\ r \in Area /\ r.base = a[i].base /\ r.size = s /\ ~r.free
        /\ z \in Area /\ z.base = a[i].base + s /\ z.size = a[i].size - s /\ z.free /\ z.size > 0
    <2>1. a[i].base \in Nat /\ a[i].base + s \in Nat /\ a[i].size - s \in Nat /\ a[i].size - s > 0
      BY <1>1
    <2>2. QED
      BY <1>2, <2>1 DEF Region, Area
  <1>4. PICK g : g = [a EXCEPT ![i] = r]
    OBVIOUS
  <1>5. g \in [1 .. N -> Area] /\ g[i] = r /\ \A j \in 1 .. N : j # i => g[j] = a[j]
    <2>1. g = [j \in 1 .. N |-> IF j = i THEN r ELSE a[j]]
      BY <1>1, <1>4
    <2>2. QED
      BY <1>1, <1>3, <2>1
  <1>6. Ended(g, n, N)
    <2>1. \A j \in 1 .. N : g[j].size > 0 <=> j <= n
      BY <1>1, <1>3, <1>5
    <2>2. QED
      BY <1>1, <1>5, <2>1 DEF Ended
  <1>7. PICK b : b = pool_ins(g, i + 1, z)
    OBVIOUS
  <1>8. b = Split(a, i, s)
    BY <1>2, <1>4, <1>7 DEF Split, Taken
  <1>9. /\ Ended(b, n + 1, N)
        /\ \A j \in 1 .. N : b[j] = IF j = i + 1 THEN z
                                    ELSE IF j > i + 1 /\ j <= n + 1 THEN g[j - 1] ELSE g[j]
    <2>1. PICK k \in 1 .. n + 1 : k = i + 1
      BY <1>1
    <2>2. b = pool_ins(g, k, z)
      BY <1>7, <2>1
    <2>3. QED
      BY <1>3, <1>6, <2>1, <2>2, InsertIs
  <1>10. \A j \in 1 .. i - 1 : b[j] = a[j]
    <2>1. \A j \in 1 .. i - 1 : j \in 1 .. N /\ j # i /\ j # i + 1 /\ ~(j > i + 1)
      BY <1>1
    <2>2. QED
      BY <1>5, <1>9, <2>1
  <1>11. b[i] = r /\ b[i + 1] = z
    <2>1. i \in 1 .. N /\ i + 1 \in 1 .. N /\ i # i + 1 /\ ~(i > i + 1)
      BY <1>1
    <2>2. QED
      BY <1>5, <1>9, <2>1
  <1>12. \A j \in i + 2 .. n + 1 : b[j] = a[j - 1]
    <2>1. \A j \in i + 2 .. n + 1 : /\ j \in 1 .. N /\ j > i + 1 /\ j <= n + 1
                                    /\ j - 1 \in 1 .. N /\ j - 1 # i /\ j # i + 1
      BY <1>1
    <2>2. QED
      BY <1>5, <1>9, <2>1
  <1>13. QED
    BY <1>3, <1>8, <1>9, <1>10, <1>11, <1>12 DEF IsSplit

LEMMA TakenPart ==
  ASSUME NEW m \in PoolId, NEW a, NEW n, NEW K, Lease(m, a, n, K),
         NEW s \in Nat, s > 0, Multiple(s, Unit(m)), NEW i \in 1 .. n, a[i].free, a[i].size > s,
         a[i].base + s <= Base + Room(m), m \in MpfId => s = Unit(m),
         NEW e \in LentBlock, e.base = a[i].base, Rounded(e.size) = s,
         NEW b, IsSplit(a, b, n, i, s, Slots(m))
  PROVE  /\ Lease(m, b, n + 1, K \cup {e})
         /\ Apart(a, n, {}) => Apart(b, n + 1, {})
  <1>1. PICK N, u, T : N = Slots(m) /\ u = Unit(m) /\ T = Base + Room(m)
    OBVIOUS
  <1>2. Table(m, a, n) /\ Within(m, a, n) /\ Given(a, n, K)
    BY DEF Lease
  <1>3. /\ n \in Nat /\ N \in Nat /\ n < N /\ i \in Nat /\ u \in Nat \ {0}
        /\ \A j \in 1 .. n : a[j].base \in Nat /\ a[j].size \in Nat /\ j \in Nat
        /\ i + 1 \in 1 .. n + 1
    BY <1>1, <1>2, RegionsAre
  <1>4. Ended(b, n + 1, N)
    BY <1>1 DEF IsSplit
  <1>5. /\ \A j \in 1 .. i - 1 : b[j] = a[j]
        /\ \A j \in i + 2 .. n + 1 : b[j] = a[j - 1]
    BY DEF IsSplit
  <1>6. /\ b[i].base = a[i].base /\ b[i].size = s /\ ~b[i].free
        /\ b[i + 1].base = a[i].base + s /\ b[i + 1].size = a[i].size - s /\ b[i + 1].free
    BY DEF IsSplit
  <1>7. /\ a[1].base = Base
        /\ \A j \in 1 .. n - 1 : a[j + 1].base = a[j].base + a[j].size /\ Multiple(a[j].size, u)
    <2>1. n > 0
      BY <1>3
    <2>2. QED
      BY <1>1, <1>2, <2>1 DEF Table
  <1>8. Table(m, b, n + 1)
    <2>1. b[1].base = Base
      <3>1. CASE i = 1
        BY <1>6, <1>5, <1>7, <3>1
      <3>2. CASE i # 1
        <4>1. 1 \in 1 .. i - 1
          BY <1>3, <3>2
        <4>2. QED
          BY <1>5, <1>7, <4>1
      <3>3. QED
        BY <3>1, <3>2
    <2>2. ASSUME NEW j \in 1 .. n + 1 - 1
          PROVE  b[j + 1].base = b[j].base + b[j].size /\ Multiple(b[j].size, u)
      <3>1. CASE j + 1 < i
        <4>1. j \in 1 .. i - 1 /\ j + 1 \in 1 .. i - 1 /\ j \in 1 .. n - 1
          BY <1>3, <3>1
        <4>2. QED
          BY <1>5, <1>7, <4>1
      <3>2. CASE j + 1 = i
        <4>1. j \in 1 .. i - 1 /\ j \in 1 .. n - 1
          BY <1>3, <3>2
        <4>2. QED
          BY <1>6, <1>5, <1>7, <3>2, <4>1
      <3>3. CASE j = i
        BY <1>1, <1>6, <1>5, <3>3
      <3>4. CASE j = i + 1
        <4>1. i \in 1 .. n - 1 /\ i + 2 \in i + 2 .. n + 1 /\ j + 1 = i + 2 /\ i + 2 - 1 = i + 1
          BY <1>3, <3>4
        <4>2. b[j + 1] = a[i + 1]
          BY <1>5, <3>4, <4>1
        <4>3. a[i + 1].base = a[i].base + a[i].size /\ Multiple(a[i].size, u)
          BY <1>7, <4>1
        <4>4. Multiple(a[i].size - s, u)
          BY <1>1, <1>3, <4>3, Multiples
        <4>5. a[i].base + a[i].size = (a[i].base + s) + (a[i].size - s)
          BY <1>3
        <4>6. QED
          BY <1>6, <3>4, <4>2, <4>3, <4>4, <4>5
      <3>5. CASE j > i + 1
        <4>1. PICK k \in 1 .. n - 1 : k = j - 1 /\ k + 1 = j
          BY <1>3, <3>5
        <4>2. j \in i + 2 .. n + 1 /\ j + 1 \in i + 2 .. n + 1 /\ (j + 1) - 1 = j
          BY <1>3, <3>5
        <4>3. b[j] = a[k] /\ b[j + 1] = a[k + 1]
          BY <1>5, <4>1, <4>2
        <4>4. QED
          BY <1>7, <4>3
      <3>6. QED
        BY <1>3, <3>1, <3>2, <3>3, <3>4, <3>5
    <2>3. PICK k \in Nat : k = n + 1 /\ k - 1 = n + 1 - 1
      BY <1>3
    <2>4. Ended(b, k, Slots(m))
      BY <1>1, <1>4, <2>3
    <2>5. \A j \in 1 .. k - 1 : b[j + 1].base = b[j].base + b[j].size /\ Multiple(b[j].size, Unit(m))
      BY <1>1, <2>2, <2>3
    <2>6. Table(m, b, k)
      BY <2>1, <2>4, <2>5, Zenon DEF Table
    <2>7. QED
      BY <2>3, <2>6
  <1>9. \A j \in 1 .. n : j # i => \E k \in 1 .. n + 1 : b[k] = a[j]
    <2> SUFFICES ASSUME NEW j \in 1 .. n, j # i
                 PROVE  \E k \in 1 .. n + 1 : b[k] = a[j]
      OBVIOUS
    <2>1. CASE j < i
      <3>1. j \in 1 .. i - 1 /\ j \in 1 .. n + 1
        BY <1>3, <2>1
      <3>2. QED
        BY <1>5, <3>1
    <2>2. CASE j > i
      <3>1. j + 1 \in i + 2 .. n + 1 /\ j + 1 \in 1 .. n + 1 /\ (j + 1) - 1 = j
        BY <1>3, <2>2
      <3>2. QED
        BY <1>5, <3>1
    <2>3. QED
      BY <1>3, <2>1, <2>2
  <1>10. \A k \in 1 .. n + 1 : ~b[k].free => k = i \/ \E j \in 1 .. n : b[k] = a[j]
    <2> SUFFICES ASSUME NEW k \in 1 .. n + 1, ~b[k].free, k # i
                 PROVE  \E j \in 1 .. n : b[k] = a[j]
      OBVIOUS
    <2>1. k # i + 1
      BY <1>6, <1>5
    <2>2. CASE k < i
      <3>1. k \in 1 .. i - 1 /\ k \in 1 .. n
        BY <1>3, <2>2
      <3>2. QED
        BY <1>5, <3>1
    <2>3. CASE k > i + 1
      <3>1. k \in i + 2 .. n + 1 /\ k - 1 \in 1 .. n
        BY <1>3, <2>3
      <3>2. QED
        BY <1>5, <3>1
    <2>4. QED
      BY <1>3, <2>1, <2>2, <2>3
  <1>11. Within(m, b, n + 1)
    <2>1. /\ a[n].base <= T
          /\ m \in MplId \/ ~a[n].free => a[n].base + a[n].size <= T
          /\ m \in MpfId => \A j \in 1 .. n : ~a[j].free => a[j].size = Unit(m)
      <3>1. n > 0
        BY <1>3
      <3>2. QED
        BY <1>1, <1>2, <3>1 DEF Within
    <2>2. /\ b[n + 1].base <= T
          /\ m \in MplId \/ ~b[n + 1].free => b[n + 1].base + b[n + 1].size <= T
      <3>1. CASE i = n
        <4>1. b[n + 1].base <= T /\ b[n + 1].free
          BY <1>1, <1>6, <3>1
        <4>2. b[n + 1].base + b[n + 1].size = a[n].base + a[n].size
          <5>1. a[i].base \in Nat /\ a[i].size \in Nat
            BY <1>3
          <5>2. QED
            BY <1>6, <3>1, <5>1
        <4>3. QED
          BY <2>1, <4>1, <4>2
      <3>2. CASE i # n
        <4>1. n + 1 \in i + 2 .. n + 1 /\ (n + 1) - 1 = n
          BY <1>3, <3>2
        <4>2. b[n + 1] = a[n]
          BY <1>5, <4>1
        <4>3. QED
          BY <2>1, <4>2
      <3>3. QED
        BY <3>1, <3>2
    <2>3. m \in MpfId => \A k \in 1 .. n + 1 : ~b[k].free => b[k].size = Unit(m)
      <3> SUFFICES ASSUME m \in MpfId, NEW k \in 1 .. n + 1, ~b[k].free
                   PROVE  b[k].size = Unit(m)
        OBVIOUS
      <3>1. CASE k = i
        BY <1>6, <1>5, <3>1
      <3>2. CASE k # i
        BY <1>10, <2>1, <3>2
      <3>3. QED
        BY <3>1, <3>2
    <2>4. QED
      BY <1>1, <2>2, <2>3 DEF Within
  <1>12. /\ \A d \in K : /\ d \in LentBlock
                         /\ \E j \in 1 .. n : ~a[j].free /\ a[j].base = d.base /\ a[j].size = Rounded(d.size)
         /\ \A d, f \in K : d.base = f.base => d = f
         /\ \A j \in 1 .. n : ~a[j].free => \E d \in K : d.base = a[j].base
    BY <1>2 DEF Given
  <1>13. \A d \in K : d.base # e.base
    <2> SUFFICES ASSUME NEW d \in K, d.base = e.base PROVE FALSE
      OBVIOUS
    <2>1. PICK j \in 1 .. n : ~a[j].free /\ a[j].base = d.base
      BY <1>12
    <2>2. j = i
      BY <1>2, <2>1, Starting
    <2>3. QED
      BY <2>1, <2>2
  <1>14. Given(b, n + 1, K \cup {e})
    <2>1. \A d \in K : \E j \in 1 .. n + 1 : ~b[j].free /\ b[j].base = d.base /\ b[j].size = Rounded(d.size)
      <3> SUFFICES ASSUME NEW d \in K
                   PROVE  \E j \in 1 .. n + 1 : ~b[j].free /\ b[j].base = d.base
                                                /\ b[j].size = Rounded(d.size)
        OBVIOUS
      <3>1. PICK j \in 1 .. n : ~a[j].free /\ a[j].base = d.base /\ a[j].size = Rounded(d.size)
        BY <1>12
      <3>2. j # i
        BY <3>1
      <3>3. PICK k \in 1 .. n + 1 : b[k] = a[j]
        BY <1>9, <3>2
      <3>4. QED
        BY <3>1, <3>3
    <2>2. i \in 1 .. n + 1 /\ ~b[i].free /\ b[i].base = e.base /\ b[i].size = Rounded(e.size)
      BY <1>3, <1>6, <1>5
    <2>3. \A d, f \in K \cup {e} : d.base = f.base => d = f
      BY <1>12, <1>13
    <2>4. \A d \in K \cup {e} :
            /\ d \in LentBlock
            /\ \E j \in 1 .. n + 1 : ~b[j].free /\ b[j].base = d.base /\ b[j].size = Rounded(d.size)
      BY <1>12, <2>1, <2>2
    <2>5. \A k \in 1 .. n + 1 : ~b[k].free => \E d \in K \cup {e} : d.base = b[k].base
      <3> SUFFICES ASSUME NEW k \in 1 .. n + 1, ~b[k].free
                   PROVE  \E d \in K \cup {e} : d.base = b[k].base
        OBVIOUS
      <3>1. CASE k = i
        BY <2>2, <3>1
      <3>2. CASE k # i
        <4>1. PICK j \in 1 .. n : b[k] = a[j]
          BY <1>10, <3>2
        <4>2. QED
          BY <1>12, <4>1
      <3>3. QED
        BY <3>1, <3>2
    <2>6. QED
      BY <2>3, <2>4, <2>5 DEF Given
  <1>15. ASSUME Apart(a, n, {}), NEW k \in 1 .. (n + 1) - 1, b[k].free, b[k + 1].free
         PROVE  FALSE
    <2>1. \A j \in 1 .. n - 1 : ~(a[j].free /\ a[j + 1].free)
      BY <1>15 DEF Apart
    <2>2. k # i /\ k + 1 # i
      BY <1>6, <1>15
    <2>3. CASE k + 1 < i
      <3>1. k \in 1 .. i - 1 /\ k + 1 \in 1 .. i - 1 /\ k \in 1 .. n - 1
        BY <1>3, <2>3
      <3>2. QED
        BY <1>5, <1>15, <2>1, <3>1
    <2>4. CASE k = i + 1
      <3>1. i \in 1 .. n - 1 /\ i + 2 \in i + 2 .. n + 1 /\ k + 1 = i + 2 /\ i + 2 - 1 = i + 1
        BY <1>3, <2>4
      <3>2. b[k + 1] = a[i + 1]
        BY <1>5, <3>1
      <3>3. QED
        BY <1>15, <2>1, <3>1, <3>2
    <2>5. CASE k > i + 1
      <3>1. PICK j \in 1 .. n - 1 : j = k - 1 /\ j + 1 = k
        BY <1>3, <2>5
      <3>2. k \in i + 2 .. n + 1 /\ k + 1 \in i + 2 .. n + 1 /\ (k + 1) - 1 = k
        BY <1>3, <2>5
      <3>3. b[k] = a[j] /\ b[k + 1] = a[j + 1]
        BY <1>5, <3>1, <3>2
      <3>4. QED
        BY <1>15, <2>1, <3>3
    <2>6. QED
      BY <1>3, <2>2, <2>3, <2>4, <2>5
  <1>16. ASSUME Apart(a, n, {}) PROVE Apart(b, n + 1, {})
    <2>1. \A k \in 1 .. (n + 1) - 1 : ~(b[k].free /\ b[k + 1].free)
      BY <1>15, <1>16
    <2>2. QED
      BY <2>1 DEF Apart
  <1>17. QED
    BY <1>8, <1>11, <1>14, <1>16 DEF Lease

LEMMA Allocated ==
  ASSUME NEW m \in PoolId, NEW a, NEW n, NEW K, Kept(m, a, n, K),
         NEW x, NEW max \in Nat, Asked(m, x, max), NEW t \in Task
  PROVE  LET r == pool_alloc(a, x, max)
         IN  IF r.base = None THEN r.a = a
             ELSE r.base \in Nat
                  /\ \E k \in Nat : Kept(m, r.a, k, Lend(K, r.base, x, t))
  <1>0. Lease(m, a, n, K) /\ Apart(a, n, {})
    BY DEF Kept
  <1>1. PICK r : r = pool_alloc(a, x, max)
    OBVIOUS
  <1>2. x \in Nat /\ x > 0
    BY DEF Asked
  <1>3. PICK s \in Nat : /\ s = Rounded(x) /\ s >= x /\ s > 0
                         /\ Multiple(s, Align) /\ (Multiple(x, Align) => s = x)
    <2>1. /\ Multiple(Rounded(x), Align) /\ x <= Rounded(x)
          /\ (Multiple(x, Align) => Rounded(x) = x)
      BY <1>2, RoundedIs
    <2>2. Align \in Nat \ {0}
      BY PoolAssumption
    <2>3. Rounded(x) \in Nat
      BY <2>1, <2>2, Multiples
    <2>4. QED
      BY <1>2, <2>1, <2>3
  <1>4. CASE Fits(a, s, max) = {}
    <2>1. r = [a |-> a, base |-> None]
      BY <1>1, <1>3, <1>4 DEF pool_alloc
    <2>2. QED
      BY <1>1, <2>1
  <1>5. CASE Fits(a, s, max) # {}
    <2>1. PICK i : i = Min(Fits(a, s, max)) /\ FirstFit(a, n, s, max, i)
      <3>1. Ended(a, n, Slots(m))
        BY <1>0 DEF Lease, Table
      <3>2. QED
        BY <1>5, <3>1, FitIs
    <2>2. i \in 1 .. n /\ a[i].free /\ a[i].size >= s
      BY <2>1 DEF FirstFit
    <2>3. a[i].base + s <= Base + Room(m) /\ (a[i].size > s => n + 1 < Slots(m))
      BY <1>0, <1>3, <2>1, Inside
    <2>4. a[i].base \in Nat /\ a[i].size \in Nat /\ n \in Nat /\ Base \in Nat \ {0}
          /\ Base <= a[i].base
      <3>1. Table(m, a, n)
        BY <1>0 DEF Lease
      <3>2. /\ a[i].base \in Nat /\ a[i].size \in Nat /\ n \in Nat /\ Unit(m) \in Nat
            /\ i \in 1 .. n
        BY <2>2, <3>1, RegionsAre
      <3>3. PICK u \in Nat : u = Unit(m)
        BY <3>2
      <3>4. \A k \in 1 .. n : Base + (k - 1) * u <= a[k].base
        BY <3>1, <3>3, Starting, Zenon
      <3>5. Base + (i - 1) * u <= a[i].base
        BY <3>2, <3>4, Zenon
      <3>6. PICK k \in Nat : k = i - 1
        BY <3>2
      <3>7. Base + k * u <= a[i].base
        BY <3>5, <3>6, Zenon
      <3>8. PICK z \in Nat : z = k * u
        OBVIOUS
      <3>9. Base + z <= a[i].base
        BY <3>7, <3>8, Zenon
      <3>10. Base \in Nat \ {0}
        BY PoolAssumption, Zenon
      <3>11. QED
        BY ONLY <3>2, <3>9, <3>10
    <2>5. PICK g, b : g = Taken(a, i, s) /\ b = Split(a, i, s)
      OBVIOUS
    <2>6. r = [base |-> a[i].base, a |-> IF a[i].size = s THEN g ELSE b]
      BY <1>1, <1>3, <1>5, <2>1, <2>5 DEF pool_alloc, Split, Taken
    <2>7. PICK e, D : /\ e = [base |-> a[i].base, size |-> x, by |-> t,
                              again |-> \E o \in K : o.base = a[i].base /\ o.size = x
                                                     /\ o.by = t]
                      /\ D = Lend(K, a[i].base, x, t)
      OBVIOUS
    <2>8. /\ e \in LentBlock /\ e.base = a[i].base /\ e.size = x /\ Rounded(e.size) = s
          /\ D = K \cup {e}
      <3>1. PICK y \in BOOLEAN : y = \E o \in K : o.base = a[i].base /\ o.size = x /\ o.by = t
        OBVIOUS
      <3>2. e = [base |-> a[i].base, size |-> x, by |-> t, again |-> y]
        BY <2>7, <3>1
      <3>3. e \in LentBlock /\ e.base = a[i].base /\ e.size = x
        BY <1>2, <2>4, <3>2 DEF LentBlock
      <3>4. D = K \cup {e}
        BY <2>7 DEF Lend
      <3>5. QED
        BY <1>3, <3>3, <3>4
    <2>9. m \in MpfId => s = Unit(m)
      BY <1>3, PoolConstants DEF Asked
    <2>10. Multiple(s, Unit(m))
      <3>1. CASE m \in MpfId
        <4>1. s = 1 * Unit(m)
          <5>1. Unit(m) \in Nat /\ s = Unit(m)
            BY <2>9, <3>1, PoolConstants
          <5>2. QED
            BY <5>1
        <4>2. QED
          BY <4>1 DEF Multiple
      <3>2. CASE m \notin MpfId
        BY <1>3, <3>2, PoolConstants
      <3>3. QED
        BY <3>1, <3>2
    <2>11. CASE a[i].size = s
      <3>1. Kept(m, g, n, D)
        <4>1. Lease(m, g, n, K \cup {e}) /\ Apart(g, n, {})
          BY <1>0, <1>3, <2>2, <2>3, <2>5, <2>8, <2>9, <2>11, TakenWhole
        <4>2. QED
          BY <2>8, <4>1 DEF Kept
      <3>2. r.a = g /\ r.base = a[i].base /\ r.base # None
        BY <2>4, <2>6, <2>11 DEF None
      <3>3. QED
        BY <1>1, <2>4, <2>7, <3>1, <3>2
    <2>12. CASE a[i].size # s
      <3>1. a[i].size > s
        BY <1>3, <2>2, <2>4, <2>12
      <3>2. IsSplit(a, b, n, i, s, Slots(m))
        <4>1. Ended(a, n, Slots(m))
          BY <1>0 DEF Lease, Table
        <4>2. QED
          BY <1>3, <2>2, <2>3, <2>5, <3>1, <4>1, SplitIs
      <3>3. Kept(m, b, n + 1, D)
        BY <1>0, <1>3, <2>2, <2>3, <2>8, <2>9, <2>10, <3>1, <3>2, TakenPart DEF Kept
      <3>4. r.a = b /\ r.base = a[i].base /\ r.base # None
        BY <2>4, <2>6, <2>12 DEF None
      <3>5. n + 1 \in Nat
        BY <2>4
      <3>6. QED
        BY <1>1, <2>4, <2>7, <3>3, <3>4, <3>5
    <2>13. QED
      BY <2>11, <2>12
  <1>6. QED
    BY <1>4, <1>5

-----------------------------------------------------------------------------
(***************************************************************************)
(* Then the services.  Who waits at a variable pool asks for something.    *)
(***************************************************************************)
PoolHeads == {pool_wlink(m) : m \in PoolId}
PoolBlockers ==
  {t \in Task : \E m \in PoolId : \E call \in {"tget_mpf", "get_mpf", "tget_mpl", "get_mpl"} :
                  Issues(t, call, m)}

PoolHypothesis == Orderly /\ Application(PoolBlockers)

PoolTyped ==
  /\ pool_act \in [PoolId -> BOOLEAN] /\ asks \in [Task -> Nat]
  /\ pool = [m \in PoolId |-> pool[m]] /\ lent = [m \in PoolId |-> lent[m]]
  /\ \A m \in PoolId : pool[m] \in [1 .. Slots(m) -> Area]

\* The table of a pool that is deleted stays what it was.
PoolLeased == \A m \in PoolId : \E n \in Nat : Kept(m, pool[m], n, lent[m])

PoolTables == PoolTyped /\ PoolLeased

Asking(L) == \A m \in MplId : \A t \in L[pool_wlink(m)] : asks[t] # 0

PoolWaits(L) == Queues(PoolHeads, PoolBlockers, L) /\ Asleep(PoolHeads, L) /\ Asking(L)

PoolInv == Layer /\ PoolTables /\ \E L : PoolWaits(L)

LEMMA PoolNodes ==
  ASSUME Application(PoolBlockers)
  PROVE  /\ Undisturbed(PoolHeads, PoolBlockers)
         /\ \A m \in PoolId : m \in Int /\ pool_wlink(m) \in PoolHeads
         /\ \A m, k \in PoolId : pool_wlink(m) = pool_wlink(k) => m = k
         /\ MplId \subseteq PoolId /\ MpfId \subseteq PoolId
  <1>1. PoolHeads \subseteq WHead
    BY PoolAssumption DEF PoolHeads
  <1>2. \A m \in PoolId : m \in Int
    BY PoolAssumption
  <1>3. \A m, k \in PoolId : pool_wlink(m) = pool_wlink(k) => m = k
    BY <1>2 DEF pool_wlink
  <1>4. QED
    BY <1>1, <1>2, <1>3 DEF Undisturbed, PoolHeads, PoolBlockers, PoolId

\* One table changes, those of the other pools stay.
LEMMA TableKept ==
  ASSUME PoolTables, NEW m \in PoolId, NEW a, NEW K, NEW n \in Nat, Kept(m, a, n, K),
         pool_act' = [pool_act EXCEPT ![m] = TRUE], pool' = [pool EXCEPT ![m] = a],
         lent' = [lent EXCEPT ![m] = K], asks' \in [Task -> Nat]
  PROVE  PoolTables'
  <1>1. /\ pool_act \in [PoolId -> BOOLEAN]
        /\ pool = [k \in PoolId |-> pool[k]] /\ lent = [k \in PoolId |-> lent[k]]
        /\ \A k \in PoolId : pool[k] \in [1 .. Slots(k) -> Area]
    BY DEF PoolTables, PoolTyped
  <1>2. /\ pool_act' \in [PoolId -> BOOLEAN]
        /\ pool' = [k \in PoolId |-> IF k = m THEN a ELSE pool[k]]
        /\ lent' = [k \in PoolId |-> IF k = m THEN K ELSE lent[k]]
        /\ \A k \in PoolId : pool_act'[k] = (k = m \/ pool_act[k])
    BY <1>1
  <1>3. a \in [1 .. Slots(m) -> Area]
    BY DEF Kept, Lease, Table, Ended
  <1>4. /\ pool' = [k \in PoolId |-> pool'[k]] /\ lent' = [k \in PoolId |-> lent'[k]]
        /\ \A k \in PoolId : pool'[k] \in [1 .. Slots(k) -> Area]
    BY <1>1, <1>2, <1>3
  <1>5. PoolTyped'
    BY <1>2, <1>4 DEF PoolTyped
  <1>6. ASSUME NEW k \in PoolId
        PROVE  \E i \in Nat : Kept(k, pool'[k], i, lent'[k])
    <2>1. CASE k = m
      BY <1>2, <2>1
    <2>2. CASE k # m
      BY <1>2, <2>2 DEF PoolTables, PoolLeased
    <2>3. QED
      BY <2>1, <2>2
  <1>7. PoolLeased'
    BY <1>6 DEF PoolLeased
  <1>8. QED
    BY <1>5, <1>7 DEF PoolTables

LEMMA TablesSame ==
  ASSUME PoolTables, UNCHANGED <<pool_act, pool, lent>>, asks' \in [Task -> Nat]
  PROVE  PoolTables'
  <1>1. PoolTyped'
    BY DEF PoolTables, PoolTyped
  <1>2. PoolLeased'
    BY DEF PoolTables, PoolLeased
  <1>3. QED
    BY <1>1, <1>2 DEF PoolTables

\* Deleting a pool leaves its table and the blocks that are lent.
LEMMA TableClosed ==
  ASSUME PoolTables, NEW m \in PoolId,
         pool_act' = [pool_act EXCEPT ![m] = FALSE], UNCHANGED <<pool, lent, asks>>
  PROVE  PoolTables'
  <1>1. pool_act' \in [PoolId -> BOOLEAN]
    BY DEF PoolTables, PoolTyped
  <1>2. PoolTyped'
    BY <1>1 DEF PoolTables, PoolTyped
  <1>3. PoolLeased'
    BY DEF PoolTables, PoolLeased
  <1>4. QED
    BY <1>2, <1>3 DEF PoolTables

\* The leases of a table in use.
LEMMA InUse ==
  ASSUME PoolTables, NEW m \in PoolId, pool_act[m]
  PROVE  /\ \E n \in Nat : Kept(m, pool[m], n, lent[m])
         /\ pool_act = [pool_act EXCEPT ![m] = TRUE]
  BY DEF PoolTables, PoolTyped, PoolLeased

\* Creation: the end is Base plus the size, except for a fixed pool.
LEMMA PoolOpened ==
  ASSUME PoolHypothesis, PoolTables, NEW m \in PoolId, NEW end \in Nat,
         m \in MplId => end = Base + Room(m), Fresh(m, end)
  PROVE  PoolTables'
  <1>1. PICK a, b : a = pool[m] /\ b = pool_init(a, Base, end)
    OBVIOUS
  <1>2. /\ lent[m] = {} /\ pool_act' = [pool_act EXCEPT ![m] = TRUE]
        /\ pool' = [pool EXCEPT ![m] = b] /\ lent' = [lent EXCEPT ![m] = {}]
        /\ asks' = asks
    BY <1>1 DEF Fresh, PoolHypothesis, AllBack
  <1>3. a \in [1 .. Slots(m) -> Area] /\ asks \in [Task -> Nat] /\ Clean(a)
    <2>1. PICK n \in Nat : Kept(m, a, n, {})
      BY <1>1, <1>2 DEF PoolTables, PoolLeased
    <2>2. Clean(a)
      BY <2>1, Empty
    <2>3. QED
      BY <1>1, <2>2 DEF PoolTables, PoolTyped
  <1>4. PICK n \in Nat : Kept(m, b, n, {})
    BY <1>1, <1>3, Initialised
  <1>5. QED
    BY <1>2, <1>3, <1>4, TableKept

LEMMA PoolMade ==
  ASSUME PoolHypothesis, PoolTables, NEW m \in PoolId, Created(m)
  PROVE  PoolTables'
  <1>1. /\ Base \in Nat /\ Room(m) \in Nat
        /\ m \in MpfId => blkcnt[m] \in Nat /\ blksz[m] \in Nat
        /\ m \in MplId => m \notin MpfId
    BY PoolConstants
  <1>2. CASE m \in MpfId /\ sys_cre_mpf(m)
    <2>1. PICK end \in Nat : end = blkcnt[m] * blksz[m]
      BY <1>1, <1>2
    <2>2. Fresh(m, end) /\ m \notin MplId
      BY <1>1, <1>2, <2>1 DEF sys_cre_mpf
    <2>3. QED
      BY <2>2, PoolOpened
  <1>3. CASE m \in MplId /\ sys_cre_mpl(m)
    <2>1. Room(m) = mplsz[m]
      BY <1>1, <1>3 DEF Room
    <2>2. PICK end \in Nat : end = Base + Room(m)
      BY <1>1
    <2>3. Fresh(m, end)
      BY <1>3, <2>1, <2>2 DEF sys_cre_mpl
    <2>4. QED
      BY <2>2, <2>3, PoolOpened
  <1>4. QED
    BY <1>2, <1>3 DEF Created

\* A block is allocated to t.
LEMMA PoolLends ==
  ASSUME PoolHypothesis, PoolTables, NEW m \in PoolId, pool_act[m], NEW t \in Task,
         NEW x, NEW max \in Nat, Asked(m, x, max), NEW r, r = pool_alloc(pool[m], x, max),
         r.base # None, pool' = [pool EXCEPT ![m] = r.a],
         lent' = [lent EXCEPT ![m] = Lend(@, r.base, x, t)],
         UNCHANGED <<pool_act, asks>>
  PROVE  PoolTables'
  <1>1. PICK a, K, D : a = pool[m] /\ K = lent[m] /\ D = Lend(K, r.base, x, t)
    OBVIOUS
  <1>2. PICK n \in Nat : Kept(m, a, n, K)
    BY <1>1, InUse
  <1>3. PICK k \in Nat : Kept(m, r.a, k, D)
    <2>1. LET q == pool_alloc(a, x, max)
          IN  IF q.base = None THEN q.a = a
              ELSE q.base \in Nat
                   /\ \E k \in Nat : Kept(m, q.a, k, Lend(K, q.base, x, t))
      BY <1>2, Allocated
    <2>2. QED
      BY <1>1, <2>1
  <1>4. /\ pool_act' = [pool_act EXCEPT ![m] = TRUE] /\ asks' \in [Task -> Nat]
    BY InUse DEF PoolTables, PoolTyped
  <1>5. lent' = [lent EXCEPT ![m] = D]
    BY <1>1
  <1>6. QED
    BY <1>3, <1>4, <1>5, TableKept

\* A block comes back.
LEMMA PoolTakesBack ==
  ASSUME PoolHypothesis, PoolTables, NEW m \in PoolId, pool_act[m], NEW d \in lent[m],
         FreesInOrder(m, d)
  PROVE  \E n \in Nat : Kept(m, pool_free(pool[m], d.base), n, lent[m] \ {d})
  <1>1. PICK a, K : a = pool[m] /\ K = lent[m]
    OBVIOUS
  <1>2. PICK n \in Nat : Kept(m, a, n, K)
    BY <1>1, InUse
  <1>3. \/ \E e \in K : e.base + Rounded(e.size) = d.base
        \/ \A e \in K : e.base >= d.base
    BY <1>1 DEF FreesInOrder
  <1>4. QED
    BY <1>1, <1>2, <1>3, BlockFreed

\* A block changes hands.
LEMMA HandedOver ==
  ASSUME NEW m, NEW a, NEW n, NEW K, Kept(m, a, n, K), NEW d \in K, NEW t \in Task,
         NEW e, e = [d EXCEPT !.by = t]
  PROVE  Kept(m, a, n, (K \ {d}) \cup {e})
  <1>1. /\ \A b \in K : /\ b \in LentBlock
                        /\ \E i \in 1 .. n : ~a[i].free /\ a[i].base = b.base /\ a[i].size = Rounded(b.size)
        /\ \A b, c \in K : b.base = c.base => b = c
        /\ \A i \in 1 .. n : ~a[i].free => \E b \in K : b.base = a[i].base
    BY DEF Kept, Lease, Given
  <1>2. e \in LentBlock /\ e.base = d.base /\ e.size = d.size
    BY <1>1 DEF LentBlock
  <1>3. PICK M : M = (K \ {d}) \cup {e}
    OBVIOUS
  <1>4. ASSUME NEW b \in M
        PROVE  /\ b \in LentBlock
               /\ \E i \in 1 .. n : ~a[i].free /\ a[i].base = b.base /\ a[i].size = Rounded(b.size)
    <2>1. CASE b = e
      <3>1. PICK i \in 1 .. n : ~a[i].free /\ a[i].base = d.base /\ a[i].size = Rounded(d.size)
        BY <1>1
      <3>2. QED
        BY <1>2, <2>1, <3>1
    <2>2. CASE b # e
      BY <1>1, <1>3, <2>2
    <2>3. QED
      BY <2>1, <2>2
  <1>5. ASSUME NEW b \in M, NEW c \in M, b.base = c.base
        PROVE  b = c
    <2>1. /\ b = e \/ (b \in K /\ b # d)
          /\ c = e \/ (c \in K /\ c # d)
      BY <1>3
    <2>2. ASSUME NEW z \in K, z # d PROVE z.base # e.base
      BY <1>1, <1>2, <2>2
    <2>3. QED
      BY <1>1, <1>5, <2>1, <2>2
  <1>6. Given(a, n, M)
    <2>1. \A b, c \in M : b.base = c.base => b = c
      BY <1>5
    <2>2. \A i \in 1 .. n : ~a[i].free => \E b \in M : b.base = a[i].base
      <3> SUFFICES ASSUME NEW i \in 1 .. n, ~a[i].free
                   PROVE  \E b \in M : b.base = a[i].base
        OBVIOUS
      <3>1. PICK b \in K : b.base = a[i].base
        BY <1>1
      <3>2. CASE b = d
        BY <1>2, <1>3, <3>1, <3>2
      <3>3. CASE b # d
        BY <1>3, <3>1, <3>3
      <3>4. QED
        BY <3>2, <3>3
    <2>3. QED
      BY <1>4, <2>1, <2>2 DEF Given
  <1>7. QED
    BY <1>3, <1>6 DEF Kept, Lease

\* A call that only answers.
LEMMA PoolReplied ==
  ASSUME Application(PoolBlockers), Layer, NEW L, PoolWaits(L), NEW c \in Cpu,
         pc[c] = "user", NEW v \in Int, Reply(c, v), PoolTables', asks' = asks
  PROVE  PoolInv'
  <1>1. Layer'
    BY ReplyLayer
  <1>2. Queues(PoolHeads, PoolBlockers, L)' /\ Asleep(PoolHeads, L)'
    <2>1. UNCHANGED <<wlink, wupcnt, tskstat>>
      BY DEF Reply, readyVars
    <2>2. \A t \in Task : tskstat'[t] = "WAI" <=> tskstat[t] = "WAI"
      BY <2>1
    <2>3. Undisturbed(PoolHeads, PoolBlockers)
      BY PoolNodes
    <2>4. QED
      BY <2>1, <2>2, <2>3, QueuesSame DEF PoolWaits
  <1>3. Asking(L)'
    BY DEF PoolWaits, Asking
  <1>4. PoolWaits(L)'
    BY <1>2, <1>3 DEF PoolWaits
  <1>5. QED
    BY <1>1, <1>4 DEF PoolInv

LEMMA PoolRefused ==
  ASSUME Application(PoolBlockers), PoolInv, NEW c \in Cpu, pc[c] = "user",
         NEW v \in Int, RefusePool(c, v)
  PROVE  PoolInv'
  <1>1. PICK L : PoolWaits(L)
    BY DEF PoolInv
  <1>2. Reply(c, v) /\ UNCHANGED <<pool_act, pool, lent, asks>>
    BY DEF RefusePool, poolVars
  <1>3. PoolTables'
    <2>1. asks' \in [Task -> Nat]
      BY <1>2 DEF PoolInv, PoolTables, PoolTyped
    <2>2. QED
      BY <1>2, <2>1, TablesSame DEF PoolInv
  <1>4. QED
    BY <1>1, <1>2, <1>3, PoolReplied DEF PoolInv

LEMMA PoolCreated ==
  ASSUME PoolHypothesis, PoolInv, NEW c \in Cpu, pc[c] = "user",
         NEW v \in Int, NEW m \in PoolId, Created(m), Reply(c, v)
  PROVE  PoolInv'
  <1>1. PICK L : PoolWaits(L)
    BY DEF PoolInv
  <1>2. PoolTables'
    BY PoolMade DEF PoolInv
  <1>3. asks' = asks
    BY DEF Created, sys_cre_mpf, sys_cre_mpl, Fresh
  <1>4. QED
    BY <1>1, <1>2, <1>3, PoolReplied DEF PoolInv, PoolHypothesis

LEMMA PoolGot ==
  ASSUME PoolHypothesis, PoolInv, NEW c \in Cpu, pc[c] = "user", NEW m \in PoolId,
         pool_act[m], NEW x, NEW max \in Nat, Asked(m, x, max), GetNow(c, m, x, max)
  PROVE  PoolInv'
  <1>1. PICK L : PoolWaits(L)
    BY DEF PoolInv
  <1>2. PICK t \in Task : t = c_tskid[c]
    BY Running DEF PoolInv
  <1>3. PICK r : r = pool_alloc(pool[m], x, max)
    OBVIOUS
  <1>4. /\ r.base # None /\ pool' = [pool EXCEPT ![m] = r.a]
        /\ lent' = [lent EXCEPT ![m] = Lend(@, r.base, x, t)]
        /\ Reply(c, E_OK) /\ UNCHANGED <<pool_act, asks>>
    BY <1>2, <1>3 DEF GetNow
  <1>5. PoolTables'
    BY <1>3, <1>4, PoolLends DEF PoolInv
  <1>6. QED
    BY <1>1, <1>4, <1>5, PoolReplied, Codes DEF PoolInv, PoolHypothesis

\* The caller sleeps in the queue of a pool, or does not want to wait.
LEMMA PoolJoined ==
  ASSUME PoolHypothesis, PoolInv, NEW c \in Cpu, pc[c] = "user", NEW m \in PoolId,
         NEW x \in Nat \ {0}, NEW max, NEW tmout,
         tmout # 0 => c_tskid[c] \in PoolBlockers, WaitBlock(c, m, x, max, tmout)
  PROVE  PoolInv'
  <1>1. PICK L : PoolWaits(L)
    BY DEF PoolInv
  <1>2. Layer /\ PoolTables /\ asks \in [Task -> Nat] /\ Application(PoolBlockers)
    BY DEF PoolInv, PoolHypothesis, PoolTables, PoolTyped
  <1>3. UNCHANGED <<pool_act, pool, lent>>
    BY DEF WaitBlock
  <1>4. CASE Reply(c, E_TMOUT) /\ UNCHANGED asks
    <2>1. PoolTables'
      BY <1>2, <1>3, <1>4, TablesSame
    <2>2. QED
      BY <1>1, <1>2, <1>4, <2>1, PoolReplied, Codes
  <1>5. CASE /\ tmout # 0 /\ asks' = [asks EXCEPT ![c_tskid[c]] = x]
             /\ JoinAndSleep(c, wlink, pool_wlink(m), TRUE, tmout) /\ Return(c, E_OK)
    <2>1. PICK t \in PoolBlockers : t = c_tskid[c]
      BY <1>5
    <2>2. PICK h \in PoolHeads : h = pool_wlink(m)
      BY <1>2, PoolNodes
    <2>3. tskstat[t] = "RUN" /\ t \in Task /\ Returned(c)
      BY <1>2, <1>5, <2>1, Running, ReturnReturns, Codes DEF Layer
    <2>4. \A g \in PoolHeads : t \notin L[g]
      BY <1>1, <2>3 DEF PoolWaits, Asleep
    <2>5. Layer' /\ Falls(PoolHeads, PoolBlockers, L, h, t)
      <3>1. Undisturbed(PoolHeads, PoolBlockers) /\ Queues(PoolHeads, PoolBlockers, L)
        BY <1>1, <1>2, PoolNodes DEF PoolWaits
      <3>2. PICK bypri \in BOOLEAN : bypri = TRUE
        OBVIOUS
      <3>3. JoinAndSleep(c, wlink, h, bypri, tmout)
        BY <1>5, <2>2, <3>2
      <3>4. QED
        BY <1>2, <2>1, <2>3, <2>4, <3>1, <3>3, QueuesJoin
    <2>6. PICK K : K = Joined(PoolHeads, L, h, t)
      OBVIOUS
    <2>7. Queues(PoolHeads, PoolBlockers, K)' /\ Asleep(PoolHeads, K)'
      BY <1>1, <2>5, <2>6 DEF Falls, PoolWaits
    <2>8. asks' \in [Task -> Nat] /\ asks'[t] # 0 /\ \A u \in Task : u # t => asks'[u] = asks[u]
      BY <1>2, <1>5, <2>1, <2>3
    <2>9. PoolTables'
      BY <1>2, <1>3, <2>8, TablesSame
    <2>10. Asking(K)'
      <3> SUFFICES ASSUME NEW k \in MplId, NEW u \in K[pool_wlink(k)]
                   PROVE  asks'[u] # 0
        BY DEF Asking
      <3>1. PICK g \in PoolHeads : g = pool_wlink(k)
        BY <1>2, PoolNodes
      <3>2. u = t \/ u \in L[g]
        BY <2>6, <3>1 DEF Joined
      <3>3. L[g] \subseteq Task
        BY <1>1, <1>2, PoolNodes, HeadNodes DEF PoolWaits, Queues
      <3>4. QED
        BY <1>1, <2>4, <2>8, <3>1, <3>2, <3>3 DEF PoolWaits, Asking
    <2>11. PoolWaits(K)'
      BY <2>7, <2>10 DEF PoolWaits
    <2>12. QED
      BY <2>5, <2>9, <2>11 DEF PoolInv
  <1>6. QED
    BY <1>4, <1>5 DEF WaitBlock

LEMMA PoolDel ==
  ASSUME PoolHypothesis, PoolInv, NEW c \in Cpu, pc[c] = "user", NEW m \in PoolId,
         del_pool(c, m)
  PROVE  PoolInv'
  <1>1. PICK L : PoolWaits(L)
    BY DEF PoolInv
  <1>2. Layer /\ PoolTables /\ Application(PoolBlockers)
    BY DEF PoolInv, PoolHypothesis
  <1>3. PICK h \in PoolHeads : h = pool_wlink(m)
    BY <1>2, PoolNodes
  <1>4. Undisturbed(PoolHeads, PoolBlockers) /\ Queues(PoolHeads, PoolBlockers, L)
    BY <1>1, <1>2, PoolNodes DEF PoolWaits
  <1>5. CASE RefusePool(c, E_NOEXS)
    BY <1>2, <1>5, PoolRefused, Codes
  <1>6. CASE /\ DismissAllUntimed(<<h>>) /\ Return(c, E_OK)
             /\ pool_act' = [pool_act EXCEPT ![m] = FALSE]
             /\ UNCHANGED <<pool, lent, asks>>
    <2>1. Emptying(L[h], {h})
      <3>1. Emptied(<<h>>)
        BY <1>6 DEF Emptied
      <3>2. \A t \in L[h] : t \in Task /\ tskstat[t] = "WAI"
        BY <1>1, <1>4, HeadNodes DEF PoolWaits, Asleep, Queues
      <3>3. h \in WNode /\ IsList(WNode, wlink, h, L[h])
        BY <1>4, HeadNodes DEF Queues, Lists
      <3>4. QED
        BY <1>2, <3>1, <3>2, <3>3, DismissAllWakes
    <2>2. Returned(c)
      BY <1>2, <1>6, ReturnReturns, Codes DEF Layer
    <2>3. PICK G \in SUBSET PoolHeads : G = {h}
      OBVIOUS
    <2>4. Emptying(UNION {L[g] : g \in G}, G)
      <3>1. UNION {L[g] : g \in G} = L[h]
        BY <2>3
      <3>2. QED
        BY <2>1, <2>3, <3>1
    <2>5. Layer' /\ Empties(PoolHeads, PoolBlockers, L, G)
      BY <1>2, <1>4, <2>2, <2>4, QueuesEmptied
    <2>6. PICK K : K = Cleared(PoolHeads, L, G)
      OBVIOUS
    <2>7. Queues(PoolHeads, PoolBlockers, K)' /\ Asleep(PoolHeads, K)'
      BY <1>1, <2>5, <2>6 DEF Empties, PoolWaits
    <2>8. PoolTables'
      BY <1>2, <1>6, TableClosed
    <2>9. Asking(K)'
      BY <1>1, <1>2, <1>6, <2>6, PoolNodes DEF Cleared, PoolWaits, Asking
    <2>10. PoolWaits(K)'
      BY <2>7, <2>9 DEF PoolWaits
    <2>11. QED
      BY <2>5, <2>8, <2>10 DEF PoolInv
  <1>7. QED
    BY <1>3, <1>5, <1>6 DEF del_pool

\* A fixed block goes to who waits first, or back to the table.
LEMMA PoolRelFixed ==
  ASSUME PoolHypothesis, PoolInv, NEW c \in Cpu, NEW m \in PoolId, rel_mpf(c, m)
  PROVE  PoolInv'
  <1>1. PICK L : PoolWaits(L)
    BY DEF PoolInv
  <1>2. Layer /\ PoolTables /\ Application(PoolBlockers) /\ pc[c] = "user"
    BY DEF PoolInv, PoolHypothesis, rel_mpf, Trap
  <1>3. PICK h \in PoolHeads : h = pool_wlink(m)
    BY <1>2, PoolNodes
  <1>4. Undisturbed(PoolHeads, PoolBlockers) /\ Queues(PoolHeads, PoolBlockers, L)
    BY <1>1, <1>2, PoolNodes DEF PoolWaits
  <1>5. CASE RefusePool(c, E_NOEXS)
    BY <1>2, <1>5, PoolRefused, Codes
  <1>6. PICK t : t = wlink.next[h]
    OBVIOUS
  <1>7. IF t = h THEN L[h] = {} ELSE t \in L[h]
    BY <1>4, <1>6, QueueFirst
  <1>8. ASSUME NEW d \in lent[m], pool_act[m], Frees(c, m, d), t # h,
               lent' = [lent EXCEPT ![m] = (@ \ {d}) \cup {[d EXCEPT !.by = t]}],
               Commit(Ready(Kernel0, t, eax[t])), wlink' = UnlinkToSelf(wlink, t),
               UNCHANGED <<next_tsk_flag, tcbVars, wupcnt, pool>>,
               Return(c, E_OK), UNCHANGED <<pool_act, asks>>
        PROVE  PoolInv'
    <2>1. /\ t \in L[h] /\ t \in Task /\ tskstat[t] = "WAI" /\ eax[t] \in Int
      BY <1>1, <1>2, <1>4, <1>7, <1>8, HeadNodes DEF PoolWaits, Asleep, Queues, Layer, TypeOK
    <2>2. PICK v \in Int : v = eax[t]
      BY <2>1
    <2>3. PICK k : Wakes(k, {t}) /\ Hears(k, {t}, v)
      <3>1. Commit(Ready(Kernel0, t, v)) /\ UNCHANGED <<next_tsk_flag, tcbVars, wupcnt>>
        BY <1>8, <2>2
      <3>2. QED
        BY <1>2, <2>1, <2>2, <3>1, ReadyWakes
    <2>4. Returned(c)
      BY <1>2, <1>8, ReturnReturns, Codes DEF Layer
    <2>5. Layer' /\ Leaves(PoolHeads, PoolBlockers, L, t, v)
      BY <1>2, <1>4, <1>8, <2>1, <2>2, <2>3, <2>4, QueuesGive
    <2>6. PICK K : K = Without(PoolHeads, L, t)
      OBVIOUS
    <2>7. Queues(PoolHeads, PoolBlockers, K)' /\ Asleep(PoolHeads, K)'
      BY <1>1, <2>5, <2>6 DEF Leaves, PoolWaits
    <2>8. PoolTables'
      <3>1. PICK a, D, e : a = pool[m] /\ D = lent[m] /\ e = [d EXCEPT !.by = t]
        OBVIOUS
      <3>2. PICK n \in Nat : Kept(m, a, n, D)
        BY <1>2, <1>8, <3>1, InUse
      <3>3. Kept(m, a, n, (D \ {d}) \cup {e})
        BY <1>8, <2>1, <3>1, <3>2, HandedOver
      <3>4. /\ pool_act' = [pool_act EXCEPT ![m] = TRUE] /\ asks' \in [Task -> Nat]
            /\ pool' = [pool EXCEPT ![m] = a]
            /\ lent' = [lent EXCEPT ![m] = (D \ {d}) \cup {e}]
        BY <1>2, <1>8, <3>1, InUse DEF PoolTables, PoolTyped
      <3>5. QED
        BY <1>2, <3>2, <3>3, <3>4, TableKept
    <2>9. Asking(K)'
      BY <1>1, <1>2, <1>8, <2>6, PoolNodes DEF Without, PoolWaits, Asking
    <2>10. PoolWaits(K)'
      BY <2>7, <2>9 DEF PoolWaits
    <2>11. QED
      BY <2>5, <2>8, <2>10 DEF PoolInv
  <1>9. ASSUME NEW d \in lent[m], pool_act[m], Frees(c, m, d),
               pool' = [pool EXCEPT ![m] = pool_free(@, d.base)],
               lent' = [lent EXCEPT ![m] = @ \ {d}],
               UNCHANGED <<readyVars, tcbVars, wupcnt, eax, wlink, timeVars>>,
               Return(c, E_OK), UNCHANGED <<pool_act, asks>>
        PROVE  PoolInv'
    <2>1. Reply(c, E_OK)
      BY <1>9 DEF Reply
    <2>2. PICK a, D : a = pool_free(pool[m], d.base) /\ D = lent[m] \ {d}
      OBVIOUS
    <2>3. PICK n \in Nat : Kept(m, a, n, D)
      <3>1. FreesInOrder(m, d)
        BY <1>9 DEF Frees, PoolHypothesis
      <3>2. QED
        BY <1>2, <1>9, <2>2, <3>1, PoolTakesBack
    <2>4. /\ pool_act' = [pool_act EXCEPT ![m] = TRUE] /\ asks' \in [Task -> Nat]
          /\ pool' = [pool EXCEPT ![m] = a] /\ lent' = [lent EXCEPT ![m] = D]
      BY <1>2, <1>9, <2>2, InUse DEF PoolTables, PoolTyped
    <2>5. PoolTables'
      BY <1>2, <2>3, <2>4, TableKept
    <2>6. QED
      BY <1>1, <1>2, <1>9, <2>1, <2>5, PoolReplied, Codes
  <1>10. CASE ~RefusePool(c, E_NOEXS)
    <2>1. PICK d \in lent[m] :
            /\ pool_act[m] /\ Frees(c, m, d) /\ Return(c, E_OK) /\ UNCHANGED <<pool_act, asks>>
            /\ \/ /\ t # h
                  /\ lent' = [lent EXCEPT ![m] = (@ \ {d}) \cup {[d EXCEPT !.by = t]}]
                  /\ Commit(Ready(Kernel0, t, eax[t])) /\ wlink' = UnlinkToSelf(wlink, t)
                  /\ UNCHANGED <<next_tsk_flag, tcbVars, wupcnt, pool>>
               \/ /\ pool' = [pool EXCEPT ![m] = pool_free(@, d.base)]
                  /\ lent' = [lent EXCEPT ![m] = @ \ {d}]
                  /\ UNCHANGED <<readyVars, tcbVars, wupcnt, eax, wlink, timeVars>>
      BY <1>3, <1>6, <1>10, Zenon DEF rel_mpf
    <2>2. QED
      BY <1>8, <1>9, <2>1
  <1>11. QED
    BY <1>5, <1>10

(***************************************************************************)
(* The loop of rel_mpl at the queue h = L[h]: after i of the waiters v,    *)
(* A of them have a block.                                                 *)
(***************************************************************************)
HandsOut(m, L, s, v, i, A) ==
  /\ s = [a |-> s.a, over |-> s.over, k |-> s.k, w |-> s.w, blk |-> s.blk, lent |-> s.lent]
  /\ \E n \in Nat : Kept(m, s.a, n, s.lent)
  /\ \A t \in A : \E j \in 1 .. i : v[j] = t
  /\ s.w \in Ring(WNode)
  /\ Lists(WNode, s.w, PoolHeads, Rest(PoolHeads, L, pool_wlink(m), A))
  /\ \A u \in Task \ A : InQueue(s.w, u) => InQueue(wlink, u) \/ u \in L[pool_wlink(m)]
  /\ Tidy(s.k) /\ s.k.eax = eax
  /\ s.k.tskstat = [t \in Task |-> IF t \in A THEN "RDY" ELSE tskstat[t]]

\* Each waits once, sleeps and asks for something.
Patient(m, L, v, n) ==
  /\ n \in Nat /\ Lists(WNode, wlink, PoolHeads, L)
  /\ L[pool_wlink(m)] \subseteq Task
  /\ L[pool_wlink(m)] = {v[i] : i \in 1 .. n}
  /\ \A i, j \in 1 .. n : i # j => v[i] # v[j]
  /\ \A i \in 1 .. n : tskstat[v[i]] = "WAI" /\ asks[v[i]] \in Nat \ {0}

LEMMA HandsOutFirst ==
  ASSUME Layer, NEW m, NEW L, NEW v, NEW n, Patient(m, L, v, n), NEW a, NEW K, NEW k \in Nat,
         Kept(m, a, k, K), NEW b
  PROVE  HandsOut(m, L, [a |-> a, over |-> FALSE, k |-> Kernel0, w |-> wlink, blk |-> b,
                         lent |-> K], v, 0, {})
  <1>1. PICK q, s : q = Kernel0 /\ s = [a |-> a, over |-> FALSE, k |-> q, w |-> wlink,
                                        blk |-> b, lent |-> K]
    OBVIOUS
  <1>2. /\ TypeOK /\ ReadyLists /\ wlink \in Ring(WNode)
        /\ tskstat \in [Task -> Stat] /\ eax \in [Task -> Int]
    BY DEF Layer, TypeOK
  <1>3. Tidy(q) /\ q.tskstat = tskstat /\ q.eax = eax
    BY <1>1, <1>2, TidyNow DEF Kernel0
  <1>4. Lists(WNode, wlink, PoolHeads, Rest(PoolHeads, L, pool_wlink(m), {}))
    <2>1. \A g \in PoolHeads : Rest(PoolHeads, L, pool_wlink(m), {})[g] = L[g]
      BY DEF Rest
    <2>2. QED
      BY <2>1 DEF Patient, Lists
  <1>5. /\ s.a = a /\ s.k = q /\ s.w = wlink /\ s.lent = K /\ s.over = FALSE /\ s.blk = b
    BY <1>1
  <1>6. HandsOut(m, L, s, v, 0, {})
    BY <1>1, <1>2, <1>3, <1>4, <1>5 DEF HandsOut
  <1>7. QED
    BY <1>1, <1>6

LEMMA HandsOutNext ==
  ASSUME PoolHypothesis, Layer, NEW m \in MplId, NEW L, NEW v, NEW n, Patient(m, L, v, n),
         NEW i \in 1 .. n, NEW s, NEW A, HandsOut(m, L, s, v, i - 1, A)
  PROVE  \E S : HandsOut(m, L, Serve(m, s, v[i]), v, i, S)
  <1>1. PICK h, H : h = pool_wlink(m) /\ H = PoolHeads
    OBVIOUS
  <1>2. /\ m \in PoolId /\ h \in H /\ H \cap Task = {} /\ m \notin MpfId
        /\ MAX_MPL_POOL \in Nat
    BY <1>1, PoolNodes, HeadNodes, PoolConstants, PoolAssumption DEF PoolHypothesis
  <1>3. /\ i \in Nat /\ i - 1 \in Nat /\ n \in Nat /\ i \in 1 .. i
        /\ \A j \in 1 .. i - 1 : j \in 1 .. i /\ j \in 1 .. n /\ j # i
    BY DEF Patient
  <1>4. PICK t : t = v[i]
    OBVIOUS
  <1>5. t \in L[h] /\ t \in Task /\ tskstat[t] = "WAI" /\ asks[t] \in Nat \ {0} /\ t \notin A
        /\ L[h] \subseteq Task
    <2>1. t \notin A
      BY <1>3, <1>4 DEF Patient, HandsOut
    <2>2. QED
      BY <1>1, <1>4, <2>1 DEF Patient
  <1>6. \A u \in A : \E j \in 1 .. i : v[j] = u
    BY <1>3 DEF HandsOut
  <1>7. PICK r : r = pool_alloc(s.a, asks[t], MAX_MPL_POOL)
    OBVIOUS
  <1>8. CASE s.over
    <2>1. Serve(m, s, t) = s
      BY <1>8 DEF Serve
    <2>2. HandsOut(m, L, s, v, i, A)
      BY <1>6 DEF HandsOut
    <2>3. QED
      BY <1>4, <2>1, <2>2
  <1>9. CASE ~s.over /\ r.base = None
    <2>1. PICK z : z = [s EXCEPT !.over = TRUE, !.blk[t] = None]
      OBVIOUS
    <2>2. Serve(m, s, t) = z
      BY <1>7, <1>9, <2>1 DEF Serve
    <2>3. PICK b : b = [s.blk EXCEPT ![t] = None]
      OBVIOUS
    <2>4. z = [a |-> s.a, over |-> TRUE, k |-> s.k, w |-> s.w, blk |-> b, lent |-> s.lent]
      <3>1. s = [a |-> s.a, over |-> s.over, k |-> s.k, w |-> s.w, blk |-> s.blk, lent |-> s.lent]
        BY DEF HandsOut
      <3>2. QED
        BY <2>1, <2>3, <3>1
    <2>5. z.a = s.a /\ z.k = s.k /\ z.w = s.w /\ z.lent = s.lent /\ z.over = TRUE /\ z.blk = b
      BY <2>4
    <2>6. HandsOut(m, L, z, v, i, A)
      BY <1>6, <2>4, <2>5 DEF HandsOut
    <2>7. QED
      BY <1>4, <2>2, <2>6
  <1>10. CASE ~s.over /\ r.base # None
    <2>1. PICK x : x = asks[t]
      OBVIOUS
    <2>2. PICK o, l, C : o = s.k /\ l = s.w /\ C = A \cup {t}
      OBVIOUS
    <2>3. PICK k, q, b, D : /\ k = Ready(o, t, o.eax[t]) /\ q = UnlinkToSelf(l, t)
                            /\ b = [s.blk EXCEPT ![t] = r.base] /\ D = Lend(s.lent, r.base, x, t)
      OBVIOUS
    <2>4. PICK z : z = Serve(m, s, t)
      OBVIOUS
    <2>5. z = [a |-> r.a, over |-> FALSE, k |-> k, w |-> q, blk |-> b, lent |-> D]
      BY <1>7, <1>10, <2>1, <2>2, <2>3, <2>4 DEF Serve
    <2>6. z.a = r.a /\ z.k = k /\ z.w = q /\ z.lent = D /\ z.over = FALSE /\ z.blk = b
      BY <2>5
    <2>7. \E j \in Nat : Kept(m, r.a, j, D)
      <3>1. PICK j \in Nat : Kept(m, s.a, j, s.lent)
        BY DEF HandsOut
      <3>2. PICK a, K : a = s.a /\ K = s.lent
        OBVIOUS
      <3>3. Asked(m, x, MAX_MPL_POOL)
        BY <1>2, <1>5, <2>1 DEF Asked
      <3>4. LET p == pool_alloc(a, x, MAX_MPL_POOL)
            IN  IF p.base = None THEN p.a = a
                ELSE p.base \in Nat
                     /\ \E y \in Nat : Kept(m, p.a, y, Lend(K, p.base, x, t))
        BY <1>2, <1>5, <3>1, <3>2, <3>3, Allocated
      <3>5. QED
        BY <1>7, <1>10, <2>1, <2>3, <3>2, <3>4
    <2>8. /\ Tidy(k) /\ k.tskstat = [u \in Task |-> IF u \in C THEN "RDY" ELSE tskstat[u]]
          /\ k.eax = eax
      <3>1. /\ Tidy(o) /\ o.tskstat = [u \in Task |-> IF u \in A THEN "RDY" ELSE tskstat[u]]
            /\ o.eax = eax /\ eax \in [Task -> Int] /\ tskpri \in [Task -> Pri]
        BY <2>2 DEF HandsOut, Layer, TypeOK
      <3>2. PICK y \in Int : y = o.eax[t]
        BY <1>5, <3>1
      <3>3. /\ tskpri \in [Task -> Pri] /\ Tidy(o) /\ t \in Task
            /\ o.tskstat[t] \notin {"RDY", "RUN"}
        BY <1>5, <3>1
      <3>4. /\ Tidy(Ready(o, t, y)) /\ Ready(o, t, y).tskstat = [o.tskstat EXCEPT ![t] = "RDY"]
            /\ Ready(o, t, y).eax = [o.eax EXCEPT ![t] = y]
        BY <3>3, MadeReady
      <3>5. /\ Tidy(k) /\ k.tskstat = [o.tskstat EXCEPT ![t] = "RDY"]
            /\ k.eax = [o.eax EXCEPT ![t] = y]
        BY <2>3, <3>2, <3>4
      <3>6. k.eax = eax
        BY <3>1, <3>2, <3>5
      <3>7. QED
        BY <2>2, <3>1, <3>5, <3>6
    <2>9. PICK M, N : M = Rest(H, L, h, A) /\ N = [g \in H |-> IF g = h THEN M[g] \ {t} ELSE M[g]]
      OBVIOUS
    <2>10. /\ l \in Ring(WNode) /\ Lists(WNode, l, H, M) /\ M[h] = L[h] \ A
           /\ M[h] \subseteq Task /\ t \in M[h]
      BY <1>1, <1>2, <1>5, <2>2, <2>9 DEF HandsOut, Rest
    <2>11. /\ q \in Ring(WNode) /\ Lists(WNode, q, H, N)
           /\ \A u \in Task \ {t} : InQueue(q, u) => InQueue(l, u) \/ u \in M[h]
      BY <1>2, <2>3, <2>9, <2>10, LeaveLists DEF LeavesLists
    <2>12. N = Rest(H, L, h, C)
      <3>1. \A g \in H : N[g] = Rest(H, L, h, C)[g]
        BY <2>2, <2>9 DEF Rest
      <3>2. QED
        BY <2>9, <3>1 DEF Rest
    <2>13. \A u \in Task \ C : InQueue(q, u) => InQueue(wlink, u) \/ u \in L[h]
      <3>1. \A u \in Task \ A : InQueue(l, u) => InQueue(wlink, u) \/ u \in L[h]
        BY <1>1, <2>2 DEF HandsOut
      <3>2. QED
        BY <2>2, <2>10, <2>11, <3>1
    <2>14. \A u \in C : \E j \in 1 .. i : v[j] = u
      BY <1>3, <1>4, <1>6, <2>2
    <2>15. HandsOut(m, L, z, v, i, C)
      BY <1>1, <2>5, <2>6, <2>7, <2>8, <2>11, <2>12, <2>13, <2>14 DEF HandsOut
    <2>16. QED
      BY <1>4, <2>4, <2>15
  <1>11. QED
    BY <1>8, <1>9, <1>10

\* The recursion of ServeAll.
HandingOut(f, m, s, v, n) ==
  f = [i \in 0 .. n |-> IF i = 0 THEN s ELSE Serve(m, f[i - 1], v[i])]

LEMMA HandingOutExists ==
  ASSUME NEW m, NEW s, NEW v, NEW n \in Nat
  PROVE  \E f : HandingOut(f, m, s, v, n)
  <1> DEFINE T == {k \in Nat : \E f : HandingOut(f, m, s, v, k)}
  <1>1. 0 \in T
    <2>1. PICK f : f = [i \in 0 .. 0 |-> s]
      OBVIOUS
    <2>2. \A i \in 0 .. 0 : f[i] = IF i = 0 THEN s ELSE Serve(m, f[i - 1], v[i])
      BY <2>1
    <2>3. f = [i \in 0 .. 0 |-> IF i = 0 THEN s ELSE Serve(m, f[i - 1], v[i])]
      BY <2>1, <2>2
    <2>4. QED
      BY <2>3 DEF HandingOut
  <1>2. ASSUME NEW k \in Nat, k \in T
        PROVE  k + 1 \in T
    <2>1. PICK f : HandingOut(f, m, s, v, k)
      BY <1>2
    <2>2. PICK j \in Nat : j = k + 1 /\ j # 0 /\ j - 1 = k
      OBVIOUS
    <2>3. PICK g : g = [i \in 0 .. j |-> IF i = j THEN Serve(m, f[k], v[j]) ELSE f[i]]
      OBVIOUS
    <2>4. ASSUME NEW i \in 0 .. j
          PROVE  g[i] = IF i = 0 THEN s ELSE Serve(m, g[i - 1], v[i])
      <3>1. \A y \in 0 .. k : f[y] = IF y = 0 THEN s ELSE Serve(m, f[y - 1], v[y])
        BY <2>1 DEF HandingOut
      <3>2. CASE i = j
        <4>1. g[i] = Serve(m, f[k], v[j]) /\ k \in 0 .. j /\ k # j
          BY <2>2, <2>3, <3>2
        <4>2. g[k] = f[k]
          BY <2>3, <4>1
        <4>3. QED
          BY <2>2, <3>2, <4>1, <4>2
      <3>3. CASE i # j
        <4>1. i \in 0 .. k /\ g[i] = f[i]
          BY <2>2, <2>3, <3>3
        <4>2. CASE i = 0
          BY <3>1, <4>1, <4>2
        <4>3. CASE i # 0
          <5>1. i - 1 \in 0 .. j /\ i - 1 # j
            BY <2>2, <4>1, <4>3
          <5>2. g[i - 1] = f[i - 1]
            BY <2>3, <5>1
          <5>3. QED
            BY <3>1, <4>1, <4>3, <5>2
        <4>4. QED
          BY <4>2, <4>3
      <3>4. QED
        BY <3>2, <3>3
    <2>5. g = [i \in 0 .. j |-> g[i]]
      BY <2>3
    <2>6. g = [i \in 0 .. j |-> IF i = 0 THEN s ELSE Serve(m, g[i - 1], v[i])]
      BY <2>4, <2>5
    <2>7. HandingOut(g, m, s, v, j)
      BY <2>6 DEF HandingOut
    <2>8. QED
      BY <2>2, <2>7
  <1> HIDE DEF T
  <1>3. Nat \subseteq T
    BY <1>1, <1>2, SetInduction
  <1>4. QED
    BY <1>3 DEF T

LEMMA LoopHandsOut ==
  ASSUME PoolHypothesis, Layer, NEW m \in MplId, NEW L, NEW v, NEW n, Patient(m, L, v, n),
         NEW s, HandsOut(m, L, s, v, 0, {}), NEW f, HandingOut(f, m, s, v, n)
  PROVE  \E A : HandsOut(m, L, f[n], v, n, A)
  <1>0. n \in Nat
    BY DEF Patient
  <1>1. f[0] = s /\ \A i \in 1 .. n : f[i] = Serve(m, f[i - 1], v[i])
    <2>1. \A i \in 0 .. n : f[i] = IF i = 0 THEN s ELSE Serve(m, f[i - 1], v[i])
      BY DEF HandingOut
    <2>2. 0 \in 0 .. n /\ \A i \in 1 .. n : i \in 0 .. n /\ i # 0
      BY <1>0
    <2>3. QED
      BY <2>1, <2>2
  <1> DEFINE T == {i \in Nat : i <= n => \E A : HandsOut(m, L, f[i], v, i, A)}
  <1>2. 0 \in T
    BY <1>1
  <1>3. ASSUME NEW i \in Nat, i \in T
        PROVE  i + 1 \in T
    <2> SUFFICES ASSUME i + 1 <= n
                 PROVE  \E A : HandsOut(m, L, f[i + 1], v, i + 1, A)
      OBVIOUS
    <2>1. PICK A : HandsOut(m, L, f[i], v, i, A)
      BY <1>0, <1>3
    <2>2. PICK j \in 1 .. n : j = i + 1 /\ j - 1 = i
      BY <1>0
    <2>3. PICK z : z = f[i]
      OBVIOUS
    <2>4. HandsOut(m, L, z, v, j - 1, A)
      BY <2>1, <2>2, <2>3
    <2>5. \E S : HandsOut(m, L, Serve(m, z, v[j]), v, j, S)
      BY <2>4, HandsOutNext
    <2>6. f[j] = Serve(m, z, v[j])
      BY <1>1, <2>2, <2>3
    <2>7. QED
      BY <2>2, <2>5, <2>6
  <1> HIDE DEF T
  <1>4. Nat \subseteq T
    BY <1>2, <1>3, SetInduction
  <1>5. QED
    BY <1>0, <1>4 DEF T

LEMMA ServedAll ==
  ASSUME PoolHypothesis, Layer, NEW m \in MplId, NEW L, NEW v, Patient(m, L, v, Len(v)),
         NEW s, HandsOut(m, L, s, v, 0, {})
  PROVE  \E A : HandsOut(m, L, ServeAll(m, s, v), v, Len(v), A)
  <1> DEFINE run == CHOOSE served : served = [i \in 0 .. Len(v) |->
                      IF i = 0 THEN s ELSE Serve(m, served[i - 1], v[i])]
  <1>1. ServeAll(m, s, v) = run[Len(v)]
    BY Zenon DEF ServeAll
  <1>2. HandingOut(run, m, s, v, Len(v))
    <2>1. \E f : HandingOut(f, m, s, v, Len(v))
      BY HandingOutExists DEF Patient
    <2>2. \A f : HandingOut(f, m, s, v, Len(v)) <=>
                   f = [i \in 0 .. Len(v) |-> IF i = 0 THEN s ELSE Serve(m, f[i - 1], v[i])]
      BY DEF HandingOut
    <2>3. QED
      BY <2>1, <2>2
  <1> HIDE DEF run
  <1>3. PICK n : n = Len(v) /\ Patient(m, L, v, n) /\ HandingOut(run, m, s, v, n)
    BY <1>2
  <1>4. \E A : HandsOut(m, L, run[n], v, n, A)
    BY <1>3, LoopHandsOut
  <1>5. QED
    BY <1>1, <1>3, <1>4

\* The queue of a variable pool is such a line.
LEMMA PoolLine ==
  ASSUME PoolHypothesis, PoolInv, NEW L, PoolWaits(L), NEW m \in MplId,
         NEW v, v = Walk(wlink, pool_wlink(m))
  PROVE  Patient(m, L, v, Len(v))
  <1>1. PICK h \in PoolHeads : h = pool_wlink(m)
    BY PoolNodes DEF PoolHypothesis
  <1>2. /\ Undisturbed(PoolHeads, PoolBlockers) /\ Queues(PoolHeads, PoolBlockers, L) /\ Layer
        /\ asks \in [Task -> Nat]
    BY PoolNodes DEF PoolWaits, PoolInv, PoolTables, PoolTyped, PoolHypothesis
  <1>3. /\ Len(v) \in Nat /\ \A i \in 1 .. Len(v) : v[i] \in Task
        /\ \A i, j \in 1 .. Len(v) : i # j => v[i] # v[j]
        /\ L[h] = {v[i] : i \in 1 .. Len(v)}
    BY <1>1, <1>2, QueueLine
  <1>4. Lists(WNode, wlink, PoolHeads, L) /\ L[h] \subseteq Task
    BY <1>2, <1>3 DEF Queues
  <1>5. \A i \in 1 .. Len(v) : tskstat[v[i]] = "WAI" /\ asks[v[i]] \in Nat \ {0}
    BY <1>1, <1>2, <1>3 DEF PoolWaits, Asleep, Asking
  <1>6. QED
    BY <1>1, <1>3, <1>4, <1>5 DEF Patient

\* What the queues are after the loop.
LEMMA QueuesServed ==
  ASSUME Layer, NEW H, NEW B, Undisturbed(H, B), NEW L, Queues(H, B, L), Asleep(H, L),
         NEW h \in H, NEW A, A \subseteq L[h], NEW K, K = Rest(H, L, h, A),
         Lists(WNode, wlink', H, K), wupcnt' = wupcnt,
         \A u \in Task \ A : InQueue(wlink', u) => InQueue(wlink, u) \/ u \in L[h],
         tskstat' = [t \in Task |-> IF t \in A THEN "RDY" ELSE tskstat[t]]
  PROVE  Queues(H, B, K)' /\ Asleep(H, K)'
  <1>1. \A g \in H : L[g] \subseteq B /\ L[g] \subseteq Task
    BY HeadNodes DEF Queues
  <1>2. \A g \in H : K[g] = IF g = h THEN L[g] \ A ELSE L[g]
    BY DEF Rest
  <1>3. ASSUME NEW g \in H, NEW u \in K[g]
        PROVE  u \in L[g] /\ u \notin A
    <2>1. CASE g = h
      BY <1>2, <1>3, <2>1
    <2>2. CASE g # h
      <3>1. L[g] \cap L[h] = {}
        BY <2>2 DEF Queues, Lists
      <3>2. QED
        BY <1>2, <1>3, <2>2, <3>1
    <2>3. QED
      BY <2>1, <2>2
  <1>4. \A u \in Task : tskstat'[u] = "WAI" => u \notin A /\ tskstat[u] = "WAI"
    OBVIOUS
  <1>5. \A u \in Task : tskstat'[u] = "WAI" /\ InQueue(wlink', u) => \E g \in H : u \in K[g]
    <2> SUFFICES ASSUME NEW u \in Task, tskstat'[u] = "WAI", InQueue(wlink', u)
                 PROVE  \E g \in H : u \in K[g]
      OBVIOUS
    <2>1. \E g \in H : u \in L[g]
      BY <1>4 DEF Queues
    <2>2. QED
      BY <1>2, <1>4, <2>1
  <1>6. Queues(H, B, K)'
    <2>1. \A g \in H : K[g] \subseteq B
      BY <1>1, <1>3
    <2>2. QED
      BY <1>5, <2>1 DEF Queues, InQueue
  <1>7. Asleep(H, K)'
    BY <1>1, <1>3 DEF Asleep
  <1>8. QED
    BY <1>6, <1>7

\* A block of a variable pool goes back, and the waiters are served.
LEMMA PoolRelSized ==
  ASSUME PoolHypothesis, PoolInv, NEW c \in Cpu, NEW m \in MplId, rel_mpl(c, m)
  PROVE  PoolInv'
  <1>1. PICK L : PoolWaits(L)
    BY DEF PoolInv
  <1>2. /\ Layer /\ PoolTables /\ Application(PoolBlockers) /\ pc[c] = "user"
        /\ m \in PoolId
    BY PoolNodes DEF PoolInv, PoolHypothesis, rel_mpl, Trap
  <1>3. PICK h \in PoolHeads : h = pool_wlink(m)
    BY <1>2, PoolNodes
  <1>4. Undisturbed(PoolHeads, PoolBlockers) /\ Queues(PoolHeads, PoolBlockers, L)
        /\ Asleep(PoolHeads, L)
    BY <1>1, <1>2, PoolNodes DEF PoolWaits
  <1>5. CASE RefusePool(c, E_NOEXS)
    BY <1>2, <1>5, PoolRefused, Codes
  <1>6. PICK v : v = Walk(wlink, pool_wlink(m))
    OBVIOUS
  <1>7. Patient(m, L, v, Len(v))
    BY <1>1, <1>6, PoolLine
  <1>8. ASSUME NEW d \in lent[m], pool_act[m], Frees(c, m, d), Return(c, E_OK),
               UNCHANGED <<next_tsk_flag, tcbVars, wupcnt, pool_act, asks>>,
               NEW s, s = ServeAll(m, [a |-> pool_free(pool[m], d.base), over |-> FALSE,
                                       k |-> Kernel0, w |-> wlink, blk |-> p_blk,
                                       lent |-> lent[m] \ {d}], v),
               pool' = [pool EXCEPT ![m] = s.a], Commit(s.k), wlink' = s.w,
               lent' = [lent EXCEPT ![m] = s.lent]
        PROVE  PoolInv'
    <2>1. PICK a, D, z : /\ a = pool_free(pool[m], d.base) /\ D = lent[m] \ {d}
                         /\ z = [a |-> a, over |-> FALSE, k |-> Kernel0, w |-> wlink,
                                 blk |-> p_blk, lent |-> D]
      OBVIOUS
    <2>2. PICK n \in Nat : Kept(m, a, n, D)
      <3>1. FreesInOrder(m, d)
        BY <1>8 DEF Frees, PoolHypothesis
      <3>2. QED
        BY <1>2, <1>8, <2>1, <3>1, PoolTakesBack
    <2>3. HandsOut(m, L, z, v, 0, {})
      BY <1>2, <1>7, <2>1, <2>2, HandsOutFirst
    <2>4. PICK A : HandsOut(m, L, s, v, Len(v), A)
      <3>1. s = ServeAll(m, z, v)
        BY <1>8, <2>1
      <3>2. QED
        BY <1>2, <1>7, <2>3, <3>1, ServedAll
    <2>5. A \subseteq L[h]
      BY <1>3, <1>7, <2>4 DEF HandsOut, Patient
    <2>6. PICK k, K : k = s.k /\ K = Rest(PoolHeads, L, h, A)
      OBVIOUS
    <2>7. /\ wlink' \in Ring(WNode) /\ Lists(WNode, wlink', PoolHeads, K)
          /\ \A u \in Task \ A : InQueue(wlink', u) => InQueue(wlink, u) \/ u \in L[h]
      BY <1>3, <1>8, <2>4, <2>6 DEF HandsOut
    <2>8. Wakes(k, A)
      <3>1. /\ Tidy(k) /\ k.tskstat = [t \in Task |-> IF t \in A THEN "RDY" ELSE tskstat[t]]
        BY <2>4, <2>6 DEF HandsOut
      <3>2. \A t \in A : t \in Task /\ tskstat[t] = "WAI"
        BY <1>4, <2>5, HeadNodes DEF Queues, Asleep
      <3>3. QED
        BY <1>8, <2>6, <3>1, <3>2 DEF Wakes
    <2>9. Returned(c)
      BY <1>2, <1>8, ReturnReturns, Codes DEF Layer
    <2>10. Layer'
      BY <1>2, <2>7, <2>8, <2>9, WakeLayer
    <2>11. /\ tskstat' = [t \in Task |-> IF t \in A THEN "RDY" ELSE tskstat[t]]
           /\ wupcnt' = wupcnt
      BY <2>8 DEF Wakes, Commit
    <2>12. Queues(PoolHeads, PoolBlockers, K)' /\ Asleep(PoolHeads, K)'
      BY <1>2, <1>4, <2>5, <2>6, <2>7, <2>11, QueuesServed
    <2>13. PoolTables'
      <3>1. PICK i \in Nat : Kept(m, s.a, i, s.lent)
        BY <2>4 DEF HandsOut
      <3>2. /\ pool_act' = [pool_act EXCEPT ![m] = TRUE] /\ asks' \in [Task -> Nat]
        BY <1>2, <1>8, InUse DEF PoolTables, PoolTyped
      <3>3. QED
        BY <1>2, <1>8, <3>1, <3>2, TableKept
    <2>14. Asking(K)'
      <3>1. \A g \in PoolHeads : K[g] \subseteq L[g]
        BY <2>6 DEF Rest
      <3>2. QED
        BY <1>1, <1>2, <1>8, <3>1, PoolNodes DEF PoolWaits, Asking
    <2>15. PoolWaits(K)'
      BY <2>12, <2>14 DEF PoolWaits
    <2>16. QED
      BY <2>10, <2>13, <2>15 DEF PoolInv
  <1>9. CASE ~RefusePool(c, E_NOEXS)
    <2>1. PICK d \in lent[m] :
            /\ pool_act[m] /\ Frees(c, m, d) /\ Return(c, E_OK)
            /\ UNCHANGED <<next_tsk_flag, tcbVars, wupcnt, pool_act, asks>>
            /\ \E s : /\ s = ServeAll(m, [a |-> pool_free(pool[m], d.base), over |-> FALSE,
                                          k |-> Kernel0, w |-> wlink, blk |-> p_blk,
                                          lent |-> lent[m] \ {d}], v)
                      /\ pool' = [pool EXCEPT ![m] = s.a] /\ Commit(s.k) /\ wlink' = s.w
                      /\ lent' = [lent EXCEPT ![m] = s.lent]
      BY <1>6, <1>9, Zenon DEF rel_mpl
    <2>2. QED
      BY <1>8, <2>1
  <1>10. QED
    BY <1>5, <1>9

LEMMA PoolCallInv ==
  ASSUME PoolHypothesis, PoolInv, NEW c \in Cpu, PoolCall(c)
  PROVE  PoolInv'
  <1>0. Application(PoolBlockers) /\ MplId \subseteq PoolId /\ MpfId \subseteq PoolId
    BY PoolNodes DEF PoolHypothesis
  <1>1. ASSUME NEW m \in PoolId, NEW call, cre_pool(c, m, call)
        PROVE  PoolInv'
    <2>1. pc[c] = "user" /\ (RefusePool(c, E_OBJ) \/ (Created(m) /\ Reply(c, E_OK)))
      BY <1>1 DEF cre_pool, Trap
    <2>2. QED
      BY <1>0, <2>1, PoolRefused, PoolCreated, Codes
  <1>2. ASSUME NEW ids, ids \subseteq PoolId, NEW call, acre_pool(c, ids, call)
        PROVE  PoolInv'
    <2>1. /\ pc[c] = "user"
          /\ RefusePool(c, E_NOID) \/ \E m \in PoolId : Created(m) /\ Reply(c, m)
      BY <1>2 DEF acre_pool, Trap
    <2>2. \A m \in PoolId : m \in Int
      BY <1>0, PoolNodes
    <2>3. QED
      BY <1>0, <2>1, <2>2, PoolRefused, PoolCreated, Codes
  <1>3. ASSUME NEW m \in PoolId, NEW x, NEW max \in Nat, Asked(m, x, max), NEW tmout,
               tmout # 0 => c_tskid[c] \in PoolBlockers, pc[c] = "user",
               \/ RefusePool(c, E_NOEXS)
               \/ pool_act[m] /\ GetNow(c, m, x, max)
               \/ WaitBlock(c, m, x, max, tmout)
        PROVE  PoolInv'
    <2>1. x \in Nat \ {0}
      BY <1>3 DEF Asked
    <2>2. QED
      BY <1>0, <1>3, <2>1, PoolRefused, PoolGot, PoolJoined, Codes
  <1>4. ASSUME NEW m \in PoolId, NEW tmout, NEW timed, NEW forever, NEW poll,
               timed \in {"tget_mpf", "tget_mpl"}, forever \in {"get_mpf", "get_mpl"},
               tmout \in TmoOf(c, m, timed, forever, poll), pc[c] = "user"
        PROVE  tmout # 0 => c_tskid[c] \in PoolBlockers
    <2>1. tmout # 0 => Issues(c_tskid[c], timed, m) \/ Issues(c_tskid[c], forever, m)
      BY <1>4 DEF TmoOf
    <2>2. c_tskid[c] \in Task
      BY <1>4, Running DEF PoolInv
    <2>3. QED
      BY <1>4, <2>1, <2>2 DEF PoolBlockers
  <1>5. ASSUME NEW m \in PoolId, tget_mpf(c, m)
        PROVE  PoolInv'
    <2>1. m \in MpfId /\ pc[c] = "user"
      BY <1>5 DEF tget_mpf, Trap
    <2>2. PICK x, max \in Nat : x = blksz[m] /\ max = blkcnt[m] /\ Asked(m, x, max)
      <3>1. blksz[m] \in Nat \ {0} /\ blkcnt[m] \in Nat
        BY <2>1, PoolAssumption
      <3>2. QED
        BY <3>1 DEF Asked
    <2>3. PICK tmout \in TmoOf(c, m, "tget_mpf", "get_mpf", "pget_mpf") :
            \/ RefusePool(c, E_NOEXS)
            \/ pool_act[m] /\ GetNow(c, m, x, max)
            \/ WaitBlock(c, m, x, max, tmout)
      BY <1>5, <2>2 DEF tget_mpf
    <2>4. tmout # 0 => c_tskid[c] \in PoolBlockers
      BY <1>4, <2>1
    <2>5. QED
      BY <1>3, <2>1, <2>2, <2>3, <2>4
  <1>6. ASSUME NEW m \in PoolId, tget_mpl(c, m)
        PROVE  PoolInv'
    <2>1. m \in MplId /\ pc[c] = "user" /\ m \notin MpfId
      BY <1>0, <1>6, PoolConstants DEF tget_mpl, Trap
    <2>2. PICK tmout \in TmoOf(c, m, "tget_mpl", "get_mpl", "pget_mpl"), x \in Request :
            \/ RefusePool(c, E_NOEXS)
            \/ pool_act[m] /\ GetNow(c, m, x, MAX_MPL_POOL)
            \/ WaitBlock(c, m, x, MAX_MPL_POOL, tmout)
      BY <1>6 DEF tget_mpl
    <2>3. PICK max \in Nat : max = MAX_MPL_POOL
      BY PoolAssumption
    <2>4. Asked(m, x, max)
      BY <2>1, PoolAssumption DEF Asked
    <2>5. tmout # 0 => c_tskid[c] \in PoolBlockers
      BY <1>4, <2>1, <2>2
    <2>6. QED
      BY <1>3, <2>1, <2>2, <2>3, <2>4, <2>5
  <1>7. ASSUME NEW m \in PoolId, del_mpf(c, m) \/ del_mpl(c, m)
        PROVE  PoolInv'
    <2>1. pc[c] = "user" /\ del_pool(c, m)
      BY <1>7 DEF del_mpf, del_mpl, Trap
    <2>2. QED
      BY <2>1, PoolDel
  <1>8. ASSUME NEW m \in PoolId, rel_mpl(c, m)
        PROVE  PoolInv'
    <2>1. m \in MplId
      BY <1>8 DEF rel_mpl
    <2>2. QED
      BY <1>8, <2>1, PoolRelSized
  <1>9. ASSUME acre_mpf(c) \/ acre_mpl(c)
        PROVE  PoolInv'
    BY <1>0, <1>2, <1>9 DEF acre_mpf, acre_mpl
  <1>10. ASSUME NEW m \in PoolId, cre_mpf(c, m) \/ cre_mpl(c, m)
         PROVE  PoolInv'
    BY <1>1, <1>10 DEF cre_mpf, cre_mpl
  <1>11. QED
    BY <1>5, <1>6, <1>7, <1>8, <1>9, <1>10, PoolRelFixed DEF PoolCall

\* A step of the task layer.
LEMMA PoolFitStep ==
  ASSUME PoolHypothesis, PoolInv, NEW c \in Cpu, FitStep(c), PoolRead(c)
  PROVE  PoolInv'
  <1>1. PICK L : PoolWaits(L)
    BY DEF PoolInv
  <1>2. Undisturbed(PoolHeads, PoolBlockers) /\ Queues(PoolHeads, PoolBlockers, L)
        /\ Asleep(PoolHeads, L)
    BY <1>1, PoolNodes DEF PoolWaits, PoolHypothesis
  <1>3. /\ Layer /\ PoolTables /\ c_tskid[c] \in Task /\ asks \in [Task -> Nat]
        /\ tskstat \in [Task -> Stat]
    BY DEF PoolInv, PoolTables, PoolTyped, Layer, TypeOK
  <1>4. /\ UNCHANGED <<pool_act, pool, lent>>
        /\ asks' = asks \/ (Resumes(c) /\ asks' = [asks EXCEPT ![c_tskid[c]] = 0])
    BY DEF PoolRead
  <1>5. asks' \in [Task -> Nat] /\ \A t \in Task : t # c_tskid[c] => asks'[t] = asks[t]
    BY <1>3, <1>4
  <1>6. PoolTables'
    BY <1>3, <1>4, <1>5, TablesSame
  <1>7. \A h \in PoolHeads : L[h] \subseteq Task
    BY <1>2, HeadNodes DEF Queues
  <1>8. ASSUME NEW K, Queues(PoolHeads, PoolBlockers, K)', Asleep(PoolHeads, K)', Layer',
               \A h \in PoolHeads : K[h] \subseteq L[h],
               Resumes(c) => tskstat[c_tskid[c]] = "RUN"
        PROVE  PoolInv'
    <2>1. \A h \in PoolHeads : \A t \in L[h] : asks'[t] = asks[t]
      <3> SUFFICES ASSUME NEW h \in PoolHeads, NEW t \in L[h]
                   PROVE  asks'[t] = asks[t]
        OBVIOUS
      <3>1. t \in Task /\ tskstat[t] = "WAI"
        BY <1>2, <1>7 DEF Asleep
      <3>2. QED
        BY <1>4, <1>5, <1>8, <3>1
    <2>2. Asking(K)'
      <3> SUFFICES ASSUME NEW m \in MplId, NEW t \in K[pool_wlink(m)]
                   PROVE  asks'[t] # 0
        BY DEF Asking
      <3>1. PICK h \in PoolHeads : h = pool_wlink(m)
        BY PoolNodes DEF PoolHypothesis
      <3>2. QED
        BY <1>1, <1>8, <2>1, <3>1 DEF PoolWaits, Asking
    <2>3. PoolWaits(K)'
      BY <1>8, <2>2 DEF PoolWaits
    <2>4. QED
      BY <1>6, <1>8, <2>3 DEF PoolInv
  <1>9. CASE SystemCall(c) /\ ~InQueue(wlink, c_tskid[c])
    <2>1. Layer' /\ Queues(PoolHeads, PoolBlockers, L)' /\ Asleep(PoolHeads, L)'
      BY <1>2, <1>3, <1>9, QueuesCall
    <2>2. pc[c] = "user"
      BY <1>3, <1>9, CallSleepers DEF Layer
    <2>3. QED
      BY <1>8, <2>1, <2>2 DEF Resumes
  <1>10. CASE sched_timeout(c)
    <2>1. /\ Layer' /\ pc' = pc
          /\ \/ UNCHANGED tskstat /\ Queues(PoolHeads, PoolBlockers, L)'
             \/ \E t : TimedOut(PoolHeads, PoolBlockers, L, t)
      BY <1>2, <1>3, <1>10, QueuesTimeout
    <2>2. ~Resumes(c)
      BY <2>1 DEF Resumes
    <2>3. CASE UNCHANGED tskstat /\ Queues(PoolHeads, PoolBlockers, L)'
      <3>1. Asleep(PoolHeads, L)'
        BY <1>2, <2>3 DEF Asleep
      <3>2. QED
        BY <1>8, <2>1, <2>2, <2>3, <3>1
    <2>4. ASSUME NEW t, TimedOut(PoolHeads, PoolBlockers, L, t)
          PROVE  PoolInv'
      <3>1. PICK K : K = Without(PoolHeads, L, t)
        OBVIOUS
      <3>2. Queues(PoolHeads, PoolBlockers, K)' /\ \A h \in PoolHeads : K[h] = L[h] \ {t}
        BY <2>4, <3>1 DEF TimedOut, Without
      <3>3. Asleep(PoolHeads, K)'
        BY <1>2, <1>3, <1>7, <2>4, <3>2 DEF Asleep, TimedOut
      <3>4. QED
        BY <1>8, <2>1, <2>2, <3>2, <3>3
    <2>5. QED
      BY <2>1, <2>3, <2>4
  <1>11. CASE \/ Interrupt(c) \/ tick_done(c) \/ store_ret(c) \/ sched_do_next_tsk(c)
              \/ intr_leave(c) \/ clear_flag(c)
    <2>1. /\ UNCHANGED <<wlink, wupcnt>> /\ \A t \in Task : tskstat'[t] = "WAI" <=> tskstat[t] = "WAI"
          /\ pc'[c] = "user" => tskstat[c_tskid[c]] = "RUN"
      BY <1>3, <1>11, QuietKernel
    <2>2. Queues(PoolHeads, PoolBlockers, L)' /\ Asleep(PoolHeads, L)'
      BY <1>2, <2>1, QueuesSame
    <2>3. Layer'
      BY <1>2, <1>3, <1>11, LayerStep DEF Kernel, Undisturbed, Application
    <2>4. QED
      BY <1>8, <2>1, <2>2, <2>3 DEF Resumes
  <1>12. QED
    BY <1>9, <1>10, <1>11 DEF FitStep, Kernel

LEMMA PoolStutter ==
  ASSUME PoolHypothesis, PoolInv, UNCHANGED <<vars, poolVars>>
  PROVE  PoolInv'
  <1>1. PICK L : PoolWaits(L)
    BY DEF PoolInv
  <1>2. Undisturbed(PoolHeads, PoolBlockers) /\ Queues(PoolHeads, PoolBlockers, L)
    BY <1>1, PoolNodes DEF PoolWaits, PoolHypothesis
  <1>3. UNCHANGED <<wlink, wupcnt, tskstat, pool_act, pool, lent, asks>>
    BY DEF vars, readyVars, poolVars
  <1>4. asks' \in [Task -> Nat] /\ PoolTables
    BY <1>3 DEF PoolInv, PoolTables, PoolTyped
  <1>5. PoolTables'
    BY <1>3, <1>4, TablesSame
  <1>6. Queues(PoolHeads, PoolBlockers, L)' /\ Asleep(PoolHeads, L)'
    BY <1>1, <1>2, <1>3, QueuesSame DEF PoolWaits
  <1>7. PoolWaits(L)'
    BY <1>1, <1>3, <1>6 DEF PoolWaits, Asking
  <1>8. Layer'
    BY LayerStutter DEF PoolInv
  <1>9. QED
    BY <1>5, <1>7, <1>8 DEF PoolInv

LEMMA PoolInvInit ==
  ASSUME PoolHypothesis, TasksInit, PoolInit
  PROVE  PoolInv
  <1>1. \A m \in PoolId : [i \in 1 .. Slots(m) |-> Region(0, 0, FALSE)] \in [1 .. Slots(m) -> Area]
    BY DEF Region, Area
  <1>2. PoolTyped /\ PoolLeased
    <2>1. PoolTyped
      BY <1>1 DEF PoolInit, PoolTyped
    <2>2. ASSUME NEW m \in PoolId
          PROVE  Kept(m, pool[m], 0, lent[m])
      <3>1. PICK a, N : a = pool[m] /\ N = Slots(m)
        OBVIOUS
      <3>2. /\ a \in [1 .. N -> Area] /\ lent[m] = {} /\ N \in Nat /\ N >= 2
            /\ \A i \in 1 .. N : a[i].size = 0
        BY <1>1, <3>1, PoolConstants DEF PoolInit, Region
      <3>3. Ended(a, 0, N)
        BY <3>2 DEF Ended
      <3>4. \A i \in 1 .. 0 - 1 : FALSE
        OBVIOUS
      <3>5. Table(m, a, 0)
        BY <3>1, <3>3, <3>4 DEF Table
      <3>6. Within(m, a, 0) /\ Given(a, 0, {}) /\ Apart(a, 0, {})
        BY <3>4 DEF Within, Given, Apart
      <3>7. QED
        BY <3>1, <3>2, <3>5, <3>6 DEF Kept, Lease
    <2>3. QED
      BY <2>1, <2>2 DEF PoolLeased
  <1>3. PICK L : L = [h \in PoolHeads |-> {}]
    OBVIOUS
  <1>4. Undisturbed(PoolHeads, PoolBlockers) /\ \A h \in PoolHeads : L[h] = {}
    BY <1>3, PoolNodes DEF PoolHypothesis
  <1>5. Layer /\ Queues(PoolHeads, PoolBlockers, L) /\ Asleep(PoolHeads, L)
    BY <1>4, QueuesInit
  <1>6. Asking(L)
    BY <1>4, PoolNodes DEF Asking, PoolHypothesis
  <1>7. QED
    BY <1>2, <1>5, <1>6 DEF PoolInv, PoolTables, PoolWaits

LEMMA PoolInvariance == PoolHypothesis /\ PoolSpec => []PoolInv
  <1> SUFFICES ASSUME PoolHypothesis PROVE PoolSpec => []PoolInv
    OBVIOUS
  <1>1. TasksInit /\ PoolInit => PoolInv
    BY PoolInvInit
  <1>2. PoolInv /\ [\E c \in Cpu : PoolStep(c)]_<<vars, poolVars>> => PoolInv'
    BY PoolCallInv, PoolFitStep, PoolStutter DEF PoolStep
  <1>3. QED
    BY <1>1, <1>2, PTL DEF PoolSpec

LEMMA LeaseDisjoint ==
  ASSUME NEW m \in PoolId, NEW a, NEW n \in Nat, NEW K, Lease(m, a, n, K)
  PROVE  /\ \A b \in K : b.base >= Base /\ b.base + b.size <= Base + Room(m)
         /\ \A b, d \in K : b = d \/ b.base + b.size <= d.base \/ d.base + d.size <= b.base
  <1>1. Table(m, a, n) /\ Within(m, a, n) /\ Given(a, n, K)
    BY DEF Lease
  <1>2. PICK u, lo, hi : u = Unit(m) /\ lo = Base /\ hi = Base + Room(m)
    OBVIOUS
  <1>3. /\ u \in Nat \ {0} /\ lo \in Nat /\ hi \in Nat
    BY <1>2, PoolConstants
  <1>4. /\ \A i \in 1 .. n : a[i].base \in Nat /\ a[i].size \in Nat /\ i \in Nat
        /\ \A i, j \in 1 .. n : i < j => a[i].base + a[i].size <= a[j].base
        /\ \A i, j \in 1 .. n : a[i].base = a[j].base => i = j
    BY <1>1, RegionsAre, Starting
  <1>5. \A b \in K : /\ b.base \in Nat /\ b.size \in Nat
                     /\ \E i \in 1 .. n : ~a[i].free /\ a[i].base = b.base /\ b.size <= a[i].size
    <2> SUFFICES ASSUME NEW b \in K
                 PROVE  /\ b.base \in Nat /\ b.size \in Nat
                        /\ \E i \in 1 .. n : ~a[i].free /\ a[i].base = b.base
                                             /\ b.size <= a[i].size
      OBVIOUS
    <2>1. b.base \in Nat /\ b.size \in Nat
      BY <1>1 DEF Given, LentBlock
    <2>2. b.size <= Rounded(b.size)
      BY <2>1, RoundedIs
    <2>3. QED
      BY <1>1, <2>1, <2>2 DEF Given
  <1>6. ASSUME NEW b \in K
        PROVE  b.base >= Base /\ b.base + b.size <= Base + Room(m)
    <2>1. PICK i \in 1 .. n : ~a[i].free /\ a[i].base = b.base /\ b.size <= a[i].size
      BY <1>5
    <2>2. lo <= a[i].base
      <3>1. lo + (i - 1) * u <= a[i].base
        BY <1>1, <1>2, Starting
      <3>2. PICK j \in Nat : j = i - 1
        BY <1>4
      <3>3. j * u \in Nat /\ lo + j * u <= a[i].base
        BY <1>3, <3>1, <3>2
      <3>4. QED
        BY <1>3, <1>4, <3>3
    <2>3. a[i].base + a[i].size <= hi
      <3>1. CASE i = n
        BY <1>1, <1>2, <1>4, <2>1, <3>1, PoolConstants DEF Within
      <3>2. CASE i # n
        <4>1. n \in 1 .. n /\ i < n
          BY <1>4, <3>2
        <4>2. a[n].base <= hi
          BY <1>1, <1>2, <4>1 DEF Within
        <4>3. QED
          BY <1>3, <1>4, <4>1, <4>2
      <3>3. QED
        BY <3>1, <3>2
    <2>4. QED
      BY <1>2, <1>3, <1>4, <1>5, <2>1, <2>2, <2>3
  <1>7. ASSUME NEW b \in K, NEW d \in K, b # d
        PROVE  b.base + b.size <= d.base \/ d.base + d.size <= b.base
    <2>1. PICK i \in 1 .. n : ~a[i].free /\ a[i].base = b.base /\ b.size <= a[i].size
      BY <1>5
    <2>2. PICK j \in 1 .. n : ~a[j].free /\ a[j].base = d.base /\ d.size <= a[j].size
      BY <1>5
    <2>3. i # j
      BY <1>1, <1>7, <2>1, <2>2 DEF Given
    <2>4. CASE i < j
      BY <1>4, <1>5, <2>1, <2>2, <2>4
    <2>5. CASE j < i
      BY <1>4, <1>5, <2>1, <2>2, <2>5
    <2>6. QED
      BY <1>4, <2>3, <2>4, <2>5
  <1>8. QED
    BY <1>6, <1>7

\* When the blocks of a fixed pool keep the alignment, it takes no more memory
\* than it asks for.
WholeBlocks == \A m \in MpfId : \E k \in Nat : blksz[m] = k * Align

LEMMA RoomIs ==
  ASSUME WholeBlocks, NEW m \in PoolId
  PROVE  Room(m) = Extent(m)
  <1>1. CASE m \in MpfId
    <2>1. Rounded(blksz[m]) = blksz[m]
      BY <1>1, RoundedIs, PoolAssumption DEF WholeBlocks, Multiple
    <2>2. QED
      BY <1>1, <2>1 DEF Room, Extent, Unit
  <1>2. CASE m \notin MpfId
    BY <1>2 DEF Room, Extent
  <1>3. QED
    BY <1>1, <1>2

\* The blocks that tasks hold do not overlap, over any sequence of creations,
\* requests, releases, hand-overs to waiters and deletions (kernel/pool.c,
\* kernel/sys_mpf.c, kernel/sys_mpl.c), of an application that keeps two rules
\* it can see: a block is released while the one right below it is lent or none
\* below it is (FreesInOrder), and a pool is created again when all of its
\* blocks had been released (AllBack).  For any number of tasks and pools of
\* any size.
THEOREM BlocksNeverOverlap == PoolHypothesis /\ PoolSpec => []BlocksDisjoint
  <1> SUFFICES ASSUME PoolHypothesis PROVE PoolSpec => []BlocksDisjoint
    OBVIOUS
  <1>1. PoolInv => BlocksDisjoint
    BY LeaseDisjoint DEF PoolInv, PoolTables, PoolLeased, Kept, BlocksDisjoint
  <1>2. QED
    BY <1>1, PoolInvariance, PTL

\* They lie in the memory of their pool (kernel/pool.c, kernel/sys_mpf.c:43),
\* of the same application, when the blocks of its fixed pools also keep the
\* alignment.
THEOREM BlocksKeptInArea == WholeBlocks /\ PoolHypothesis /\ PoolSpec => []BlocksInArea
  <1> SUFFICES ASSUME WholeBlocks, PoolHypothesis PROVE PoolSpec => []BlocksInArea
    OBVIOUS
  <1>1. PoolInv => BlocksInArea
    BY LeaseDisjoint, RoomIs DEF PoolInv, PoolTables, PoolLeased, Kept, BlocksInArea
  <1>2. QED
    BY <1>1, PoolInvariance, PTL
=============================================================================
