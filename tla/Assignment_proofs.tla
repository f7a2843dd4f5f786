-------------------------- MODULE Assignment_proofs --------------------------
(***************************************************************************)
(* lapjv finds a cheapest assignment (Assignment), for every shape of the  *)
(* matrix, every integer cost, limit and LARGE.                            *)
(*                                                                         *)
(* The invariant is that of the shortest augmenting path.  At the present  *)
(* prices v every assigned column is one of the cheapest for its row, and  *)
(* a row is assigned or waits in freeRows, once (LapAgree, LapAssigned,    *)
(* LapSlotted).  While a path is looked for, d is how far each column is   *)
(* from the free row and pred how it was reached: the columns done with    *)
(* are no further than the others and no way over them is shorter, so the  *)
(* free column that is reached is a nearest one, and the prices that       *)
(* follow from d make every column of the path a cheapest one for the row  *)
(* before it (LapSearching).  The way back ends because each column of it  *)
(* is in front of the last one in the list.                                *)
(*                                                                         *)
(* At the end x is a permutation, each of whose columns is cheapest for    *)
(* its row, so it costs no more than any other permutation of the extended *)
(* matrix; and these are, cost for cost, the ways to match some rows and   *)
(* leave the others alone.                                                 *)
(***************************************************************************)
EXTENDS Assignment, FiniteSetTheorems, WellFoundedInduction, TLAPS

-----------------------------------------------------------------------------
(* Least numbers.                                                          *)

\* A set of numbers that is not empty has a least one.
LEMMA LeastOfNumbers ==
  ASSUME NEW T \in SUBSET Nat, NEW n \in T
  PROVE  \E m \in T : \A j \in T : m <= j
<1> DEFINE R == OpToRel(<, Nat)
<1>1. IsWellFoundedOn(R, Nat)
  BY NatLessThanWellFounded
<1>2. \A x, y \in Nat : x < y => <<x, y>> \in R
  BY DEF OpToRel
<1> HIDE DEF R
<1>3. PICK m \in T : \A j \in T : <<j, m>> \notin R
  BY <1>1, WFMin
<1>4. ASSUME NEW j \in T PROVE m <= j
  <2>1. m \in Nat /\ j \in Nat
    OBVIOUS
  <2>2. ~(j < m)
    BY <2>1, <1>2, <1>3
  <2> QED
    BY <2>1, <2>2
<1> QED
  BY <1>4

\* A set of numbers that has no least one is empty.
LEMMA NoLeastNumber ==
  ASSUME NEW T \in SUBSET Nat, 0 \notin T, \A n \in Nat : n + 1 \in T => n \in T
  PROVE  T = {}
<1> SUFFICES ASSUME NEW k \in T PROVE FALSE
  OBVIOUS
<1>1. PICK m \in T : \A j \in T : m <= j
  BY LeastOfNumbers
<1>2. m - 1 \in Nat /\ (m - 1) + 1 = m
  OBVIOUS
<1> QED
  BY <1>1, <1>2

-----------------------------------------------------------------------------
(* Sums over the indices of an array, by induction on how many there are:  *)
(* comparing two, changing one value, cutting in two, and that the order   *)
(* does not matter.                                                        *)

\* s holds the sums of the first values of f, up to n of them.
SumUpTo(s, f, n) == s = [k \in 0..n |-> IF k = 0 THEN 0 ELSE s[k - 1] + f[k - 1]]

\* The recursion of a sum has a solution.
LEMMA SumDefined ==
  ASSUME NEW f, NEW m \in Nat
  PROVE  \E s : SumUpTo(s, f, m) /\ LapSum(f, m) = s[m]
<1> DEFINE T == {n \in Nat : ~\E s : SumUpTo(s, f, n)}
<1>1. 0 \notin T
  <2>1. SumUpTo([k \in 0..0 |-> 0], f, 0)
    BY DEF SumUpTo
  <2> QED
    BY <2>1
<1>2. ASSUME NEW n \in Nat, n + 1 \in T PROVE n \in T
  <2> SUFFICES ASSUME NEW s, SumUpTo(s, f, n) PROVE FALSE
    BY <1>2
  <2> DEFINE new == s[n] + f[n]
             g == [k \in 0..(n + 1) |-> IF k = n + 1 THEN new ELSE s[k]]
  <2>1. \A k \in 0..n : s[k] = IF k = 0 THEN 0 ELSE s[k - 1] + f[k - 1]
    BY DEF SumUpTo
  <2> HIDE DEF new
  <2>2. /\ g[n + 1] = new /\ DOMAIN g = 0..(n + 1)
        /\ \A k \in 0..n : g[k] = s[k]
    OBVIOUS
  <2> HIDE DEF g
  <2>3. \A k \in 0..(n + 1) : g[k] = IF k = 0 THEN 0 ELSE g[k - 1] + f[k - 1]
    <3> SUFFICES ASSUME NEW k \in 0..(n + 1)
                 PROVE  g[k] = IF k = 0 THEN 0 ELSE g[k - 1] + f[k - 1]
      OBVIOUS
    <3>1. CASE k = n + 1
      <4>1. k - 1 = n /\ k # 0 /\ g[n] = s[n]
        BY <2>2, <3>1
      <4> QED
        BY <2>2, <3>1, <4>1 DEF new
    <3>2. CASE k # n + 1
      <4>1. k \in 0..n /\ (k # 0 => g[k - 1] = s[k - 1])
        BY <2>2, <3>2
      <4> QED
        BY <2>1, <2>2, <4>1
    <3> QED
      BY <3>1, <3>2
  <2>4. SumUpTo(g, f, n + 1)
    BY <2>2, <2>3 DEF SumUpTo, g
  <2> QED
    BY <1>2, <2>4
<1>3. T \in SUBSET Nat
  OBVIOUS
<1>4. \E s : SumUpTo(s, f, m)
  <2> HIDE DEF T
  <2>1. m \notin T
    BY <1>1, <1>2, <1>3, NoLeastNumber
  <2> QED
    BY <2>1 DEF T
<1>5. LapSum(f, m) = (CHOOSE s : SumUpTo(s, f, m))[m]
  BY DEF LapSum, SumUpTo
<1> QED
  BY <1>4, <1>5

\* Two sums, each as far as it goes, agree as far as both do.
LEMMA SumAgree ==
  ASSUME NEW f, NEW s, NEW t, NEW m \in Nat, NEW n \in Nat, m <= n,
         SumUpTo(s, f, m), SumUpTo(t, f, n)
  PROVE  s[m] = t[m]
<1>1. /\ \A k \in 0..m : s[k] = IF k = 0 THEN 0 ELSE s[k - 1] + f[k - 1]
      /\ \A k \in 0..n : t[k] = IF k = 0 THEN 0 ELSE t[k - 1] + f[k - 1]
  BY DEF SumUpTo
<1> DEFINE T == {k \in 0..m : s[k] # t[k]}
<1>2. T \in SUBSET Nat /\ 0 \notin T
  <2>1. 0 \in 0..m /\ 0 \in 0..n
    OBVIOUS
  <2> QED
    BY <1>1, <2>1
<1>3. ASSUME NEW k \in Nat, k + 1 \in T PROVE k \in T
  <2> SUFFICES ASSUME s[k] = t[k] PROVE s[k + 1] = t[k + 1]
    BY <1>3
  <2>1. k + 1 \in 0..m /\ k + 1 \in 0..n /\ (k + 1) - 1 = k /\ k + 1 # 0
    BY <1>3
  <2>2. s[k + 1] = s[k] + f[k]
    BY <1>1, <2>1
  <2>3. t[k + 1] = t[k] + f[k]
    BY <1>1, <2>1
  <2> QED
    BY <2>2, <2>3
<1>4. T = {}
  <2> HIDE DEF T
  <2> QED
    BY <1>2, <1>3, NoLeastNumber
<1> QED
  BY <1>4

\* The sum of nothing, and one more summand.
LEMMA SumNext ==
  ASSUME NEW f, NEW n \in Nat
  PROVE  LapSum(f, 0) = 0 /\ LapSum(f, n + 1) = LapSum(f, n) + f[n]
<1>1. PICK s0 : SumUpTo(s0, f, 0) /\ LapSum(f, 0) = s0[0]
  BY SumDefined
<1>2. s0[0] = 0
  <2>1. \A k \in 0..0 : s0[k] = IF k = 0 THEN 0 ELSE s0[k - 1] + f[k - 1]
    BY <1>1 DEF SumUpTo
  <2> QED
    BY <2>1
<1>3. PICK s : SumUpTo(s, f, n) /\ LapSum(f, n) = s[n]
  BY SumDefined
<1>4. n + 1 \in Nat /\ n <= n + 1
  OBVIOUS
<1>5. PICK t : SumUpTo(t, f, n + 1) /\ LapSum(f, n + 1) = t[n + 1]
  BY <1>4, SumDefined
<1>6. s[n] = t[n]
  BY <1>3, <1>4, <1>5, SumAgree
<1>7. t[n + 1] = t[n] + f[n]
  <2>1. \A k \in 0..(n + 1) : t[k] = IF k = 0 THEN 0 ELSE t[k - 1] + f[k - 1]
    BY <1>5 DEF SumUpTo
  <2>2. n + 1 \in 0..(n + 1) /\ (n + 1) - 1 = n /\ n + 1 # 0
    OBVIOUS
  <2> QED
    BY <2>1, <2>2
<1> QED
  BY <1>1, <1>2, <1>3, <1>5, <1>6, <1>7

\* A sum of integers is one.
LEMMA SumInt ==
  ASSUME NEW f, NEW n \in Nat, \A k \in LapIdx(n) : f[k] \in Int
  PROVE  LapSum(f, n) \in Int
<1> DEFINE T == {k \in 0..n : LapSum(f, k) \notin Int}
<1>1. T \in SUBSET Nat /\ 0 \notin T
  BY SumNext
<1>2. ASSUME NEW k \in Nat, k + 1 \in T PROVE k \in T
  <2>1. k \in 0..n /\ k \in LapIdx(n)
    BY <1>2 DEF LapIdx
  <2>2. LapSum(f, k + 1) = LapSum(f, k) + f[k]
    BY SumNext
  <2> QED
    BY <1>2, <2>1, <2>2
<1>3. T = {}
  <2> HIDE DEF T
  <2> QED
    BY <1>1, <1>2, NoLeastNumber
<1> QED
  BY <1>3

\* What holds of the summands, two against two, holds of the sums.
LEMMA SumCompare ==
  ASSUME NEW a, NEW b, NEW c, NEW d, NEW n \in Nat,
         \A k \in LapIdx(n) : /\ {a[k], b[k], c[k], d[k]} \subseteq Int
                              /\ a[k] + b[k] <= c[k] + d[k]
  PROVE  LapSum(a, n) + LapSum(b, n) <= LapSum(c, n) + LapSum(d, n)
<1> DEFINE T == {m \in 0..n : ~(LapSum(a, m) + LapSum(b, m) <= LapSum(c, m) + LapSum(d, m))}
<1>1. T \in SUBSET Nat /\ 0 \notin T
  <2>1. LapSum(a, 0) = 0 /\ LapSum(b, 0) = 0 /\ LapSum(c, 0) = 0 /\ LapSum(d, 0) = 0
    BY SumNext
  <2> QED
    BY <2>1
<1>2. ASSUME NEW k \in Nat, k + 1 \in T PROVE k \in T
  <2>1. k \in 0..n /\ k \in LapIdx(n) /\ \A m \in LapIdx(k) : m \in LapIdx(n)
    BY <1>2 DEF LapIdx
  <2>2. PICK a1, b1, c1, d1 : /\ a1 = LapSum(a, k) /\ b1 = LapSum(b, k)
                              /\ c1 = LapSum(c, k) /\ d1 = LapSum(d, k)
    OBVIOUS
  <2>3. a1 \in Int /\ b1 \in Int /\ c1 \in Int /\ d1 \in Int
    <3>1. \A m \in LapIdx(k) : a[m] \in Int /\ b[m] \in Int /\ c[m] \in Int /\ d[m] \in Int
      BY <2>1
    <3> QED
      BY <2>2, <3>1, SumInt
  <2>4. /\ LapSum(a, k + 1) = a1 + a[k] /\ LapSum(b, k + 1) = b1 + b[k]
        /\ LapSum(c, k + 1) = c1 + c[k] /\ LapSum(d, k + 1) = d1 + d[k]
    BY <2>2, SumNext
  <2>5. /\ a[k] \in Int /\ b[k] \in Int /\ c[k] \in Int /\ d[k] \in Int
        /\ a[k] + b[k] <= c[k] + d[k]
    BY <2>1
  <2>6. ~(a1 + a[k] + (b1 + b[k]) <= c1 + c[k] + (d1 + d[k]))
    BY <1>2, <2>4
  <2>7. ~(a1 + b1 <= c1 + d1)
    BY <2>3, <2>5, <2>6
  <2> QED
    BY <2>1, <2>2, <2>7
<1>3. T = {}
  <2> HIDE DEF T
  <2> QED
    BY <1>1, <1>2, NoLeastNumber
<1>4. n \in 0..n
  OBVIOUS
<1> QED
  BY <1>3, <1>4

\* Equal summands have equal sums.
LEMMA SumEqual ==
  ASSUME NEW f, NEW g, NEW n \in Nat, \A k \in LapIdx(n) : f[k] \in Int /\ g[k] = f[k]
  PROVE  LapSum(g, n) = LapSum(f, n)
<1>1. PICK u, w : u = LapSum(f, n) /\ w = LapSum(g, n)
  OBVIOUS
<1>2. u \in Int /\ w \in Int
  BY <1>1, SumInt
<1>3. u + u <= w + w
  BY <1>1, SumCompare
<1>4. w + w <= u + u
  BY <1>1, SumCompare
<1>5. u = w
  BY <1>2, <1>3, <1>4
<1> QED
  BY <1>1, <1>5

\* One value is changed.
LEMMA SumChange ==
  ASSUME NEW f, NEW g, NEW n \in Nat, NEW m \in LapIdx(n),
         \A k \in LapIdx(n) : f[k] \in Int /\ g[k] \in Int /\ (k # m => g[k] = f[k])
  PROVE  LapSum(g, n) = LapSum(f, n) - f[m] + g[m]
<1> DEFINE T == {k \in 0..n : m < k /\ LapSum(g, k) # LapSum(f, k) - f[m] + g[m]}
<1>0. m \in Nat /\ f[m] \in Int /\ g[m] \in Int
  BY DEF LapIdx
<1>1. T \in SUBSET Nat /\ 0 \notin T
  BY <1>0
<1>2. ASSUME NEW k \in Nat, k + 1 \in T PROVE k \in T
  <2>1. k \in 0..n /\ k \in LapIdx(n) /\ \A i \in LapIdx(k) : i \in LapIdx(n)
    BY <1>2 DEF LapIdx
  <2>2. PICK u, w : u = LapSum(f, k) /\ w = LapSum(g, k)
    OBVIOUS
  <2>3. u \in Int /\ w \in Int
    <3>1. \A i \in LapIdx(k) : f[i] \in Int /\ g[i] \in Int
      BY <2>1
    <3> QED
      BY <2>2, <3>1, SumInt
  <2>4. LapSum(f, k + 1) = u + f[k] /\ LapSum(g, k + 1) = w + g[k]
    BY <2>2, SumNext
  <2>5. m < k + 1 /\ w + g[k] # (u + f[k]) - f[m] + g[m]
    <3>1. m < k + 1 /\ LapSum(g, k + 1) # LapSum(f, k + 1) - f[m] + g[m]
      BY <1>2
    <3> QED
      BY <2>4, <3>1, Zenon
  <2>6. CASE m = k
    <3>1. \A i \in LapIdx(k) : f[i] \in Int /\ g[i] = f[i]
      BY <2>1, <2>6 DEF LapIdx
    <3>2. w = u
      BY <2>2, <3>1, SumEqual
    <3> QED
      BY <1>0, <2>3, <2>5, <2>6, <3>2
  <2>7. CASE m # k
    <3>1. m < k
      BY <1>0, <2>5, <2>7
    <3>2. f[k] = g[k] /\ f[k] \in Int
      BY <2>1, <2>7
    <3>3. w # u - f[m] + g[m]
      BY <1>0, <2>3, <2>5, <3>2
    <3> QED
      BY <2>1, <2>2, <3>1, <3>3
  <2> QED
    BY <2>6, <2>7
<1>3. T = {}
  <2> HIDE DEF T
  <2> QED
    BY <1>1, <1>2, NoLeastNumber
<1>4. n \in 0..n /\ m < n
  BY DEF LapIdx
<1> QED
  BY <1>3, <1>4

\* The values of g are those of f from a on, b of them.
SumTail(f, g, a, b) == \A k \in LapIdx(b) : g[k] = f[a + k]

\* A sum in two parts.
LEMMA SumSplit ==
  ASSUME NEW f, NEW g, NEW a \in Nat, NEW b \in Nat, NEW n, n = a + b,
         \A k \in LapIdx(n) : f[k] \in Int, SumTail(f, g, a, b)
  PROVE  LapSum(f, n) = LapSum(f, a) + LapSum(g, b)
<1>a. /\ \A k \in LapIdx(a + b) : f[k] \in Int
      /\ \A k \in LapIdx(b) : g[k] = f[a + k]
  BY DEF SumTail
<1> DEFINE T == {k \in 0..b : LapSum(f, a + k) # LapSum(f, a) + LapSum(g, k)}
<1>0. PICK u : u = LapSum(f, a)
  OBVIOUS
<1>1. u \in Int
  <2>1. \A k \in LapIdx(a) : f[k] \in Int
    BY <1>a DEF LapIdx
  <2> QED
    BY <1>0, <2>1, SumInt
<1>2. T \in SUBSET Nat /\ 0 \notin T
  <2>1. LapSum(g, 0) = 0 /\ a + 0 = a
    BY SumNext
  <2> QED
    BY <1>0, <1>1, <2>1
<1>3. ASSUME NEW k \in Nat, k + 1 \in T PROVE k \in T
  <2>1. /\ k \in 0..b /\ k \in LapIdx(b) /\ a + k \in Nat /\ a + (k + 1) = (a + k) + 1
        /\ a + k \in LapIdx(a + b) /\ \A i \in LapIdx(a + k) : i \in LapIdx(a + b)
        /\ \A i \in LapIdx(k) : a + i \in LapIdx(a + b) /\ i \in LapIdx(b)
    BY <1>3 DEF LapIdx
  <2>2. PICK w, z : w = LapSum(f, a + k) /\ z = LapSum(g, k)
    OBVIOUS
  <2>3. w \in Int /\ z \in Int
    <3>1. \A i \in LapIdx(a + k) : f[i] \in Int
      BY <1>a, <2>1
    <3>2. \A i \in LapIdx(k) : g[i] \in Int
      BY <1>a, <2>1
    <3> QED
      BY <2>1, <2>2, <3>1, <3>2, SumInt
  <2>4. LapSum(f, a + (k + 1)) = w + f[a + k]
    BY <2>1, <2>2, SumNext
  <2>5. LapSum(g, k + 1) = z + g[k]
    BY <2>2, SumNext
  <2>6. g[k] = f[a + k] /\ g[k] \in Int
    BY <1>a, <2>1
  <2>7. w + g[k] # u + (z + g[k])
    BY <1>0, <1>3, <2>4, <2>5, <2>6
  <2>8. w # u + z
    BY <1>1, <2>3, <2>6, <2>7
  <2> QED
    BY <1>0, <2>1, <2>2, <2>8
<1>4. T = {}
  <2> HIDE DEF T
  <2> QED
    BY <1>2, <1>3, NoLeastNumber
<1>5. b \in 0..b
  OBVIOUS
<1> QED
  BY <1>4, <1>5

\* Each of the first n indices is the image of one of them.
Permutes(p, n) ==
  /\ p \in [LapIdx(n) -> LapIdx(n)]
  /\ \A i, k \in LapIdx(n) : p[i] = p[k] => i = k
  /\ \A j \in LapIdx(n) : \E i \in LapIdx(n) : p[i] = j

\* The order of the summands does not matter, for n of them.
SumOrdered(f, n) ==
  \A p, g : Permutes(p, n) /\ (\A k \in LapIdx(n) : g[k] = f[p[k]]) => LapSum(g, n) = LapSum(f, n)

\* One index more: the place that is given the new one takes what the new one is
\* given.
LEMMA PermutesLess ==
  ASSUME NEW n \in Nat, NEW p, Permutes(p, n + 1)
  PROVE  Permutes([k \in LapIdx(n) |-> IF p[k] = n THEN p[n] ELSE p[k]], n)
<1> DEFINE q == [k \in LapIdx(n) |-> IF p[k] = n THEN p[n] ELSE p[k]]
<1>1. /\ n \in LapIdx(n + 1) /\ \A k \in LapIdx(n) : k \in LapIdx(n + 1) /\ k # n
      /\ \A k \in LapIdx(n + 1) : k = n \/ k \in LapIdx(n)
  BY DEF LapIdx
<1>2. /\ \A k \in LapIdx(n + 1) : p[k] \in LapIdx(n + 1)
      /\ \A i, k \in LapIdx(n + 1) : p[i] = p[k] => i = k
      /\ \A j \in LapIdx(n + 1) : \E i \in LapIdx(n + 1) : p[i] = j
  BY DEF Permutes
<1>3. \A k \in LapIdx(n) : q[k] \in LapIdx(n)
  <2> TAKE k \in LapIdx(n)
  <2>1. p[k] # p[n]
    BY <1>1, <1>2
  <2> QED
    BY <1>1, <1>2, <2>1
<1>4. \A i, k \in LapIdx(n) : q[i] = q[k] => i = k
  BY <1>1, <1>2
<1>5. \A j \in LapIdx(n) : \E i \in LapIdx(n) : q[i] = j
  <2> TAKE j \in LapIdx(n)
  <2>1. PICK i \in LapIdx(n + 1) : p[i] = j
    BY <1>1, <1>2
  <2>2. CASE i = n
    <3>1. PICK m \in LapIdx(n + 1) : p[m] = n
      BY <1>1, <1>2
    <3>2. m # n
      BY <1>1, <2>1, <2>2, <3>1
    <3> QED
      BY <1>1, <2>1, <2>2, <3>1, <3>2
  <2>3. CASE i # n
    BY <1>1, <2>1, <2>3
  <2> QED
    BY <2>2, <2>3
<1> QED
  BY <1>3, <1>4, <1>5 DEF Permutes

\* The order of the summands does not matter.
LEMMA SumPermuted ==
  ASSUME NEW f, NEW N \in Nat, \A k \in LapIdx(N) : f[k] \in Int
  PROVE  SumOrdered(f, N)
<1> DEFINE T == {n \in 0..N : ~SumOrdered(f, n)}
<1>1. T \in SUBSET Nat /\ 0 \notin T
  BY SumNext DEF SumOrdered
<1>2. ASSUME NEW n \in Nat, n + 1 \in T PROVE n \in T
  <2> SUFFICES ASSUME SumOrdered(f, n) PROVE SumOrdered(f, n + 1)
    BY <1>2
  <2> SUFFICES ASSUME NEW p, NEW g, Permutes(p, n + 1),
                      \A k \in LapIdx(n + 1) : g[k] = f[p[k]]
               PROVE  LapSum(g, n + 1) = LapSum(f, n + 1)
    BY DEF SumOrdered
  <2>1. /\ n \in LapIdx(n + 1) /\ \A k \in LapIdx(n) : k \in LapIdx(n + 1) /\ k # n
        /\ \A k \in LapIdx(n + 1) : k \in LapIdx(N) /\ (k = n \/ k \in LapIdx(n))
    BY <1>2 DEF LapIdx
  <2>2. /\ \A k \in LapIdx(n + 1) : p[k] \in LapIdx(n + 1)
        /\ \A i, k \in LapIdx(n + 1) : p[i] = p[k] => i = k
        /\ \A j \in LapIdx(n + 1) : \E i \in LapIdx(n + 1) : p[i] = j
    BY DEF Permutes
  <2>3. PICK q : q = [k \in LapIdx(n) |-> IF p[k] = n THEN p[n] ELSE p[k]]
    OBVIOUS
  <2>4. Permutes(q, n)
    BY <2>3, PermutesLess
  <2>5. PICK h : h = [k \in LapIdx(n) |-> f[q[k]]]
    OBVIOUS
  <2>6. LapSum(h, n) = LapSum(f, n)
    BY <2>4, <2>5 DEF SumOrdered
  <2>7. \A k \in LapIdx(n + 1) : f[k] \in Int /\ g[k] \in Int
    BY <2>1, <2>2
  <2>8. \A k \in LapIdx(n) : f[k] \in Int /\ g[k] \in Int /\ h[k] \in Int
    <3> TAKE k \in LapIdx(n)
    <3>1. q[k] \in LapIdx(n) /\ h[k] = f[q[k]]
      BY <2>4, <2>5 DEF Permutes
    <3> QED
      BY <2>1, <2>7, <3>1
  <2>9. PICK sf, sg, sh : sf = LapSum(f, n) /\ sg = LapSum(g, n) /\ sh = LapSum(h, n)
    OBVIOUS
  <2>10. sf \in Int /\ sg \in Int /\ sh \in Int /\ sh = sf /\ f[n] \in Int /\ g[n] \in Int
    BY <2>1, <2>6, <2>7, <2>8, <2>9, SumInt
  <2>11. LapSum(f, n + 1) = sf + f[n] /\ LapSum(g, n + 1) = sg + g[n]
    BY <2>9, SumNext
  <2>12. CASE p[n] = n
    <3>1. \A k \in LapIdx(n) : h[k] = g[k]
      <4> TAKE k \in LapIdx(n)
      <4>1. p[k] # n
        BY <2>1, <2>2, <2>12
      <4>2. q[k] = p[k]
        BY <2>3, <4>1
      <4> QED
        BY <2>1, <2>5, <4>2
    <3>2. sh = sg
      BY <2>8, <2>9, <3>1, SumEqual
    <3>3. g[n] = f[n]
      BY <2>1, <2>12
    <3> QED
      BY <2>10, <2>11, <3>2, <3>3
  <2>13. CASE p[n] # n
    <3>1. PICK m \in LapIdx(n + 1) : p[m] = n
      BY <2>1, <2>2
    <3>2. m \in LapIdx(n)
      BY <2>1, <2>13, <3>1
    <3>3. \A k \in LapIdx(n) : k # m => h[k] = g[k]
      <4> SUFFICES ASSUME NEW k \in LapIdx(n), k # m PROVE h[k] = g[k]
        OBVIOUS
      <4>1. p[k] # n
        BY <2>1, <2>2, <3>1
      <4>2. q[k] = p[k]
        BY <2>3, <4>1
      <4> QED
        BY <2>1, <2>5, <4>2
    <3>4. h[m] = g[n] /\ g[m] = f[n]
      <4>1. q[m] = p[n]
        BY <2>3, <3>1, <3>2
      <4> QED
        BY <2>1, <2>5, <3>1, <3>2, <4>1
    <3>5. sh = sg - g[m] + h[m]
      BY <2>8, <2>9, <3>2, <3>3, SumChange
    <3> QED
      BY <2>10, <2>11, <3>4, <3>5
  <2> QED
    BY <2>12, <2>13
<1>3. T = {}
  <2> HIDE DEF T
  <2> QED
    BY <1>1, <1>2, NoLeastNumber
<1>4. N \in 0..N
  OBVIOUS
<1> QED
  BY <1>3, <1>4

-----------------------------------------------------------------------------
(* What the scans of the code find.                                        *)

\* A scan with "<" over a part of an array finds the first of its least values.
LEMMA ScanFinds ==
  ASSUME NEW f, NEW n \in Nat, NEW S \in SUBSET LapIdx(n), S # {},
         \A k \in LapIdx(n) : f[k] \in Int
  PROVE  \E j \in S : \A k \in S : f[j] < f[k] \/ (f[j] = f[k] /\ j <= k)
<1> DEFINE Finds(R) == \E j \in R : \A k \in R : f[j] < f[k] \/ (f[j] = f[k] /\ j <= k)
           T == {m \in 0..n : \E R \in SUBSET LapIdx(m) : R # {} /\ ~Finds(R)}
<1>1. T \in SUBSET Nat /\ 0 \notin T
  <2>1. LapIdx(0) = {}
    BY DEF LapIdx
  <2> HIDE DEF Finds
  <2> QED
    BY <2>1
<1>2. ASSUME NEW m \in Nat, m + 1 \in T PROVE m \in T
  <2>1. m \in 0..n /\ LapIdx(m + 1) = LapIdx(m) \cup {m} /\ LapIdx(m + 1) \subseteq LapIdx(n)
    BY <1>2 DEF LapIdx
  <2> SUFFICES ASSUME \A Q \in SUBSET LapIdx(m) : Q # {} => Finds(Q),
                      NEW R \in SUBSET LapIdx(m + 1), R # {}
               PROVE  Finds(R)
    <3> HIDE DEF Finds
    <3> QED
      BY <1>2, <2>1
  <2>2. \A k \in R : f[k] \in Int /\ k \in Nat
    BY <2>1 DEF LapIdx
  <2>3. CASE R \ {m} = {}
    <3>1. R = {m}
      BY <2>3
    <3> QED
      BY <2>2, <3>1
  <2>4. CASE R \ {m} # {}
    <3>1. PICK Q : Q = R \ {m}
      OBVIOUS
    <3>2. Q \in SUBSET LapIdx(m) /\ Q # {}
      BY <2>1, <2>4, <3>1
    <3>3. PICK j \in Q : \A k \in Q : f[j] < f[k] \/ (f[j] = f[k] /\ j <= k)
      BY <3>2
    <3>4. j \in R /\ j < m /\ f[j] \in Int
      BY <2>2, <3>1, <3>2 DEF LapIdx
    <3>5. CASE m \in R /\ f[m] < f[j]
      <4>1. \A k \in R : f[m] < f[k] \/ (f[m] = f[k] /\ m <= k)
        BY <2>2, <3>1, <3>3, <3>4, <3>5
      <4> QED
        BY <3>5, <4>1
    <3>6. CASE ~(m \in R /\ f[m] < f[j])
      <4>1. \A k \in R : f[j] < f[k] \/ (f[j] = f[k] /\ j <= k)
        BY <2>2, <3>1, <3>3, <3>4, <3>6
      <4> QED
        BY <3>4, <4>1
    <3> QED
      BY <3>5, <3>6
  <2> QED
    BY <2>3, <2>4
<1>3. T = {}
  <2> HIDE DEF T
  <2> QED
    BY <1>1, <1>2, NoLeastNumber
<1>4. n \in 0..n
  OBVIOUS
<1> QED
  BY <1>3, <1>4

\* There is a lowest index of least value, and ArgMin is it.
LEMMA ArgMinFinds ==
  ASSUME NEW f, NEW n \in Nat, NEW S \in SUBSET LapIdx(n), S # {},
         \A k \in LapIdx(n) : f[k] \in Int
  PROVE  ArgMin(S, f) \in S /\ \A k \in S : f[ArgMin(S, f)] <= f[k]
<1>1. PICK j \in S : \A k \in S : f[j] < f[k] \/ (f[j] = f[k] /\ j <= k)
  BY ScanFinds
<1>2. /\ ArgMin(S, f) \in S
      /\ \A k \in S : f[ArgMin(S, f)] < f[k] \/ (f[ArgMin(S, f)] = f[k] /\ ArgMin(S, f) <= k)
  BY <1>1, Zenon DEF ArgMin
<1> QED
  BY <1>2

\* The last of some indices.
LEMMA MaxOfIndices ==
  ASSUME NEW n \in Nat, NEW S \in SUBSET LapIdx(n), S # {}
  PROVE  Max(S) \in S /\ \A k \in S : k <= Max(S)
<1>1. PICK f : f = [k \in LapIdx(n) |-> -k]
  OBVIOUS
<1>2. \A k \in LapIdx(n) : f[k] \in Int /\ f[k] = -k /\ k \in Int
  BY <1>1 DEF LapIdx
<1>3. PICK j \in S : \A k \in S : f[j] < f[k] \/ (f[j] = f[k] /\ j <= k)
  BY <1>2, ScanFinds
<1>4. \A k \in S : j >= k
  BY <1>2, <1>3
<1>5. Max(S) \in S /\ \A k \in S : Max(S) >= k
  BY <1>4, Zenon DEF Max
<1>6. \A k \in S : k \in Int
  BY <1>2
<1> QED
  BY <1>5, <1>6

\* The least value at some indices.
LeastAt(low, f, S) == low = Min({f[m] : m \in S})

\* The least value is one of the values, and no greater than any.
LEMMA MinOfValues ==
  ASSUME NEW f, NEW n \in Nat, NEW S \in SUBSET LapIdx(n), S # {},
         \A k \in LapIdx(n) : f[k] \in Int, NEW low, LeastAt(low, f, S)
  PROVE  low \in Int /\ (\A k \in S : low <= f[k]) /\ \E k \in S : low = f[k]
<1>1. PICK j \in S : \A k \in S : f[j] < f[k] \/ (f[j] = f[k] /\ j <= k)
  BY ScanFinds
<1>2. PICK V : V = {f[m] : m \in S}
  OBVIOUS
<1>3. f[j] \in V /\ \A u \in V : u \in Int
  BY <1>2
<1>4. \A u \in V : f[j] <= u
  BY <1>1, <1>2
<1>5. Min(V) \in V /\ \A u \in V : Min(V) <= u
  BY <1>3, <1>4, Zenon DEF Min
<1>6. low = Min(V)
  BY <1>2, Zenon DEF LeastAt
<1> QED
  BY <1>2, <1>3, <1>5, <1>6

-----------------------------------------------------------------------------
(* The invariants of the phases, for arrays of any kind: red[i][j] is the  *)
(* reduced cost, f the row that is to be assigned.                         *)

\* Column c is a cheapest one for row r.
TightAt(n, red, r, c) == \A q \in LapIdx(n) : red[r][c] <= red[r][q]

\* Assigned columns, except those that are being given away: x agrees with y,
\* the row waits no longer, and is where it is cheapest.
AgreeIn(n, red, x, y, open, wait) ==
  \A c \in LapIdx(n) \ open : y[c] >= 0 =>
    x[y[c]] = c /\ y[c] \notin wait /\ TightAt(n, red, y[c], c)

\* A row that does not wait is assigned.
AssignedIn(n, y, open, wait) ==
  \A r \in LapIdx(n) : r \in wait \/ \E c \in LapIdx(n) \ open : y[c] = r

\* Column c is no further than over column b.
RelaxedBy(red, y, d, b, c) == d[c] <= d[b] + red[y[b]][c] - red[y[b]][b]

\* How a column was reached: from the row f, or over one in front of it in the list.
PrecededBy(red, y, f, list, d, pred, M, p) ==
  \/ pred[list[p]] = f /\ d[list[p]] = red[f][list[p]]
  \/ \E m \in M : /\ m < p /\ y[list[m]] = pred[list[p]]
                  /\ d[list[p]] = d[list[m]] + red[pred[list[p]]][list[p]]
                                  - red[pred[list[p]]][list[m]]

\* No column is further than straight from the row f.
RootedIn(n, red, f, d, pred) ==
  \A c \in LapIdx(n) : pred[c] \in LapIdx(n) /\ d[c] <= red[f][c]

\* The columns in front of lo are done with.
ReadyIn(n, red, y, list, d, lo) ==
  \A p \in LapIdx(n) : p < lo =>
    y[list[p]] >= 0 /\ \A c \in LapIdx(n) : RelaxedBy(red, y, d, list[p], c)

\* _find_dense: those from lo to hi - 1 are the nearest up to k - 1.
FindIn(n, red, y, f, list, d, pred, lo, hi, k) ==
  /\ Permutes(list, n) /\ lo < hi /\ hi <= k /\ lo <= n
  /\ ReadyIn(n, red, y, list, d, lo) /\ RootedIn(n, red, f, d, pred)
  /\ \A p, q \in LapIdx(n) : p < lo /\ lo <= q => d[list[p]] <= d[list[q]]
  /\ \A p \in LapIdx(n) : lo <= p /\ p < k => d[list[lo]] <= d[list[p]]
  /\ \A p \in LapIdx(n) : lo <= p /\ p < hi => d[list[lo]] = d[list[p]]
  /\ \A p \in LapIdx(n) : PrecededBy(red, y, f, list, d, pred, 0..(lo - 1), p)

\* _scan_dense: of those from lo to shi - 1, all as near, the columns in front of
\* slo are scanned, the last of them up to k - 1.
ScanIn(n, red, y, f, list, d, pred, lo, slo, shi, k, i) ==
  /\ Permutes(list, n) /\ lo <= slo /\ slo <= shi /\ lo < shi /\ shi <= k /\ k <= n
  /\ k < n => lo < slo /\ i = slo - 1
  /\ RootedIn(n, red, f, d, pred)
  /\ \A p \in LapIdx(n) : p < shi => y[list[p]] >= 0 /\ d[list[p]] <= d[list[lo]]
  /\ \A p \in LapIdx(n) : lo <= p => d[list[lo]] <= d[list[p]]
  /\ \A m, p \in LapIdx(n) : m < slo /\ (m + 1 < slo \/ p < k) =>
       RelaxedBy(red, y, d, list[m], list[p])
  /\ \A p \in LapIdx(n) : PrecededBy(red, y, f, list, d, pred, 0..(slo - 1), p)

\* The places of the list that are not further than e.
NearIn(n, list, d, e) == {m \in LapIdx(n) : d[list[m]] <= e}

\* A free column j is reached, and none that is not done with is nearer.
ReachedIn(n, red, y, f, list, d, pred, lo, j) ==
  /\ Permutes(list, n) /\ lo < n /\ j \in LapIdx(n) /\ y[j] < 0 /\ d[j] = d[list[lo]]
  /\ ReadyIn(n, red, y, list, d, lo) /\ RootedIn(n, red, f, d, pred)
  /\ \A p \in LapIdx(n) : p < lo => d[list[p]] <= d[list[lo]]
  /\ \A p \in LapIdx(n) : lo <= p => d[list[lo]] <= d[list[p]]
  /\ \A p \in LapIdx(n) :
       PrecededBy(red, y, f, list, d, pred, NearIn(n, list, d, d[list[lo]]), p)

\* The column at place q of the list is a cheapest one for the row before it on
\* the path, which is f or has a column in front of q.
TrailStep(n, red, y, f, list, d, pred, e, q) ==
  LET r == pred[list[q]]
  IN  /\ r \in LapIdx(n) /\ TightAt(n, red, r, list[q])
      /\ r = f \/ \E m \in NearIn(n, list, d, e) : m < q /\ y[list[m]] = r

\* The way back from column j: it has been k steps, and has at most as many more as
\* there are places in front of j.
TrailIn(n, red, y, f, list, d, pred, e, j, k) ==
  \E p \in NearIn(n, list, d, e) :
    /\ j = list[p] /\ k + p < n
    /\ \A q \in NearIn(n, list, d, e) : q <= p => TrailStep(n, red, y, f, list, d, pred, e, q)

\* A swap of two places keeps a list of all columns one.
LEMMA SwapPermutes ==
  ASSUME NEW n \in Nat, NEW list, Permutes(list, n), NEW k \in LapIdx(n), NEW h \in LapIdx(n)
  PROVE  /\ Permutes(Swapped(list, k, h), n)
         /\ Swapped(list, k, h)[k] = list[h] /\ Swapped(list, k, h)[h] = list[k]
         /\ \A p \in LapIdx(n) : p # k /\ p # h => Swapped(list, k, h)[p] = list[p]
<1>1. PICK s : s = Swapped(list, k, h)
  OBVIOUS
<1>2. list \in [LapIdx(n) -> LapIdx(n)]
  BY DEF Permutes
<1>3. /\ s \in [LapIdx(n) -> LapIdx(n)] /\ s[k] = list[h] /\ s[h] = list[k]
      /\ \A p \in LapIdx(n) : p # k /\ p # h => s[p] = list[p]
  BY <1>1, <1>2 DEF Swapped
<1>4. /\ \A p, q \in LapIdx(n) : list[p] = list[q] => p = q
      /\ \A c \in LapIdx(n) : \E p \in LapIdx(n) : list[p] = c
  BY DEF Permutes
<1>5. \A p, q \in LapIdx(n) : s[p] = s[q] => p = q
  BY <1>3, <1>4
<1>6. \A c \in LapIdx(n) : \E p \in LapIdx(n) : s[p] = c
  <2> TAKE c \in LapIdx(n)
  <2>1. PICK p \in LapIdx(n) : list[p] = c
    BY <1>4
  <2>2. CASE p = k
    BY <1>3, <2>1, <2>2
  <2>3. CASE p = h
    BY <1>3, <2>1, <2>3
  <2>4. CASE p # k /\ p # h
    BY <1>3, <2>1, <2>4
  <2> QED
    BY <2>2, <2>3, <2>4
<1> QED
  BY <1>1, <1>3, <1>5, <1>6 DEF Permutes

-----------------------------------------------------------------------------
(* The shortest path.                                                      *)

\* What the arrays of the search hold.
SearchTypes(n, red, y, f, list, d, pred) ==
  /\ n \in Nat /\ red \in [LapIdx(n) -> [LapIdx(n) -> Int]] /\ f \in LapIdx(n)
  /\ y \in [LapIdx(n) -> LapIdx(n) \cup {-1}] /\ d \in [LapIdx(n) -> Int]
  /\ \A p \in LapIdx(n) : list[p] \in LapIdx(n)

\* It starts with the columns in any order, each reached from f.
LEMMA FindBegins ==
  ASSUME NEW n \in Nat, n > 0, NEW red \in [LapIdx(n) -> [LapIdx(n) -> Int]], NEW f \in LapIdx(n),
         NEW y
  PROVE  FindIn(n, red, y, f, [i \in LapIdx(n) |-> i], red[f], [i \in LapIdx(n) |-> f], 0, 1, 1)
<1>1. PICK list, pred, d : /\ list = [i \in LapIdx(n) |-> i] /\ pred = [i \in LapIdx(n) |-> f]
                           /\ d = red[f]
  OBVIOUS
<1>2. /\ \A p \in LapIdx(n) : list[p] = p /\ pred[p] = f /\ p \in Nat /\ d[p] \in Int
      /\ 0 \in LapIdx(n) /\ list \in [LapIdx(n) -> LapIdx(n)]
  BY <1>1 DEF LapIdx
<1>3. Permutes(list, n)
  BY <1>2 DEF Permutes
<1>4. RootedIn(n, red, f, d, pred)
  BY <1>1, <1>2 DEF RootedIn
<1>5. ReadyIn(n, red, y, list, d, 0)
  BY <1>2 DEF ReadyIn
<1>6. \A p \in LapIdx(n) : PrecededBy(red, y, f, list, d, pred, 0..(0 - 1), p)
  BY <1>1, <1>2 DEF PrecededBy
<1>7. \A p \in LapIdx(n) : p < 1 => p = 0
  BY <1>2
<1>8. /\ \A p, q \in LapIdx(n) : p < 0 /\ 0 <= q => d[list[p]] <= d[list[q]]
      /\ \A p \in LapIdx(n) : 0 <= p /\ p < 1 => d[list[0]] <= d[list[p]]
      /\ \A p \in LapIdx(n) : 0 <= p /\ p < 1 => d[list[0]] = d[list[p]]
  BY <1>2, <1>7
<1> QED
  BY <1>1, <1>3, <1>4, <1>5, <1>6, <1>8 DEF FindIn

\* Places that are not reached before another is are a matter of the columns alone.
LEMMA PrecededSwapped ==
  ASSUME NEW n \in Nat, NEW red, NEW y, NEW f, NEW list, NEW d, NEW pred, Permutes(list, n),
         NEW k \in LapIdx(n), NEW h \in LapIdx(n), NEW lo \in Nat, lo <= h, lo <= k,
         \A p \in LapIdx(n) : PrecededBy(red, y, f, list, d, pred, 0..(lo - 1), p)
  PROVE  \A p \in LapIdx(n) :
           PrecededBy(red, y, f, Swapped(list, k, h), d, pred, 0..(lo - 1), p)
<1>1. PICK s : s = Swapped(list, k, h)
  OBVIOUS
<1>2. /\ s[k] = list[h] /\ s[h] = list[k]
      /\ \A p \in LapIdx(n) : p # k /\ p # h => s[p] = list[p]
  BY <1>1, SwapPermutes
<1>3. /\ n \in Nat /\ k \in Nat /\ h \in Nat /\ \A p \in LapIdx(n) : p \in Nat
      /\ \A m \in 0..(lo - 1) : m \in LapIdx(n) /\ m # k /\ m # h /\ m < lo
  BY DEF LapIdx
<1>4. \A m \in 0..(lo - 1) : s[m] = list[m]
  BY <1>2, <1>3
<1> SUFFICES ASSUME NEW p \in LapIdx(n)
             PROVE  PrecededBy(red, y, f, s, d, pred, 0..(lo - 1), p)
  BY <1>1
<1>5. PICK q \in LapIdx(n) : s[p] = list[q] /\ \A m \in 0..(lo - 1) : m < q => m < p
  <2>1. CASE p = k
    BY <1>2, <1>3, <2>1
  <2>2. CASE p = h
    BY <1>2, <1>3, <2>2
  <2>3. CASE p # k /\ p # h
    BY <1>2, <2>3
  <2> QED
    BY <2>1, <2>2, <2>3
<1>6. PrecededBy(red, y, f, list, d, pred, 0..(lo - 1), q)
  OBVIOUS
<1>7. CASE pred[list[q]] = f /\ d[list[q]] = red[f][list[q]]
  BY <1>5, <1>7 DEF PrecededBy
<1>8. CASE \E m \in 0..(lo - 1) : /\ m < q /\ y[list[m]] = pred[list[q]]
                  /\ d[list[q]] = d[list[m]] + red[pred[list[q]]][list[q]]
                                  - red[pred[list[q]]][list[m]]
  <2>1. PICK m \in 0..(lo - 1) : /\ m < q /\ y[list[m]] = pred[list[q]]
                  /\ d[list[q]] = d[list[m]] + red[pred[list[q]]][list[q]]
                                  - red[pred[list[q]]][list[m]]
    BY <1>8
  <2>2. m < p /\ s[m] = list[m]
    BY <1>4, <1>5, <2>1
  <2>3. /\ m < p /\ y[s[m]] = pred[s[p]]
        /\ d[s[p]] = d[s[m]] + red[pred[s[p]]][s[p]] - red[pred[s[p]]][s[m]]
    BY <1>5, <2>1, <2>2
  <2> QED
    BY <2>3 DEF PrecededBy
<1> QED
  BY <1>6, <1>7, <1>8 DEF PrecededBy

\* So are the columns that are done with.
LEMMA ReadySwapped ==
  ASSUME NEW n \in Nat, NEW red, NEW y, NEW list, NEW d, Permutes(list, n),
         NEW k \in LapIdx(n), NEW h \in LapIdx(n), NEW lo \in Nat, lo <= h, lo <= k,
         ReadyIn(n, red, y, list, d, lo)
  PROVE  ReadyIn(n, red, y, Swapped(list, k, h), d, lo)
<1>1. PICK s : s = Swapped(list, k, h)
  OBVIOUS
<1>2. \A p \in LapIdx(n) : p # k /\ p # h => s[p] = list[p]
  BY <1>1, SwapPermutes
<1>3. \A p \in LapIdx(n) : p < lo => p # k /\ p # h
  BY DEF LapIdx
<1>4. \A p \in LapIdx(n) : p < lo => s[p] = list[p]
  BY <1>2, <1>3
<1>5. ReadyIn(n, red, y, s, d, lo)
  BY <1>4 DEF ReadyIn
<1> QED
  BY <1>1, <1>5

\* _find_dense: one column more.
LEMMA FindGoesOn ==
  ASSUME NEW n, NEW red, NEW y, NEW f, NEW list, NEW d, NEW pred,
         SearchTypes(n, red, y, f, list, d, pred),
         NEW lo \in Nat, NEW hi \in Nat, NEW k \in LapIdx(n),
         FindIn(n, red, y, f, list, d, pred, lo, hi, k)
  PROVE  /\ d[list[k]] > d[list[lo]] => FindIn(n, red, y, f, list, d, pred, lo, hi, k + 1)
         /\ d[list[k]] <= d[list[lo]] =>
              LET h == IF d[list[k]] < d[list[lo]] THEN lo ELSE hi
              IN  FindIn(n, red, y, f, Swapped(list, k, h), d, pred, lo, h + 1, k + 1)
<1>1. /\ Permutes(list, n) /\ lo < hi /\ hi <= k /\ lo <= n
      /\ ReadyIn(n, red, y, list, d, lo) /\ RootedIn(n, red, f, d, pred)
      /\ \A p, q \in LapIdx(n) : p < lo /\ lo <= q => d[list[p]] <= d[list[q]]
      /\ \A p \in LapIdx(n) : lo <= p /\ p < k => d[list[lo]] <= d[list[p]]
      /\ \A p \in LapIdx(n) : lo <= p /\ p < hi => d[list[lo]] = d[list[p]]
      /\ \A p \in LapIdx(n) : PrecededBy(red, y, f, list, d, pred, 0..(lo - 1), p)
  BY DEF FindIn
<1>2. n \in Nat /\ \A p \in LapIdx(n) : p \in Nat /\ p < n
  BY DEF SearchTypes, LapIdx
<1>3. lo \in LapIdx(n) /\ hi \in LapIdx(n) /\ k \in Nat /\ k < n
  BY <1>1, <1>2 DEF LapIdx
<1>4. \A p \in LapIdx(n) : d[list[p]] \in Int
  BY DEF SearchTypes
<1>5. ASSUME d[list[k]] > d[list[lo]]
      PROVE  FindIn(n, red, y, f, list, d, pred, lo, hi, k + 1)
  <2>1. \A p \in LapIdx(n) : lo <= p /\ p < k + 1 => d[list[lo]] <= d[list[p]]
    <3> SUFFICES ASSUME NEW p \in LapIdx(n), lo <= p, p < k + 1 PROVE d[list[lo]] <= d[list[p]]
      OBVIOUS
    <3>1. p = k \/ p < k
      BY <1>2, <1>3
    <3> QED
      BY <1>1, <1>3, <1>4, <1>5, <3>1
  <2>2. hi <= k + 1
    BY <1>1, <1>3
  <2> QED
    BY <1>1, <2>1, <2>2 DEF FindIn
<1>6. ASSUME d[list[k]] <= d[list[lo]],
             NEW h, h = IF d[list[k]] < d[list[lo]] THEN lo ELSE hi
      PROVE  FindIn(n, red, y, f, Swapped(list, k, h), d, pred, lo, h + 1, k + 1)
  <2>1. PICK s : s = Swapped(list, k, h)
    OBVIOUS
  <2>2. h \in LapIdx(n) /\ h \in Nat /\ lo <= h /\ h <= k /\ lo <= k
    BY <1>1, <1>3, <1>6
  <2>3. /\ Permutes(s, n) /\ s[k] = list[h] /\ s[h] = list[k]
        /\ \A p \in LapIdx(n) : p # k /\ p # h => s[p] = list[p]
    BY <1>1, <1>2, <2>1, <2>2, SwapPermutes, SMTT(30)
  <2>4. PICK a : a = d[s[lo]]
    OBVIOUS
  <2>5. a \in Int /\ a = d[list[k]] /\ a <= d[list[lo]]
    <3>1. CASE d[list[k]] < d[list[lo]]
      BY <1>4, <1>6, <2>3, <2>4, <3>1
    <3>2. CASE ~(d[list[k]] < d[list[lo]])
      <4>1. d[list[k]] = d[list[lo]] /\ h = hi
        BY <1>3, <1>4, <1>6, <3>2
      <4>2. lo # k /\ lo # h
        BY <1>1, <1>3, <4>1
      <4>3. s[lo] = list[lo]
        BY <1>3, <2>3, <4>2
      <4> QED
        BY <1>3, <1>4, <2>4, <4>1, <4>3
    <3> QED
      BY <3>1, <3>2
  <2>6. \A p \in LapIdx(n) : p = k \/ p = h \/ s[p] = list[p]
    BY <2>3
  <2>7. \A p, q \in LapIdx(n) : p < lo /\ lo <= q => d[s[p]] <= d[s[q]]
    <3> SUFFICES ASSUME NEW p \in LapIdx(n), NEW q \in LapIdx(n), p < lo, lo <= q
                 PROVE  d[s[p]] <= d[s[q]]
      OBVIOUS
    <3>1. p # k /\ p # h
      BY <1>2, <2>2
    <3>2. s[p] = list[p]
      BY <2>3, <3>1
    <3>3. \E r \in LapIdx(n) : s[q] = list[r] /\ lo <= r
      BY <2>2, <2>3
    <3> QED
      BY <1>1, <3>2, <3>3
  <2>8. \A p \in LapIdx(n) : lo <= p /\ p < k + 1 => d[s[lo]] <= d[s[p]]
    <3> SUFFICES ASSUME NEW p \in LapIdx(n), lo <= p, p < k + 1 PROVE a <= d[s[p]]
      BY <2>4
    <3>1. \A r \in LapIdx(n) : lo <= r /\ r < k => a <= d[list[r]]
      BY <1>1, <1>3, <1>4, <2>5
    <3>2. a <= d[list[k]]
      BY <2>5
    <3>3. p < k \/ p = k
      BY <1>2, <1>3
    <3>4. h = k \/ h < k
      BY <1>3, <2>2
    <3> QED
      BY <2>2, <2>3, <3>1, <3>2, <3>3, <3>4
  <2>9. \A p \in LapIdx(n) : lo <= p /\ p < h + 1 => d[s[lo]] = d[s[p]]
    <3> SUFFICES ASSUME NEW p \in LapIdx(n), lo <= p, p < h + 1 PROVE a = d[s[p]]
      BY <2>4
    <3>1. CASE p = h
      BY <2>3, <2>5, <3>1
    <3>2. CASE p # h
      <4>1. p < h /\ p # k
        BY <1>2, <1>3, <2>2, <3>2
      <4>2. s[p] = list[p] /\ h = hi /\ d[list[k]] = d[list[lo]]
        BY <1>2, <1>3, <1>4, <1>6, <2>3, <3>2, <4>1
      <4> QED
        BY <1>1, <2>5, <4>1, <4>2
    <3> QED
      BY <3>1, <3>2
  <2>10. \A p \in LapIdx(n) : PrecededBy(red, y, f, s, d, pred, 0..(lo - 1), p)
    BY <1>1, <1>2, <2>1, <2>2, PrecededSwapped
  <2>11. ReadyIn(n, red, y, s, d, lo)
    BY <1>1, <1>2, <2>1, <2>2, ReadySwapped
  <2>12. lo < h + 1 /\ h + 1 <= k + 1
    BY <1>3, <2>2
  <2>13. FindIn(n, red, y, f, s, d, pred, lo, h + 1, k + 1)
    BY <1>1, <2>3, <2>7, <2>8, <2>9, <2>10, <2>11, <2>12 DEF FindIn
  <2> QED
    BY <2>1, <2>13
<1> QED
  BY <1>5, <1>6

\* The next nearest columns are found, and one of them is free.
LEMMA FindReaches ==
  ASSUME NEW n, NEW red, NEW y, NEW f, NEW list, NEW d, NEW pred,
         SearchTypes(n, red, y, f, list, d, pred),
         NEW lo \in Nat, NEW hi \in Nat, FindIn(n, red, y, f, list, d, pred, lo, hi, n),
         NEW m \in LapIdx(n), lo <= m, m < hi, y[list[m]] < 0
  PROVE  ReachedIn(n, red, y, f, list, d, pred, lo, list[m])
<1>1. /\ Permutes(list, n) /\ lo < hi /\ hi <= n /\ lo <= n
      /\ ReadyIn(n, red, y, list, d, lo) /\ RootedIn(n, red, f, d, pred)
      /\ \A p, q \in LapIdx(n) : p < lo /\ lo <= q => d[list[p]] <= d[list[q]]
      /\ \A p \in LapIdx(n) : lo <= p /\ p < n => d[list[lo]] <= d[list[p]]
      /\ \A p \in LapIdx(n) : lo <= p /\ p < hi => d[list[lo]] = d[list[p]]
      /\ \A p \in LapIdx(n) : PrecededBy(red, y, f, list, d, pred, 0..(lo - 1), p)
  BY DEF FindIn
<1>2. n \in Nat /\ \A p \in LapIdx(n) : p \in Nat /\ p < n
  BY DEF SearchTypes, LapIdx
<1>3. lo \in LapIdx(n) /\ lo < n /\ list[m] \in LapIdx(n)
  <2>1. lo < n
    BY <1>1, <1>2
  <2>2. lo \in LapIdx(n)
    BY <1>2, <2>1 DEF LapIdx
  <2> QED
    BY <2>1, <2>2 DEF SearchTypes
<1>4. \A p \in LapIdx(n) : p < lo => d[list[p]] <= d[list[lo]]
  BY <1>1, <1>3
<1>5. \A p \in LapIdx(n) : lo <= p => d[list[lo]] <= d[list[p]]
  BY <1>1, <1>2
<1>6. \A q \in 0..(lo - 1) : q \in NearIn(n, list, d, d[list[lo]])
  <2> TAKE q \in 0..(lo - 1)
  <2>1. q \in LapIdx(n) /\ q < lo
    BY <1>2, <1>3 DEF LapIdx
  <2> QED
    BY <1>4, <2>1 DEF NearIn
<1>7. \A p \in LapIdx(n) :
        PrecededBy(red, y, f, list, d, pred, NearIn(n, list, d, d[list[lo]]), p)
  <2> TAKE p \in LapIdx(n)
  <2>1. PrecededBy(red, y, f, list, d, pred, 0..(lo - 1), p)
    BY <1>1
  <2> QED
    BY <1>6, <2>1, Zenon DEF PrecededBy
<1>8. d[list[m]] = d[list[lo]]
  BY <1>1
<1> QED
  BY <1>1, <1>3, <1>4, <1>5, <1>7, <1>8 DEF ReachedIn

\* None of them is free: they are to be scanned.
LEMMA FindEnds ==
  ASSUME NEW n, NEW red, NEW y, NEW f, NEW list, NEW d, NEW pred,
         SearchTypes(n, red, y, f, list, d, pred),
         NEW lo \in Nat, NEW hi \in Nat, FindIn(n, red, y, f, list, d, pred, lo, hi, n),
         \A m \in LapIdx(n) : lo <= m /\ m < hi => y[list[m]] >= 0, NEW i
  PROVE  ScanIn(n, red, y, f, list, d, pred, lo, lo, hi, n, i)
<1>1. /\ Permutes(list, n) /\ lo < hi /\ hi <= n /\ lo <= n
      /\ ReadyIn(n, red, y, list, d, lo) /\ RootedIn(n, red, f, d, pred)
      /\ \A p, q \in LapIdx(n) : p < lo /\ lo <= q => d[list[p]] <= d[list[q]]
      /\ \A p \in LapIdx(n) : lo <= p /\ p < n => d[list[lo]] <= d[list[p]]
      /\ \A p \in LapIdx(n) : lo <= p /\ p < hi => d[list[lo]] = d[list[p]]
      /\ \A p \in LapIdx(n) : PrecededBy(red, y, f, list, d, pred, 0..(lo - 1), p)
  BY DEF FindIn
<1>2. n \in Nat /\ \A p \in LapIdx(n) : p \in Nat /\ p < n
  BY DEF SearchTypes, LapIdx
<1>3. lo \in LapIdx(n) /\ d[list[lo]] \in Int
  <2>1. lo < n
    BY <1>1, <1>2
  <2>2. lo \in LapIdx(n)
    BY <1>2, <2>1 DEF LapIdx
  <2> QED
    BY <2>2 DEF SearchTypes
<1>4. \A p \in LapIdx(n) : p < hi => y[list[p]] >= 0 /\ d[list[p]] <= d[list[lo]]
  <2> SUFFICES ASSUME NEW p \in LapIdx(n), p < hi
               PROVE  y[list[p]] >= 0 /\ d[list[p]] <= d[list[lo]]
    OBVIOUS
  <2>1. CASE p < lo
    BY <1>1, <1>3, <2>1 DEF ReadyIn
  <2>2. CASE lo <= p
    BY <1>1, <1>3, <2>2
  <2> QED
    BY <1>2, <2>1, <2>2
<1>5. \A m, p \in LapIdx(n) : m < lo /\ (m + 1 < lo \/ p < n) =>
        RelaxedBy(red, y, d, list[m], list[p])
  BY <1>1 DEF ReadyIn, SearchTypes
<1>6. \A p \in LapIdx(n) : lo <= p => d[list[lo]] <= d[list[p]]
  BY <1>1, <1>2
<1>7. n <= n /\ ~(n < n) /\ lo <= lo /\ lo <= hi
  BY <1>1, <1>2
<1> QED
  BY <1>1, <1>4, <1>5, <1>6, <1>7 DEF ScanIn

\* What a scan may rely on.
LEMMA ScanParts ==
  ASSUME NEW n, NEW red, NEW y, NEW f, NEW list, NEW d, NEW pred,
         SearchTypes(n, red, y, f, list, d, pred),
         NEW lo \in Nat, NEW slo \in Nat, NEW shi \in Nat, NEW k \in Nat, NEW i,
         ScanIn(n, red, y, f, list, d, pred, lo, slo, shi, k, i)
  PROVE  /\ n \in Nat /\ \A p \in LapIdx(n) : p \in Nat /\ p < n
         /\ lo \in LapIdx(n) /\ \A m \in Nat : m < shi => m \in LapIdx(n)
         /\ \A p \in LapIdx(n) : /\ list[p] \in LapIdx(n) /\ d[list[p]] \in Int
                                 /\ y[list[p]] \in LapIdx(n) \cup {-1}
         /\ \A r, c \in LapIdx(n) : red[r][c] \in Int
         /\ \A p, q \in LapIdx(n) : list[p] = list[q] => p = q
         /\ \A p \in LapIdx(n) : p < shi => y[list[p]] \in LapIdx(n)
<1>1. n \in Nat /\ \A p \in LapIdx(n) : p \in Nat /\ p < n
  BY DEF SearchTypes, LapIdx
<1>2. lo < shi /\ shi <= k /\ k <= n /\ \A p \in LapIdx(n) : p < shi => y[list[p]] >= 0
  BY DEF ScanIn
<1>3. \A m \in Nat : m < shi => m \in LapIdx(n)
  BY <1>1, <1>2 DEF LapIdx
<1>4. /\ \A p \in LapIdx(n) : /\ list[p] \in LapIdx(n) /\ d[list[p]] \in Int
                              /\ y[list[p]] \in LapIdx(n) \cup {-1}
      /\ \A r, c \in LapIdx(n) : red[r][c] \in Int
  BY DEF SearchTypes
<1>5. \A p, q \in LapIdx(n) : list[p] = list[q] => p = q
  BY DEF ScanIn, Permutes
<1>6. \A p \in LapIdx(n) : p < shi => y[list[p]] \in LapIdx(n)
  BY <1>2, <1>4
<1> QED
  BY <1>1, <1>2, <1>3, <1>4, <1>5, <1>6

\* The next column of those that are as near.
LEMMA ScanTakesNext ==
  ASSUME NEW n, NEW red, NEW y, NEW f, NEW list, NEW d, NEW pred,
         SearchTypes(n, red, y, f, list, d, pred),
         \A c \in LapIdx(n) : y[c] >= 0 => TightAt(n, red, y[c], c),
         NEW lo \in Nat, NEW slo \in Nat, NEW shi \in Nat, NEW i, slo # shi,
         ScanIn(n, red, y, f, list, d, pred, lo, slo, shi, n, i)
  PROVE  ScanIn(n, red, y, f, list, d, pred, lo, slo + 1, shi, shi, slo)
<1>1. /\ Permutes(list, n) /\ lo <= slo /\ slo <= shi /\ lo < shi /\ shi <= n
      /\ RootedIn(n, red, f, d, pred)
      /\ \A p \in LapIdx(n) : p < shi => y[list[p]] >= 0 /\ d[list[p]] <= d[list[lo]]
      /\ \A p \in LapIdx(n) : lo <= p => d[list[lo]] <= d[list[p]]
      /\ \A m, p \in LapIdx(n) : m < slo /\ (m + 1 < slo \/ p < n) =>
           RelaxedBy(red, y, d, list[m], list[p])
      /\ \A p \in LapIdx(n) : PrecededBy(red, y, f, list, d, pred, 0..(slo - 1), p)
  BY DEF ScanIn
<1>2. n \in Nat
  BY DEF SearchTypes
<1>3. /\ \A p \in LapIdx(n) : p \in Nat /\ p < n
      /\ lo \in LapIdx(n) /\ \A m \in Nat : m < shi => m \in LapIdx(n)
      /\ \A p \in LapIdx(n) : /\ list[p] \in LapIdx(n) /\ d[list[p]] \in Int
                              /\ y[list[p]] \in LapIdx(n) \cup {-1}
      /\ \A r, c \in LapIdx(n) : red[r][c] \in Int
      /\ \A p \in LapIdx(n) : p < shi => y[list[p]] \in LapIdx(n)
  BY <1>2, ScanParts
<1>4. slo < shi /\ slo \in LapIdx(n)
  BY <1>1, <1>3
<1>5. \A m, p \in LapIdx(n) : m < slo + 1 /\ (m + 1 < slo + 1 \/ p < shi) =>
        RelaxedBy(red, y, d, list[m], list[p])
  <2> SUFFICES ASSUME NEW m \in LapIdx(n), NEW p \in LapIdx(n), m < slo + 1,
                      m + 1 < slo + 1 \/ p < shi
               PROVE  RelaxedBy(red, y, d, list[m], list[p])
    OBVIOUS
  <2>1. CASE m < slo
    BY <1>1, <1>3, <2>1
  <2>2. CASE ~(m < slo)
    <3>1. m = slo /\ p < shi
      BY <1>3, <2>2
    <3>2. PICK b, c, r : b = list[slo] /\ c = list[p] /\ r = y[b]
      OBVIOUS
    <3>3. b \in LapIdx(n) /\ c \in LapIdx(n) /\ r \in LapIdx(n) /\ r >= 0
      BY <1>1, <1>3, <1>4, <3>2
    <3>4. red[r][b] <= red[r][c]
      BY <3>2, <3>3 DEF TightAt
    <3>5. d[c] <= d[list[lo]] /\ d[list[lo]] <= d[b]
      BY <1>1, <1>4, <3>1, <3>2
    <3>6. d[c] \in Int /\ d[b] \in Int /\ d[list[lo]] \in Int
      BY <1>3, <1>4, <3>2
    <3>7. red[r][b] \in Int /\ red[r][c] \in Int
      BY <1>3, <3>3
    <3>8. d[c] <= d[b] + red[r][c] - red[r][b]
      BY <3>4, <3>5, <3>6, <3>7
    <3> QED
      BY <3>1, <3>2, <3>8 DEF RelaxedBy
  <2> QED
    BY <2>1, <2>2
<1>6. \A p \in LapIdx(n) : PrecededBy(red, y, f, list, d, pred, 0..((slo + 1) - 1), p)
  <2>1. \A m \in 0..(slo - 1) : m \in 0..((slo + 1) - 1)
    OBVIOUS
  <2> TAKE p \in LapIdx(n)
  <2>2. PrecededBy(red, y, f, list, d, pred, 0..(slo - 1), p)
    BY <1>1
  <2> QED
    BY <2>1, <2>2, Zenon DEF PrecededBy
<1>7. lo <= slo + 1 /\ slo + 1 <= shi /\ lo < slo + 1 /\ slo = (slo + 1) - 1 /\ shi <= shi
  BY <1>1, <1>4
<1> QED
  BY <1>1, <1>5, <1>6, <1>7 DEF ScanIn

\* A column that is not nearer over the column that is scanned.
LEMMA ScanGoesOn ==
  ASSUME NEW n, NEW red, NEW y, NEW f, NEW list, NEW d, NEW pred,
         SearchTypes(n, red, y, f, list, d, pred),
         NEW lo \in Nat, NEW slo \in Nat, NEW shi \in Nat, NEW k \in LapIdx(n), NEW i,
         ScanIn(n, red, y, f, list, d, pred, lo, slo, shi, k, i),
         RelaxedBy(red, y, d, list[i], list[k])
  PROVE  ScanIn(n, red, y, f, list, d, pred, lo, slo, shi, k + 1, i)
<1>1. /\ Permutes(list, n) /\ lo <= slo /\ slo <= shi /\ lo < shi /\ shi <= k
      /\ k < n => lo < slo /\ i = slo - 1
      /\ RootedIn(n, red, f, d, pred)
      /\ \A p \in LapIdx(n) : p < shi => y[list[p]] >= 0 /\ d[list[p]] <= d[list[lo]]
      /\ \A p \in LapIdx(n) : lo <= p => d[list[lo]] <= d[list[p]]
      /\ \A m, p \in LapIdx(n) : m < slo /\ (m + 1 < slo \/ p < k) =>
           RelaxedBy(red, y, d, list[m], list[p])
      /\ \A p \in LapIdx(n) : PrecededBy(red, y, f, list, d, pred, 0..(slo - 1), p)
  BY DEF ScanIn
<1>2. n \in Nat /\ \A p \in LapIdx(n) : p \in Nat /\ p < n
  BY DEF SearchTypes, LapIdx
<1>3. k < n /\ k \in Nat
  BY <1>2
<1>4. \A m, p \in LapIdx(n) : m < slo /\ (m + 1 < slo \/ p < k + 1) =>
        RelaxedBy(red, y, d, list[m], list[p])
  <2> SUFFICES ASSUME NEW m \in LapIdx(n), NEW p \in LapIdx(n), m < slo,
                      m + 1 < slo \/ p < k + 1
               PROVE  RelaxedBy(red, y, d, list[m], list[p])
    OBVIOUS
  <2>1. CASE m + 1 < slo \/ p < k
    BY <1>1, <2>1
  <2>2. CASE ~(m + 1 < slo \/ p < k)
    <3>1. m = i /\ p = k
      BY <1>1, <1>2, <1>3, <2>2
    <3> QED
      BY <3>1
  <2> QED
    BY <2>1, <2>2
<1>5. shi <= k + 1 /\ k + 1 <= n
  BY <1>1, <1>2, <1>3
<1>6. k + 1 < n => lo < slo /\ i = slo - 1
  BY <1>1, <1>3
<1> QED
  BY <1>1, <1>4, <1>5, <1>6 DEF ScanIn

\* A column that is nearer over the column that is scanned.
LEMMA ScanNearer ==
  ASSUME NEW n, NEW red, NEW y, NEW f, NEW list, NEW d, NEW pred,
         SearchTypes(n, red, y, f, list, d, pred), pred \in [LapIdx(n) -> LapIdx(n)],
         \A c \in LapIdx(n) : y[c] >= 0 => TightAt(n, red, y[c], c),
         NEW lo \in Nat, NEW slo \in Nat, NEW shi \in Nat, NEW k \in LapIdx(n), NEW i,
         ScanIn(n, red, y, f, list, d, pred, lo, slo, shi, k, i),
         NEW cred, cred = d[list[i]] + red[y[list[i]]][list[k]] - red[y[list[i]]][list[i]],
         cred < d[list[k]]
  PROVE  ScanIn(n, red, y, f, list, [d EXCEPT ![list[k]] = cred],
                [pred EXCEPT ![list[k]] = y[list[i]]], lo, slo, shi, k + 1, i)
<1>1. /\ Permutes(list, n) /\ lo <= slo /\ slo <= shi /\ lo < shi /\ shi <= k
      /\ k < n => lo < slo /\ i = slo - 1
      /\ RootedIn(n, red, f, d, pred)
      /\ \A p \in LapIdx(n) : p < shi => y[list[p]] >= 0 /\ d[list[p]] <= d[list[lo]]
      /\ \A p \in LapIdx(n) : lo <= p => d[list[lo]] <= d[list[p]]
      /\ \A m, p \in LapIdx(n) : m < slo /\ (m + 1 < slo \/ p < k) =>
           RelaxedBy(red, y, d, list[m], list[p])
      /\ \A p \in LapIdx(n) : PrecededBy(red, y, f, list, d, pred, 0..(slo - 1), p)
  BY DEF ScanIn
<1>2. n \in Nat /\ k \in Nat
  BY DEF SearchTypes, LapIdx
<1>3. /\ \A p \in LapIdx(n) : p \in Nat /\ p < n
      /\ lo \in LapIdx(n) /\ \A m \in Nat : m < shi => m \in LapIdx(n)
      /\ \A p \in LapIdx(n) : /\ list[p] \in LapIdx(n) /\ d[list[p]] \in Int
                              /\ y[list[p]] \in LapIdx(n) \cup {-1}
      /\ \A r, c \in LapIdx(n) : red[r][c] \in Int
      /\ \A p, q \in LapIdx(n) : list[p] = list[q] => p = q
      /\ \A p \in LapIdx(n) : p < shi => y[list[p]] \in LapIdx(n)
  BY <1>2, ScanParts
<1>4. k < n /\ lo < slo /\ i = slo - 1 /\ i \in Nat /\ i < shi /\ i \in LapIdx(n) /\ lo <= i
  BY <1>1, <1>3
<1>5. PICK from, c, r : from = list[i] /\ c = list[k] /\ r = y[from]
  OBVIOUS
<1>6. /\ from \in LapIdx(n) /\ c \in LapIdx(n) /\ r \in LapIdx(n) /\ r >= 0
      /\ d[from] \in Int /\ d[c] \in Int /\ d[from] = d[list[lo]]
      /\ red[r][from] \in Int /\ red[r][c] \in Int
  <2>1. from \in LapIdx(n) /\ c \in LapIdx(n) /\ r \in LapIdx(n) /\ r >= 0
    BY <1>1, <1>3, <1>4, <1>5
  <2>2. d[from] \in Int /\ d[c] \in Int /\ d[list[lo]] \in Int
    BY <1>3, <1>4, <1>5
  <2>3. d[from] <= d[list[lo]] /\ d[list[lo]] <= d[from]
    BY <1>1, <1>4, <1>5
  <2> QED
    BY <1>3, <2>1, <2>2, <2>3
<1>7. cred = d[from] + red[r][c] - red[r][from] /\ cred \in Int /\ cred < d[c]
  BY <1>5, <1>6
<1>8. d[list[lo]] <= cred
  <2>1. red[r][from] <= red[r][c]
    BY <1>5, <1>6 DEF TightAt
  <2> QED
    BY <1>6, <1>7, <2>1
<1>9. PICK e, w : e = [d EXCEPT ![c] = cred] /\ w = [pred EXCEPT ![c] = r]
  OBVIOUS
<1>10. /\ e[c] = cred /\ \A q \in LapIdx(n) : q # c => e[q] = d[q]
       /\ w[c] = r /\ \A q \in LapIdx(n) : q # c => w[q] = pred[q]
  BY <1>6, <1>9 DEF SearchTypes
<1>11. \A p \in LapIdx(n) : p # k => list[p] # c
  BY <1>3, <1>5
<1>12. \A p \in LapIdx(n) : p # k => e[list[p]] = d[list[p]] /\ w[list[p]] = pred[list[p]]
  BY <1>3, <1>10, <1>11
<1>13. /\ \A p \in LapIdx(n) : p < shi => p # k
       /\ lo # k /\ e[list[lo]] = d[list[lo]]
  BY <1>1, <1>3, <1>12, <1>2
<1>14. \A p \in LapIdx(n) : e[list[p]] <= d[list[p]] /\ e[list[p]] \in Int
  BY <1>3, <1>5, <1>7, <1>10, <1>12
<1>15. RootedIn(n, red, f, e, w)
  <2> SUFFICES ASSUME NEW q \in LapIdx(n) PROVE w[q] \in LapIdx(n) /\ e[q] <= red[f][q]
    BY DEF RootedIn
  <2>1. pred[q] \in LapIdx(n) /\ d[q] <= red[f][q] /\ red[f][q] \in Int
    BY <1>1, <1>3 DEF RootedIn, SearchTypes
  <2>2. CASE q = c
    BY <1>6, <1>7, <1>10, <2>1, <2>2
  <2>3. CASE q # c
    BY <1>10, <2>1, <2>3
  <2> QED
    BY <2>2, <2>3
<1>16. \A p \in LapIdx(n) : p < shi => y[list[p]] >= 0 /\ e[list[p]] <= e[list[lo]]
  BY <1>1, <1>12, <1>13
<1>17. \A p \in LapIdx(n) : lo <= p => e[list[lo]] <= e[list[p]]
  BY <1>1, <1>5, <1>8, <1>10, <1>12, <1>13
<1>18. \A m, p \in LapIdx(n) : m < slo /\ (m + 1 < slo \/ p < k + 1) =>
         RelaxedBy(red, y, e, list[m], list[p])
  <2> SUFFICES ASSUME NEW m \in LapIdx(n), NEW p \in LapIdx(n), m < slo,
                      m + 1 < slo \/ p < k + 1
               PROVE  RelaxedBy(red, y, e, list[m], list[p])
    OBVIOUS
  <2>1. m < shi /\ e[list[m]] = d[list[m]]
    BY <1>1, <1>3, <1>12, <1>13
  <2>2. CASE m + 1 < slo \/ p < k
    <3>1. PICK b, q, s : b = list[m] /\ q = list[p] /\ s = y[b]
      OBVIOUS
    <3>2. d[q] <= d[b] + red[s][q] - red[s][b]
      BY <1>1, <2>2, <3>1 DEF RelaxedBy
    <3>3. /\ d[q] \in Int /\ d[b] \in Int /\ e[q] \in Int /\ e[q] <= d[q]
          /\ red[s][q] \in Int /\ red[s][b] \in Int
      BY <1>3, <1>14, <2>1, <3>1
    <3>4. e[q] <= e[b] + red[s][q] - red[s][b]
      BY <2>1, <3>1, <3>2, <3>3
    <3> QED
      BY <3>1, <3>4 DEF RelaxedBy
  <2>3. CASE ~(m + 1 < slo \/ p < k)
    <3>1. m = i /\ p = k
      <4>1. m \in Nat /\ p \in Nat /\ i = slo - 1
        BY <1>3, <1>4
      <4> QED
        BY <1>2, <2>3, <4>1
    <3>2. e[c] <= e[from] + red[r][c] - red[r][from]
      <4>1. e[from] = d[from]
        BY <1>5, <2>1, <3>1
      <4> QED
        BY <1>6, <1>7, <1>10, <4>1
    <3> QED
      BY <1>5, <3>1, <3>2 DEF RelaxedBy
  <2> QED
    BY <2>2, <2>3
<1>19. \A p \in LapIdx(n) : PrecededBy(red, y, f, list, e, w, 0..(slo - 1), p)
  <2> TAKE p \in LapIdx(n)
  <2>1. \A m \in 0..(slo - 1) : m \in LapIdx(n) /\ m < shi /\ e[list[m]] = d[list[m]]
    BY <1>1, <1>3, <1>12, <1>13
  <2>2. CASE p = k
    <3>1. i \in 0..(slo - 1) /\ i < k
      BY <1>1, <1>2, <1>4
    <3>2. e[from] = d[from]
      BY <1>5, <2>1, <3>1
    <3>3. e[c] = e[from] + red[w[c]][c] - red[w[c]][from] /\ y[from] = w[c]
      BY <1>5, <1>7, <1>10, <3>2
    <3> QED
      BY <1>5, <2>2, <3>1, <3>3 DEF PrecededBy
  <2>3. CASE p # k
    <3>1. e[list[p]] = d[list[p]] /\ w[list[p]] = pred[list[p]]
      BY <1>12, <2>3
    <3>2. PrecededBy(red, y, f, list, d, pred, 0..(slo - 1), p)
      BY <1>1
    <3>3. CASE pred[list[p]] = f /\ d[list[p]] = red[f][list[p]]
      BY <3>1, <3>3 DEF PrecededBy
    <3>4. CASE ~(pred[list[p]] = f /\ d[list[p]] = red[f][list[p]])
      <4>1. PICK m \in 0..(slo - 1) : /\ m < p /\ y[list[m]] = pred[list[p]]
                  /\ d[list[p]] = d[list[m]] + red[pred[list[p]]][list[p]]
                                  - red[pred[list[p]]][list[m]]
        BY <3>2, <3>4 DEF PrecededBy
      <4>2. e[list[m]] = d[list[m]]
        BY <2>1
      <4>3. /\ m < p /\ y[list[m]] = w[list[p]]
            /\ e[list[p]] = e[list[m]] + red[w[list[p]]][list[p]] - red[w[list[p]]][list[m]]
        BY <3>1, <4>1, <4>2
      <4> QED
        BY <4>3 DEF PrecededBy
    <3> QED
      BY <3>3, <3>4
  <2> QED
    BY <2>2, <2>3
<1>20. shi <= k + 1 /\ k + 1 <= n
  BY <1>1, <1>2, <1>4
<1>21. ScanIn(n, red, y, f, list, e, w, lo, slo, shi, k + 1, i)
  BY <1>1, <1>4, <1>15, <1>16, <1>17, <1>18, <1>19, <1>20 DEF ScanIn
<1> QED
  BY <1>5, <1>9, <1>21

\* It is free: the path is found.
LEMMA ScanReaches ==
  ASSUME NEW n, NEW red, NEW y, NEW f, NEW list, NEW d, NEW pred,
         SearchTypes(n, red, y, f, list, d, pred),
         NEW lo \in Nat, NEW slo \in Nat, NEW shi \in Nat, NEW k \in Nat, NEW i, lo < slo,
         ScanIn(n, red, y, f, list, d, pred, lo, slo, shi, k, i),
         NEW p \in LapIdx(n), d[list[p]] = d[list[lo]], y[list[p]] < 0
  PROVE  ReachedIn(n, red, y, f, list, d, pred, lo, list[p])
<1>1. /\ Permutes(list, n) /\ lo <= slo /\ slo <= shi /\ lo < shi /\ shi <= k /\ k <= n
      /\ RootedIn(n, red, f, d, pred)
      /\ \A q \in LapIdx(n) : q < shi => y[list[q]] >= 0 /\ d[list[q]] <= d[list[lo]]
      /\ \A q \in LapIdx(n) : lo <= q => d[list[lo]] <= d[list[q]]
      /\ \A m, q \in LapIdx(n) : m < slo /\ (m + 1 < slo \/ q < k) =>
           RelaxedBy(red, y, d, list[m], list[q])
      /\ \A q \in LapIdx(n) : PrecededBy(red, y, f, list, d, pred, 0..(slo - 1), q)
  BY DEF ScanIn
<1>2. /\ n \in Nat /\ \A q \in LapIdx(n) : q \in Nat /\ q < n
      /\ lo \in LapIdx(n) /\ \A m \in Nat : m < shi => m \in LapIdx(n)
      /\ \A q \in LapIdx(n) : list[q] \in LapIdx(n)
  BY ScanParts
<1>3. \A q \in LapIdx(n) : q < lo => q < shi /\ q < slo /\ q + 1 < slo
  BY <1>1, <1>2
<1>4. ReadyIn(n, red, y, list, d, lo)
  <2> SUFFICES ASSUME NEW q \in LapIdx(n), q < lo, NEW c \in LapIdx(n)
               PROVE  y[list[q]] >= 0 /\ RelaxedBy(red, y, d, list[q], c)
    BY DEF ReadyIn
  <2>1. PICK m \in LapIdx(n) : list[m] = c
    BY <1>1 DEF Permutes
  <2> QED
    BY <1>1, <1>3, <2>1
<1>5. \A m \in 0..(slo - 1) : m \in NearIn(n, list, d, d[list[lo]])
  <2> TAKE m \in 0..(slo - 1)
  <2>1. m < shi /\ m \in LapIdx(n)
    BY <1>1, <1>2
  <2> QED
    BY <1>1, <2>1 DEF NearIn
<1>6. \A q \in LapIdx(n) :
        PrecededBy(red, y, f, list, d, pred, NearIn(n, list, d, d[list[lo]]), q)
  <2> TAKE q \in LapIdx(n)
  <2>1. PrecededBy(red, y, f, list, d, pred, 0..(slo - 1), q)
    BY <1>1
  <2> QED
    BY <1>5, <2>1, Zenon DEF PrecededBy
<1>7. \A q \in LapIdx(n) : q < lo => d[list[q]] <= d[list[lo]]
  BY <1>1, <1>3
<1>8. lo < n /\ list[p] \in LapIdx(n)
  BY <1>2
<1> QED
  BY <1>1, <1>4, <1>6, <1>7, <1>8 DEF ReachedIn

\* It is as near, and assigned: it will be scanned too.
LEMMA ScanJoins ==
  ASSUME NEW n, NEW red, NEW y, NEW f, NEW list, NEW d, NEW pred,
         SearchTypes(n, red, y, f, list, d, pred),
         NEW lo \in Nat, NEW slo \in Nat, NEW shi \in Nat, NEW k \in LapIdx(n), NEW i, lo < slo,
         ScanIn(n, red, y, f, list, d, pred, lo, slo, shi, k + 1, i), shi <= k, i = slo - 1,
         d[list[k]] = d[list[lo]], y[list[k]] >= 0
  PROVE  ScanIn(n, red, y, f, Swapped(list, k, shi), d, pred, lo, slo, shi + 1, k + 1, i)
<1>1. /\ Permutes(list, n) /\ lo <= slo /\ slo <= shi /\ lo < shi /\ k + 1 <= n
      /\ RootedIn(n, red, f, d, pred)
      /\ \A p \in LapIdx(n) : p < shi => y[list[p]] >= 0 /\ d[list[p]] <= d[list[lo]]
      /\ \A p \in LapIdx(n) : lo <= p => d[list[lo]] <= d[list[p]]
      /\ \A m, p \in LapIdx(n) : m < slo /\ (m + 1 < slo \/ p < k + 1) =>
           RelaxedBy(red, y, d, list[m], list[p])
      /\ \A p \in LapIdx(n) : PrecededBy(red, y, f, list, d, pred, 0..(slo - 1), p)
  BY DEF ScanIn
<1>2. n \in Nat /\ k \in Nat /\ k + 1 \in Nat
  BY DEF SearchTypes, LapIdx
<1>3. /\ \A p \in LapIdx(n) : p \in Nat /\ p < n
      /\ lo \in LapIdx(n) /\ \A m \in Nat : m < shi => m \in LapIdx(n)
      /\ \A p \in LapIdx(n) : list[p] \in LapIdx(n) /\ d[list[p]] \in Int
  BY <1>2, ScanParts
<1>4. shi \in LapIdx(n)
  BY <1>1, <1>2 DEF LapIdx
<1>5. PICK s : s = Swapped(list, k, shi)
  OBVIOUS
<1>6. /\ Permutes(s, n) /\ s[k] = list[shi] /\ s[shi] = list[k]
      /\ \A p \in LapIdx(n) : p # k /\ p # shi => s[p] = list[p]
  BY <1>1, <1>2, <1>4, <1>5, SwapPermutes, SMTT(30)
<1>7. \A p \in LapIdx(n) : p < shi => p # k /\ p # shi /\ s[p] = list[p]
  BY <1>2, <1>3, <1>6
<1>8. s[lo] = list[lo]
  BY <1>1, <1>3, <1>7
<1>9. \A p \in LapIdx(n) : p < shi + 1 => y[s[p]] >= 0 /\ d[s[p]] <= d[s[lo]]
  <2> SUFFICES ASSUME NEW p \in LapIdx(n), p < shi + 1
               PROVE  y[s[p]] >= 0 /\ d[s[p]] <= d[list[lo]]
    BY <1>8
  <2>1. p < shi \/ p = shi
    BY <1>3
  <2>2. d[list[k]] <= d[list[lo]]
    BY <1>3
  <2> QED
    BY <1>1, <1>6, <1>7, <2>1, <2>2
<1>10. \A p \in LapIdx(n) : \E q \in LapIdx(n) : /\ s[p] = list[q] /\ (lo <= p => lo <= q)
                                               /\ (p < k + 1 => q < k + 1)
  <2> TAKE p \in LapIdx(n)
  <2>1. lo <= k /\ lo <= shi /\ k < k + 1 /\ shi < k + 1
    BY <1>1, <1>2
  <2> QED
    BY <1>4, <1>6, <2>1
<1>11. \A p \in LapIdx(n) : lo <= p => d[s[lo]] <= d[s[p]]
  BY <1>1, <1>8, <1>10
<1>12. \A m, p \in LapIdx(n) : m < slo /\ (m + 1 < slo \/ p < k + 1) =>
         RelaxedBy(red, y, d, s[m], s[p])
  <2> SUFFICES ASSUME NEW m \in LapIdx(n), NEW p \in LapIdx(n), m < slo,
                      m + 1 < slo \/ p < k + 1
               PROVE  RelaxedBy(red, y, d, s[m], s[p])
    OBVIOUS
  <2>1. s[m] = list[m]
    <3>1. m < shi
      BY <1>1, <1>3
    <3> QED
      BY <1>7, <3>1
  <2>2. PICK q \in LapIdx(n) : s[p] = list[q] /\ (p < k + 1 => q < k + 1)
    BY <1>10
  <2> QED
    BY <1>1, <2>1, <2>2
<1>13. \A p \in LapIdx(n) : PrecededBy(red, y, f, s, d, pred, 0..(slo - 1), p)
  <2>1. slo <= shi /\ slo <= k
    BY <1>1, <1>2
  <2> QED
    BY <1>1, <1>2, <1>4, <1>5, <2>1, PrecededSwapped
<1>14. slo <= shi + 1 /\ lo < shi + 1 /\ shi + 1 <= k + 1
  BY <1>1, <1>2
<1>15. ScanIn(n, red, y, f, s, d, pred, lo, slo, shi + 1, k + 1, i)
  BY <1>1, <1>6, <1>9, <1>11, <1>12, <1>13, <1>14 DEF ScanIn
<1> QED
  BY <1>5, <1>15

\* All that are as near are scanned: the next nearest are looked for.
LEMMA ScanEnds ==
  ASSUME NEW n, NEW red, NEW y, NEW f, NEW list, NEW d, NEW pred,
         SearchTypes(n, red, y, f, list, d, pred),
         NEW lo \in Nat, NEW slo \in Nat, NEW i,
         ScanIn(n, red, y, f, list, d, pred, lo, slo, slo, n, i)
  PROVE  FindIn(n, red, y, f, list, d, pred, slo, slo + 1, slo + 1)
<1>1. /\ Permutes(list, n) /\ lo <= slo /\ lo < slo /\ slo <= n
      /\ RootedIn(n, red, f, d, pred)
      /\ \A p \in LapIdx(n) : p < slo => y[list[p]] >= 0 /\ d[list[p]] <= d[list[lo]]
      /\ \A p \in LapIdx(n) : lo <= p => d[list[lo]] <= d[list[p]]
      /\ \A m, p \in LapIdx(n) : m < slo /\ (m + 1 < slo \/ p < n) =>
           RelaxedBy(red, y, d, list[m], list[p])
      /\ \A p \in LapIdx(n) : PrecededBy(red, y, f, list, d, pred, 0..(slo - 1), p)
  BY DEF ScanIn
<1>2. n \in Nat
  BY DEF SearchTypes
<1>3. /\ \A p \in LapIdx(n) : p \in Nat /\ p < n
      /\ lo \in LapIdx(n)
      /\ \A p \in LapIdx(n) : list[p] \in LapIdx(n) /\ d[list[p]] \in Int
  BY <1>2, ScanParts
<1>4. ReadyIn(n, red, y, list, d, slo)
  <2> SUFFICES ASSUME NEW p \in LapIdx(n), p < slo, NEW c \in LapIdx(n)
               PROVE  y[list[p]] >= 0 /\ RelaxedBy(red, y, d, list[p], c)
    BY DEF ReadyIn
  <2>1. PICK m \in LapIdx(n) : list[m] = c
    BY <1>1 DEF Permutes
  <2> QED
    BY <1>1, <1>3, <2>1
<1>5. \A p, q \in LapIdx(n) : p < slo /\ slo <= q => d[list[p]] <= d[list[q]]
  <2> SUFFICES ASSUME NEW p \in LapIdx(n), NEW q \in LapIdx(n), p < slo, slo <= q
               PROVE  d[list[p]] <= d[list[q]]
    OBVIOUS
  <2>1. lo <= q
    BY <1>1, <1>3
  <2>2. d[list[p]] <= d[list[lo]] /\ d[list[lo]] <= d[list[q]]
    BY <1>1, <2>1
  <2> QED
    BY <1>3, <2>2
<1>6. \A p \in LapIdx(n) : slo <= p /\ p < slo + 1 => p = slo
  BY <1>3
<1>7. /\ \A p \in LapIdx(n) : slo <= p /\ p < slo + 1 => d[list[slo]] <= d[list[p]]
      /\ \A p \in LapIdx(n) : slo <= p /\ p < slo + 1 => d[list[slo]] = d[list[p]]
  <2> SUFFICES ASSUME NEW p \in LapIdx(n), slo <= p, p < slo + 1
               PROVE  d[list[slo]] <= d[list[p]] /\ d[list[slo]] = d[list[p]]
    OBVIOUS
  <2> QED
    BY <1>3, <1>6
<1>8. slo < slo + 1 /\ slo + 1 <= slo + 1
  OBVIOUS
<1> QED
  BY <1>1, <1>4, <1>5, <1>7, <1>8 DEF FindIn

\* The reduced costs under prices v.
RedOf(n, cost, v) == [i \in LapIdx(n) |-> [j \in LapIdx(n) |-> cost[i][j] - v[j]]]

\* The prices of some columns have changed by how much they were nearer than e.
RepricedIn(n, red, new, d, done, e) ==
  \A r, c \in LapIdx(n) :
    new[r][c] = IF c \in done THEN red[r][c] - (d[c] - e) ELSE red[r][c]

\* The new prices keep every assigned column a cheapest one for its row, and make
\* every column of the path one for the row before it.
LEMMA PricesAgree ==
  ASSUME NEW n, NEW red, NEW y, NEW f, NEW list, NEW d, NEW pred,
         SearchTypes(n, red, y, f, list, d, pred),
         \A c \in LapIdx(n) : y[c] >= 0 => TightAt(n, red, y[c], c),
         NEW lo \in Nat, NEW j, ReachedIn(n, red, y, f, list, d, pred, lo, j),
         NEW new \in [LapIdx(n) -> [LapIdx(n) -> Int]], NEW done,
         done = {list[m] : m \in 0..(lo - 1)},
         RepricedIn(n, red, new, d, done, d[list[lo]])
  PROVE  /\ \A c \in LapIdx(n) : y[c] >= 0 => TightAt(n, new, y[c], c)
         /\ TrailIn(n, new, y, f, list, d, pred, d[list[lo]], j, 0)
<1>1. /\ Permutes(list, n) /\ lo < n /\ j \in LapIdx(n) /\ y[j] < 0 /\ d[j] = d[list[lo]]
      /\ ReadyIn(n, red, y, list, d, lo) /\ RootedIn(n, red, f, d, pred)
      /\ \A p \in LapIdx(n) : p < lo => d[list[p]] <= d[list[lo]]
      /\ \A p \in LapIdx(n) : lo <= p => d[list[lo]] <= d[list[p]]
      /\ \A p \in LapIdx(n) :
           PrecededBy(red, y, f, list, d, pred, NearIn(n, list, d, d[list[lo]]), p)
  BY DEF ReachedIn
<1>2. n \in Nat /\ \A p \in LapIdx(n) : p \in Nat /\ p < n
  BY DEF SearchTypes, LapIdx
<1>3. /\ \A p \in LapIdx(n) : list[p] \in LapIdx(n)
      /\ \A c \in LapIdx(n) : d[c] \in Int /\ y[c] \in LapIdx(n) \cup {-1}
      /\ \A r, c \in LapIdx(n) : red[r][c] \in Int /\ new[r][c] \in Int
      /\ f \in LapIdx(n)
      /\ \A p, q \in LapIdx(n) : list[p] = list[q] => p = q
      /\ \A c \in LapIdx(n) : \E p \in LapIdx(n) : list[p] = c
  BY <1>1 DEF SearchTypes, Permutes
<1>4. lo \in LapIdx(n)
  BY <1>1, <1>2 DEF LapIdx
<1>5. PICK e : e = d[list[lo]] /\ e \in Int
  BY <1>3, <1>4
<1>6. \A p \in LapIdx(n) : list[p] \in done <=> p < lo
  <2> TAKE p \in LapIdx(n)
  <2>1. \A m \in 0..(lo - 1) : m \in LapIdx(n) /\ m < lo
    BY <1>1, <1>2 DEF LapIdx
  <2>2. p < lo => p \in 0..(lo - 1)
    BY <1>2
  <2> QED
    BY <1>3, <2>1, <2>2
<1>7. PICK s : s = [c \in LapIdx(n) |-> IF c \in done THEN d[c] - e ELSE 0]
  OBVIOUS
<1>8. /\ \A c \in LapIdx(n) : s[c] \in Int
      /\ \A r, c \in LapIdx(n) : new[r][c] = red[r][c] - s[c]
  <2>1. \A c \in LapIdx(n) : s[c] = IF c \in done THEN d[c] - e ELSE 0
    BY <1>7
  <2>2. ASSUME NEW c \in LapIdx(n) PROVE s[c] \in Int
    <3>1. d[c] \in Int
      BY <1>3
    <3>2. s[c] = IF c \in done THEN d[c] - e ELSE 0
      BY <2>1
    <3> QED
      BY <1>5, <3>1, <3>2
  <2>3. ASSUME NEW r \in LapIdx(n), NEW c \in LapIdx(n) PROVE new[r][c] = red[r][c] - s[c]
    <3>1. red[r][c] \in Int
      BY <1>3
    <3>2. new[r][c] = IF c \in done THEN red[r][c] - (d[c] - e) ELSE red[r][c]
      BY <1>5 DEF RepricedIn
    <3>3. d[c] \in Int
      BY <1>3
    <3> QED
      BY <1>5, <2>1, <3>1, <3>2, <3>3
  <2> QED
    BY <2>2, <2>3
<1>9. \A c \in LapIdx(n) : s[c] <= 0 /\ s[c] <= d[c] - e /\ (d[c] <= e => s[c] = d[c] - e)
  <2> TAKE c \in LapIdx(n)
  <2>1. PICK p \in LapIdx(n) : list[p] = c
    BY <1>3
  <2>2. CASE p < lo
    <3>1. c \in done /\ d[c] <= e
      BY <1>1, <1>5, <1>6, <2>1, <2>2
    <3>2. s[c] = d[c] - e
      BY <1>7, <3>1
    <3>3. d[c] \in Int
      BY <1>3
    <3> QED
      BY <1>5, <3>1, <3>2, <3>3
  <2>3. CASE ~(p < lo)
    <3>1. c \notin done /\ e <= d[c]
      BY <1>1, <1>2, <1>5, <1>6, <2>1, <2>3
    <3>2. s[c] = 0
      BY <1>7, <3>1
    <3>3. d[c] \in Int
      BY <1>3
    <3> QED
      BY <1>5, <3>1, <3>2, <3>3
  <2> QED
    BY <2>2, <2>3
<1>10. ASSUME NEW c \in LapIdx(n), y[c] >= 0 PROVE TightAt(n, new, y[c], c)
  <2>1. PICK r : r = y[c] /\ r \in LapIdx(n)
    BY <1>3, <1>10
  <2> SUFFICES ASSUME NEW q \in LapIdx(n) PROVE new[r][c] <= new[r][q]
    BY <2>1 DEF TightAt
  <2>2. red[r][c] <= red[r][q] /\ red[r][c] \in Int /\ red[r][q] \in Int
    BY <1>3, <1>10, <2>1 DEF TightAt
  <2>3. /\ new[r][c] = red[r][c] - s[c] /\ new[r][q] = red[r][q] - s[q]
        /\ s[c] \in Int /\ s[q] \in Int /\ d[c] \in Int /\ d[q] \in Int
    BY <1>3, <1>8, <2>1
  <2>4. CASE c \in done
    <3>1. PICK p \in LapIdx(n) : list[p] = c
      BY <1>3
    <3>2. p < lo
      BY <1>6, <2>4, <3>1
    <3>3. d[q] <= d[c] + red[r][q] - red[r][c]
      BY <1>1, <2>1, <3>1, <3>2 DEF ReadyIn, RelaxedBy
    <3>4. s[c] = d[c] - e
      BY <1>7, <2>4
    <3>5. s[q] <= d[q] - e
      BY <1>9
    <3> QED
      BY <1>5, <2>2, <2>3, <3>3, <3>4, <3>5
  <2>5. CASE c \notin done
    <3>1. s[c] = 0
      BY <1>7, <2>5
    <3>2. s[q] <= 0
      BY <1>9
    <3> QED
      BY <2>2, <2>3, <3>1, <3>2
  <2> QED
    BY <2>4, <2>5
<1>11. ASSUME NEW q \in NearIn(n, list, d, e)
       PROVE  TrailStep(n, new, y, f, list, d, pred, e, q)
  <2>1. q \in LapIdx(n) /\ d[list[q]] <= e
    BY <1>11 DEF NearIn
  <2>2. PICK c, r : c = list[q] /\ r = pred[c]
    OBVIOUS
  <2>3. c \in LapIdx(n) /\ r \in LapIdx(n) /\ s[c] = d[c] - e /\ d[c] \in Int /\ s[c] \in Int
    BY <1>1, <1>3, <1>8, <1>9, <2>1, <2>2 DEF RootedIn
  <2>4. PrecededBy(red, y, f, list, d, pred, NearIn(n, list, d, e), q)
    BY <1>1, <1>5, <2>1
  <2>5. CASE r = f /\ d[c] = red[f][c]
    <3>1. TightAt(n, new, r, c)
      <4> SUFFICES ASSUME NEW b \in LapIdx(n) PROVE new[r][c] <= new[r][b]
        BY DEF TightAt
      <4>1. d[b] <= red[r][b] /\ s[b] <= d[b] - e
        BY <1>1, <1>9, <2>5 DEF RootedIn
      <4>2. /\ new[r][c] = red[r][c] - s[c] /\ new[r][b] = red[r][b] - s[b]
            /\ s[b] \in Int /\ d[b] \in Int /\ red[r][b] \in Int /\ red[r][c] \in Int
        BY <1>3, <1>8, <2>3
      <4> QED
        BY <1>5, <2>3, <2>5, <4>1, <4>2
    <3> QED
      BY <2>2, <2>3, <2>5, <3>1 DEF TrailStep
  <2>6. CASE ~(r = f /\ d[c] = red[f][c])
    <3>1. PICK m \in NearIn(n, list, d, e) : /\ m < q /\ y[list[m]] = r
                  /\ d[c] = d[list[m]] + red[r][c] - red[r][list[m]]
      BY <2>2, <2>4, <2>6 DEF PrecededBy
    <3>2. PICK b : b = list[m] /\ b \in LapIdx(n)
      BY <1>3, <3>1 DEF NearIn
    <3>3. d[b] <= e /\ s[b] = d[b] - e /\ d[b] \in Int /\ s[b] \in Int
      BY <1>3, <1>8, <1>9, <3>1, <3>2 DEF NearIn
    <3>4. r >= 0
      BY <1>2, <2>3
    <3>5. TightAt(n, new, r, b)
      BY <1>10, <3>1, <3>2, <3>4
    <3>6. new[r][c] = new[r][b]
      <4>1. /\ new[r][c] = red[r][c] - s[c] /\ new[r][b] = red[r][b] - s[b]
            /\ red[r][b] \in Int /\ red[r][c] \in Int
        BY <1>3, <1>8, <2>3, <3>2
      <4> QED
        BY <1>5, <2>3, <3>1, <3>2, <3>3, <4>1
    <3>7. TightAt(n, new, r, c)
      BY <3>5, <3>6 DEF TightAt
    <3> QED
      BY <2>2, <2>3, <3>1, <3>7 DEF TrailStep
  <2> QED
    BY <2>5, <2>6
<1>12. TrailIn(n, new, y, f, list, d, pred, e, j, 0)
  <2>1. PICK p \in LapIdx(n) : list[p] = j
    BY <1>1, <1>3
  <2>2. p \in NearIn(n, list, d, e)
    BY <1>1, <1>5, <2>1 DEF NearIn
  <2>3. 0 + p < n
    BY <1>2
  <2> QED
    BY <1>11, <2>1, <2>2, <2>3 DEF TrailIn
<1> QED
  BY <1>5, <1>10, <1>12

\* The row before column j takes it.
TakenIn(n, red, f, list, d, pred, e, x, u, w, wait, later, i, j, k) ==
  /\ i \in LapIdx(n) /\ j \in LapIdx(n) /\ k + 1 <= n
  /\ i = f => AgreeIn(n, red, u, w, {}, later) /\ AssignedIn(n, w, {}, later)
  /\ i # f => /\ AgreeIn(n, red, u, w, {x[i]}, wait)
              /\ AssignedIn(n, w, {x[i]}, wait)
              /\ TrailIn(n, red, w, f, list, d, pred, e, x[i], k + 1)

\* One step back along the path: column j goes to the row before it.  Either that
\* is f and the path is at its end, or the column the row had is to be given next.
LEMMA AugmentStep ==
  ASSUME NEW n, NEW red, NEW y, NEW f, NEW list, NEW d, NEW pred,
         SearchTypes(n, red, y, f, list, d, pred), Permutes(list, n),
         NEW x \in [LapIdx(n) -> LapIdx(n) \cup {-1}], NEW wait, NEW later,
         f \in wait, wait \subseteq later \cup {f}, f \notin later, later \subseteq wait,
         NEW e, NEW j, NEW k \in Nat, NEW i, i = pred[j],
         TrailIn(n, red, y, f, list, d, pred, e, j, k),
         AgreeIn(n, red, x, y, {j}, wait), AssignedIn(n, y, {j}, wait),
         NEW u, u = [x EXCEPT ![i] = j], NEW w, w = [y EXCEPT ![j] = i]
  PROVE  TakenIn(n, red, f, list, d, pred, e, x, u, w, wait, later, i, j, k)
<1>1. PICK p \in NearIn(n, list, d, e) : /\ j = list[p] /\ k + p < n
        /\ \A q \in NearIn(n, list, d, e) :
             q <= p => TrailStep(n, red, y, f, list, d, pred, e, q)
  BY DEF TrailIn
<1>2. n \in Nat /\ \A q \in LapIdx(n) : q \in Nat /\ q < n
  BY DEF SearchTypes, LapIdx
<1>3. /\ p \in LapIdx(n) /\ j \in LapIdx(n) /\ p \in Nat
      /\ \A q \in NearIn(n, list, d, e) : q \in LapIdx(n)
  BY <1>1, <1>2 DEF NearIn, SearchTypes
<1>4. /\ i \in LapIdx(n) /\ TightAt(n, red, i, j)
      /\ i = f \/ \E m \in NearIn(n, list, d, e) : m < p /\ y[list[m]] = i
  <2>1. TrailStep(n, red, y, f, list, d, pred, e, p)
    BY <1>1, <1>3
  <2> QED
    BY <1>1, <2>1 DEF TrailStep
<1>5. /\ w[j] = i /\ \A c \in LapIdx(n) : c # j => w[c] = y[c]
      /\ u[i] = j /\ \A r \in LapIdx(n) : r # i => u[r] = x[r]
  BY <1>3, <1>4 DEF SearchTypes
<1>6. k + 1 <= n
  BY <1>1, <1>2, <1>3
<1>7. \A c \in LapIdx(n) : c # j /\ y[c] >= 0 =>
        x[y[c]] = c /\ y[c] \notin wait /\ TightAt(n, red, y[c], c) /\ y[c] \in LapIdx(n)
  BY DEF AgreeIn, SearchTypes
<1>8. ASSUME i = f
      PROVE  AgreeIn(n, red, u, w, {}, later) /\ AssignedIn(n, w, {}, later)
  <2>1. AgreeIn(n, red, u, w, {}, later)
    <3> SUFFICES ASSUME NEW c \in LapIdx(n), w[c] >= 0
                 PROVE  u[w[c]] = c /\ w[c] \notin later /\ TightAt(n, red, w[c], c)
      BY DEF AgreeIn
    <3>1. CASE c = j
      BY <1>4, <1>5, <1>8, <3>1
    <3>2. CASE c # j
      <4>1. w[c] = y[c] /\ y[c] # f /\ y[c] \in LapIdx(n) /\ y[c] \notin later
        BY <1>5, <1>7, <3>2
      <4> QED
        BY <1>5, <1>7, <1>8, <3>2, <4>1
    <3> QED
      BY <3>1, <3>2
  <2>2. AssignedIn(n, w, {}, later)
    <3> SUFFICES ASSUME NEW r \in LapIdx(n), r \notin later PROVE \E c \in LapIdx(n) : w[c] = r
      BY DEF AssignedIn
    <3>1. CASE r = f
      BY <1>3, <1>5, <1>8, <3>1
    <3>2. CASE r # f
      <4>1. r \notin wait
        BY <3>2
      <4>2. PICK c \in LapIdx(n) \ {j} : y[c] = r
        BY <4>1 DEF AssignedIn
      <4> QED
        BY <1>5, <4>2
    <3> QED
      BY <3>1, <3>2
  <2> QED
    BY <2>1, <2>2
<1>9. ASSUME i # f
      PROVE  /\ AgreeIn(n, red, u, w, {x[i]}, wait)
             /\ AssignedIn(n, w, {x[i]}, wait)
             /\ TrailIn(n, red, w, f, list, d, pred, e, x[i], k + 1)
  <2>1. PICK m \in NearIn(n, list, d, e) : m < p /\ y[list[m]] = i
    BY <1>4, <1>9
  <2>2. PICK b : b = list[m] /\ b \in LapIdx(n) /\ m \in LapIdx(n) /\ m \in Nat
    BY <1>2, <1>3, <2>1 DEF SearchTypes
  <2>3. b # j
    BY <1>1, <1>2, <1>3, <2>1, <2>2 DEF Permutes
  <2>4. x[i] = b /\ y[b] = i /\ i >= 0 /\ i \notin wait
    BY <1>2, <1>4, <1>7, <2>1, <2>2, <2>3
  <2>5. AgreeIn(n, red, u, w, {b}, wait)
    <3> SUFFICES ASSUME NEW c \in LapIdx(n), c # b, w[c] >= 0
                 PROVE  u[w[c]] = c /\ w[c] \notin wait /\ TightAt(n, red, w[c], c)
      BY DEF AgreeIn
    <3>1. CASE c = j
      BY <1>4, <1>5, <2>4, <3>1
    <3>2. CASE c # j
      <4>1. /\ w[c] = y[c] /\ x[y[c]] = c /\ y[c] \in LapIdx(n) /\ y[c] \notin wait
            /\ TightAt(n, red, y[c], c)
        BY <1>5, <1>7, <3>2
      <4>2. y[c] # i
        BY <2>4, <4>1
      <4> QED
        BY <1>5, <4>1, <4>2
    <3> QED
      BY <3>1, <3>2
  <2>6. AssignedIn(n, w, {b}, wait)
    <3> SUFFICES ASSUME NEW r \in LapIdx(n), r \notin wait
                 PROVE  \E c \in LapIdx(n) \ {b} : w[c] = r
      BY DEF AssignedIn
    <3>1. PICK c \in LapIdx(n) \ {j} : y[c] = r
      BY DEF AssignedIn
    <3>2. CASE c = b
      <4>1. r = i
        BY <2>4, <3>1, <3>2
      <4> QED
        BY <1>3, <1>5, <2>3, <4>1
    <3>3. CASE c # b
      BY <1>5, <3>1, <3>3
    <3> QED
      BY <3>2, <3>3
  <2>7. TrailIn(n, red, w, f, list, d, pred, e, b, k + 1)
    <3>1. (k + 1) + m < n
      BY <1>1, <1>2, <1>3, <2>1, <2>2
    <3>2. ASSUME NEW q \in NearIn(n, list, d, e), q <= m
          PROVE  TrailStep(n, red, w, f, list, d, pred, e, q)
      <4>1. q \in LapIdx(n) /\ q \in Nat /\ q <= p
        BY <1>2, <1>3, <2>1, <2>2, <3>2
      <4>2. TrailStep(n, red, y, f, list, d, pred, e, q)
        BY <1>1, <3>2, <4>1
      <4>3. PICK r : r = pred[list[q]]
        OBVIOUS
      <4>4. /\ r \in LapIdx(n) /\ TightAt(n, red, r, list[q])
            /\ r = f \/ \E a \in NearIn(n, list, d, e) : a < q /\ y[list[a]] = r
        BY <4>2, <4>3 DEF TrailStep
      <4>5. r = f \/ \E a \in NearIn(n, list, d, e) : a < q /\ w[list[a]] = r
        <5> SUFFICES ASSUME r # f
                     PROVE  \E a \in NearIn(n, list, d, e) : a < q /\ w[list[a]] = r
          OBVIOUS
        <5>1. PICK a \in NearIn(n, list, d, e) : a < q /\ y[list[a]] = r
          BY <4>4
        <5>2. a \in LapIdx(n) /\ a \in Nat /\ a # p
          BY <1>2, <1>3, <4>1, <5>1
        <5>3. list[a] \in LapIdx(n) /\ list[a] # j
          BY <1>1, <1>3, <5>2 DEF Permutes
        <5> QED
          BY <1>5, <5>1, <5>3
      <4> QED
        BY <4>3, <4>4, <4>5 DEF TrailStep
    <3> QED
      BY <2>1, <2>2, <3>1, <3>2 DEF TrailIn
  <2> QED
    BY <2>4, <2>5, <2>6, <2>7
<1> QED
  BY <1>3, <1>4, <1>6, <1>8, <1>9, Zenon DEF TakenIn

-----------------------------------------------------------------------------
(* The invariant of lapjv_internal, of its variables L.                    *)

\* The types of the variables.
LapPlace ==
  {"reduce", "transfer", "rounds", "carr", "ca", "find", "scan", "prices", "augment", "done"}
LapInts(n) == [LapIdx(n) -> Int]
LapMatrices(n) == [LapIdx(n) -> [LapIdx(n) -> Int]]
LapOne(n) == LapIdx(n) \cup {-1}
LapMany(n) == [LapIdx(n) -> LapIdx(n) \cup {-1}]
LapNumber == Nat \cup {-1}

LapRec(n) ==
  [at : LapPlace, rows : Nat, cols : Nat, n : {n}, cost : LapMatrices(n),
   x : LapMany(n), y : LapMany(n), v : LapInts(n), freeRows : LapMany(n),
   n_free : Nat, ret : Nat, current : Nat, rr : Nat, round : Nat, pfree : Nat,
   d : LapInts(n), list : LapMany(n), pred : LapMany(n),
   lo : Nat, hi : Nat, slo : Nat, shi : Nat, k : Nat, i : LapNumber, j : LapOne(n), ready : Nat]

LapTyped(L) == L.n \in Nat /\ L \in LapRec(L.n)

\* lapjv extends the costs by rows and columns of its own.
LapMatrix(L) ==
  /\ L.n = L.rows + L.cols /\ L.rows > 0 /\ L.cols > 0
  /\ \A r, c \in LapIdx(L.n) :
       /\ r >= L.rows /\ c >= L.cols => L.cost[r][c] = 0
       /\ r < L.rows /\ c >= L.cols => L.cost[r][c] = LapHalf
       /\ r >= L.rows /\ c < L.cols => L.cost[r][c] = LapHalf

\* The reduced costs.
LapRed(L) == RedOf(L.n, L.cost, L.v)

\* The row that a path is looked for.
LapRow(L) == L.freeRows[L.pfree]

\* The places of freeRows in use.
LapSlot(L, m) ==
  \/ L.at = "transfer" /\ m < L.n_free
  \/ L.at = "rounds" /\ m < L.ret
  \/ L.at = "carr" /\ (m < L.ret \/ (L.current <= m /\ m < L.n_free))
  \/ L.at \in {"ca", "find", "scan", "prices"} /\ L.pfree <= m /\ m < L.n_free
  \/ L.at = "augment" /\ L.pfree <= m /\ m < L.n_free /\ (L.i = LapRow(L) => m # L.pfree)

LapSlots(L) == {m \in LapIdx(L.n) : LapSlot(L, m)}

\* The rows that have had no column yet.
LapUntold(L) ==
  {r \in LapIdx(L.n) : L.at = "reduce" \/ (L.at = "transfer" /\ r >= L.k /\ L.x[r] = -1)}

\* The rows that are not assigned.
LapWaiting(L) == {L.freeRows[m] : m \in LapSlots(L)} \cup LapUntold(L)

\* The column that is being given from one row to another.
LapOpen(L) == IF L.at = "augment" /\ L.i # LapRow(L) THEN {L.j} ELSE {}

\* freeRows names no row twice.
LapSlotted(L) ==
  /\ \A m \in LapSlots(L) : L.freeRows[m] \in LapIdx(L.n)
  /\ \A m, q \in LapSlots(L) : L.freeRows[m] = L.freeRows[q] => m = q

\* How the indices into freeRows stand to each other.
LapBounds(L) ==
  /\ L.at = "reduce" => L.n_free = 0
  /\ L.at = "transfer" => /\ L.n_free <= L.k /\ L.k <= L.n
                          /\ \A m \in LapSlots(L) : L.freeRows[m] < L.k
  /\ L.at = "rounds" => L.ret <= L.n
  /\ L.at = "carr" => L.ret <= L.current /\ L.current <= L.n_free
  /\ L.at = "ca" => L.pfree <= L.n_free
  /\ L.at \in {"find", "scan", "prices", "augment"} =>
       L.pfree < L.n_free /\ LapRow(L) \in LapIdx(L.n)
  /\ L.at \in {"carr", "ca", "find", "scan", "prices", "augment"} => L.n_free <= L.n
  /\ L.at = "augment" => \A m \in LapSlots(L) : m # L.pfree => L.freeRows[m] # LapRow(L)

\* Assigned columns are cheapest ones, and a row that is not assigned waits.
LapAgree(L) == AgreeIn(L.n, LapRed(L), L.x, L.y, LapOpen(L), LapWaiting(L))
LapAssigned(L) == AssignedIn(L.n, L.y, LapOpen(L), LapWaiting(L))

\* Before the row reduction no reduced cost is negative, and x agrees with y too.
LapTransferring(L) ==
  /\ L.at = "reduce" => \A c \in LapIdx(L.n) : L.y[c] = -1
  /\ L.at = "transfer" =>
       /\ \A r \in LapIdx(L.n) : L.x[r] >= 0 => L.y[L.x[r]] = r
       /\ \A r, c \in LapIdx(L.n) : LapRed(L)[r][c] >= 0
       /\ \A r \in LapIdx(L.n) : r >= L.k /\ L.x[r] >= 0 => LapRed(L)[r][L.x[r]] = 0

\* The search, phase by phase.
LapSearching(L) ==
  /\ L.at \in {"find", "scan", "prices", "augment"} =>
       L.pred \in [LapIdx(L.n) -> LapIdx(L.n)] /\ Permutes(L.list, L.n)
  /\ L.at = "find" =>
       FindIn(L.n, LapRed(L), L.y, LapRow(L), L.list, L.d, L.pred, L.lo, L.hi, L.k)
  /\ L.at = "scan" =>
       /\ L.ready = L.lo
       /\ ScanIn(L.n, LapRed(L), L.y, LapRow(L), L.list, L.d, L.pred,
                 L.lo, L.slo, L.shi, L.k, L.i)
  /\ L.at = "prices" =>
       /\ L.ready = L.lo
       /\ ReachedIn(L.n, LapRed(L), L.y, LapRow(L), L.list, L.d, L.pred, L.lo, L.j)
  /\ L.at = "augment" =>
       IF L.i = LapRow(L) THEN L.k <= L.n
       ELSE TrailIn(L.n, LapRed(L), L.y, LapRow(L), L.list, L.d, L.pred,
                    L.d[L.list[L.lo]], L.j, L.k)

\* The inductive invariant.
LapInv(L) ==
  /\ LapTyped(L) /\ LapMatrix(L) /\ LapSlotted(L) /\ LapBounds(L) /\ LapAgree(L)
  /\ LapAssigned(L) /\ LapTransferring(L) /\ LapSearching(L)

\* What a search of a path leaves as it is.
LapKept(K, L) ==
  /\ K.n = L.n /\ K.rows = L.rows /\ K.cols = L.cols /\ K.cost = L.cost
  /\ K.x = L.x /\ K.y = L.y /\ K.v = L.v
  /\ K.freeRows = L.freeRows /\ K.n_free = L.n_free /\ K.pfree = L.pfree

\* A step of the search: all else is as before.
LEMMA LapSearchGoesOn ==
  ASSUME NEW L, NEW K, LapInv(L), LapTyped(K), LapKept(K, L),
         L.at \in {"ca", "find", "scan"}, L.pfree < L.n_free,
         K.at \in {"find", "scan", "prices"}, LapSearching(K)
  PROVE  LapInv(K)
<1>1. /\ K.n = L.n /\ K.x = L.x /\ K.y = L.y /\ LapRow(K) = LapRow(L) /\ LapRed(K) = LapRed(L)
      /\ K.n_free = L.n_free /\ K.pfree = L.pfree /\ K.freeRows = L.freeRows
  BY DEF LapKept, LapRow, LapRed
<1>2. \A m : LapSlot(K, m) <=> LapSlot(L, m)
  BY <1>1 DEF LapSlot
<1>3. LapSlots(K) = LapSlots(L)
  BY <1>1, <1>2 DEF LapSlots
<1>4. LapUntold(K) = {} /\ LapUntold(L) = {}
  BY DEF LapUntold
<1>5. LapWaiting(K) = LapWaiting(L)
  BY <1>1, <1>3, <1>4 DEF LapWaiting
<1>6. LapOpen(K) = {} /\ LapOpen(L) = {}
  BY DEF LapOpen
<1>7. LapMatrix(K)
  BY DEF LapInv, LapMatrix, LapKept
<1>8. LapAgree(K) /\ LapAssigned(K)
  BY <1>1, <1>5, <1>6 DEF LapInv, LapAgree, LapAssigned
<1>9. LapSlotted(K)
  BY <1>1, <1>3 DEF LapInv, LapSlotted
<1>10. LapTransferring(K)
  BY DEF LapTransferring
<1>11. L.n_free <= L.n /\ L.pfree \in LapSlots(L)
  <2>1. L.n \in Nat /\ L.n_free \in Nat /\ L.pfree \in Nat
    BY DEF LapInv, LapTyped, LapRec
  <2>2. L.n_free <= L.n
    BY DEF LapInv, LapBounds
  <2>3. L.pfree \in LapIdx(L.n)
    BY <2>1, <2>2 DEF LapIdx
  <2>4. LapSlot(L, L.pfree)
    BY <2>1 DEF LapSlot
  <2> QED
    BY <2>2, <2>3, <2>4 DEF LapSlots
<1>12. LapRow(L) \in LapIdx(L.n)
  BY <1>11 DEF LapInv, LapSlotted, LapRow
<1>13. LapBounds(K)
  BY <1>1, <1>11, <1>12 DEF LapBounds
<1> QED
  BY <1>7, <1>8, <1>9, <1>10, <1>13 DEF LapInv

\* The reduced costs, entry by entry.
LEMMA LapRedIs ==
  ASSUME NEW L, LapTyped(L)
  PROVE  /\ LapRed(L) \in [LapIdx(L.n) -> [LapIdx(L.n) -> Int]]
         /\ \A r, c \in LapIdx(L.n) : LapRed(L)[r][c] = L.cost[r][c] - L.v[c]
         /\ \A r, c \in LapIdx(L.n) : L.cost[r][c] \in Int /\ L.v[c] \in Int
<1>1. PICK n, cost, v : n = L.n /\ cost = L.cost /\ v = L.v
  OBVIOUS
<1>2. cost \in [LapIdx(n) -> [LapIdx(n) -> Int]] /\ v \in [LapIdx(n) -> Int]
  BY <1>1 DEF LapTyped, LapRec, LapMatrices, LapInts
<1>3. LapRed(L) = [r \in LapIdx(n) |-> [c \in LapIdx(n) |-> cost[r][c] - v[c]]]
  BY <1>1 DEF LapRed, RedOf
<1>4. \A r, c \in LapIdx(n) : cost[r][c] \in Int /\ v[c] \in Int /\ cost[r][c] - v[c] \in Int
  BY <1>2
<1> QED
  BY <1>1, <1>3, <1>4

\* The types of the arrays and numbers.
LEMMA LapFields ==
  ASSUME NEW L, LapTyped(L)
  PROVE  /\ L.n \in Nat /\ L.at \in LapPlace
         /\ L.x \in [LapIdx(L.n) -> LapIdx(L.n) \cup {-1}]
         /\ L.y \in [LapIdx(L.n) -> LapIdx(L.n) \cup {-1}]
         /\ L.freeRows \in [LapIdx(L.n) -> LapIdx(L.n) \cup {-1}]
         /\ L.v \in [LapIdx(L.n) -> Int] /\ L.d \in [LapIdx(L.n) -> Int]
         /\ L.rows \in Nat /\ L.cols \in Nat /\ L.n_free \in Nat /\ L.ret \in Nat
         /\ L.current \in Nat /\ L.rr \in Nat /\ L.round \in Nat /\ L.pfree \in Nat
         /\ L.lo \in Nat /\ L.hi \in Nat /\ L.slo \in Nat /\ L.shi \in Nat /\ L.k \in Nat
         /\ L.i \in Nat \cup {-1} /\ L.j \in LapIdx(L.n) \cup {-1} /\ L.ready \in Nat
<1>1. L.n \in Nat /\ L \in LapRec(L.n)
  BY DEF LapTyped
<1> QED
  BY <1>1 DEF LapRec, LapInts, LapMany, LapOne, LapNumber

\* What the search works on.
LEMMA LapSearchTyped ==
  ASSUME NEW L, LapInv(L), L.at \in {"find", "scan", "prices", "augment"}
  PROVE  /\ SearchTypes(L.n, LapRed(L), L.y, LapRow(L), L.list, L.d, L.pred)
         /\ Permutes(L.list, L.n) /\ L.pred \in [LapIdx(L.n) -> LapIdx(L.n)]
<1>1. LapTyped(L) /\ LapRow(L) \in LapIdx(L.n)
  BY DEF LapInv, LapBounds
<1>2. Permutes(L.list, L.n) /\ L.pred \in [LapIdx(L.n) -> LapIdx(L.n)]
  BY DEF LapInv, LapSearching
<1>3. \A p \in LapIdx(L.n) : L.list[p] \in LapIdx(L.n)
  BY <1>2 DEF Permutes
<1>4. LapRed(L) \in [LapIdx(L.n) -> [LapIdx(L.n) -> Int]]
  BY <1>1, LapRedIs
<1>5. /\ L.n \in Nat /\ L.y \in [LapIdx(L.n) -> LapIdx(L.n) \cup {-1}]
      /\ L.d \in [LapIdx(L.n) -> Int]
  BY <1>1, LapFields
<1> QED
  BY <1>1, <1>2, <1>3, <1>4, <1>5 DEF SearchTypes

\* While no column is being given away, every assigned one is a cheapest one for
\* its row.
LEMMA LapAllTight ==
  ASSUME NEW L, LapInv(L), LapOpen(L) = {}
  PROVE  \A c \in LapIdx(L.n) : L.y[c] >= 0 => TightAt(L.n, LapRed(L), L.y[c], c)
<1>1. AgreeIn(L.n, LapRed(L), L.x, L.y, {}, LapWaiting(L))
  BY DEF LapInv, LapAgree
<1> QED
  BY <1>1 DEF AgreeIn

-----------------------------------------------------------------------------
(* _find_dense and _scan_dense                                             *)

\* Nothing but the row leads to a column yet.
LapPathFrom(n, f, list, pred) ==
  list = [i \in LapIdx(n) |-> i] /\ pred = [i \in LapIdx(n) |-> f]

\* The fields at the start of a path.
LEMMA LapPathFields ==
  ASSUME NEW n, NEW L \in LapRec(n), NEW at \in LapPlace, NEW zero \in Nat, NEW one \in Nat,
         NEW list \in LapMany(n), NEW pred \in LapMany(n), NEW d \in LapInts(n),
         NEW K, K = [L EXCEPT !.at = at, !.lo = zero, !.hi = one, !.k = one, !.ready = zero,
                              !.list = list, !.pred = pred, !.d = d]
  PROVE  K \in LapRec(n)
BY ZenonT(60) DEF LapRec

\* A path starts at the next free row: every column is as far as from that row.
LEMMA LapPathStartsKeeps ==
  ASSUME NEW L, NEW K, LapInv(L), L.at = "ca", L.pfree < L.n_free,
         NEW n, n = L.n, NEW f, f = LapRow(L), NEW list, NEW pred, LapPathFrom(n, f, list, pred),
         NEW d, d = LapRed(L)[f],
         K = [L EXCEPT !.at = "find", !.lo = 0, !.hi = 1, !.k = 1, !.ready = 0, !.list = list,
                       !.pred = pred, !.d = d]
  PROVE  LapInv(K)
<1> list = [i \in LapIdx(n) |-> i] /\ pred = [i \in LapIdx(n) |-> f]
  BY DEF LapPathFrom
<1>2. n \in Nat /\ L \in LapRec(n) /\ LapTyped(L)
  BY DEF LapInv, LapTyped
<1>4. f \in LapIdx(n) /\ n > 0
  <2>1. L.n_free \in Nat /\ L.pfree \in Nat
    BY <1>2, LapFields
  <2>2. L.n_free <= n
    BY DEF LapInv, LapBounds
  <2>3. L.pfree \in LapIdx(n)
    BY <1>2, <2>1, <2>2 DEF LapIdx
  <2>4. LapSlot(L, L.pfree)
    BY <2>1 DEF LapSlot
  <2>5. L.pfree \in LapSlots(L)
    BY <2>3, <2>4 DEF LapSlots
  <2>6. f \in LapIdx(n)
    BY <2>5 DEF LapInv, LapSlotted, LapRow
  <2> QED
    BY <1>2, <2>1, <2>2, <2>6
<1>5. LapRed(L) \in [LapIdx(n) -> [LapIdx(n) -> Int]]
  BY <1>2, LapRedIs
<1>6. list \in [LapIdx(n) -> LapIdx(n)] /\ pred \in [LapIdx(n) -> LapIdx(n)] /\ d \in LapInts(n)
  BY <1>4, <1>5 DEF LapInts
<1>7. /\ list \in LapMany(n) /\ pred \in LapMany(n) /\ "find" \in LapPlace
      /\ 0 \in Nat /\ 1 \in Nat /\ d \in LapInts(n) /\ L \in LapRec(n)
  BY <1>2, <1>6 DEF LapMany, LapPlace
<1>8. K \in LapRec(n)
  BY <1>7, LapPathFields, ZenonT(40)
<1>9. /\ K.at = "find" /\ K.lo = 0 /\ K.hi = 1 /\ K.k = 1 /\ K.list = list /\ K.pred = pred
      /\ K.d = d /\ LapKept(K, L)
  BY <1>2, ZenonT(60) DEF LapRec, LapKept
<1>10. LapTyped(K)
  BY <1>2, <1>8, <1>9 DEF LapTyped, LapKept
<1>11. FindIn(n, LapRed(L), L.y, f, list, d, pred, 0, 1, 1)
  BY <1>2, <1>4, <1>5, FindBegins
<1>12. Permutes(list, n)
  BY <1>11 DEF FindIn
<1>13. /\ K.n = n /\ LapRed(K) = LapRed(L) /\ K.y = L.y /\ LapRow(K) = f
  BY <1>9 DEF LapKept, LapRed, LapRow
<1>14. LapSearching(K)
  BY <1>6, <1>9, <1>11, <1>12, <1>13 DEF LapSearching
<1> QED
  BY <1>9, <1>10, <1>14, LapSearchGoesOn

\* The fields after a step of _find_dense.
LEMMA LapFindFields ==
  ASSUME NEW n, NEW L \in LapRec(n), NEW more \in Nat, NEW list \in LapMany(n), NEW hi \in Nat,
         NEW K, K = [L EXCEPT !.k = more, !.list = list, !.hi = hi]
  PROVE  K \in LapRec(n)
BY ZenonT(60) DEF LapRec

\* _find_dense looks at the next column: it is one of the nearest, the first of them,
\* or none.
LEMMA LapFindKeeps ==
  ASSUME NEW L, NEW K, LapInv(L), L.at = "find", NEW n, n = L.n, NEW k, k = L.k, k < n,
         NEW h, h = IF L.d[L.list[k]] < L.d[L.list[L.lo]] THEN L.lo ELSE L.hi,
         NEW near, near <=> L.d[L.list[k]] <= L.d[L.list[L.lo]],
         NEW list, list = IF near THEN Swapped(L.list, k, h) ELSE L.list,
         NEW hi, hi = IF near THEN h + 1 ELSE L.hi,
         NEW more, more = k + 1,
         K = [L EXCEPT !.k = more, !.list = list, !.hi = hi]
  PROVE  LapInv(K)
<1>1. n \in Nat /\ L \in LapRec(n) /\ LapTyped(L)
  BY DEF LapInv, LapTyped
<1>2. /\ SearchTypes(n, LapRed(L), L.y, LapRow(L), L.list, L.d, L.pred)
      /\ Permutes(L.list, n) /\ L.pred \in [LapIdx(n) -> LapIdx(n)]
  BY LapSearchTyped
<1>3. L.lo \in Nat /\ L.hi \in Nat /\ k \in Nat
  BY <1>1, LapFields
<1>4. k \in LapIdx(n)
  BY <1>1, <1>3 DEF LapIdx
<1>5. FindIn(n, LapRed(L), L.y, LapRow(L), L.list, L.d, L.pred, L.lo, L.hi, k)
  BY DEF LapInv, LapSearching
<1>6. /\ L.d[L.list[k]] > L.d[L.list[L.lo]] =>
           FindIn(n, LapRed(L), L.y, LapRow(L), L.list, L.d, L.pred, L.lo, L.hi, k + 1)
      /\ L.d[L.list[k]] <= L.d[L.list[L.lo]] =>
           FindIn(n, LapRed(L), L.y, LapRow(L), Swapped(L.list, k, h), L.d, L.pred, L.lo,
                  h + 1, k + 1)
  BY <1>2, <1>3, <1>4, <1>5, FindGoesOn
<1>7. L.d[L.list[k]] \in Int /\ L.d[L.list[L.lo]] \in Int
  <2>1. L.lo \in LapIdx(n)
    BY <1>1, <1>3, <1>4, <1>5 DEF FindIn, LapIdx
  <2> QED
    BY <1>2, <1>4, <2>1 DEF SearchTypes
<1>8. FindIn(n, LapRed(L), L.y, LapRow(L), list, L.d, L.pred, L.lo, hi, more)
  <2>1. CASE near
    BY <1>6, <2>1
  <2>2. CASE ~near
    BY <1>6, <1>7, <2>2
  <2> QED
    BY <2>1, <2>2
<1>9. Permutes(list, n)
  BY <1>8 DEF FindIn
<1>10. h \in Nat /\ hi \in Nat /\ more \in Nat
  BY <1>3
<1>11. list \in LapMany(n)
  BY <1>9 DEF Permutes, LapMany
<1>12. K \in LapRec(n)
  BY <1>1, <1>10, <1>11, LapFindFields
<1>13. /\ K.at = "find" /\ K.lo = L.lo /\ K.hi = hi /\ K.k = more /\ K.list = list
       /\ K.pred = L.pred /\ K.d = L.d /\ LapKept(K, L)
  BY <1>1, ZenonT(60) DEF LapRec, LapKept
<1>14. LapTyped(K)
  BY <1>1, <1>12, <1>13 DEF LapTyped, LapKept
<1>15. /\ K.n = n /\ LapRed(K) = LapRed(L) /\ K.y = L.y /\ LapRow(K) = LapRow(L)
  BY <1>13 DEF LapKept, LapRed, LapRow
<1>16. LapSearching(K)
  BY <1>2, <1>8, <1>9, <1>13, <1>15 DEF LapSearching
<1>17. L.pfree < L.n_free
  BY DEF LapInv, LapBounds
<1> QED
  BY <1>13, <1>14, <1>16, <1>17, LapSearchGoesOn

\* A free column is found, or none.
LEMMA LapFoundKeeps ==
  ASSUME NEW L, NEW K, LapInv(L), L.at = "find", NEW n, n = L.n, L.k = n,
         NEW ends, ends = {m \in L.lo..(L.hi - 1) : L.y[L.list[m]] < 0},
         NEW lo, lo = L.lo, NEW hi, hi = L.hi, NEW j, j = L.list[Max(ends)],
         K = IF ends # {} THEN [L EXCEPT !.at = "prices", !.ready = lo, !.j = j]
             ELSE [L EXCEPT !.at = "scan", !.ready = lo, !.slo = lo, !.shi = hi, !.k = n]
  PROVE  LapInv(K)
<1>1. n \in Nat /\ L \in LapRec(n) /\ LapTyped(L)
  BY DEF LapInv, LapTyped
<1>2. /\ SearchTypes(n, LapRed(L), L.y, LapRow(L), L.list, L.d, L.pred)
      /\ Permutes(L.list, n) /\ L.pred \in [LapIdx(n) -> LapIdx(n)]
  BY LapSearchTyped
<1>3. lo \in Nat /\ hi \in Nat
  BY <1>1, LapFields
<1>4. FindIn(n, LapRed(L), L.y, LapRow(L), L.list, L.d, L.pred, lo, hi, n)
  BY DEF LapInv, LapSearching
<1>5. hi <= n
  BY <1>4 DEF FindIn
<1>6. \A m \in lo..(hi - 1) : m \in LapIdx(n) /\ lo <= m /\ m < hi
  BY <1>1, <1>3, <1>5 DEF LapIdx
<1>7. L.pfree < L.n_free
  BY DEF LapInv, LapBounds
<1>8. "prices" \in LapPlace /\ "scan" \in LapPlace
  BY DEF LapPlace
<1>9. CASE ends # {}
  <2>1. ends \in SUBSET LapIdx(n)
    BY <1>6
  <2>2. Max(ends) \in ends
    BY <1>1, <1>9, <2>1, MaxOfIndices
  <2>3. PICK m \in LapIdx(n) : j = L.list[m] /\ lo <= m /\ m < hi /\ L.y[L.list[m]] < 0
    BY <1>6, <2>2
  <2>4. ReachedIn(n, LapRed(L), L.y, LapRow(L), L.list, L.d, L.pred, lo, j)
    BY <1>2, <1>3, <1>4, <2>3, FindReaches
  <2>5. j \in LapOne(n)
    BY <2>4 DEF ReachedIn, LapOne
  <2>7. K \in LapRec(n)
    BY <1>1, <1>3, <1>8, <1>9, <2>5, ZenonT(60) DEF LapRec
  <2>8. /\ K.at = "prices" /\ K.lo = L.lo /\ K.ready = lo /\ K.j = j /\ K.list = L.list
        /\ K.pred = L.pred /\ K.d = L.d /\ LapKept(K, L)
    BY <1>1, <1>9, ZenonT(60) DEF LapRec, LapKept
  <2>9. LapTyped(K)
    BY <1>1, <2>7, <2>8 DEF LapTyped, LapKept
  <2>10. /\ K.n = n /\ LapRed(K) = LapRed(L) /\ K.y = L.y /\ LapRow(K) = LapRow(L)
    BY <2>8 DEF LapKept, LapRed, LapRow
  <2>11. LapSearching(K)
    BY <1>2, <2>4, <2>8, <2>10 DEF LapSearching
  <2> QED
    BY <1>7, <2>8, <2>9, <2>11, LapSearchGoesOn
<1>10. CASE ends = {}
  <2>1. \A m \in LapIdx(n) : lo <= m /\ m < hi => L.y[L.list[m]] >= 0
    <3> SUFFICES ASSUME NEW m \in LapIdx(n), lo <= m, m < hi PROVE L.y[L.list[m]] >= 0
      OBVIOUS
    <3>1. m \in lo..(hi - 1)
      BY <1>1, <1>3 DEF LapIdx
    <3>2. ~(L.y[L.list[m]] < 0)
      BY <1>10, <3>1
    <3>3. L.y[L.list[m]] \in LapIdx(n) \cup {-1}
      BY <1>2 DEF SearchTypes
    <3> QED
      BY <1>1, <3>2, <3>3 DEF LapIdx
  <2>2. ScanIn(n, LapRed(L), L.y, LapRow(L), L.list, L.d, L.pred, lo, lo, hi, n, L.i)
    BY <1>2, <1>3, <1>4, <2>1, FindEnds
  <2>3. K \in LapRec(n)
    BY <1>1, <1>3, <1>8, <1>10, ZenonT(60) DEF LapRec
  <2>4. /\ K.at = "scan" /\ K.lo = L.lo /\ K.ready = lo /\ K.slo = lo /\ K.shi = hi /\ K.k = n
        /\ K.i = L.i /\ K.list = L.list
        /\ K.pred = L.pred /\ K.d = L.d /\ LapKept(K, L)
    BY <1>1, <1>10, ZenonT(60) DEF LapRec, LapKept
  <2>5. LapTyped(K)
    BY <1>1, <2>3, <2>4 DEF LapTyped, LapKept
  <2>6. /\ K.n = n /\ LapRed(K) = LapRed(L) /\ K.y = L.y /\ LapRow(K) = LapRow(L)
    BY <2>4 DEF LapKept, LapRed, LapRow
  <2>7. LapSearching(K)
    BY <1>2, <2>2, <2>4, <2>6 DEF LapSearching
  <2> QED
    BY <1>7, <2>4, <2>5, <2>7, LapSearchGoesOn
<1> QED
  BY <1>9, <1>10

\* The next column of the SCAN list is taken: the one before it has been held against
\* all columns.
LEMMA LapScanNextKeeps ==
  ASSUME NEW L, NEW K, LapInv(L), L.at = "scan", NEW n, n = L.n, L.k = n,
         NEW slo, slo = L.slo, NEW shi, shi = L.shi, slo # shi, NEW more, more = slo + 1,
         K = [L EXCEPT !.i = slo, !.slo = more, !.k = shi]
  PROVE  LapInv(K)
<1>1. n \in Nat /\ L \in LapRec(n) /\ LapTyped(L)
  BY DEF LapInv, LapTyped
<1>2. /\ SearchTypes(n, LapRed(L), L.y, LapRow(L), L.list, L.d, L.pred)
      /\ Permutes(L.list, n) /\ L.pred \in [LapIdx(n) -> LapIdx(n)]
  BY LapSearchTyped
<1>3. L.lo \in Nat /\ slo \in Nat /\ shi \in Nat /\ more \in Nat
  BY <1>1, LapFields
<1>4. /\ ScanIn(n, LapRed(L), L.y, LapRow(L), L.list, L.d, L.pred, L.lo, slo, shi, n, L.i)
      /\ L.ready = L.lo
  BY DEF LapInv, LapSearching
<1>5. \A c \in LapIdx(n) : L.y[c] >= 0 => TightAt(n, LapRed(L), L.y[c], c)
  <2>1. LapOpen(L) = {}
    BY DEF LapOpen
  <2> QED
    BY <2>1, LapAllTight
<1>6. ScanIn(n, LapRed(L), L.y, LapRow(L), L.list, L.d, L.pred, L.lo, more, shi, shi, slo)
  BY <1>2, <1>3, <1>4, <1>5, ScanTakesNext
<1>7. slo \in LapNumber
  BY <1>3 DEF LapNumber
<1>8. K \in LapRec(n)
  BY <1>1, <1>3, <1>7, ZenonT(60) DEF LapRec
<1>9. /\ K.at = "scan" /\ K.lo = L.lo /\ K.slo = more /\ K.shi = shi /\ K.k = shi
      /\ K.i = slo /\ K.ready = L.ready /\ K.list = L.list
      /\ K.pred = L.pred /\ K.d = L.d /\ LapKept(K, L)
  BY <1>1, ZenonT(60) DEF LapRec, LapKept
<1>10. LapTyped(K)
  BY <1>1, <1>8, <1>9 DEF LapTyped, LapKept
<1>11. /\ K.n = n /\ LapRed(K) = LapRed(L) /\ K.y = L.y /\ LapRow(K) = LapRow(L)
  BY <1>9 DEF LapKept, LapRed, LapRow
<1>12. LapSearching(K)
  BY <1>2, <1>4, <1>6, <1>9, <1>11 DEF LapSearching
<1>13. L.pfree < L.n_free
  BY DEF LapInv, LapBounds
<1> QED
  BY <1>9, <1>10, <1>12, <1>13, LapSearchGoesOn

\* The SCAN list is empty: all of it is done with, and the nearest of the others are
\* looked for again.
LEMMA LapScannedKeeps ==
  ASSUME NEW L, NEW K, LapInv(L), L.at = "scan", NEW n, n = L.n, L.k = n,
         NEW slo, slo = L.slo, slo = L.shi, NEW more, more = slo + 1,
         K = [L EXCEPT !.at = "find", !.lo = slo, !.hi = more, !.k = more]
  PROVE  LapInv(K)
<1>1. n \in Nat /\ L \in LapRec(n) /\ LapTyped(L)
  BY DEF LapInv, LapTyped
<1>2. /\ SearchTypes(n, LapRed(L), L.y, LapRow(L), L.list, L.d, L.pred)
      /\ Permutes(L.list, n) /\ L.pred \in [LapIdx(n) -> LapIdx(n)]
  BY LapSearchTyped
<1>3. L.lo \in Nat /\ slo \in Nat /\ more \in Nat
  BY <1>1, LapFields
<1>4. ScanIn(n, LapRed(L), L.y, LapRow(L), L.list, L.d, L.pred, L.lo, slo, slo, n, L.i)
  BY DEF LapInv, LapSearching
<1>5. FindIn(n, LapRed(L), L.y, LapRow(L), L.list, L.d, L.pred, slo, more, more)
  BY <1>2, <1>3, <1>4, ScanEnds
<1>6. "find" \in LapPlace
  BY DEF LapPlace
<1>7. K \in LapRec(n)
  BY <1>1, <1>3, <1>6, ZenonT(60) DEF LapRec
<1>8. /\ K.at = "find" /\ K.lo = slo /\ K.hi = more /\ K.k = more /\ K.list = L.list
      /\ K.pred = L.pred /\ K.d = L.d /\ LapKept(K, L)
  BY <1>1, ZenonT(60) DEF LapRec, LapKept
<1>9. LapTyped(K)
  BY <1>1, <1>7, <1>8 DEF LapTyped, LapKept
<1>10. /\ K.n = n /\ LapRed(K) = LapRed(L) /\ K.y = L.y /\ LapRow(K) = LapRow(L)
  BY <1>8 DEF LapKept, LapRed, LapRow
<1>11. LapSearching(K)
  BY <1>2, <1>5, <1>8, <1>10 DEF LapSearching
<1>12. L.pfree < L.n_free
  BY DEF LapInv, LapBounds
<1> QED
  BY <1>8, <1>9, <1>11, <1>12, LapSearchGoesOn

\* One column against the row of the column that is scanned.
LapScanOf(L, k, from, i, j, mind, cred) ==
  /\ k = L.k /\ k < L.n /\ from = L.list[L.i] /\ i = L.y[from] /\ j = L.list[k]
  /\ mind = L.d[from]
  /\ cred = L.cost[i][j] - L.v[j] - (L.cost[i][from] - L.v[from] - mind)

\* What it may rely on.
LapScanHas(L, k, from, i, j, mind, cred) ==
  /\ L.n \in Nat /\ L \in LapRec(L.n) /\ LapTyped(L) /\ L.pfree < L.n_free
  /\ SearchTypes(L.n, LapRed(L), L.y, LapRow(L), L.list, L.d, L.pred)
  /\ Permutes(L.list, L.n) /\ L.pred \in [LapIdx(L.n) -> LapIdx(L.n)]
  /\ L.lo \in LapIdx(L.n) /\ L.slo \in Nat /\ L.shi \in LapIdx(L.n) /\ k \in LapIdx(L.n)
  /\ L.d \in [LapIdx(L.n) -> Int] /\ L.lo < L.slo /\ L.i = L.slo - 1
  /\ L.lo \in Nat /\ L.shi \in Nat /\ k \in Nat /\ L.shi <= k
  /\ ScanIn(L.n, LapRed(L), L.y, LapRow(L), L.list, L.d, L.pred, L.lo, L.slo, L.shi, k, L.i)
  /\ L.ready = L.lo
  /\ \A c \in LapIdx(L.n) : L.y[c] >= 0 => TightAt(L.n, LapRed(L), L.y[c], c)
  /\ i \in LapIdx(L.n) /\ j \in LapIdx(L.n) /\ L.list[L.lo] # j
  /\ mind \in Int /\ mind = L.d[L.list[L.lo]] /\ L.d[j] \in Int
  /\ cred \in Int /\ cred = L.d[from] + LapRed(L)[i][j] - LapRed(L)[i][from]

\* What a step of _scan_dense reads: the column from which it scans is assigned and
\* as near as the nearest, and cred is the way over it.
LEMMA LapScanFacts ==
  ASSUME NEW L, LapInv(L), L.at = "scan", NEW n, n = L.n,
         NEW k, NEW from, NEW i, NEW j, NEW mind, NEW cred,
         LapScanOf(L, k, from, i, j, mind, cred)
  PROVE  LapScanHas(L, k, from, i, j, mind, cred)
<1>0. n \in Nat /\ L \in LapRec(n) /\ LapTyped(L)
  BY DEF LapInv, LapTyped
<1>1. /\ k = L.k /\ k < n /\ from = L.list[L.i] /\ i = L.y[from] /\ j = L.list[k]
      /\ mind = L.d[from]
  BY DEF LapScanOf
<1> DEFINE red == LapRed(L)
           f == LapRow(L)
<1> HIDE DEF red, f
<1>2. /\ SearchTypes(n, red, L.y, f, L.list, L.d, L.pred)
      /\ Permutes(L.list, n) /\ L.pred \in [LapIdx(n) -> LapIdx(n)]
  BY LapSearchTyped DEF red, f
<1>3. /\ L.lo \in Nat /\ L.slo \in Nat /\ L.shi \in Nat /\ k \in Nat
      /\ L.d \in [LapIdx(n) -> Int] /\ L.y \in [LapIdx(n) -> LapIdx(n) \cup {-1}]
  BY <1>0, <1>1, LapFields
<1>4. k \in LapIdx(n)
  BY <1>0, <1>1, <1>3 DEF LapIdx
<1>5. ScanIn(n, red, L.y, f, L.list, L.d, L.pred, L.lo, L.slo, L.shi, k, L.i) /\ L.ready = L.lo
  BY <1>1 DEF LapInv, LapSearching, red, f
<1>6. \A c \in LapIdx(n) : L.y[c] >= 0 => TightAt(n, red, L.y[c], c)
  <2>1. LapOpen(L) = {}
    BY DEF LapOpen
  <2> QED
    BY <2>1, LapAllTight DEF red
<1>7. L.lo < L.slo /\ L.i = L.slo - 1 /\ L.slo <= L.shi /\ L.shi <= k
  BY <1>5, <1>0, <1>1, <1>3 DEF ScanIn
<1>8. /\ L.i \in LapIdx(n) /\ L.i < L.shi /\ L.lo <= L.i /\ L.lo \in LapIdx(n)
      /\ L.shi \in LapIdx(n) /\ L.lo # k
  BY <1>0, <1>1, <1>3, <1>4, <1>7, SMTT(30) DEF LapIdx
<1>9. from \in LapIdx(n) /\ j \in LapIdx(n) /\ L.list[L.lo] \in LapIdx(n) /\ L.list[L.lo] # j
  BY <1>1, <1>2, <1>4, <1>8 DEF Permutes
<1>10. L.y[from] >= 0 /\ L.d[from] <= L.d[L.list[L.lo]] /\ L.d[L.list[L.lo]] <= L.d[from]
  <2>1. /\ \A p \in LapIdx(n) : p < L.shi =>
             L.y[L.list[p]] >= 0 /\ L.d[L.list[p]] <= L.d[L.list[L.lo]]
        /\ \A p \in LapIdx(n) : L.lo <= p => L.d[L.list[L.lo]] <= L.d[L.list[p]]
    BY <1>5 DEF ScanIn
  <2> QED
    BY <1>1, <1>8, <2>1
<1>11. i \in LapIdx(n)
  <2>1. i >= 0 /\ i \in LapIdx(n) \cup {-1}
    BY <1>1, <1>3, <1>9, <1>10
  <2> QED
    BY <2>1
<1>12. mind \in Int /\ L.d[j] \in Int /\ L.d[L.list[L.lo]] \in Int
  BY <1>1, <1>3, <1>9
<1>13. mind = L.d[L.list[L.lo]]
  BY <1>1, <1>10, <1>12
<1>14. cred \in Int /\ cred = L.d[from] + red[i][j] - red[i][from]
  <2>1. /\ L.cost[i][j] \in Int /\ L.v[j] \in Int /\ L.cost[i][from] \in Int /\ L.v[from] \in Int
        /\ red[i][j] = L.cost[i][j] - L.v[j] /\ red[i][from] = L.cost[i][from] - L.v[from]
    BY <1>0, <1>9, <1>11, LapRedIs DEF red
  <2>2. cred = L.cost[i][j] - L.v[j] - (L.cost[i][from] - L.v[from] - mind)
    BY DEF LapScanOf
  <2>3. PICK a, b, c, e : a = L.cost[i][j] /\ b = L.v[j] /\ c = L.cost[i][from] /\ e = L.v[from]
    OBVIOUS
  <2>4. cred = a - b - (c - e - mind) /\ red[i][j] = a - b /\ red[i][from] = c - e
    BY <2>1, <2>2, <2>3, Zenon
  <2>5. a \in Int /\ b \in Int /\ c \in Int /\ e \in Int
    BY <2>1, <2>3, Zenon
  <2>6. cred \in Int /\ cred = mind + (a - b) - (c - e)
    BY <1>12, <2>4, <2>5
  <2> QED
    BY <1>1, <2>4, <2>6, Zenon
<1>15. L.pfree < L.n_free
  BY DEF LapInv, LapBounds
<1> QED
  BY <1>0, <1>2, <1>3, <1>4, <1>5, <1>6, <1>7, <1>8, <1>9, <1>11, <1>12, <1>13, <1>14, <1>15,
     Zenon DEF red, f, LapScanHas

\* It is not nearer over it.
LEMMA LapScanGoesOn ==
  ASSUME NEW L, NEW K, LapInv(L), L.at = "scan", NEW n, n = L.n,
         NEW k, NEW from, NEW i, NEW j, NEW mind, NEW cred,
         LapScanOf(L, k, from, i, j, mind, cred),
         cred >= L.d[j], NEW more, more = k + 1, K = [L EXCEPT !.k = more]
  PROVE  LapInv(K)
<1>1. /\ n \in Nat /\ L \in LapRec(n) /\ LapTyped(L) /\ L.pfree < L.n_free
      /\ SearchTypes(n, LapRed(L), L.y, LapRow(L), L.list, L.d, L.pred)
      /\ Permutes(L.list, n) /\ L.pred \in [LapIdx(n) -> LapIdx(n)]
      /\ L.slo \in Nat /\ k \in LapIdx(n) /\ L.lo \in Nat /\ L.shi \in Nat /\ k \in Nat
      /\ ScanIn(n, LapRed(L), L.y, LapRow(L), L.list, L.d, L.pred, L.lo, L.slo, L.shi, k, L.i)
      /\ L.ready = L.lo /\ L.d[j] \in Int
      /\ cred \in Int /\ cred = L.d[from] + LapRed(L)[i][j] - LapRed(L)[i][from]
  <2>1. LapScanHas(L, k, from, i, j, mind, cred)
    BY LapScanFacts
  <2> QED
    BY <2>1, Zenon DEF LapScanHas
<1>2. RelaxedBy(LapRed(L), L.y, L.d, L.list[L.i], L.list[k])
  <2>1. L.d[j] <= L.d[from] + LapRed(L)[i][j] - LapRed(L)[i][from]
    <3>1. L.d[j] \in Int /\ cred \in Int
      BY <1>1
    <3>2. L.d[j] <= cred
      BY <3>1
    <3> QED
      BY <1>1, <3>2, Zenon
  <2>2. j = L.list[k] /\ from = L.list[L.i] /\ i = L.y[from]
    BY DEF LapScanOf
  <2> QED
    BY <2>1, <2>2, Zenon DEF RelaxedBy
<1>3. ScanIn(n, LapRed(L), L.y, LapRow(L), L.list, L.d, L.pred, L.lo, L.slo, L.shi, more, L.i)
  BY <1>1, <1>2, ScanGoesOn
<1>4. more \in Nat
  BY <1>1
<1>5. K \in LapRec(n)
  BY <1>1, <1>4, ZenonT(60) DEF LapRec
<1>6. /\ K.at = "scan" /\ K.lo = L.lo /\ K.slo = L.slo /\ K.shi = L.shi /\ K.k = more
      /\ K.i = L.i /\ K.ready = L.ready /\ K.list = L.list
      /\ K.pred = L.pred /\ K.d = L.d /\ LapKept(K, L)
  BY <1>1, ZenonT(60) DEF LapRec, LapKept
<1>7. LapTyped(K)
  BY <1>1, <1>5, <1>6 DEF LapTyped, LapKept
<1>8. /\ K.n = n /\ LapRed(K) = LapRed(L) /\ K.y = L.y /\ LapRow(K) = LapRow(L)
  BY <1>6 DEF LapKept, LapRed, LapRow
<1>9. LapSearching(K)
  BY <1>1, <1>3, <1>6, <1>8 DEF LapSearching
<1> QED
  BY <1>1, <1>6, <1>7, <1>9, LapSearchGoesOn

\* The column is reached at less over the row.
LapRelaxes(L, i, j, cred, d, pred) ==
  d = [L.d EXCEPT ![j] = cred] /\ pred = [L.pred EXCEPT ![j] = i]

\* It is nearer over it.
LapNearerIn(L, k, j, cred, d, pred) ==
  /\ d \in [LapIdx(L.n) -> Int] /\ pred \in [LapIdx(L.n) -> LapIdx(L.n)] /\ d[j] = cred
  /\ \A c \in LapIdx(L.n) : c # j => d[c] = L.d[c]
  /\ SearchTypes(L.n, LapRed(L), L.y, LapRow(L), L.list, d, pred)
  /\ ScanIn(L.n, LapRed(L), L.y, LapRow(L), L.list, d, pred, L.lo, L.slo, L.shi, k + 1, L.i)

\* A column that is nearer over the scanned one keeps what is known of the ways.
LEMMA LapScanNearer ==
  ASSUME NEW L, LapInv(L), L.at = "scan", NEW n, n = L.n,
         NEW k, NEW from, NEW i, NEW j, NEW mind, NEW cred,
         LapScanOf(L, k, from, i, j, mind, cred), LapScanHas(L, k, from, i, j, mind, cred),
         cred < L.d[j], NEW d, NEW pred, LapRelaxes(L, i, j, cred, d, pred)
  PROVE  LapNearerIn(L, k, j, cred, d, pred)
<1> d = [L.d EXCEPT ![j] = cred] /\ pred = [L.pred EXCEPT ![j] = i]
  BY DEF LapRelaxes
<1>1. /\ n \in Nat /\ SearchTypes(n, LapRed(L), L.y, LapRow(L), L.list, L.d, L.pred)
      /\ L.pred \in [LapIdx(n) -> LapIdx(n)] /\ L.d \in [LapIdx(n) -> Int]
      /\ L.slo \in Nat /\ k \in LapIdx(n) /\ L.lo \in Nat /\ L.shi \in Nat /\ k \in Nat
      /\ ScanIn(n, LapRed(L), L.y, LapRow(L), L.list, L.d, L.pred, L.lo, L.slo, L.shi, k, L.i)
      /\ cred \in Int /\ cred = L.d[from] + LapRed(L)[i][j] - LapRed(L)[i][from]
      /\ \A c \in LapIdx(n) : L.y[c] >= 0 => TightAt(n, LapRed(L), L.y[c], c)
      /\ i \in LapIdx(n) /\ j \in LapIdx(n)
  BY Zenon DEF LapScanHas
<1>2. j = L.list[k] /\ from = L.list[L.i] /\ i = L.y[from]
  BY DEF LapScanOf
<1>3. /\ d \in [LapIdx(n) -> Int] /\ pred \in [LapIdx(n) -> LapIdx(n)] /\ d[j] = cred
      /\ \A c \in LapIdx(n) : c # j => d[c] = L.d[c]
  <2>1. /\ n \in Nat /\ L.pred \in [LapIdx(n) -> LapIdx(n)] /\ L.d \in [LapIdx(n) -> Int]
        /\ cred \in Int /\ i \in LapIdx(n) /\ j \in LapIdx(n)
    BY <1>1, Zenon
  <2> QED
    BY <2>1
<1>4. SearchTypes(n, LapRed(L), L.y, LapRow(L), L.list, d, pred)
  BY <1>1, <1>3, Zenon DEF SearchTypes
<1>5. ScanIn(n, LapRed(L), L.y, LapRow(L), L.list, [L.d EXCEPT ![L.list[k]] = cred],
             [L.pred EXCEPT ![L.list[k]] = L.y[L.list[L.i]]], L.lo, L.slo, L.shi, k + 1, L.i)
  <2>1. cred = L.d[L.list[L.i]] + LapRed(L)[L.y[L.list[L.i]]][L.list[k]]
                - LapRed(L)[L.y[L.list[L.i]]][L.list[L.i]]
    BY <1>1, <1>2, Zenon
  <2>2. cred < L.d[L.list[k]]
    BY <1>2
  <2>3. \A c \in LapIdx(n) : L.y[c] >= 0 => TightAt(n, LapRed(L), L.y[c], c)
    BY <1>1, Zenon
  <2> QED
    BY <1>1, <2>1, <2>2, <2>3, ScanNearer
<1>6. ScanIn(n, LapRed(L), L.y, LapRow(L), L.list, d, pred, L.lo, L.slo, L.shi, k + 1, L.i)
  BY <1>2, <1>5, Zenon
<1> QED
  BY <1>3, <1>4, <1>6, Zenon DEF LapNearerIn

\* The column stays where it is in the list, and the scan goes on.
LEMMA LapScanNearerKeeps ==
  ASSUME NEW L, NEW K, LapInv(L), L.at = "scan", NEW n, n = L.n,
         NEW k, NEW from, NEW i, NEW j, NEW mind, NEW cred,
         LapScanOf(L, k, from, i, j, mind, cred),
         cred < L.d[j], NEW more, more = k + 1,
         NEW d, NEW pred, LapRelaxes(L, i, j, cred, d, pred),
         K = [L EXCEPT !.d = d, !.pred = pred, !.k = more]
  PROVE  LapInv(K)
<1> d = [L.d EXCEPT ![j] = cred] /\ pred = [L.pred EXCEPT ![j] = i]
  BY DEF LapRelaxes
<1>1. LapScanHas(L, k, from, i, j, mind, cred)
  BY LapScanFacts
<1>2. /\ n \in Nat /\ L \in LapRec(n) /\ LapTyped(L) /\ L.pfree < L.n_free
      /\ Permutes(L.list, n) /\ k \in Nat /\ L.ready = L.lo
  BY <1>1, Zenon DEF LapScanHas
<1>3. /\ d \in [LapIdx(n) -> Int] /\ pred \in [LapIdx(n) -> LapIdx(n)]
      /\ ScanIn(n, LapRed(L), L.y, LapRow(L), L.list, d, pred, L.lo, L.slo, L.shi, more, L.i)
  <2>1. LapNearerIn(L, k, j, cred, d, pred)
    BY <1>1, LapScanNearer
  <2> QED
    BY <2>1, ZenonT(30) DEF LapNearerIn
<1>4. more \in Nat /\ d \in LapInts(n) /\ pred \in LapMany(n)
  BY <1>2, <1>3 DEF LapInts, LapMany
<1>5. K \in LapRec(n)
  BY <1>2, <1>4, ZenonT(60) DEF LapRec
<1>6. /\ K.at = "scan" /\ K.lo = L.lo /\ K.slo = L.slo /\ K.shi = L.shi /\ K.k = more
      /\ K.i = L.i /\ K.ready = L.ready /\ K.list = L.list
      /\ K.pred = pred /\ K.d = d /\ LapKept(K, L)
  BY <1>2, ZenonT(60) DEF LapRec, LapKept
<1>7. LapTyped(K)
  BY <1>2, <1>5, <1>6 DEF LapTyped, LapKept
<1>8. /\ K.n = n /\ LapRed(K) = LapRed(L) /\ K.y = L.y /\ LapRow(K) = LapRow(L)
  BY <1>6 DEF LapKept, LapRed, LapRow
<1>9. LapSearching(K)
  BY <1>2, <1>3, <1>6, <1>8 DEF LapSearching
<1> QED
  BY <1>2, <1>6, <1>7, <1>9, LapSearchGoesOn

\* The fields when _scan_dense reaches a free column.
LEMMA LapReachFields ==
  ASSUME NEW n, NEW L \in LapRec(n), NEW d \in LapInts(n), NEW pred \in LapMany(n),
         NEW more \in Nat, NEW at \in LapPlace, NEW j \in LapOne(n),
         NEW K, K = [L EXCEPT !.d = d, !.pred = pred, !.k = more, !.at = at, !.j = j]
  PROVE  K \in LapRec(n)
BY ZenonT(60) DEF LapRec

\* It is free, and as near as the column that is scanned.
LEMMA LapScanReachesKeeps ==
  ASSUME NEW L, NEW K, LapInv(L), L.at = "scan", NEW n, n = L.n,
         NEW k, NEW from, NEW i, NEW j, NEW mind, NEW cred,
         LapScanOf(L, k, from, i, j, mind, cred),
         cred < L.d[j], cred = mind, L.y[j] < 0, NEW more, more = k + 1,
         NEW d, NEW pred, LapRelaxes(L, i, j, cred, d, pred),
         K = [L EXCEPT !.d = d, !.pred = pred, !.k = more, !.at = "prices", !.j = j]
  PROVE  LapInv(K)
<1> d = [L.d EXCEPT ![j] = cred] /\ pred = [L.pred EXCEPT ![j] = i]
  BY DEF LapRelaxes
<1>1. LapScanHas(L, k, from, i, j, mind, cred)
  BY LapScanFacts
<1>2. /\ n \in Nat /\ L \in LapRec(n) /\ LapTyped(L) /\ L.pfree < L.n_free
      /\ Permutes(L.list, n) /\ k \in Nat /\ L.ready = L.lo /\ k \in LapIdx(n) /\ j \in LapIdx(n)
      /\ L.lo \in Nat /\ L.slo \in Nat /\ L.shi \in Nat /\ L.lo < L.slo
      /\ mind = L.d[L.list[L.lo]] /\ L.list[L.lo] # j /\ L.lo \in LapIdx(n)
  BY <1>1, Zenon DEF LapScanHas
<1>3. /\ d \in [LapIdx(n) -> Int] /\ pred \in [LapIdx(n) -> LapIdx(n)] /\ d[j] = cred
      /\ SearchTypes(n, LapRed(L), L.y, LapRow(L), L.list, d, pred)
      /\ \A c \in LapIdx(n) : c # j => d[c] = L.d[c]
      /\ ScanIn(n, LapRed(L), L.y, LapRow(L), L.list, d, pred, L.lo, L.slo, L.shi, more, L.i)
  <2>1. LapNearerIn(L, k, j, cred, d, pred)
    BY <1>1, LapScanNearer
  <2> QED
    BY <2>1, ZenonT(30) DEF LapNearerIn
<1>4. more \in Nat /\ d \in LapInts(n) /\ pred \in LapMany(n) /\ j \in LapOne(n)
  <2>1. k \in Nat /\ j \in LapIdx(n)
    BY <1>2, Zenon
  <2>2. d \in [LapIdx(n) -> Int] /\ pred \in [LapIdx(n) -> LapIdx(n)]
    BY <1>3, Zenon
  <2>3. more \in Nat
    BY <2>1
  <2> QED
    BY <2>1, <2>2, <2>3 DEF LapInts, LapMany, LapOne
<1>5. j = L.list[k] /\ d[L.list[k]] = d[L.list[L.lo]]
  <2>1. L.list[L.lo] \in LapIdx(n)
    BY <1>2 DEF Permutes
  <2> QED
    BY <1>2, <1>3, <2>1 DEF LapScanOf
<1>6. ReachedIn(n, LapRed(L), L.y, LapRow(L), L.list, d, pred, L.lo, j)
  <2>1. /\ SearchTypes(n, LapRed(L), L.y, LapRow(L), L.list, d, pred)
        /\ ScanIn(n, LapRed(L), L.y, LapRow(L), L.list, d, pred, L.lo, L.slo, L.shi, more, L.i)
    BY <1>3, Zenon
  <2>2. L.lo \in Nat /\ L.slo \in Nat /\ L.shi \in Nat /\ L.lo < L.slo /\ k \in LapIdx(n)
    BY <1>2, Zenon
  <2>3. d[L.list[k]] = d[L.list[L.lo]] /\ L.y[L.list[k]] < 0 /\ j = L.list[k]
    BY <1>5
  <2> QED
    BY <1>4, <2>1, <2>2, <2>3, ScanReaches
<1>7. "prices" \in LapPlace
  BY DEF LapPlace
<1>8. K \in LapRec(n)
  BY <1>2, <1>4, <1>7, LapReachFields
<1>9. /\ K.at = "prices" /\ K.lo = L.lo /\ K.ready = L.ready /\ K.list = L.list /\ K.j = j
      /\ K.pred = pred /\ K.d = d /\ LapKept(K, L)
  BY <1>2, ZenonT(60) DEF LapRec, LapKept
<1>10. LapTyped(K)
  <2>1. K.n = n
    BY <1>9, Zenon DEF LapKept
  <2>2. n \in Nat
    BY <1>2, Zenon
  <2> QED
    BY <1>8, <2>1, <2>2 DEF LapTyped
<1>11. /\ K.n = n /\ LapRed(K) = LapRed(L) /\ K.y = L.y /\ LapRow(K) = LapRow(L)
  BY <1>9 DEF LapKept, LapRed, LapRow
<1>12. LapSearching(K)
  BY <1>2, <1>3, <1>6, <1>9, <1>11 DEF LapSearching
<1> QED
  BY <1>2, <1>9, <1>10, <1>12, LapSearchGoesOn, ZenonT(90)

\* It is assigned, and as near as the column that is scanned.
LEMMA LapScanJoinsKeeps ==
  ASSUME NEW L, NEW K, LapInv(L), L.at = "scan", NEW n, n = L.n,
         NEW k, NEW from, NEW i, NEW j, NEW mind, NEW cred,
         LapScanOf(L, k, from, i, j, mind, cred),
         cred < L.d[j], cred = mind, ~(L.y[j] < 0), NEW more, more = k + 1,
         NEW d, NEW pred, LapRelaxes(L, i, j, cred, d, pred),
         NEW list, list = Swapped(L.list, k, L.shi), NEW next, next = L.shi + 1,
         K = [L EXCEPT !.d = d, !.pred = pred, !.k = more, !.list = list, !.shi = next]
  PROVE  LapInv(K)
<1> d = [L.d EXCEPT ![j] = cred] /\ pred = [L.pred EXCEPT ![j] = i]
  BY DEF LapRelaxes
<1>1. LapScanHas(L, k, from, i, j, mind, cred)
  BY LapScanFacts
<1>2. /\ n \in Nat /\ L \in LapRec(n) /\ LapTyped(L) /\ L.pfree < L.n_free
      /\ Permutes(L.list, n) /\ k \in Nat /\ L.ready = L.lo /\ k \in LapIdx(n) /\ j \in LapIdx(n)
      /\ L.lo \in Nat /\ L.slo \in Nat /\ L.shi \in Nat /\ L.lo < L.slo /\ L.shi <= k
      /\ L.i = L.slo - 1 /\ L.shi \in LapIdx(n)
      /\ mind = L.d[L.list[L.lo]] /\ L.list[L.lo] # j /\ L.lo \in LapIdx(n)
  BY <1>1, Zenon DEF LapScanHas
<1>3. /\ d \in [LapIdx(n) -> Int] /\ pred \in [LapIdx(n) -> LapIdx(n)] /\ d[j] = cred
      /\ SearchTypes(n, LapRed(L), L.y, LapRow(L), L.list, d, pred)
      /\ \A c \in LapIdx(n) : c # j => d[c] = L.d[c]
      /\ ScanIn(n, LapRed(L), L.y, LapRow(L), L.list, d, pred, L.lo, L.slo, L.shi, more, L.i)
  <2>1. LapNearerIn(L, k, j, cred, d, pred)
    BY <1>1, LapScanNearer
  <2> QED
    BY <2>1, ZenonT(30) DEF LapNearerIn
<1>4. more \in Nat /\ d \in LapInts(n) /\ pred \in LapMany(n) /\ next \in Nat
  <2>1. k \in Nat /\ L.shi \in Nat
    BY <1>2, Zenon
  <2>2. d \in [LapIdx(n) -> Int] /\ pred \in [LapIdx(n) -> LapIdx(n)]
    BY <1>3, Zenon
  <2>3. more \in Nat /\ next \in Nat
    BY <2>1
  <2> QED
    BY <2>2, <2>3 DEF LapInts, LapMany
<1>5. j = L.list[k] /\ d[L.list[k]] = d[L.list[L.lo]] /\ L.y[L.list[k]] >= 0
  <2>1. L.list[L.lo] \in LapIdx(n)
    BY <1>2 DEF Permutes
  <2>2. L.y[j] \in LapIdx(n) \cup {-1}
    BY <1>2, LapFields
  <2>3. L.y[j] >= 0
    BY <1>2, <2>2 DEF LapIdx
  <2> QED
    BY <1>2, <1>3, <2>1, <2>3 DEF LapScanOf
<1>6. /\ ScanIn(n, LapRed(L), L.y, LapRow(L), list, d, pred, L.lo, L.slo, next, more, L.i)
  <2>1. /\ SearchTypes(n, LapRed(L), L.y, LapRow(L), L.list, d, pred)
        /\ ScanIn(n, LapRed(L), L.y, LapRow(L), L.list, d, pred, L.lo, L.slo, L.shi, k + 1, L.i)
    BY <1>3, Zenon
  <2>2. /\ L.lo \in Nat /\ L.slo \in Nat /\ L.shi \in Nat /\ L.lo < L.slo /\ k \in LapIdx(n)
        /\ L.shi <= k /\ L.i = L.slo - 1
    BY <1>2, Zenon
  <2>3. ScanIn(n, LapRed(L), L.y, LapRow(L), Swapped(L.list, k, L.shi), d, pred,
               L.lo, L.slo, L.shi + 1, k + 1, L.i)
    BY <1>5, <2>1, <2>2, ScanJoins
  <2> QED
    BY <2>3, Zenon
<1>7. Permutes(list, n)
  BY <1>2, SwapPermutes
<1>8. list \in LapMany(n)
  BY <1>7 DEF Permutes, LapMany
<1>9. K \in LapRec(n)
  BY <1>2, <1>4, <1>8, ZenonT(60) DEF LapRec
<1>10. /\ K.at = "scan" /\ K.lo = L.lo /\ K.slo = L.slo /\ K.shi = next /\ K.k = more
       /\ K.i = L.i /\ K.ready = L.ready /\ K.list = list
       /\ K.pred = pred /\ K.d = d /\ LapKept(K, L)
  BY <1>2, ZenonT(60) DEF LapRec, LapKept
<1>11. LapTyped(K)
  BY <1>2, <1>9, <1>10 DEF LapTyped, LapKept
<1>12. /\ K.n = n /\ LapRed(K) = LapRed(L) /\ K.y = L.y /\ LapRow(K) = LapRow(L)
  BY <1>10 DEF LapKept, LapRed, LapRow
<1>13. LapSearching(K)
  BY <1>3, <1>2, <1>6, <1>7, <1>10, <1>12 DEF LapSearching
<1> QED
  <2>1. L.pfree < L.n_free
    BY <1>2
  <2> QED
    BY <1>10, <1>11, <1>13, <2>1, LapSearchGoesOn

-----------------------------------------------------------------------------
(* From one phase to the next.                                             *)

\* The same rows wait at the same places.
LEMMA LapWaitsAsBefore ==
  ASSUME NEW L, NEW K, LapInv(L), K.n = L.n, K.rows = L.rows, K.cols = L.cols, K.cost = L.cost,
         K.freeRows = L.freeRows, \A m \in LapIdx(L.n) : LapSlot(K, m) <=> LapSlot(L, m),
         LapUntold(K) = LapUntold(L)
  PROVE  /\ LapSlots(K) = LapSlots(L) /\ LapWaiting(K) = LapWaiting(L)
         /\ LapSlotted(K) /\ LapMatrix(K)
<1>1. LapSlots(K) = LapSlots(L)
  BY DEF LapSlots
<1>2. LapWaiting(K) = LapWaiting(L)
  BY <1>1 DEF LapWaiting
<1>3. LapSlotted(K)
  BY <1>1 DEF LapInv, LapSlotted
<1>4. LapMatrix(K)
  BY DEF LapInv, LapMatrix
<1> QED
  BY <1>1, <1>2, <1>3, <1>4

\* Nothing but the phase changes.
LEMMA LapPhaseKeeps ==
  ASSUME NEW L, NEW K, LapInv(L), LapTyped(K),
         K.n = L.n, K.rows = L.rows, K.cols = L.cols, K.cost = L.cost,
         K.freeRows = L.freeRows, K.x = L.x, K.y = L.y, K.v = L.v,
         \A m \in LapIdx(L.n) : LapSlot(K, m) <=> LapSlot(L, m),
         LapUntold(L) = {}, LapOpen(L) = {}, K.at \in {"rounds", "carr", "ca", "done"}, LapBounds(K)
  PROVE  LapInv(K)
<1>1. LapUntold(K) = {} /\ LapOpen(K) = {}
  BY DEF LapUntold, LapOpen
<1>2. LapWaiting(K) = LapWaiting(L) /\ LapSlotted(K) /\ LapMatrix(K)
  BY <1>1, LapWaitsAsBefore
<1>3. LapRed(K) = LapRed(L)
  BY DEF LapRed
<1>4. LapAgree(K) /\ LapAssigned(K)
  BY <1>1, <1>2, <1>3 DEF LapInv, LapAgree, LapAssigned
<1>5. LapTransferring(K) /\ LapSearching(K)
  BY DEF LapTransferring, LapSearching
<1> QED
  BY <1>2, <1>4, <1>5 DEF LapInv

\* The reduction transfer is over: the rows told are those that wait.
LEMMA LapTransferredKeeps ==
  ASSUME NEW L, NEW K, LapInv(L), L.at = "transfer", NEW n, n = L.n, L.k = n,
         NEW m, m = L.n_free, NEW d, d = [i \in LapIdx(n) |-> -1],
         K = [L EXCEPT !.at = "rounds", !.ret = m, !.k = 0, !.d = d]
  PROVE  LapInv(K)
<1>1. n \in Nat /\ L \in LapRec(n) /\ LapTyped(L)
  BY DEF LapInv, LapTyped
<1>2. m \in Nat /\ 0 \in Nat /\ d \in LapInts(n) /\ "rounds" \in LapPlace
  BY <1>1, LapFields DEF LapInts, LapPlace
<1>3. K \in LapRec(n)
  BY <1>1, <1>2, ZenonT(60) DEF LapRec
<1>4. /\ K.at = "rounds" /\ K.ret = m /\ K.n = n /\ K.rows = L.rows /\ K.cols = L.cols
      /\ K.cost = L.cost /\ K.freeRows = L.freeRows /\ K.x = L.x /\ K.y = L.y /\ K.v = L.v
  BY <1>1, ZenonT(60) DEF LapRec
<1>5. LapTyped(K)
  BY <1>1, <1>3, <1>4 DEF LapTyped
<1>6. \A q \in LapIdx(n) : LapSlot(K, q) <=> LapSlot(L, q)
  BY <1>4 DEF LapSlot
<1>7. LapUntold(L) = {} /\ LapOpen(L) = {}
  BY <1>1 DEF LapUntold, LapOpen, LapIdx
<1>8. m <= n
  BY DEF LapInv, LapBounds
<1>9. LapBounds(K)
  BY <1>4, <1>8 DEF LapBounds
<1> QED
  BY <1>4, <1>5, <1>6, <1>7, <1>9, LapPhaseKeeps

\* The fields at the next phase.
LEMMA LapRoundsFields ==
  ASSUME NEW n, NEW L \in LapRec(n), NEW at \in LapPlace, NEW round \in Nat, NEW m \in Nat,
         NEW zero \in Nat,
         NEW K, K = [L EXCEPT !.at = at, !.round = round, !.n_free = m, !.ret = zero,
                              !.current = zero, !.rr = zero, !.pfree = zero]
  PROVE  K \in LapRec(n)
BY ZenonT(60) DEF LapRec

\* lapjv_internal takes up the next round of row reduction, the augmentation, or ends.
LEMMA LapRoundsKeeps ==
  ASSUME NEW L, NEW K, LapInv(L), L.at = "rounds", NEW n, n = L.n, NEW m, m = L.ret,
         NEW at, at = IF m = 0 THEN "done" ELSE IF L.round < 2 THEN "carr" ELSE "ca",
         NEW round, round = IF m > 0 /\ L.round < 2 THEN L.round + 1 ELSE L.round,
         K = [L EXCEPT !.at = at, !.round = round, !.n_free = m, !.ret = 0, !.current = 0,
                       !.rr = 0, !.pfree = 0]
  PROVE  LapInv(K)
<1>1. n \in Nat /\ L \in LapRec(n) /\ LapTyped(L)
  BY DEF LapInv, LapTyped
<1>2. m \in Nat /\ 0 \in Nat /\ round \in Nat /\ at \in LapPlace
  BY <1>1, LapFields DEF LapPlace
<1>3. K \in LapRec(n)
  BY <1>1, <1>2, LapRoundsFields, ZenonT(40)
<1>4. /\ K.at = at /\ K.ret = 0 /\ K.n = n /\ K.rows = L.rows /\ K.cols = L.cols
      /\ K.n_free = m /\ K.current = 0 /\ K.pfree = 0
      /\ K.cost = L.cost /\ K.freeRows = L.freeRows /\ K.x = L.x /\ K.y = L.y /\ K.v = L.v
  BY <1>1, ZenonT(60) DEF LapRec
<1>5. LapTyped(K)
  BY <1>1, <1>3, <1>4 DEF LapTyped
<1>6. at \in {"done", "carr", "ca"} /\ (at = "done" <=> m = 0)
  OBVIOUS
<1>7. \A q \in LapIdx(n) : LapSlot(K, q) <=> LapSlot(L, q)
  <2> SUFFICES ASSUME NEW q \in LapIdx(n) PROVE LapSlot(K, q) <=> LapSlot(L, q)
    OBVIOUS
  <2>1. q \in Nat
    BY <1>1 DEF LapIdx
  <2>2. LapSlot(L, q) <=> q < m
    BY DEF LapSlot
  <2>3. LapSlot(K, q) <=> q < m
    <3>1. CASE at = "done"
      BY <1>2, <1>4, <1>6, <2>1, <3>1 DEF LapSlot
    <3>2. CASE at = "carr"
      BY <1>2, <1>4, <2>1, <3>2 DEF LapSlot
    <3>3. CASE at = "ca"
      BY <1>2, <1>4, <2>1, <3>3 DEF LapSlot
    <3> QED
      BY <1>6, <3>1, <3>2, <3>3
  <2> QED
    BY <2>2, <2>3
<1>8. LapUntold(L) = {} /\ LapOpen(L) = {}
  BY DEF LapUntold, LapOpen
<1>9. m <= n
  BY DEF LapInv, LapBounds
<1>10. LapBounds(K)
  BY <1>2, <1>4, <1>6, <1>9 DEF LapBounds
<1>11. K.at \in {"rounds", "carr", "ca", "done"}
  BY <1>4, <1>6
<1> QED
  <2>1. /\ K.n = L.n /\ K.rows = L.rows /\ K.cols = L.cols
        /\ K.cost = L.cost /\ K.freeRows = L.freeRows /\ K.x = L.x /\ K.y = L.y /\ K.v = L.v
    BY <1>4, Zenon
  <2>2. \A q \in LapIdx(L.n) : LapSlot(K, q) <=> LapSlot(L, q)
    BY <1>7, Zenon
  <2> QED
    BY <1>5, <1>8, <1>10, <1>11, <2>1, <2>2, LapPhaseKeeps

\* A round of row reduction is over.
LEMMA LapRowsReducedKeeps ==
  ASSUME NEW L, NEW K, LapInv(L), L.at = "carr", L.current = L.n_free,
         K = [L EXCEPT !.at = "rounds"]
  PROVE  LapInv(K)
<1>1. PICK n : n = L.n /\ n \in Nat /\ L \in LapRec(n) /\ LapTyped(L)
  BY DEF LapInv, LapTyped
<1>2. "rounds" \in LapPlace
  BY DEF LapPlace
<1>3. K \in LapRec(n)
  BY <1>1, <1>2, ZenonT(60) DEF LapRec
<1>4. /\ K.at = "rounds" /\ K.ret = L.ret /\ K.n = n /\ K.rows = L.rows /\ K.cols = L.cols
      /\ K.cost = L.cost /\ K.freeRows = L.freeRows /\ K.x = L.x /\ K.y = L.y /\ K.v = L.v
  BY <1>1, ZenonT(60) DEF LapRec
<1>5. LapTyped(K)
  BY <1>1, <1>3, <1>4 DEF LapTyped
<1>6. L.ret \in Nat /\ L.n_free \in Nat /\ L.ret <= L.n_free /\ L.n_free <= n
  BY <1>1, LapFields DEF LapInv, LapBounds
<1>7. \A q \in LapIdx(n) : LapSlot(K, q) <=> LapSlot(L, q)
  BY <1>1, <1>4, <1>6 DEF LapSlot, LapIdx
<1>8. LapUntold(L) = {} /\ LapOpen(L) = {}
  BY DEF LapUntold, LapOpen
<1>9. LapBounds(K)
  BY <1>1, <1>4, <1>6 DEF LapBounds
<1> QED
  BY <1>1, <1>4, <1>5, <1>7, <1>8, <1>9, LapPhaseKeeps

\* No row waits any more.
LEMMA LapAllAugmentedKeeps ==
  ASSUME NEW L, NEW K, LapInv(L), L.at = "ca", L.pfree = L.n_free,
         K = [L EXCEPT !.at = "done"]
  PROVE  LapInv(K)
<1>1. PICK n : n = L.n /\ n \in Nat /\ L \in LapRec(n) /\ LapTyped(L)
  BY DEF LapInv, LapTyped
<1>2. "done" \in LapPlace
  BY DEF LapPlace
<1>3. K \in LapRec(n)
  BY <1>1, <1>2, ZenonT(60) DEF LapRec
<1>4. /\ K.at = "done" /\ K.n = n /\ K.rows = L.rows /\ K.cols = L.cols
      /\ K.cost = L.cost /\ K.freeRows = L.freeRows /\ K.x = L.x /\ K.y = L.y /\ K.v = L.v
  BY <1>1, ZenonT(60) DEF LapRec
<1>5. LapTyped(K)
  BY <1>1, <1>3, <1>4 DEF LapTyped
<1>6. L.n_free \in Nat
  BY <1>1, LapFields
<1>7. \A q \in LapIdx(n) : LapSlot(K, q) <=> LapSlot(L, q)
  BY <1>1, <1>4, <1>6 DEF LapSlot, LapIdx
<1>8. LapUntold(L) = {} /\ LapOpen(L) = {}
  BY DEF LapUntold, LapOpen
<1>9. LapBounds(K)
  BY <1>4 DEF LapBounds
<1> QED
  BY <1>1, <1>4, <1>5, <1>7, <1>8, <1>9, LapPhaseKeeps

\* The path is walked back: the row it was for waits no longer.
LEMMA LapAugmentedKeeps ==
  ASSUME NEW L, NEW K, LapInv(L), L.at = "augment", L.i = LapRow(L), NEW next, next = L.pfree + 1,
         K = [L EXCEPT !.at = "ca", !.pfree = next]
  PROVE  LapInv(K)
<1>1. PICK n : n = L.n /\ n \in Nat /\ L \in LapRec(n) /\ LapTyped(L)
  BY DEF LapInv, LapTyped
<1>2. "ca" \in LapPlace /\ L.pfree \in Nat /\ L.n_free \in Nat /\ next \in Nat
  BY <1>1, LapFields DEF LapPlace
<1>3. K \in LapRec(n)
  BY <1>1, <1>2, ZenonT(60) DEF LapRec
<1>4. /\ K.at = "ca" /\ K.n = n /\ K.rows = L.rows /\ K.cols = L.cols
      /\ K.n_free = L.n_free /\ K.pfree = next
      /\ K.cost = L.cost /\ K.freeRows = L.freeRows /\ K.x = L.x /\ K.y = L.y /\ K.v = L.v
  BY <1>1, ZenonT(60) DEF LapRec
<1>5. LapTyped(K)
  BY <1>1, <1>3, <1>4 DEF LapTyped
<1>6. L.pfree < L.n_free /\ L.n_free <= n
  BY <1>1 DEF LapInv, LapBounds
<1>7. \A q \in LapIdx(n) : LapSlot(K, q) <=> LapSlot(L, q)
  BY <1>1, <1>2, <1>4 DEF LapSlot, LapIdx
<1>8. LapUntold(L) = {} /\ LapOpen(L) = {}
  BY DEF LapUntold, LapOpen
<1>9. LapBounds(K)
  BY <1>1, <1>2, <1>4, <1>6 DEF LapBounds
<1> QED
  BY <1>1, <1>4, <1>5, <1>7, <1>8, <1>9, LapPhaseKeeps

-----------------------------------------------------------------------------
(* _ca_dense: the prices of the columns done with, and the way back.       *)

LapPricesOf(L, K, d, done, mind) ==
  \A c \in LapIdx(L.n) : K.v[c] = IF c \in done THEN L.v[c] + d[c] - mind ELSE L.v[c]

\* The new prices change the reduced costs of the columns done with by how much nearer
\* they were than the end of the path.
LEMMA LapRepriced ==
  ASSUME NEW L, NEW K, LapTyped(L), LapTyped(K), K.n = L.n, K.cost = L.cost,
         NEW done, NEW mind \in Int, NEW d \in [LapIdx(L.n) -> Int],
         LapPricesOf(L, K, d, done, mind)
  PROVE  /\ LapRed(K) \in [LapIdx(L.n) -> [LapIdx(L.n) -> Int]]
         /\ RepricedIn(L.n, LapRed(L), LapRed(K), d, done, mind)
<1>1. LapRed(K) \in [LapIdx(L.n) -> [LapIdx(L.n) -> Int]]
  BY LapRedIs
<1>2. ASSUME NEW r \in LapIdx(L.n), NEW c \in LapIdx(L.n)
      PROVE  LapRed(K)[r][c]
               = IF c \in done THEN LapRed(L)[r][c] - (d[c] - mind) ELSE LapRed(L)[r][c]
  <2>0. K.v[c] = IF c \in done THEN L.v[c] + d[c] - mind ELSE L.v[c]
    BY Zenon DEF LapPricesOf
  <2>1. LapRed(K)[r][c] = L.cost[r][c] - K.v[c]
    BY LapRedIs
  <2>2. LapRed(L)[r][c] = L.cost[r][c] - L.v[c] /\ L.cost[r][c] \in Int /\ L.v[c] \in Int
    BY LapRedIs
  <2>3. PICK a, b, e : a = L.cost[r][c] /\ b = L.v[c] /\ e = d[c]
    OBVIOUS
  <2>4. a \in Int /\ b \in Int /\ e \in Int
    BY <2>2, <2>3
  <2>5. CASE c \in done
    <3>1. LapRed(K)[r][c] = a - (b + e - mind) /\ LapRed(L)[r][c] = a - b
      BY <2>0, <2>1, <2>2, <2>3, <2>5, Zenon
    <3>2. a - (b + e - mind) = (a - b) - (e - mind)
      BY <2>4
    <3> QED
      BY <2>3, <2>5, <3>1, <3>2, Zenon
  <2>6. CASE c \notin done
    BY <2>0, <2>1, <2>2, <2>6, Zenon
  <2> QED
    BY <2>5, <2>6
<1> QED
  BY <1>1, <1>2, Zenon DEF RepricedIn

\* The columns whose price changes, and the prices.
LapReadyPrices(L, n, mind, done, v) ==
  /\ done = {L.list[m] : m \in 0..(L.ready - 1)}
  /\ v = [j \in LapIdx(n) |-> IF j \in done THEN L.v[j] + L.d[j] - mind ELSE L.v[j]]

\* The new prices keep every assigned column cheapest for its row, and make every
\* column of the path cheapest for the row before it.
LEMMA LapPricesKeeps ==
  ASSUME NEW L, NEW K, LapInv(L), L.at = "prices", NEW n, n = L.n,
         NEW mind, mind = L.d[L.list[L.lo]],
         NEW done, NEW v, LapReadyPrices(L, n, mind, done, v),
         K = [L EXCEPT !.at = "augment", !.i = -1, !.k = 0, !.v = v]
  PROVE  LapInv(K)
<1> /\ done = {L.list[m] : m \in 0..(L.ready - 1)}
    /\ v = [j \in LapIdx(n) |-> IF j \in done THEN L.v[j] + L.d[j] - mind ELSE L.v[j]]
  BY DEF LapReadyPrices
<1>1. n \in Nat /\ L \in LapRec(n) /\ LapTyped(L)
  BY DEF LapInv, LapTyped
<1> DEFINE red == LapRed(L)
           f == LapRow(L)
<1> HIDE DEF red, f
<1>2. /\ SearchTypes(n, red, L.y, f, L.list, L.d, L.pred)
      /\ Permutes(L.list, n) /\ L.pred \in [LapIdx(n) -> LapIdx(n)]
  BY LapSearchTyped DEF red, f
<1>3. L.lo \in Nat /\ L.v \in [LapIdx(n) -> Int] /\ L.d \in [LapIdx(n) -> Int]
  BY <1>1, LapFields
<1>4. /\ ReachedIn(n, red, L.y, f, L.list, L.d, L.pred, L.lo, L.j) /\ L.ready = L.lo
  BY DEF LapInv, LapSearching, red, f
<1>5. L.lo \in LapIdx(n) /\ L.j \in LapIdx(n) /\ L.y[L.j] < 0
  <2>1. L.lo < n /\ L.j \in LapIdx(n) /\ L.y[L.j] < 0
    BY <1>4, Zenon DEF ReachedIn
  <2> QED
    BY <1>1, <1>3, <2>1 DEF LapIdx
<1>6. mind \in Int
  BY <1>2, <1>3, <1>5 DEF Permutes
<1>7. v \in LapInts(n)
  <2>1. \A j \in LapIdx(n) : L.v[j] \in Int /\ L.v[j] + L.d[j] - mind \in Int
    BY <1>3, <1>6
  <2> QED
    BY <2>1 DEF LapInts
<1>8. -1 \in LapNumber /\ 0 \in Nat /\ "augment" \in LapPlace
  BY DEF LapPlace, LapNumber
<1>9. K \in LapRec(n)
  BY <1>1, <1>7, <1>8, ZenonT(60) DEF LapRec
<1>10. /\ K.at = "augment" /\ K.i = -1 /\ K.k = 0 /\ K.v = v /\ K.lo = L.lo /\ K.j = L.j
       /\ K.list = L.list /\ K.d = L.d /\ K.pred = L.pred
       /\ K.n = n /\ K.rows = L.rows /\ K.cols = L.cols /\ K.cost = L.cost
       /\ K.x = L.x /\ K.y = L.y /\ K.freeRows = L.freeRows
       /\ K.n_free = L.n_free /\ K.pfree = L.pfree
  BY <1>1, ZenonT(60) DEF LapRec
<1>11. LapTyped(K)
  BY <1>1, <1>9, <1>10 DEF LapTyped
<1>12. LapRow(K) = f /\ f \in LapIdx(n) /\ K.i # f /\ L.pfree < L.n_free /\ L.n_free <= n
  <2>1. LapRow(K) = f
    BY <1>10 DEF LapRow, f
  <2>2. f \in LapIdx(n) /\ L.pfree < L.n_free /\ L.n_free <= n
    BY DEF LapInv, LapBounds, f
  <2>3. -1 # f
    BY <1>1, <2>2 DEF LapIdx
  <2> QED
    BY <1>10, <2>1, <2>2, <2>3
<1>13. LapOpen(K) = {L.j} /\ LapOpen(L) = {} /\ LapUntold(K) = {} /\ LapUntold(L) = {}
  BY <1>10, <1>12 DEF LapOpen, LapUntold
<1>14. \A q \in LapIdx(n) : LapSlot(K, q) <=> LapSlot(L, q)
  BY <1>10, <1>12, ZenonT(30) DEF LapSlot
<1>15. /\ LapSlots(K) = LapSlots(L) /\ LapWaiting(K) = LapWaiting(L)
       /\ LapSlotted(K) /\ LapMatrix(K)
  BY <1>10, <1>13, <1>14, LapWaitsAsBefore, ZenonT(60)
<1>16. /\ LapRed(K) \in [LapIdx(n) -> [LapIdx(n) -> Int]]
       /\ RepricedIn(n, red, LapRed(K), L.d, done, mind)
  <2>1. /\ LapTyped(L) /\ LapTyped(K) /\ K.n = L.n /\ K.cost = L.cost
        /\ L.d \in [LapIdx(L.n) -> Int] /\ mind \in Int
    BY <1>1, <1>3, <1>6, <1>10, <1>11, ZenonT(30)
  <2>2. LapPricesOf(L, K, L.d, done, mind)
    BY <1>10, ZenonT(30) DEF LapPricesOf
  <2> QED
    BY <2>1, <2>2, LapRepriced DEF red
<1>17. \A c \in LapIdx(n) : L.y[c] >= 0 => TightAt(n, red, L.y[c], c)
  BY <1>13, LapAllTight DEF red
<1>18. /\ \A c \in LapIdx(n) : L.y[c] >= 0 => TightAt(n, LapRed(K), L.y[c], c)
       /\ TrailIn(n, LapRed(K), L.y, f, L.list, L.d, L.pred, mind, L.j, 0)
  <2>1. done = {L.list[m] : m \in 0..(L.lo - 1)}
    BY <1>4
  <2>2. RepricedIn(n, red, LapRed(K), L.d, done, L.d[L.list[L.lo]])
    BY <1>16
  <2>3. /\ \A c \in LapIdx(n) : L.y[c] >= 0 => TightAt(n, LapRed(K), L.y[c], c)
        /\ TrailIn(n, LapRed(K), L.y, f, L.list, L.d, L.pred, L.d[L.list[L.lo]], L.j, 0)
    <3> HIDE DEF LapRed
    <3> QED
      BY <1>2, <1>3, <1>4, <1>16, <1>17, <2>1, <2>2, PricesAgree
  <2> QED
    BY <2>3, Zenon
<1>19. LapAgree(K)
  <2>1. AgreeIn(n, red, L.x, L.y, {}, LapWaiting(L))
    BY <1>13 DEF LapInv, LapAgree, red
  <2>2. AgreeIn(n, LapRed(K), L.x, L.y, {L.j}, LapWaiting(L))
    BY <1>18, <2>1 DEF AgreeIn
  <2> QED
    BY <1>10, <1>13, <1>15, <2>2 DEF LapAgree
<1>20. LapAssigned(K)
  <2>1. AssignedIn(n, L.y, {}, LapWaiting(L))
    BY <1>13 DEF LapInv, LapAssigned
  <2>2. AssignedIn(n, L.y, {L.j}, LapWaiting(L))
    <3>1. \A r \in LapIdx(n) : r >= 0
      BY <1>1 DEF LapIdx
    <3>2. \A r \in LapIdx(n) : r # L.y[L.j]
      BY <1>1, <1>5, <3>1 DEF LapIdx
    <3> QED
      BY <2>1, <3>2 DEF AssignedIn
  <2> QED
    BY <1>10, <1>13, <1>15, <2>2 DEF LapAssigned
<1>21. LapTransferring(K)
  BY <1>10 DEF LapTransferring
<1>22. LapSearching(K)
  BY <1>2, <1>10, <1>12, <1>18 DEF LapSearching
<1>23. LapBounds(K)
  <2>1. \A m \in LapSlots(L) : m # L.pfree => L.freeRows[m] # f
    <3>1. L.pfree \in LapSlots(L)
      <4>1. L.pfree \in Nat /\ L.n_free \in Nat
        BY <1>1, LapFields
      <4> QED
        BY <1>1, <1>12, <4>1 DEF LapSlots, LapSlot, LapIdx
    <3> QED
      BY <3>1 DEF LapInv, LapSlotted, LapRow, f
  <2> QED
    <3>1. /\ K.at = "augment" /\ K.n = n /\ K.n_free = L.n_free /\ K.pfree = L.pfree
          /\ K.freeRows = L.freeRows
      BY <1>10
    <3>2. \A m \in LapSlots(K) : m # K.pfree => K.freeRows[m] # LapRow(K)
      BY <1>12, <1>15, <2>1, <3>1
    <3> QED
      BY <1>12, <3>1, <3>2 DEF LapBounds
<1> QED
  BY <1>11, <1>15, <1>19, <1>20, <1>21, <1>22, <1>23 DEF LapInv

\* One step back along the path, field by field.
LapAugmentsTo(L, K, i, x, y, b, more) ==
  /\ K.at = L.at /\ K.i = i /\ K.k = more /\ K.x = x /\ K.y = y /\ K.j = b
  /\ K.lo = L.lo /\ K.v = L.v
  /\ K.list = L.list /\ K.d = L.d /\ K.pred = L.pred
  /\ K.n = L.n /\ K.rows = L.rows /\ K.cols = L.cols /\ K.cost = L.cost
  /\ K.freeRows = L.freeRows /\ K.n_free = L.n_free /\ K.pfree = L.pfree

\* The fields after a step of the way back.
LEMMA LapAugmentFields ==
  ASSUME NEW n, NEW L \in LapRec(n), NEW i \in LapNumber, NEW x \in LapMany(n),
         NEW y \in LapMany(n), NEW b \in LapOne(n), NEW more \in Nat,
         NEW K, K = [L EXCEPT !.i = i, !.y = y, !.x = x, !.j = b, !.k = more]
  PROVE  K \in LapRec(n) /\ LapAugmentsTo(L, K, i, x, y, b, more)
<1>1. K \in LapRec(n)
  BY ZenonT(60) DEF LapRec
<1>2. LapAugmentsTo(L, K, i, x, y, b, more)
  BY ZenonT(60) DEF LapRec, LapAugmentsTo
<1> QED
  BY <1>1, <1>2

\* The row before the column takes it.
LapTakenIn(L, f, wait, later, e, i, j, x, y) ==
  TakenIn(L.n, LapRed(L), f, L.list, L.d, L.pred, e, L.x, x, y, wait, later, i, j, L.k)

\* What a step of the way back takes from one row and gives to the other.
LEMMA LapTaken ==
  ASSUME NEW L, LapInv(L), L.at = "augment", L.i # LapRow(L),
         NEW f, f = LapRow(L), NEW wait, wait = LapWaiting(L), NEW later, later = wait \ {f},
         NEW e, e = L.d[L.list[L.lo]], f \in wait,
         NEW j, j = L.j, NEW i, i = L.pred[j], NEW x, x = [L.x EXCEPT ![i] = j],
         NEW y, y = [L.y EXCEPT ![j] = i]
  PROVE  LapTakenIn(L, f, wait, later, e, i, j, x, y)
<1>1. PICK n, red : n = L.n /\ red = LapRed(L)
  OBVIOUS
<1>2. SearchTypes(n, red, L.y, f, L.list, L.d, L.pred) /\ Permutes(L.list, n)
  BY <1>1, LapSearchTyped
<1>3. L.k \in Nat /\ L.x \in [LapIdx(n) -> LapIdx(n) \cup {-1}]
  BY <1>1, LapFields DEF LapInv
<1>4. LapOpen(L) = {j}
  BY DEF LapOpen
<1>5. TrailIn(n, red, L.y, f, L.list, L.d, L.pred, e, j, L.k)
  BY <1>1 DEF LapInv, LapSearching
<1>6. AgreeIn(n, red, L.x, L.y, {j}, wait) /\ AssignedIn(n, L.y, {j}, wait)
  BY <1>1, <1>4 DEF LapInv, LapAgree, LapAssigned
<1>7. f \notin later /\ later \subseteq wait /\ wait \subseteq later \cup {f}
  OBVIOUS
<1>8. TakenIn(n, red, f, L.list, L.d, L.pred, e, L.x, x, y, wait, later, i, j, L.k)
  BY <1>2, <1>3, <1>5, <1>6, <1>7, AugmentStep, ZenonT(40)
<1> QED
  BY <1>1, <1>8, Zenon DEF LapTakenIn

\* A step of the way back: the column goes to the row before it on the path, and the
\* one this row had is open now, unless the row had none.
LEMMA LapAugmentKeeps ==
  ASSUME NEW L, NEW K, LapInv(L), L.at = "augment", L.i # LapRow(L), NEW n, n = L.n,
         NEW j, j = L.j, NEW i, i = L.pred[j], NEW x, x = [L.x EXCEPT ![i] = j],
         NEW y, y = [L.y EXCEPT ![j] = i], NEW b, b = L.x[i], NEW more, more = L.k + 1,
         LapTyped(K), LapAugmentsTo(L, K, i, x, y, b, more)
  PROVE  LapInv(K)
<1>1. n \in Nat /\ L \in LapRec(n) /\ LapTyped(L)
  BY DEF LapInv, LapTyped
<1> DEFINE red == LapRed(L)
           f == LapRow(L)
           wait == LapWaiting(L)
           later == wait \ {f}
           e == L.d[L.list[L.lo]]
<1> HIDE DEF red, f, wait, e
<1>2. /\ SearchTypes(n, red, L.y, f, L.list, L.d, L.pred)
      /\ Permutes(L.list, n) /\ L.pred \in [LapIdx(n) -> LapIdx(n)]
  BY LapSearchTyped DEF red, f
<1>3. /\ L.k \in Nat /\ more \in Nat /\ L.x \in [LapIdx(n) -> LapIdx(n) \cup {-1}]
      /\ L.y \in [LapIdx(n) -> LapIdx(n) \cup {-1}] /\ L.pfree \in Nat /\ L.n_free \in Nat
  BY <1>1, LapFields
<1>4. L.pfree < L.n_free /\ f \in LapIdx(n) /\ L.n_free <= n
  BY DEF LapInv, LapBounds, f
<1>5. L.pfree \in LapSlots(L) /\ L.freeRows[L.pfree] = f
  BY <1>1, <1>3, <1>4 DEF LapSlots, LapSlot, LapIdx, LapRow, f
<1>6. f \in wait
  BY <1>5 DEF LapWaiting, wait
<1>8. LapTakenIn(L, f, wait, later, e, i, j, x, y)
  <2> HIDE DEF later
  <2>1. later = wait \ {f}
    BY DEF later
  <2>2. f = LapRow(L) /\ wait = LapWaiting(L) /\ e = L.d[L.list[L.lo]]
    BY DEF f, wait, e
  <2> QED
    BY <1>6, <2>1, <2>2, LapTaken
<1>10. /\ i \in LapIdx(n) /\ j \in LapIdx(n) /\ more <= n
       /\ i = f => AgreeIn(n, red, x, y, {}, later) /\ AssignedIn(n, y, {}, later)
       /\ i # f => /\ AgreeIn(n, red, x, y, {b}, wait)
                   /\ AssignedIn(n, y, {b}, wait)
                   /\ TrailIn(n, red, y, f, L.list, L.d, L.pred, e, b, more)
  BY <1>8, Zenon DEF LapTakenIn, TakenIn, red
<1>13. /\ K.at = "augment" /\ K.i = i /\ K.k = more /\ K.x = x /\ K.y = y /\ K.j = b
       /\ K.lo = L.lo /\ K.v = L.v
       /\ K.list = L.list /\ K.d = L.d /\ K.pred = L.pred
       /\ K.n = n /\ K.rows = L.rows /\ K.cols = L.cols /\ K.cost = L.cost
       /\ K.freeRows = L.freeRows /\ K.n_free = L.n_free /\ K.pfree = L.pfree
  BY DEF LapAugmentsTo
<1>15. LapRow(K) = f /\ LapRed(K) = red /\ K.d[K.list[K.lo]] = e
  BY <1>13 DEF LapRow, LapRed, f, red, e
<1>16. LapUntold(K) = {} /\ LapUntold(L) = {}
  BY <1>13 DEF LapUntold
<1>17. LapMatrix(K)
  BY <1>13 DEF LapInv, LapMatrix
<1>18. LapTransferring(K)
  BY <1>13 DEF LapTransferring
<1>19. \A q : LapSlot(L, q) <=> L.pfree <= q /\ q < L.n_free
  BY DEF LapSlot, f
<1>20. \A q : LapSlot(K, q) <=> L.pfree <= q /\ q < L.n_free /\ (i = f => q # L.pfree)
  BY <1>13, <1>15 DEF LapSlot
<1>21. LapSlots(K) = {q \in LapSlots(L) : i = f => q # L.pfree}
  BY <1>13, <1>19, <1>20 DEF LapSlots
<1>22. LapSlotted(K)
  BY <1>13, <1>21 DEF LapInv, LapSlotted
<1>23. \A m \in LapSlots(L) : m # L.pfree => L.freeRows[m] # f
  BY <1>5 DEF LapInv, LapSlotted
<1>24. LapBounds(K)
  BY <1>4, <1>13, <1>15, <1>21, <1>23 DEF LapBounds
<1>25. CASE i = f
  <2>1. LapWaiting(K) = later
    <3>1. LapWaiting(K) = {L.freeRows[m] : m \in LapSlots(K)}
      BY <1>13, <1>16 DEF LapWaiting
    <3>2. wait = {L.freeRows[m] : m \in LapSlots(L)}
      BY <1>16 DEF LapWaiting, wait
    <3>3. LapSlots(K) = LapSlots(L) \ {L.pfree}
      BY <1>21, <1>25
    <3> QED
      BY <1>5, <1>23, <3>1, <3>2, <3>3
  <2>2. LapOpen(K) = {}
    BY <1>13, <1>15, <1>25 DEF LapOpen
  <2>3. LapAgree(K) /\ LapAssigned(K)
    BY <1>10, <1>13, <1>15, <1>25, <2>1, <2>2 DEF LapAgree, LapAssigned
  <2>4. LapSearching(K)
    BY <1>2, <1>10, <1>13, <1>15, <1>25 DEF LapSearching
  <2> QED
    BY <1>17, <1>18, <1>22, <1>24, <2>3, <2>4 DEF LapInv
<1>26. CASE i # f
  <2>1. LapWaiting(K) = wait
    <3>1. LapSlots(K) = LapSlots(L)
      BY <1>21, <1>26
    <3> QED
      BY <1>13, <1>16, <3>1 DEF LapWaiting, wait
  <2>2. LapOpen(K) = {b}
    BY <1>13, <1>15, <1>26 DEF LapOpen
  <2>3. LapAgree(K) /\ LapAssigned(K)
    BY <1>10, <1>13, <1>15, <1>26, <2>1, <2>2 DEF LapAgree, LapAssigned
  <2>4. LapSearching(K)
    BY <1>2, <1>10, <1>13, <1>15, <1>26 DEF LapSearching
  <2> QED
    BY <1>17, <1>18, <1>22, <1>24, <2>3, <2>4 DEF LapInv
<1> QED
  BY <1>25, <1>26

-----------------------------------------------------------------------------
(* _carr_dense                                                             *)

\* Nothing but column j becomes dearer.
RisesIn(n, red, new, j) ==
  /\ \A r, q \in LapIdx(n) : q # j => new[r][q] = red[r][q]
  /\ \A r \in LapIdx(n) : red[r][j] <= new[r][j]

\* The row takes the column, and a row that had it waits instead.
RowGets(x, y, row, j, u, w) == u = [x EXCEPT ![row] = j] /\ w = [y EXCEPT ![j] = row]
WaitsInstead(wait, row, r, later) ==
  later = (wait \ {row}) \cup (IF r >= 0 THEN {r} ELSE {})

\* A waiting row takes the column that is cheapest for it, whose price only falls:
\* the row that had it, if one did, waits instead.
LEMMA RowTaken ==
  ASSUME NEW n \in Nat, NEW red \in [LapIdx(n) -> [LapIdx(n) -> Int]],
         NEW new \in [LapIdx(n) -> [LapIdx(n) -> Int]],
         NEW x \in [LapIdx(n) -> LapIdx(n) \cup {-1}], NEW y \in [LapIdx(n) -> LapIdx(n) \cup {-1}],
         NEW wait, NEW row \in LapIdx(n), row \in wait, NEW j \in LapIdx(n),
         AgreeIn(n, red, x, y, {}, wait), AssignedIn(n, y, {}, wait),
         RisesIn(n, red, new, j), TightAt(n, new, row, j),
         NEW later, WaitsInstead(wait, row, y[j], later),
         NEW u, NEW w, RowGets(x, y, row, j, u, w)
  PROVE  AgreeIn(n, new, u, w, {}, later) /\ AssignedIn(n, w, {}, later)
<1>1. \A c \in LapIdx(n) : y[c] >= 0 => /\ y[c] \in LapIdx(n) /\ x[y[c]] = c /\ y[c] \notin wait
                                        /\ TightAt(n, red, y[c], c)
  BY DEF AgreeIn
<1>2. /\ w[j] = row /\ u[row] = j /\ \A c \in LapIdx(n) : c # j => w[c] = y[c]
      /\ \A r \in LapIdx(n) : r # row => u[r] = x[r]
  BY DEF RowGets
<1> later = (wait \ {row}) \cup (IF y[j] >= 0 THEN {y[j]} ELSE {})
  BY DEF WaitsInstead
<1>3. ASSUME NEW c \in LapIdx(n), c # j, y[c] >= 0
      PROVE  TightAt(n, new, y[c], c)
  <2>1. TightAt(n, red, y[c], c) /\ y[c] \in LapIdx(n)
    BY <1>1, <1>3
  <2> SUFFICES ASSUME NEW q \in LapIdx(n) PROVE new[y[c]][c] <= new[y[c]][q]
    BY DEF TightAt
  <2>2. red[y[c]][c] <= red[y[c]][q] /\ new[y[c]][c] = red[y[c]][c]
    BY <1>3, <2>1 DEF TightAt, RisesIn
  <2>3. red[y[c]][q] <= new[y[c]][q]
    <3>1. CASE q = j
      BY <2>1, <3>1 DEF RisesIn
    <3>2. CASE q # j
      BY <2>1, <3>2 DEF RisesIn
    <3> QED
      BY <3>1, <3>2
  <2>4. red[y[c]][c] \in Int /\ red[y[c]][q] \in Int /\ new[y[c]][q] \in Int
    BY <2>1
  <2> QED
    BY <2>2, <2>3, <2>4
<1>4. ASSUME NEW c \in LapIdx(n), w[c] >= 0
      PROVE  u[w[c]] = c /\ w[c] \notin later /\ TightAt(n, new, w[c], c)
  <2>1. CASE c = j
    <3>1. y[j] >= 0 => y[j] # row
      BY <1>1
    <3> QED
      BY <1>2, <2>1, <3>1
  <2>2. CASE c # j
    <3>1. w[c] = y[c] /\ y[c] >= 0 /\ y[c] \in LapIdx(n) /\ y[c] \notin wait /\ x[y[c]] = c
      BY <1>1, <1>2, <1>4, <2>2
    <3>2. y[c] # row /\ u[y[c]] = c
      BY <1>2, <3>1
    <3>3. y[j] >= 0 => y[j] # y[c]
      BY <1>1, <2>2, <3>1
    <3> QED
      BY <1>3, <2>2, <3>1, <3>2, <3>3
  <2> QED
    BY <2>1, <2>2
<1>5. AgreeIn(n, new, u, w, {}, later)
  BY <1>4 DEF AgreeIn
<1>6. AssignedIn(n, w, {}, later)
  <2> SUFFICES ASSUME NEW r \in LapIdx(n), r \notin later
               PROVE  \E c \in LapIdx(n) \ {} : w[c] = r
    BY DEF AssignedIn
  <2>1. CASE r = row
    BY <1>2, <2>1
  <2>2. CASE r # row
    <3>1. r \notin wait
      BY <2>2
    <3>2. PICK c \in LapIdx(n) : y[c] = r
      BY <3>1 DEF AssignedIn
    <3>3. r >= 0
      BY DEF LapIdx
    <3>4. c # j
      BY <3>2, <3>3
    <3> QED
      BY <1>2, <3>2, <3>4
  <2> QED
    BY <2>1, <2>2
<1> QED
  BY <1>5, <1>6

\* The row that is driven out is taken up at once, at the place of the other.
LEMMA LapTakenUpAtOnce ==
  ASSUME NEW L, NEW K, LapInv(L), L.at = "carr", K.at = "carr", L.current < L.n_free,
         K.n = L.n, K.n_free = L.n_free, K.ret = L.ret, K.current = L.current,
         NEW row, row = L.freeRows[L.current], NEW r \in LapIdx(L.n), r \notin LapWaiting(L),
         K.freeRows = [L.freeRows EXCEPT ![L.current] = r]
  PROVE  /\ LapSlotted(K) /\ LapBounds(K) /\ row \in LapIdx(L.n) /\ row \in LapWaiting(L)
         /\ LapWaiting(K) = (LapWaiting(L) \ {row}) \cup {r}
<1>1. PICK n, at : n = L.n /\ at = L.current /\ n \in Nat /\ at \in Nat /\ L.n_free \in Nat
                   /\ L.freeRows \in [LapIdx(n) -> LapIdx(n) \cup {-1}]
  BY LapFields DEF LapInv
<1>2. L.ret <= at /\ at <= L.n_free /\ L.n_free <= n
  BY <1>1 DEF LapInv, LapBounds
<1>3. at \in LapIdx(n) /\ LapSlot(L, at)
  BY <1>1, <1>2 DEF LapIdx, LapSlot
<1>4. at \in LapSlots(L) /\ LapSlots(K) = LapSlots(L)
  BY <1>1, <1>3 DEF LapSlots, LapSlot
<1>5. LapUntold(K) = {} /\ LapUntold(L) = {}
  BY DEF LapUntold
<1>6. K.freeRows[at] = r /\ \A m \in LapIdx(n) : m # at => K.freeRows[m] = L.freeRows[m]
  BY <1>1, <1>3
<1>7. LapSlots(L) \subseteq LapIdx(n)
  BY <1>1 DEF LapSlots
<1>8. \A m \in LapSlots(L) : L.freeRows[m] # r /\ L.freeRows[m] \in LapIdx(n)
  BY <1>1 DEF LapInv, LapSlotted, LapWaiting
<1>9. \A m, q \in LapSlots(L) : L.freeRows[m] = L.freeRows[q] => m = q
  BY DEF LapInv, LapSlotted
<1>10. LapSlotted(K)
  BY <1>1, <1>4, <1>6, <1>7, <1>8, <1>9 DEF LapSlotted
<1>11. LapBounds(K)
  BY <1>1, <1>2 DEF LapBounds
<1>12. LapWaiting(K) = (LapWaiting(L) \ {row}) \cup {r}
  <2>1. LapWaiting(K) = {K.freeRows[m] : m \in LapSlots(L)}
    BY <1>4, <1>5 DEF LapWaiting
  <2>2. LapWaiting(L) = {L.freeRows[m] : m \in LapSlots(L)}
    BY <1>5 DEF LapWaiting
  <2>3. row = L.freeRows[at]
    BY <1>1
  <2> QED
    BY <1>4, <1>6, <1>7, <1>8, <1>9, <2>1, <2>2, <2>3
<1> QED
  BY <1>1, <1>4, <1>8, <1>10, <1>11, <1>12 DEF LapWaiting

\* It is taken up in the next round: its place is behind those that wait for that.
LEMMA LapTakenUpLater ==
  ASSUME NEW L, NEW K, LapInv(L), L.at = "carr", K.at = "carr", L.current < L.n_free,
         K.n = L.n, K.n_free = L.n_free, K.ret = L.ret + 1, K.current = L.current + 1,
         NEW row, row = L.freeRows[L.current], NEW r \in LapIdx(L.n), r \notin LapWaiting(L),
         K.freeRows = [L.freeRows EXCEPT ![L.ret] = r]
  PROVE  /\ LapSlotted(K) /\ LapBounds(K)
         /\ LapWaiting(K) = (LapWaiting(L) \ {row}) \cup {r}
<1>1. PICK n, at, ret : /\ n = L.n /\ at = L.current /\ ret = L.ret
                        /\ n \in Nat /\ at \in Nat /\ ret \in Nat /\ L.n_free \in Nat
                        /\ L.freeRows \in [LapIdx(n) -> LapIdx(n) \cup {-1}]
  BY LapFields DEF LapInv
<1>2. ret <= at /\ at < L.n_free /\ L.n_free <= n
  BY <1>1 DEF LapInv, LapBounds
<1>3. at \in LapIdx(n) /\ ret \in LapIdx(n)
  BY <1>1, <1>2, SMTT(30) DEF LapIdx
<1>4. \A m \in LapIdx(n) : LapSlot(L, m) <=> m < ret \/ (at <= m /\ m < L.n_free)
  BY <1>1 DEF LapSlot
<1>5. \A m \in LapIdx(n) : LapSlot(K, m) <=> m < ret + 1 \/ (at + 1 <= m /\ m < L.n_free)
  BY <1>1 DEF LapSlot
<1>6. \A m \in LapIdx(n) : m \in Nat
  BY DEF LapIdx
<1>7. LapSlots(L) \subseteq LapIdx(n) /\ LapSlots(K) \subseteq LapIdx(n) /\ at \in LapSlots(L)
  BY <1>1, <1>2, <1>3, <1>4 DEF LapSlots
<1>8. \A m \in LapIdx(n) : m \in LapSlots(K) <=> m = ret \/ (m \in LapSlots(L) /\ m # at)
  <2> SUFFICES ASSUME NEW m \in LapIdx(n)
               PROVE  m \in LapSlots(K) <=> m = ret \/ (m \in LapSlots(L) /\ m # at)
    OBVIOUS
  <2>1. m \in LapSlots(K) <=> m < ret + 1 \/ (at + 1 <= m /\ m < L.n_free)
    BY <1>1, <1>5 DEF LapSlots
  <2>2. m \in LapSlots(L) <=> m < ret \/ (at <= m /\ m < L.n_free)
    BY <1>1, <1>4 DEF LapSlots
  <2> QED
    BY <1>1, <1>2, <1>6, <2>1, <2>2
<1>9. \A m \in LapSlots(L) : m # at => m # ret
  BY <1>1, <1>2, <1>4, <1>6, <1>7 DEF LapSlots
<1>10. LapUntold(K) = {} /\ LapUntold(L) = {}
  BY DEF LapUntold
<1>11. K.freeRows[ret] = r /\ \A m \in LapIdx(n) : m # ret => K.freeRows[m] = L.freeRows[m]
  BY <1>1, <1>3
<1>12. \A m \in LapSlots(L) : L.freeRows[m] # r /\ L.freeRows[m] \in LapIdx(n)
  BY <1>1 DEF LapInv, LapSlotted, LapWaiting
<1>13. \A m, q \in LapSlots(L) : L.freeRows[m] = L.freeRows[q] => m = q
  BY DEF LapInv, LapSlotted
<1>14. LapSlotted(K)
  <2>1. \A m \in LapSlots(K) : K.freeRows[m] \in LapIdx(n)
    BY <1>1, <1>7, <1>8, <1>11, <1>12
  <2>2. ASSUME NEW m \in LapSlots(K), NEW q \in LapSlots(K), K.freeRows[m] = K.freeRows[q]
        PROVE  m = q
    BY <1>7, <1>8, <1>11, <1>12, <1>13, <2>2
  <2> QED
    BY <1>1, <2>1, <2>2, Zenon DEF LapSlotted
<1>15. LapBounds(K)
  BY <1>1, <1>2 DEF LapBounds
<1>16. LapWaiting(K) = (LapWaiting(L) \ {row}) \cup {r}
  <2>1. LapWaiting(K) = {K.freeRows[m] : m \in LapSlots(K)}
    BY <1>10 DEF LapWaiting
  <2>2. LapWaiting(L) = {L.freeRows[m] : m \in LapSlots(L)}
    BY <1>10 DEF LapWaiting
  <2>3. row = L.freeRows[at]
    BY <1>1
  <2>4. \A m \in LapSlots(K) :
          K.freeRows[m] = r \/ (K.freeRows[m] \in LapWaiting(L) /\ K.freeRows[m] # row)
    BY <1>7, <1>8, <1>11, <1>13, <2>2, <2>3
  <2>5. r \in LapWaiting(K)
    BY <1>3, <1>8, <1>11, <2>1
  <2>6. \A m \in LapSlots(L) : L.freeRows[m] = row \/ L.freeRows[m] \in LapWaiting(K)
    BY <1>7, <1>8, <1>9, <1>11, <2>1, <2>3
  <2> QED
    BY <2>1, <2>2, <2>4, <2>5, <2>6
<1> QED
  BY <1>14, <1>15, <1>16

\* No row is driven out.
LEMMA LapNoneDrivenOut ==
  ASSUME NEW L, NEW K, LapInv(L), L.at = "carr", K.at = "carr", L.current < L.n_free,
         K.n = L.n, K.n_free = L.n_free, K.ret = L.ret, K.current = L.current + 1,
         NEW row, row = L.freeRows[L.current], K.freeRows = L.freeRows
  PROVE  LapSlotted(K) /\ LapBounds(K) /\ LapWaiting(K) = LapWaiting(L) \ {row}
<1>1. PICK n, at, ret : /\ n = L.n /\ at = L.current /\ ret = L.ret
                        /\ n \in Nat /\ at \in Nat /\ ret \in Nat /\ L.n_free \in Nat
  BY LapFields DEF LapInv
<1>2. ret <= at /\ at < L.n_free /\ L.n_free <= n
  BY <1>1 DEF LapInv, LapBounds
<1>3. at \in LapIdx(n)
  BY <1>1, <1>2 DEF LapIdx
<1>4. \A m \in LapIdx(n) : LapSlot(L, m) <=> m < ret \/ (at <= m /\ m < L.n_free)
  BY <1>1 DEF LapSlot
<1>5. \A m \in LapIdx(n) : LapSlot(K, m) <=> m < ret \/ (at + 1 <= m /\ m < L.n_free)
  BY <1>1 DEF LapSlot
<1>6. LapSlots(K) = LapSlots(L) \ {at} /\ at \in LapSlots(L)
  <2>1. \A m \in LapIdx(n) : LapSlot(K, m) <=> LapSlot(L, m) /\ m # at
    BY <1>1, <1>2, <1>4, <1>5 DEF LapIdx
  <2>2. LapSlot(L, at)
    BY <1>1, <1>2, <1>3, <1>4
  <2> QED
    BY <1>1, <1>3, <2>1, <2>2, Zenon DEF LapSlots
<1>7. LapUntold(K) = {} /\ LapUntold(L) = {}
  BY DEF LapUntold
<1>8. \A m, q \in LapSlots(L) : L.freeRows[m] = L.freeRows[q] => m = q
  BY DEF LapInv, LapSlotted
<1>9. LapSlotted(K)
  BY <1>6 DEF LapInv, LapSlotted
<1>10. LapBounds(K)
  BY <1>1, <1>2 DEF LapBounds
<1>11. LapWaiting(K) = LapWaiting(L) \ {row}
  <2>1. LapWaiting(K) = {L.freeRows[m] : m \in LapSlots(K)}
    BY <1>7 DEF LapWaiting
  <2>2. LapWaiting(L) = {L.freeRows[m] : m \in LapSlots(L)}
    BY <1>7 DEF LapWaiting
  <2>3. row = L.freeRows[at] /\ LapSlots(K) \subseteq LapSlots(L)
    BY <1>1, <1>6
  <2>4. \A m \in LapSlots(K) : L.freeRows[m] \in LapWaiting(L) /\ L.freeRows[m] # row
    BY <1>6, <1>8, <2>2, <2>3
  <2>5. \A m \in LapSlots(L) : L.freeRows[m] = row \/ L.freeRows[m] \in LapWaiting(K)
    BY <1>6, <2>1, <2>3
  <2> QED
    BY <2>1, <2>2, <2>4, <2>5
<1> QED
  BY <1>9, <1>10, <1>11

\* The row of a place in use waits.
LEMMA LapNextWaits ==
  ASSUME NEW L, LapInv(L), L.at = "carr", L.current < L.n_free
  PROVE  L.freeRows[L.current] \in LapIdx(L.n) /\ L.freeRows[L.current] \in LapWaiting(L)
<1>1. PICK n, at : /\ n = L.n /\ at = L.current /\ n \in Nat /\ at \in Nat /\ L.n_free \in Nat
  BY LapFields DEF LapInv
<1>2. at < L.n_free /\ L.n_free <= n
  BY <1>1 DEF LapInv, LapBounds
<1>3. at \in LapSlots(L)
  BY <1>1, <1>2 DEF LapSlots, LapSlot, LapIdx
<1> QED
  BY <1>1, <1>3 DEF LapInv, LapSlotted, LapWaiting

\* The cheapest column, and the second cheapest, for a row.
LEMMA TwoCheapest ==
  ASSUME NEW n \in Nat, n > 1, NEW c \in [LapIdx(n) -> Int],
         NEW j1, j1 = ArgMin(LapIdx(n), c), NEW j2, j2 = ArgMin(LapIdx(n) \ {j1}, c)
  PROVE  /\ j1 \in LapIdx(n) /\ j2 \in LapIdx(n) /\ j2 # j1
         /\ \A q \in LapIdx(n) : c[j1] <= c[q] /\ (q # j1 => c[j2] <= c[q])
<1>1. 0 \in LapIdx(n) /\ 1 \in LapIdx(n)
  BY DEF LapIdx
<1>2. \A k \in LapIdx(n) : c[k] \in Int
  OBVIOUS
<1>3. j1 \in LapIdx(n) /\ \A k \in LapIdx(n) : c[j1] <= c[k]
  <2>1. LapIdx(n) \in SUBSET LapIdx(n) /\ LapIdx(n) # {}
    BY <1>1
  <2> QED
    BY <1>2, <2>1, ArgMinFinds
<1>4. PICK S : S = LapIdx(n) \ {j1}
  OBVIOUS
<1>5. S \in SUBSET LapIdx(n) /\ S # {} /\ j2 = ArgMin(S, c)
  BY <1>1, <1>4
<1>6. j2 \in S /\ \A k \in S : c[j2] <= c[k]
  BY <1>2, <1>5, ArgMinFinds
<1> QED
  BY <1>3, <1>4, <1>6

\* The column that a row takes, and what becomes of the prices.
LapChosen(L, v, row, again, j1, j2, j) ==
  LET c == LapRed(L)[row]
  IN  /\ j1 = ArgMin(LapIdx(L.n), c) /\ j2 = ArgMin(LapIdx(L.n) \ {j1}, c)
      /\ j = IF again /\ ~(c[j1] < c[j2]) /\ L.y[j1] >= 0 THEN j2 ELSE j1
      /\ v = IF again /\ c[j1] < c[j2] THEN [L.v EXCEPT ![j1] = L.v[j1] - (c[j2] - c[j1])] ELSE L.v

\* The row is given a column of the matrix, and the prices stay integers.
LEMMA LapChosenIsIn ==
  ASSUME NEW L, LapTyped(L), L.n > 1, NEW row \in LapIdx(L.n), NEW again, NEW v, NEW j1, NEW j2,
         NEW j, LapChosen(L, v, row, again, j1, j2, j)
  PROVE  j \in LapIdx(L.n) /\ v \in [LapIdx(L.n) -> Int]
<1>1. PICK n, c : n = L.n /\ n \in Nat /\ c = LapRed(L)[row] /\ c \in [LapIdx(n) -> Int]
  BY LapFields, LapRedIs
<1>2. j1 = ArgMin(LapIdx(n), c) /\ j2 = ArgMin(LapIdx(n) \ {j1}, c)
  BY <1>1 DEF LapChosen
<1>3. j1 \in LapIdx(n) /\ j2 \in LapIdx(n)
  BY <1>1, <1>2, TwoCheapest
<1>4. j = j1 \/ j = j2
  BY DEF LapChosen
<1>5. c[j1] \in Int /\ c[j2] \in Int /\ L.v \in [LapIdx(n) -> Int]
  BY <1>1, <1>3, LapFields
<1>6. v = L.v \/ v = [L.v EXCEPT ![j1] = L.v[j1] - (c[j2] - c[j1])]
  BY <1>1 DEF LapChosen
<1>7. v \in [LapIdx(n) -> Int]
  <2>1. L.v[j1] - (c[j2] - c[j1]) \in Int
    BY <1>3, <1>5
  <2> QED
    BY <1>5, <1>6, <2>1
<1> QED
  BY <1>1, <1>3, <1>4, <1>7

\* The column is cheapest for the row at the new prices, and the new prices keep every
\* other assigned column cheapest for its row.
LEMMA LapChosenIsTight ==
  ASSUME NEW L, NEW K, LapTyped(L), LapTyped(K), L.n > 1, K.n = L.n, K.cost = L.cost,
         NEW row \in LapIdx(L.n), NEW again, NEW j1, NEW j2, NEW j,
         LapChosen(L, K.v, row, again, j1, j2, j)
  PROVE  RisesIn(L.n, LapRed(L), LapRed(K), j) /\ TightAt(L.n, LapRed(K), row, j)
<1>1. PICK n, red, new, c : /\ n = L.n /\ red = LapRed(L) /\ new = LapRed(K) /\ c = red[row]
  OBVIOUS
<1>2. /\ n \in Nat /\ red \in [LapIdx(n) -> [LapIdx(n) -> Int]] /\ c \in [LapIdx(n) -> Int]
      /\ new \in [LapIdx(n) -> [LapIdx(n) -> Int]] /\ L.v \in [LapIdx(n) -> Int]
  BY <1>1, LapFields, LapRedIs
<1>3. j1 = ArgMin(LapIdx(n), c) /\ j2 = ArgMin(LapIdx(n) \ {j1}, c)
  BY <1>1 DEF LapChosen
<1>4. /\ j1 \in LapIdx(n) /\ j2 \in LapIdx(n) /\ j2 # j1
      /\ \A q \in LapIdx(n) : c[j1] <= c[q] /\ (q # j1 => c[j2] <= c[q])
  <2>1. n \in Nat /\ n > 1 /\ c \in [LapIdx(n) -> Int]
    BY <1>1, <1>2
  <2> QED
    BY <1>3, <2>1, TwoCheapest
<1>5. \A r, q \in LapIdx(n) : red[r][q] = L.cost[r][q] - L.v[q] /\ new[r][q] = L.cost[r][q] - K.v[q]
  BY <1>1, LapRedIs
<1>6. \A r, q \in LapIdx(n) : L.cost[r][q] \in Int /\ L.v[q] \in Int
  BY <1>1, LapRedIs
<1>7. c[j1] \in Int /\ c[j2] \in Int
  BY <1>2, <1>4
<1>8. CASE again /\ c[j1] < c[j2]
  <2>1. j = j1 /\ K.v = [L.v EXCEPT ![j1] = L.v[j1] - (c[j2] - c[j1])]
    BY <1>1, <1>8 DEF LapChosen
  <2>2. K.v[j] = L.v[j] - (c[j2] - c[j1]) /\ \A q \in LapIdx(n) : q # j => K.v[q] = L.v[q]
    BY <1>2, <1>4, <2>1
  <2>3. \A r, q \in LapIdx(n) : q # j => new[r][q] = red[r][q]
    BY <1>5, <2>2
  <2>4. ASSUME NEW r \in LapIdx(n) PROVE new[r][j] = red[r][j] + (c[j2] - c[j1])
    <3>1. PICK a, b : a = L.cost[r][j] /\ b = L.v[j]
      OBVIOUS
    <3>2. a \in Int /\ b \in Int
      BY <1>4, <1>6, <2>1, <3>1
    <3>3. new[r][j] = a - (b - (c[j2] - c[j1])) /\ red[r][j] = a - b
      BY <1>4, <1>5, <2>1, <2>2, <3>1
    <3> QED
      BY <1>7, <3>2, <3>3
  <2>5. \A r \in LapIdx(n) : red[r][j] <= new[r][j]
    <3> TAKE r \in LapIdx(n)
    <3>1. red[r][j] \in Int
      BY <1>2, <1>4, <2>1
    <3> QED
      BY <1>7, <1>8, <2>4, <3>1
  <2>6. TightAt(n, new, row, j)
    <3> SUFFICES ASSUME NEW q \in LapIdx(n) PROVE new[row][j] <= new[row][q]
      BY DEF TightAt
    <3>1. row \in LapIdx(n)
      BY <1>1
    <3>2. new[row][j] = c[j2]
      <4>1. new[row][j] = c[j1] + (c[j2] - c[j1])
        BY <1>1, <2>1, <2>4, <3>1
      <4> QED
        BY <1>7, <4>1
    <3>3. CASE q = j
      BY <1>7, <3>2, <3>3
    <3>4. CASE q # j
      <4>1. new[row][q] = c[q]
        BY <1>1, <2>3, <3>1, <3>4
      <4> QED
        BY <1>4, <2>1, <3>2, <3>4, <4>1
    <3> QED
      BY <3>3, <3>4
  <2> QED
    BY <1>1, <2>3, <2>5, <2>6 DEF RisesIn
<1>9. CASE ~(again /\ c[j1] < c[j2])
  <2>1. K.v = L.v /\ (j = j1 \/ (j = j2 /\ ~(c[j1] < c[j2])))
    BY <1>1, <1>9 DEF LapChosen
  <2>2. new = red
    BY <1>1, <2>1 DEF LapRed
  <2>3. \A q \in LapIdx(n) : c[j] <= c[q]
    <3>1. c[j] <= c[j1] /\ c[j] \in Int
      BY <1>7, <2>1
    <3> TAKE q \in LapIdx(n)
    <3>2. c[j1] <= c[q] /\ c[q] \in Int
      BY <1>2, <1>4
    <3> QED
      BY <1>7, <3>1, <3>2
  <2>4. \A r \in LapIdx(n) : red[r][j] <= red[r][j]
    <3> TAKE r \in LapIdx(n)
    <3>1. red[r][j] \in Int
      BY <1>2, <1>4, <2>1
    <3> QED
      BY <3>1
  <2>5. TightAt(n, new, row, j)
    BY <1>1, <2>2, <2>3 DEF TightAt
  <2> QED
    BY <1>1, <2>2, <2>4, <2>5 DEF RisesIn
<1> QED
  BY <1>8, <1>9

\* The row takes the column: the row that is driven out is taken up at once or later.
LapRowTo(L, K, row, j, i0, atOnce) ==
  /\ K.at = "carr" /\ K.n = L.n /\ K.rows = L.rows /\ K.cols = L.cols /\ K.cost = L.cost
  /\ K.n_free = L.n_free /\ K.pfree = L.pfree
  /\ K.x = [L.x EXCEPT ![row] = j] /\ K.y = [L.y EXCEPT ![j] = row]
  /\ \/ /\ i0 >= 0 /\ atOnce /\ K.current = L.current /\ K.ret = L.ret
        /\ K.freeRows = [L.freeRows EXCEPT ![L.current] = i0]
     \/ /\ i0 >= 0 /\ ~atOnce /\ K.current = L.current + 1 /\ K.ret = L.ret + 1
        /\ K.freeRows = [L.freeRows EXCEPT ![L.ret] = i0]
     \/ /\ ~(i0 >= 0) /\ K.current = L.current + 1 /\ K.ret = L.ret /\ K.freeRows = L.freeRows

\* The row that is driven out waits instead of the row that is given its column.
LEMMA LapRowWaits ==
  ASSUME NEW L, NEW K, LapInv(L), L.at = "carr", L.current < L.n_free,
         NEW row, row = L.freeRows[L.current], NEW j \in LapIdx(L.n), NEW i0, i0 = L.y[j],
         NEW atOnce, LapRowTo(L, K, row, j, i0, atOnce)
  PROVE  /\ LapSlotted(K) /\ LapBounds(K)
         /\ WaitsInstead(LapWaiting(L), row, i0, LapWaiting(K))
<1> USE DEF WaitsInstead
<1>1. K.at = "carr" /\ K.n = L.n /\ K.n_free = L.n_free
  BY DEF LapRowTo
<1>2. i0 >= 0 => i0 \in LapIdx(L.n) /\ i0 \notin LapWaiting(L)
  <2>1. L.y \in [LapIdx(L.n) -> LapIdx(L.n) \cup {-1}]
    BY LapFields DEF LapInv
  <2>2. LapOpen(L) = {}
    BY DEF LapOpen
  <2>3. i0 >= 0 => i0 \notin LapWaiting(L)
    BY <2>2 DEF LapInv, LapAgree, AgreeIn
  <2>4. i0 \in LapIdx(L.n) \/ i0 = -1
    BY <2>1
  <2> QED
    BY <2>3, <2>4
<1>3. CASE i0 >= 0 /\ atOnce
  <2>1. /\ K.current = L.current /\ K.ret = L.ret
        /\ K.freeRows = [L.freeRows EXCEPT ![L.current] = i0]
    BY <1>3 DEF LapRowTo
  <2> QED
    BY <1>1, <1>2, <1>3, <2>1, LapTakenUpAtOnce
<1>4. CASE i0 >= 0 /\ ~atOnce
  <2>1. /\ K.current = L.current + 1 /\ K.ret = L.ret + 1
        /\ K.freeRows = [L.freeRows EXCEPT ![L.ret] = i0]
    BY <1>4 DEF LapRowTo
  <2> QED
    BY <1>1, <1>2, <1>4, <2>1, LapTakenUpLater
<1>5. CASE ~(i0 >= 0)
  <2>1. K.current = L.current + 1 /\ K.ret = L.ret /\ K.freeRows = L.freeRows
    BY <1>5 DEF LapRowTo
  <2>2. LapSlotted(K) /\ LapBounds(K) /\ LapWaiting(K) = LapWaiting(L) \ {row}
    BY <1>1, <2>1, LapNoneDrivenOut
  <2> QED
    BY <1>5, <2>2
<1> QED
  BY <1>3, <1>4, <1>5

\* A step of the row reduction.
LEMMA LapRowReductionKeeps ==
  ASSUME NEW L, NEW K, LapInv(L), LapTyped(K), L.at = "carr", L.current < L.n_free,
         NEW row, row = L.freeRows[L.current], NEW again, NEW j1, NEW j2, NEW j,
         LapChosen(L, K.v, row, again, j1, j2, j), NEW i0, i0 = L.y[j],
         NEW atOnce, LapRowTo(L, K, row, j, i0, atOnce)
  PROVE  LapInv(K)
<1>1. LapTyped(L) /\ L.n > 1
  <2>1. LapTyped(L) /\ L.n = L.rows + L.cols /\ L.rows > 0 /\ L.cols > 0
    BY DEF LapInv, LapMatrix
  <2>2. L.rows \in Nat /\ L.cols \in Nat
    BY <2>1, LapFields
  <2> QED
    BY <2>1, <2>2
<1>2. row \in LapIdx(L.n) /\ row \in LapWaiting(L)
  BY LapNextWaits
<1>3. j \in LapIdx(L.n)
  BY <1>1, <1>2, LapChosenIsIn
<1>4. /\ K.at = "carr" /\ K.n = L.n /\ K.rows = L.rows /\ K.cols = L.cols /\ K.cost = L.cost
      /\ K.x = [L.x EXCEPT ![row] = j] /\ K.y = [L.y EXCEPT ![j] = row]
  BY DEF LapRowTo
<1>5. RisesIn(L.n, LapRed(L), LapRed(K), j) /\ TightAt(L.n, LapRed(K), row, j)
  <2>1. K.n = L.n /\ K.cost = L.cost
    BY <1>4
  <2> QED
    BY <1>1, <1>2, <2>1, LapChosenIsTight
<1>6. /\ LapSlotted(K) /\ LapBounds(K)
      /\ WaitsInstead(LapWaiting(L), row, i0, LapWaiting(K))
  BY <1>3, LapRowWaits
<1>7. LapOpen(K) = {} /\ LapOpen(L) = {}
  BY <1>4 DEF LapOpen
<1>8. LapAgree(K) /\ LapAssigned(K)
  <2>1. PICK n, red, new, x, y, wait :
          /\ n = L.n /\ red = LapRed(L) /\ new = LapRed(K) /\ x = L.x /\ y = L.y
          /\ wait = LapWaiting(L)
    OBVIOUS
  <2>2. /\ n \in Nat /\ red \in [LapIdx(n) -> [LapIdx(n) -> Int]]
        /\ x \in [LapIdx(n) -> LapIdx(n) \cup {-1}] /\ y \in [LapIdx(n) -> LapIdx(n) \cup {-1}]
    BY <1>1, <2>1, LapFields, LapRedIs
  <2>3. new \in [LapIdx(n) -> [LapIdx(n) -> Int]]
    BY <1>4, <2>1, LapRedIs
  <2>4. AgreeIn(n, red, x, y, {}, wait) /\ AssignedIn(n, y, {}, wait)
    BY <1>7, <2>1 DEF LapInv, LapAgree, LapAssigned
  <2>5. WaitsInstead(wait, row, y[j], LapWaiting(K))
    BY <1>6, <2>1
  <2>6. /\ RisesIn(n, red, new, j)
        /\ TightAt(n, new, row, j) /\ row \in LapIdx(n) /\ row \in wait /\ j \in LapIdx(n)
    BY <1>2, <1>3, <1>5, <2>1
  <2>7. K.x = [x EXCEPT ![row] = j] /\ K.y = [y EXCEPT ![j] = row]
    BY <1>4, <2>1
  <2>8. AgreeIn(n, new, K.x, K.y, {}, LapWaiting(K)) /\ AssignedIn(n, K.y, {}, LapWaiting(K))
    <3>1. PICK u, w, later : u = K.x /\ w = K.y /\ later = LapWaiting(K)
      OBVIOUS
    <3>2. RowGets(x, y, row, j, u, w)
      BY <2>7, <3>1 DEF RowGets
    <3>3. WaitsInstead(wait, row, y[j], later)
      BY <2>5, <3>1
    <3>4. AgreeIn(n, new, u, w, {}, later) /\ AssignedIn(n, w, {}, later)
      BY <2>2, <2>3, <2>4, <2>6, <3>2, <3>3, RowTaken
    <3> QED
      BY <3>1, <3>4, Zenon
  <2> QED
    BY <1>4, <1>7, <2>1, <2>8 DEF LapAgree, LapAssigned
<1>9. LapMatrix(K)
  BY <1>4 DEF LapInv, LapMatrix
<1>10. LapTransferring(K) /\ LapSearching(K)
  BY <1>4 DEF LapTransferring, LapSearching
<1> QED
  BY <1>6, <1>8, <1>9, <1>10 DEF LapInv

-----------------------------------------------------------------------------
(* _ccrrt_dense: the reduction transfer                                    *)

\* One row of the reduction transfer, field by field.
LapTransfersTo(L, K, more, free, m, v) ==
  /\ K.at = L.at /\ K.n = L.n /\ K.rows = L.rows /\ K.cols = L.cols /\ K.cost = L.cost
  /\ K.x = L.x /\ K.y = L.y /\ K.k = more /\ K.freeRows = free /\ K.n_free = m /\ K.v = v

\* The fields after a step of the reduction transfer.
LEMMA LapTransferFields ==
  ASSUME NEW n, NEW L \in LapRec(n), NEW more \in Nat, NEW free \in LapMany(n), NEW m \in Nat,
         NEW v \in LapInts(n),
         NEW K, K = [L EXCEPT !.k = more, !.freeRows = free, !.n_free = m, !.v = v]
  PROVE  K \in LapRec(n) /\ LapTransfersTo(L, K, more, free, m, v)
<1>1. K \in LapRec(n)
  BY ZenonT(60) DEF LapRec
<1>2. LapTransfersTo(L, K, more, free, m, v)
  BY ZenonT(60) DEF LapRec, LapTransfersTo
<1> QED
  BY <1>1, <1>2

\* A row without a column is the next to wait at a place of its own.
LEMMA LapTransferSlots ==
  ASSUME NEW L, NEW K, LapInv(L), L.at = "transfer", L.k < L.n, L.x[L.k] < 0,
         NEW free, free = [L.freeRows EXCEPT ![L.n_free] = L.k],
         LapTransfersTo(L, K, L.k + 1, free, L.n_free + 1, L.v)
  PROVE  LapSlotted(K) /\ LapBounds(K) /\ LapWaiting(K) = LapWaiting(L)
<1>1. PICK n, k, m, x : /\ n = L.n /\ k = L.k /\ m = L.n_free /\ x = L.x
                        /\ n \in Nat /\ k \in Nat /\ m \in Nat
                        /\ x \in [LapIdx(n) -> LapIdx(n) \cup {-1}]
                        /\ L.freeRows \in [LapIdx(n) -> LapIdx(n) \cup {-1}]
  BY LapFields DEF LapInv
<1>2. /\ K.at = "transfer" /\ K.n = n /\ K.k = k + 1 /\ K.freeRows = free /\ K.n_free = m + 1
      /\ K.x = x
  BY <1>1 DEF LapTransfersTo
<1>3. m <= k /\ k < n /\ \A q \in LapSlots(L) : L.freeRows[q] < k
  BY <1>1 DEF LapInv, LapBounds
<1>4. k \in LapIdx(n) /\ m \in LapIdx(n)
  BY <1>1, <1>3 DEF LapIdx
<1>5. x[k] = -1
  <2>1. x[k] < 0 /\ x[k] \in LapIdx(n) \cup {-1}
    BY <1>1, <1>4
  <2> QED
    BY <2>1 DEF LapIdx
<1>6. free[m] = k /\ \A q \in LapIdx(n) : q # m => free[q] = L.freeRows[q]
  BY <1>1, <1>4
<1>7. \A q \in LapIdx(n) : q \in LapSlots(L) <=> q < m
  BY <1>1 DEF LapSlots, LapSlot
<1>8. \A q \in LapIdx(n) : q \in LapSlots(K) <=> q = m \/ q \in LapSlots(L)
  <2> TAKE q \in LapIdx(n)
  <2>1. q \in LapSlots(K) <=> q < m + 1
    BY <1>2 DEF LapSlots, LapSlot
  <2> QED
    BY <1>1, <1>7, <2>1 DEF LapIdx
<1>9. LapSlots(L) \subseteq LapIdx(n) /\ LapSlots(K) \subseteq LapIdx(n) /\ m \notin LapSlots(L)
  BY <1>1, <1>2, <1>4, <1>7 DEF LapSlots
<1>10. /\ \A q \in LapSlots(L) : L.freeRows[q] \in LapIdx(n)
       /\ \A p, q \in LapSlots(L) : L.freeRows[p] = L.freeRows[q] => p = q
  BY <1>1 DEF LapInv, LapSlotted
<1>11. \A q \in LapSlots(L) : q # m /\ free[q] = L.freeRows[q] /\ free[q] < k /\ free[q] # k
  <2> TAKE q \in LapSlots(L)
  <2>1. q # m /\ free[q] = L.freeRows[q] /\ L.freeRows[q] \in LapIdx(n)
    BY <1>6, <1>9, <1>10
  <2> QED
    BY <1>1, <1>3, <2>1 DEF LapIdx
<1>12. LapSlotted(K)
  <2>1. \A q \in LapSlots(K) : K.freeRows[q] \in LapIdx(n)
    BY <1>2, <1>4, <1>6, <1>8, <1>9, <1>10, <1>11
  <2>2. ASSUME NEW p \in LapSlots(K), NEW q \in LapSlots(K), K.freeRows[p] = K.freeRows[q]
        PROVE  p = q
    BY <1>2, <1>6, <1>8, <1>9, <1>10, <1>11, <2>2
  <2> QED
    BY <1>2, <2>1, <2>2, Zenon DEF LapSlotted
<1>13. LapBounds(K)
  <2>1. m + 1 <= k + 1 /\ k + 1 <= n
    BY <1>1, <1>3
  <2>2. ASSUME NEW q \in LapSlots(K) PROVE K.freeRows[q] < k + 1
    <3>1. CASE q = m
      BY <1>1, <1>2, <1>6, <3>1
    <3>2. CASE q \in LapSlots(L)
      <4>1. free[q] < k /\ free[q] \in Nat
        BY <1>10, <1>11, <3>2 DEF LapIdx
      <4> QED
        BY <1>1, <1>2, <4>1
    <3> QED
      BY <1>8, <1>9, <3>1, <3>2
  <2> QED
    BY <1>2, <2>1, <2>2 DEF LapBounds
<1>14. LapWaiting(K) = LapWaiting(L)
  <2>1. \A r : r \in LapUntold(L) <=> r \in LapIdx(n) /\ r >= k /\ x[r] = -1
    BY <1>1 DEF LapUntold
  <2>2. \A r : r \in LapUntold(K) <=> r \in LapIdx(n) /\ r >= k + 1 /\ x[r] = -1
    BY <1>2 DEF LapUntold
  <2>3. \A r \in LapIdx(n) : r >= k <=> r = k \/ r >= k + 1
    BY <1>1 DEF LapIdx
  <2>4. \A r : r \in LapUntold(L) <=> r = k \/ r \in LapUntold(K)
    BY <1>4, <1>5, <2>1, <2>2, <2>3
  <2>5. \A r : r \in LapWaiting(L) <=>
                r \in LapUntold(L) \/ \E q \in LapSlots(L) : r = L.freeRows[q]
    BY DEF LapWaiting
  <2>6. \A r : r \in LapWaiting(K) <=> r \in LapUntold(K) \/ \E q \in LapSlots(K) : r = free[q]
    BY <1>2 DEF LapWaiting
  <2>7. \A r : (\E q \in LapSlots(K) : r = free[q]) <=>
                r = k \/ \E q \in LapSlots(L) : r = L.freeRows[q]
    BY <1>4, <1>6, <1>8, <1>9, <1>11
  <2> QED
    BY <2>4, <2>5, <2>6, <2>7
<1> QED
  BY <1>12, <1>13, <1>14

\* A row with a column: the same rows wait at the same places.
LEMMA LapTransferHas ==
  ASSUME NEW L, NEW K, LapInv(L), L.at = "transfer", L.k < L.n, L.x[L.k] >= 0, NEW v,
         LapTransfersTo(L, K, L.k + 1, L.freeRows, L.n_free, v)
  PROVE  LapSlotted(K) /\ LapBounds(K) /\ LapWaiting(K) = LapWaiting(L)
<1>1. PICK n, k, m, x : /\ n = L.n /\ k = L.k /\ m = L.n_free /\ x = L.x
                        /\ n \in Nat /\ k \in Nat /\ m \in Nat
  BY LapFields DEF LapInv
<1>2. /\ K.at = "transfer" /\ K.n = n /\ K.k = k + 1 /\ K.freeRows = L.freeRows /\ K.n_free = m
      /\ K.x = x
  BY <1>1 DEF LapTransfersTo
<1>3. m <= k /\ k < n /\ \A q \in LapSlots(L) : L.freeRows[q] < k
  BY <1>1 DEF LapInv, LapBounds
<1>4. LapSlots(K) = LapSlots(L)
  BY <1>1, <1>2 DEF LapSlots, LapSlot
<1>5. LapUntold(K) = LapUntold(L)
  <2>1. x[k] # -1
    BY <1>1
  <2>2. \A r \in LapIdx(n) : r >= k <=> r = k \/ r >= k + 1
    BY <1>1 DEF LapIdx
  <2> QED
    BY <1>1, <1>2, <2>1, <2>2 DEF LapUntold
<1>6. LapWaiting(K) = LapWaiting(L)
  BY <1>2, <1>4, <1>5 DEF LapWaiting
<1>7. LapSlotted(K)
  BY <1>1, <1>2, <1>4 DEF LapInv, LapSlotted
<1>8. LapBounds(K)
  <2>1. m <= k + 1 /\ k + 1 <= n
    BY <1>1, <1>3
  <2>2. ASSUME NEW q \in LapSlots(K) PROVE K.freeRows[q] < k + 1
    <3>1. L.freeRows[q] < k /\ L.freeRows[q] \in LapIdx(n)
      BY <1>1, <1>3, <1>4 DEF LapInv, LapSlotted
    <3> QED
      BY <1>1, <1>2, <3>1 DEF LapIdx
  <2> QED
    BY <1>2, <2>1, <2>2 DEF LapBounds
<1> QED
  BY <1>6, <1>7, <1>8

\* The column of a row may become dearer as long as it is a cheapest one for it.
LEMMA RisenAgree ==
  ASSUME NEW n, NEW red \in [LapIdx(n) -> [LapIdx(n) -> Int]],
         NEW new \in [LapIdx(n) -> [LapIdx(n) -> Int]], NEW x,
         NEW y \in [LapIdx(n) -> LapIdx(n) \cup {-1}], NEW wait, NEW j \in LapIdx(n),
         AgreeIn(n, red, x, y, {}, wait), RisesIn(n, red, new, j), TightAt(n, new, y[j], j)
  PROVE  AgreeIn(n, new, x, y, {}, wait)
<1> SUFFICES ASSUME NEW c \in LapIdx(n) \ {}, y[c] >= 0 PROVE TightAt(n, new, y[c], c)
  BY DEF AgreeIn
<1>1. CASE c = j
  BY <1>1
<1>2. CASE c # j
  <2>1. TightAt(n, red, y[c], c) /\ y[c] \in LapIdx(n)
    BY DEF AgreeIn
  <2> SUFFICES ASSUME NEW q \in LapIdx(n) PROVE new[y[c]][c] <= new[y[c]][q]
    BY DEF TightAt
  <2>2. red[y[c]][c] <= red[y[c]][q] /\ new[y[c]][c] = red[y[c]][c]
    BY <1>2, <2>1 DEF TightAt, RisesIn
  <2>3. red[y[c]][q] <= new[y[c]][q]
    <3>1. CASE q = j
      BY <2>1, <3>1 DEF RisesIn
    <3>2. CASE q # j
      BY <2>1, <3>2 DEF RisesIn
    <3> QED
      BY <3>1, <3>2
  <2>4. red[y[c]][c] \in Int /\ red[y[c]][q] \in Int /\ new[y[c]][q] \in Int
    BY <2>1
  <2> QED
    BY <2>2, <2>3, <2>4
<1> QED
  BY <1>1, <1>2

\* The reduction transfer at a row without a column: it is told.
LEMMA LapTransferTellsKeeps ==
  ASSUME NEW L, NEW K, LapInv(L), LapTyped(K), L.at = "transfer", L.k < L.n, L.x[L.k] < 0,
         NEW free, free = [L.freeRows EXCEPT ![L.n_free] = L.k],
         LapTransfersTo(L, K, L.k + 1, free, L.n_free + 1, L.v)
  PROVE  LapInv(K)
<1>1. LapSlotted(K) /\ LapBounds(K) /\ LapWaiting(K) = LapWaiting(L)
  BY LapTransferSlots
<1>2. /\ K.at = "transfer" /\ K.n = L.n /\ K.rows = L.rows /\ K.cols = L.cols
      /\ K.cost = L.cost /\ K.x = L.x /\ K.y = L.y /\ K.v = L.v /\ K.k = L.k + 1
  BY DEF LapTransfersTo
<1>3. LapMatrix(K)
  BY <1>2 DEF LapInv, LapMatrix
<1>4. LapRed(K) = LapRed(L) /\ LapOpen(K) = {} /\ LapOpen(L) = {}
  BY <1>2 DEF LapRed, LapOpen
<1>5. LapAgree(K) /\ LapAssigned(K)
  BY <1>1, <1>2, <1>4 DEF LapInv, LapAgree, LapAssigned
<1>6. LapTransferring(K)
  <2>1. L.k \in Nat /\ L.n \in Nat
    BY LapFields DEF LapInv
  <2>2. \A r \in LapIdx(L.n) : r >= L.k + 1 => r >= L.k
    BY <2>1 DEF LapIdx
  <2> QED
    BY <1>2, <1>4, <2>2 DEF LapInv, LapTransferring
<1>7. LapSearching(K)
  BY <1>2 DEF LapSearching
<1> QED
  BY <1>1, <1>3, <1>5, <1>6, <1>7 DEF LapInv

\* The reduction transfer at a row that has one: its price falls as far as it stays
\* cheapest for the row.
LEMMA LapTransferHasKeeps ==
  ASSUME NEW L, NEW K, LapInv(L), LapTyped(K), L.at = "transfer", L.k < L.n,
         NEW j, j = L.x[L.k], j >= 0, NEW v,
         LapTransfersTo(L, K, L.k + 1, L.freeRows, L.n_free, v),
         RisesIn(L.n, LapRed(L), LapRed(K), j), TightAt(L.n, LapRed(K), L.k, j)
  PROVE  LapInv(K)
<1>1. LapSlotted(K) /\ LapBounds(K) /\ LapWaiting(K) = LapWaiting(L)
  BY LapTransferHas
<1>2. /\ K.at = "transfer" /\ K.n = L.n /\ K.rows = L.rows /\ K.cols = L.cols
      /\ K.cost = L.cost /\ K.x = L.x /\ K.y = L.y /\ K.k = L.k + 1
  BY DEF LapTransfersTo
<1>3. LapMatrix(K)
  BY <1>2 DEF LapInv, LapMatrix
<1>4. LapOpen(K) = {} /\ LapOpen(L) = {}
  BY <1>2 DEF LapOpen
<1>5. PICK n, k, red, new, x, y :
        /\ n = L.n /\ k = L.k /\ red = LapRed(L) /\ new = LapRed(K) /\ x = L.x /\ y = L.y
        /\ n \in Nat /\ k \in Nat /\ x \in [LapIdx(n) -> LapIdx(n) \cup {-1}]
        /\ y \in [LapIdx(n) -> LapIdx(n) \cup {-1}]
        /\ red \in [LapIdx(n) -> [LapIdx(n) -> Int]]
  BY LapFields, LapRedIs DEF LapInv
<1>6. new \in [LapIdx(n) -> [LapIdx(n) -> Int]]
  BY <1>2, <1>5, LapRedIs
<1>7. k \in LapIdx(n)
  BY <1>5 DEF LapIdx
<1>8. j \in LapIdx(n)
  BY <1>5, <1>7
<1>9. /\ \A r \in LapIdx(n) : x[r] >= 0 => y[x[r]] = r
      /\ \A r, c \in LapIdx(n) : red[r][c] >= 0
      /\ \A r \in LapIdx(n) : r >= k /\ x[r] >= 0 => red[r][x[r]] = 0
  BY <1>5 DEF LapInv, LapTransferring
<1>10. y[j] = k
  BY <1>5, <1>7, <1>9
<1>11. RisesIn(n, red, new, j) /\ TightAt(n, new, y[j], j)
  BY <1>5, <1>10
<1>12. LapAgree(K) /\ LapAssigned(K)
  <2>1. PICK wait : wait = LapWaiting(L)
    OBVIOUS
  <2>2. AgreeIn(n, red, x, y, {}, wait) /\ AssignedIn(n, y, {}, wait)
    BY <1>4, <1>5, <2>1 DEF LapInv, LapAgree, LapAssigned
  <2>3. AgreeIn(n, new, x, y, {}, wait)
    BY <1>5, <1>6, <1>8, <1>11, <2>2, RisenAgree
  <2> QED
    BY <1>1, <1>2, <1>4, <1>5, <2>1, <2>2, <2>3 DEF LapAgree, LapAssigned
<1>13. LapTransferring(K)
  <2>1. \A r, c \in LapIdx(n) : new[r][c] >= 0
    <3> TAKE r \in LapIdx(n), c \in LapIdx(n)
    <3>1. red[r][c] >= 0 /\ red[r][c] \in Int /\ new[r][c] \in Int
      BY <1>5, <1>6, <1>9
    <3>2. red[r][c] <= new[r][c]
      <4>1. CASE c = j
        BY <1>11, <4>1 DEF RisesIn
      <4>2. CASE c # j
        <5>1. red[r][c] = new[r][c]
          BY <1>11, <4>2 DEF RisesIn
        <5> QED
          BY <3>1, <5>1
      <4> QED
        BY <4>1, <4>2
    <3> QED
      BY <3>1, <3>2
  <2>2. ASSUME NEW r \in LapIdx(n), r >= k + 1, x[r] >= 0
        PROVE  new[r][x[r]] = 0
    <3>1. x[r] \in LapIdx(n) /\ y[x[r]] = r /\ r >= k /\ r # k
      BY <1>5, <1>9, <2>2 DEF LapIdx
    <3>2. x[r] # j
      BY <1>10, <3>1
    <3>3. new[r][x[r]] = red[r][x[r]]
      BY <1>11, <3>1, <3>2 DEF RisesIn
    <3> QED
      BY <1>9, <2>2, <3>1, <3>3
  <2> QED
    <3>1. /\ K.at = "transfer" /\ K.n = n /\ K.x = x /\ K.y = y /\ K.k = k + 1
          /\ LapRed(K) = new
      BY <1>2, <1>5
    <3>2. K.at # "reduce"
      BY <3>1
    <3>3. \A r \in LapIdx(n) : x[r] >= 0 => y[x[r]] = r
      BY <1>9
    <3> QED
      BY <2>1, <2>2, <3>1, <3>2, <3>3, Zenon DEF LapTransferring
<1>14. LapSearching(K)
  BY <1>2 DEF LapSearching
<1> QED
  BY <1>1, <1>3, <1>12, <1>13, <1>14 DEF LapInv

\* What the transfer takes off the price of the column: as much as the others are
\* dearer for the row.
LapPriceFalls(L, v, i, j, unique) ==
  v = IF unique
      THEN [L.v EXCEPT ![j] = L.v[j] - Min({LapRed(L)[i][m] : m \in LapIdx(L.n) \ {j}})]
      ELSE L.v

LapFallsBy(L, v, i, j) ==
  \E low \in Int : /\ v = [L.v EXCEPT ![j] = L.v[j] - low]
                   /\ \A q \in LapIdx(L.n) : q # j => low <= LapRed(L)[i][q]
                   /\ \E q \in LapIdx(L.n) : low = LapRed(L)[i][q]

\* The price falls by how much cheaper the column is than the next one, or stays.
LEMMA LapPriceFallsIs ==
  ASSUME NEW L, LapTyped(L), L.n > 1, NEW i \in LapIdx(L.n), NEW j \in LapIdx(L.n), NEW unique,
         NEW v, LapPriceFalls(L, v, i, j, unique)
  PROVE  v = L.v \/ LapFallsBy(L, v, i, j)
<1>0. PICK n, c, S, low : /\ n = L.n /\ c = LapRed(L)[i] /\ S = LapIdx(L.n) \ {j}
                          /\ low = Min({LapRed(L)[i][m] : m \in LapIdx(L.n) \ {j}})
  OBVIOUS
<1>1. /\ n = L.n /\ c = LapRed(L)[i] /\ S = LapIdx(n) \ {j} /\ low = Min({c[m] : m \in S})
      /\ n \in Nat /\ c \in [LapIdx(n) -> Int]
  <2>1. n \in Nat /\ c \in [LapIdx(n) -> Int]
    BY <1>0, LapFields, LapRedIs
  <2> QED
    BY <1>0, <2>1, Zenon
<1>2. CASE ~unique
  BY <1>2 DEF LapPriceFalls
<1>3. CASE unique
  <2>1. 0 \in LapIdx(n) /\ 1 \in LapIdx(n)
    BY <1>1 DEF LapIdx
  <2>2. S \in SUBSET LapIdx(n) /\ S # {}
    BY <1>1, <2>1
  <2>3. \A k \in LapIdx(n) : c[k] \in Int
    BY <1>1
  <2>4. LeastAt(low, c, S)
    BY <1>1, Zenon DEF LeastAt
  <2>5. v = [L.v EXCEPT ![j] = L.v[j] - low]
    BY <1>1, <1>3 DEF LapPriceFalls
  <2>6. low \in Int /\ (\A k \in S : low <= c[k]) /\ \E k \in S : low = c[k]
    <3>1. n \in Nat
      BY <1>1
    <3> QED
      BY <2>2, <2>3, <2>4, <3>1, MinOfValues
  <2>7. \A q \in LapIdx(n) : q # j => low <= c[q]
    BY <1>1, <2>6
  <2> QED
    BY <1>1, <2>2, <2>5, <2>6, <2>7 DEF LapFallsBy
<1> QED
  BY <1>2, <1>3

\* Only the reduced costs of that column rise, and it is cheapest for its row.
LEMMA LapTransferRises ==
  ASSUME NEW L, NEW K, LapInv(L), LapTyped(K), L.at = "transfer", L.k < L.n,
         K.n = L.n, K.cost = L.cost, NEW j, j = L.x[L.k], j >= 0, NEW unique,
         LapPriceFalls(L, K.v, L.k, j, unique)
  PROVE  RisesIn(L.n, LapRed(L), LapRed(K), j) /\ TightAt(L.n, LapRed(K), L.k, j)
<1>0. LapTyped(L) /\ L.n = L.rows + L.cols /\ L.rows > 0 /\ L.cols > 0
  BY DEF LapInv, LapMatrix
<1>1. PICK n, k, red, new, x, y :
        /\ n = L.n /\ k = L.k /\ red = LapRed(L) /\ new = LapRed(K) /\ x = L.x /\ y = L.y
        /\ n \in Nat /\ k \in Nat /\ x \in [LapIdx(n) -> LapIdx(n) \cup {-1}]
        /\ red \in [LapIdx(n) -> [LapIdx(n) -> Int]] /\ L.v \in [LapIdx(n) -> Int]
  BY <1>0, LapFields, LapRedIs
<1>2. new \in [LapIdx(n) -> [LapIdx(n) -> Int]]
  BY <1>1, LapRedIs
<1>3. k \in LapIdx(n) /\ L.n > 1
  <2>1. L.rows \in Nat /\ L.cols \in Nat
    BY <1>0, LapFields
  <2> QED
    BY <1>0, <1>1, <2>1 DEF LapIdx
<1>4. j \in LapIdx(n)
  BY <1>1, <1>3
<1>5. /\ \A r \in LapIdx(n) : x[r] >= 0 => y[x[r]] = r
      /\ \A r, c \in LapIdx(n) : red[r][c] >= 0
      /\ red[k][j] = 0
  <2>1. k >= L.k
    BY <1>1
  <2> QED
    BY <1>1, <1>3, <2>1 DEF LapInv, LapTransferring
<1>6. \A r, q \in LapIdx(n) : red[r][q] = L.cost[r][q] - L.v[q] /\ new[r][q] = L.cost[r][q] - K.v[q]
  BY <1>0, <1>1, LapRedIs
<1>7. \A r, q \in LapIdx(n) : L.cost[r][q] \in Int /\ L.v[q] \in Int
  BY <1>0, <1>1, LapRedIs
<1>8. \/ K.v = L.v
      \/ \E low \in Int : /\ K.v = [L.v EXCEPT ![j] = L.v[j] - low]
                          /\ \A q \in LapIdx(n) : q # j => low <= red[k][q]
                          /\ \E q \in LapIdx(n) : low = red[k][q]
  <2>1. L.k \in LapIdx(L.n) /\ j \in LapIdx(L.n)
    BY <1>1, <1>3, <1>4
  <2> QED
    <3>1. K.v = L.v \/ LapFallsBy(L, K.v, L.k, j)
      BY <1>0, <1>3, <2>1, LapPriceFallsIs
    <3> QED
      BY <1>1, <3>1 DEF LapFallsBy
<1>9. CASE K.v = L.v
  <2>1. new = red
    BY <1>1, <1>9 DEF LapRed
  <2>2. \A r, q \in LapIdx(n) : red[r][q] <= red[r][q]
    <3> TAKE r \in LapIdx(n), q \in LapIdx(n)
    <3>1. red[r][q] \in Int
      BY <1>1
    <3> QED
      BY <3>1
  <2>3. TightAt(n, new, k, j)
    BY <1>3, <1>5, <2>1 DEF TightAt
  <2> QED
    BY <1>1, <1>4, <2>1, <2>2, <2>3 DEF RisesIn
<1>10. ASSUME NEW low \in Int, K.v = [L.v EXCEPT ![j] = L.v[j] - low],
              \A q \in LapIdx(n) : q # j => low <= red[k][q],
              \E q \in LapIdx(n) : low = red[k][q]
       PROVE  RisesIn(n, red, new, j) /\ TightAt(n, new, k, j)
  <2>1. low >= 0
    BY <1>3, <1>5, <1>10
  <2>2. K.v[j] = L.v[j] - low /\ \A q \in LapIdx(n) : q # j => K.v[q] = L.v[q]
    BY <1>1, <1>4, <1>10
  <2>3. \A r, q \in LapIdx(n) : q # j => new[r][q] = red[r][q]
    BY <1>6, <2>2
  <2>4. ASSUME NEW r \in LapIdx(n) PROVE new[r][j] = red[r][j] + low /\ red[r][j] <= new[r][j]
    <3>1. PICK a, b : a = L.cost[r][j] /\ b = L.v[j]
      OBVIOUS
    <3>2. a \in Int /\ b \in Int
      BY <1>4, <1>7, <3>1
    <3>3. new[r][j] = a - (b - low) /\ red[r][j] = a - b
      BY <1>4, <1>6, <2>2, <3>1
    <3> QED
      BY <2>1, <3>2, <3>3
  <2>5. TightAt(n, new, k, j)
    <3> SUFFICES ASSUME NEW q \in LapIdx(n) PROVE new[k][j] <= new[k][q]
      BY DEF TightAt
    <3>1. new[k][j] = low
      <4>1. new[k][j] = 0 + low
        BY <1>3, <1>5, <2>4
      <4> QED
        BY <4>1
    <3>2. CASE q = j
      BY <3>1, <3>2
    <3>3. CASE q # j
      BY <1>3, <1>10, <2>3, <3>1, <3>3
    <3> QED
      BY <3>2, <3>3
  <2> QED
    BY <2>3, <2>4, <2>5 DEF RisesIn
<1>11. RisesIn(n, red, new, j) /\ TightAt(n, new, k, j)
  BY <1>1, <1>8, <1>9, <1>10
<1> QED
  BY <1>1, <1>11

-----------------------------------------------------------------------------
(* _ccrrt_dense: the column reduction                                      *)

\* What the column reduction computes: the cheapest row of a column, the columns of a
\* row.
LapColumn(n, cost, j) == [i \in LapIdx(n) |-> cost[i][j]]
LapBest(n, cost) == [j \in LapIdx(n) |-> ArgMin(LapIdx(n), LapColumn(n, cost, j))]
LapMine(n, best, i) == {j \in LapIdx(n) : best[j] = i}

\* What the column reduction gives.
LapReduces(n, cost, best, v, x, y) ==
  /\ best = LapBest(n, cost)
  /\ v = [j \in LapIdx(n) |-> cost[best[j]][j]]
  /\ x = [i \in LapIdx(n) |-> IF LapMine(n, best, i) = {} THEN -1 ELSE Max(LapMine(n, best, i))]
  /\ y = [j \in LapIdx(n) |-> IF j = Max(LapMine(n, best, best[j])) THEN best[j] ELSE -1]

\* The column reduction: every column has the price of its cheapest row, and a row the
\* last of the columns it is cheapest for.
LEMMA LapReducesGives ==
  ASSUME NEW n \in Nat, NEW cost \in [LapIdx(n) -> [LapIdx(n) -> Int]],
         NEW best, NEW v, NEW x, NEW y, LapReduces(n, cost, best, v, x, y)
  PROVE  /\ \A j \in LapIdx(n) : /\ best[j] \in LapIdx(n) /\ v[j] = cost[best[j]][j]
                                 /\ \A i \in LapIdx(n) : v[j] <= cost[i][j]
         /\ \A i \in LapIdx(n) : \/ x[i] = -1 /\ \A j \in LapIdx(n) : best[j] # i
                                 \/ x[i] \in LapIdx(n) /\ best[x[i]] = i
         /\ \A j \in LapIdx(n) : y[j] = IF x[best[j]] = j THEN best[j] ELSE -1
         /\ x \in LapMany(n) /\ y \in LapMany(n) /\ v \in LapInts(n)
<1>1. /\ best = LapBest(n, cost)
      /\ v = [j \in LapIdx(n) |-> cost[best[j]][j]]
      /\ x = [i \in LapIdx(n) |-> IF LapMine(n, best, i) = {} THEN -1 ELSE Max(LapMine(n, best, i))]
      /\ y = [j \in LapIdx(n) |-> IF j = Max(LapMine(n, best, best[j])) THEN best[j] ELSE -1]
  BY DEF LapReduces
<1>2. ASSUME NEW j \in LapIdx(n)
      PROVE  /\ best[j] \in LapIdx(n) /\ v[j] = cost[best[j]][j] /\ v[j] \in Int
             /\ \A i \in LapIdx(n) : v[j] <= cost[i][j]
  <2>1. PICK f : f = LapColumn(n, cost, j)
    OBVIOUS
  <2>2. \A i \in LapIdx(n) : f[i] \in Int /\ f[i] = cost[i][j]
    BY <2>1 DEF LapColumn
  <2>3. best[j] = ArgMin(LapIdx(n), f)
    BY <1>1, <2>1 DEF LapBest
  <2>4. \A i \in LapIdx(n) : f[i] \in Int
    BY <2>2
  <2>5. LapIdx(n) \in SUBSET LapIdx(n) /\ LapIdx(n) # {}
    OBVIOUS
  <2>6. ArgMin(LapIdx(n), f) \in LapIdx(n) /\ \A i \in LapIdx(n) : f[ArgMin(LapIdx(n), f)] <= f[i]
    BY <2>4, <2>5, ArgMinFinds
  <2>7. best[j] \in LapIdx(n) /\ \A i \in LapIdx(n) : f[best[j]] <= f[i]
    BY <2>3, <2>6, Zenon
  <2>8. v[j] = f[best[j]]
    BY <1>1, <2>2, <2>7
  <2> QED
    BY <2>2, <2>7, <2>8
<1>3. ASSUME NEW i \in LapIdx(n)
      PROVE  \/ x[i] = -1 /\ \A j \in LapIdx(n) : best[j] # i
             \/ x[i] \in LapIdx(n) /\ best[x[i]] = i
  <2>1. PICK S : S = LapMine(n, best, i)
    OBVIOUS
  <2>2. \A j : j \in S <=> j \in LapIdx(n) /\ best[j] = i
    BY <2>1 DEF LapMine
  <2>3. x[i] = IF S = {} THEN -1 ELSE Max(S)
    BY <1>1, <2>1
  <2>4. CASE S = {}
    BY <2>2, <2>3, <2>4
  <2>5. CASE S # {}
    <3>1. S \in SUBSET LapIdx(n)
      BY <2>2
    <3>2. Max(S) \in S
      BY <2>5, <3>1, MaxOfIndices
    <3> QED
      BY <2>2, <2>3, <2>5, <3>2
  <2> QED
    BY <2>4, <2>5
<1>4. ASSUME NEW j \in LapIdx(n) PROVE y[j] = IF x[best[j]] = j THEN best[j] ELSE -1
  <2>1. PICK i, S : i = best[j] /\ S = LapMine(n, best, i) /\ i \in LapIdx(n)
    BY <1>2
  <2>2. j \in S
    BY <2>1 DEF LapMine
  <2>3. x[i] = Max(S)
    BY <1>1, <2>1, <2>2
  <2>4. y[j] = IF j = Max(S) THEN i ELSE -1
    BY <1>1, <2>1
  <2> QED
    BY <2>1, <2>3, <2>4
<1>5. x \in LapMany(n)
  BY <1>1, <1>3 DEF LapMany
<1>6. y \in LapMany(n)
  <2>1. \A j \in LapIdx(n) : y[j] \in LapIdx(n) \cup {-1}
    BY <1>2, <1>4
  <2> QED
    BY <1>1, <2>1 DEF LapMany
<1>7. v \in LapInts(n)
  BY <1>1, <1>2 DEF LapInts
<1> QED
  BY <1>2, <1>3, <1>4, <1>5, <1>6, <1>7

\* The column reduction, field by field.
LapReducesTo(L, K, v, x, y) ==
  /\ K.at = "transfer" /\ K.n = L.n /\ K.rows = L.rows /\ K.cols = L.cols /\ K.cost = L.cost
  /\ K.x = x /\ K.y = y /\ K.v = v /\ K.k = 0 /\ K.freeRows = L.freeRows /\ K.n_free = L.n_free

\* The fields after the column reduction.
LEMMA LapReduceFields ==
  ASSUME NEW n, NEW L \in LapRec(n), NEW v \in LapInts(n), NEW x \in LapMany(n),
         NEW y \in LapMany(n), NEW d \in LapInts(n), NEW at, at = "transfer", at \in LapPlace,
         NEW zero \in Nat, zero = 0,
         NEW K, K = [L EXCEPT !.at = at, !.k = zero, !.v = v, !.x = x, !.y = y, !.d = d]
  PROVE  K \in LapRec(n) /\ LapReducesTo(L, K, v, x, y)
<1>1. K \in LapRec(n)
  BY ZenonT(60) DEF LapRec
<1>2. LapReducesTo(L, K, v, x, y)
  BY ZenonT(60) DEF LapRec, LapReducesTo
<1> QED
  BY <1>1, <1>2

\* Every column is with the row that keeps it, a cheapest one for that row.
LEMMA LapReduceKeeps ==
  ASSUME NEW L, NEW K, LapInv(L), LapTyped(K), L.at = "reduce",
         NEW best, NEW v, NEW x, NEW y, LapReduces(L.n, L.cost, best, v, x, y),
         LapReducesTo(L, K, v, x, y)
  PROVE  LapInv(K)
<1>1. PICK n, cost, red : /\ n = L.n /\ cost = L.cost /\ red = LapRed(K) /\ n \in Nat
                          /\ cost \in [LapIdx(n) -> [LapIdx(n) -> Int]]
  <2>1. L.n \in Nat /\ L.cost \in LapMatrices(L.n)
    BY DEF LapInv, LapTyped, LapRec
  <2> QED
    BY <2>1 DEF LapMatrices
<1>2. /\ K.at = "transfer" /\ K.n = n /\ K.rows = L.rows /\ K.cols = L.cols /\ K.cost = cost
      /\ K.x = x /\ K.y = y /\ K.v = v /\ K.k = 0 /\ K.n_free = 0
  BY <1>1 DEF LapReducesTo, LapInv, LapBounds
<1>3. /\ \A j \in LapIdx(n) : /\ best[j] \in LapIdx(n) /\ v[j] = cost[best[j]][j]
                              /\ \A i \in LapIdx(n) : v[j] <= cost[i][j]
      /\ \A i \in LapIdx(n) : \/ x[i] = -1 /\ \A j \in LapIdx(n) : best[j] # i
                              \/ x[i] \in LapIdx(n) /\ best[x[i]] = i
      /\ \A j \in LapIdx(n) : y[j] = IF x[best[j]] = j THEN best[j] ELSE -1
  <2>1. LapReduces(n, cost, best, v, x, y)
    BY <1>1
  <2> QED
    BY <1>1, <2>1, LapReducesGives
<1>4. /\ red \in [LapIdx(n) -> [LapIdx(n) -> Int]]
      /\ \A r, c \in LapIdx(n) : red[r][c] = cost[r][c] - v[c] /\ cost[r][c] \in Int /\ v[c] \in Int
  BY <1>1, <1>2, LapRedIs
<1>5. \A r, c \in LapIdx(n) : red[r][c] >= 0
  <2> TAKE r \in LapIdx(n), c \in LapIdx(n)
  <2>1. PICK a, b : a = cost[r][c] /\ b = v[c]
    OBVIOUS
  <2>2. a \in Int /\ b \in Int /\ b <= a /\ red[r][c] = a - b
    BY <1>3, <1>4, <2>1
  <2> QED
    BY <2>2
<1>6. \A c \in LapIdx(n) : red[best[c]][c] = 0
  <2> TAKE c \in LapIdx(n)
  <2>1. PICK b : b = v[c]
    OBVIOUS
  <2>2. b \in Int /\ red[best[c]][c] = b - b
    BY <1>3, <1>4, <2>1
  <2> QED
    BY <2>2
<1>7. \A r \in LapIdx(n) : x[r] >= 0 => /\ x[r] \in LapIdx(n) /\ y[x[r]] = r /\ red[r][x[r]] = 0
  <2> SUFFICES ASSUME NEW r \in LapIdx(n), x[r] >= 0
               PROVE  x[r] \in LapIdx(n) /\ y[x[r]] = r /\ red[r][x[r]] = 0
    OBVIOUS
  <2>1. x[r] \in LapIdx(n) /\ best[x[r]] = r
    BY <1>3
  <2>2. y[x[r]] = r
    BY <1>3, <2>1
  <2>3. red[r][x[r]] = 0
    BY <1>6, <2>1
  <2> QED
    BY <2>1, <2>2, <2>3
<1>8. \A c \in LapIdx(n) : y[c] >= 0 => y[c] = best[c] /\ y[c] \in LapIdx(n) /\ x[y[c]] = c
  BY <1>3
<1>9. \A r \in LapIdx(n) : x[r] = -1 \/ x[r] >= 0
  <2> TAKE r \in LapIdx(n)
  <2>1. x[r] = -1 \/ x[r] \in LapIdx(n)
    BY <1>3
  <2> QED
    BY <2>1 DEF LapIdx
<1>10. LapSlots(K) = {}
  <2>1. \A m \in LapIdx(n) : ~(m < 0)
    BY DEF LapIdx
  <2>2. \A m \in LapIdx(n) : ~LapSlot(K, m)
    BY <1>2, <2>1 DEF LapSlot
  <2> QED
    BY <1>2, <2>2 DEF LapSlots
<1>11. \A r : r \in LapWaiting(K) <=> r \in LapIdx(n) /\ x[r] = -1
  <2>1. \A r \in LapIdx(n) : r >= 0
    BY DEF LapIdx
  <2>2. \A r : r \in LapUntold(K) <=> r \in LapIdx(n) /\ x[r] = -1
    BY <1>2, <2>1 DEF LapUntold
  <2> QED
    BY <1>10, <2>2 DEF LapWaiting
<1>12. LapOpen(K) = {}
  BY <1>2 DEF LapOpen
<1>13. LapSlotted(K)
  BY <1>10 DEF LapSlotted
<1>14. LapBounds(K)
  <2>1. 0 <= n
    BY <1>1
  <2> QED
    BY <1>1, <1>2, <1>10, <2>1 DEF LapBounds
<1>15. LapAgree(K)
  <2>1. PICK wait : wait = LapWaiting(K)
    OBVIOUS
  <2>2. ASSUME NEW c \in LapIdx(n), y[c] >= 0
        PROVE  x[y[c]] = c /\ y[c] \notin wait /\ TightAt(n, red, y[c], c)
    <3>1. y[c] = best[c] /\ y[c] \in LapIdx(n) /\ x[y[c]] = c
      BY <1>8, <2>2
    <3>2. c # -1
      BY DEF LapIdx
    <3>3. y[c] \notin wait
      BY <1>11, <2>1, <3>1, <3>2
    <3>4. red[y[c]][c] = 0
      BY <1>6, <3>1
    <3>5. TightAt(n, red, y[c], c)
      BY <1>5, <3>1, <3>4 DEF TightAt
    <3> QED
      BY <3>1, <3>3, <3>5
  <2>3. AgreeIn(n, red, x, y, {}, wait)
    BY <2>2 DEF AgreeIn
  <2> QED
    BY <1>1, <1>2, <1>12, <2>1, <2>3 DEF LapAgree
<1>16. LapAssigned(K)
  <2>1. PICK wait : wait = LapWaiting(K)
    OBVIOUS
  <2>2. ASSUME NEW r \in LapIdx(n), r \notin wait PROVE \E c \in LapIdx(n) \ {} : y[c] = r
    <3>1. x[r] # -1
      BY <1>11, <2>1, <2>2
    <3>2. x[r] >= 0
      BY <1>9, <3>1
    <3> QED
      BY <1>7, <3>2
  <2>3. AssignedIn(n, y, {}, wait)
    BY <2>2 DEF AssignedIn
  <2> QED
    BY <1>1, <1>2, <1>12, <2>1, <2>3 DEF LapAssigned
<1>17. LapTransferring(K)
  <2>1. /\ K.at = "transfer" /\ K.n = n /\ K.x = x /\ K.y = y /\ LapRed(K) = red
    BY <1>1, <1>2
  <2>2. K.at # "reduce"
    BY <2>1
  <2> QED
    BY <1>5, <1>7, <2>1, <2>2, Zenon DEF LapTransferring
<1>18. LapSearching(K)
  BY <1>2 DEF LapSearching
<1>19. LapMatrix(K)
  BY <1>1, <1>2 DEF LapInv, LapMatrix
<1> QED
  BY <1>13, <1>14, <1>15, <1>16, <1>17, <1>18, <1>19 DEF LapInv

-----------------------------------------------------------------------------
(* The steps.                                                              *)

\* What the start sets.
LapBegins(L, n, rows, cols, cost, none) ==
  /\ L.at = "reduce" /\ L.n = n /\ L.rows = rows /\ L.cols = cols /\ L.cost = cost
  /\ L.x = none /\ L.y = none /\ L.n_free = 0

\* The fields at the call of lapjv_internal.
LEMMA LapStartFields ==
  ASSUME NEW n, NEW rows \in Nat, NEW cols \in Nat, NEW cost \in LapMatrices(n),
         NEW none \in LapMany(n), NEW gone \in LapInts(n), NEW v \in LapInts(n), NEW zero \in Nat,
         zero = 0,
         NEW neg, neg \in LapNumber, neg \in LapOne(n), NEW at \in LapPlace, at = "reduce", NEW L,
         gone = none,
         L = [at |-> at, rows |-> rows, cols |-> cols, n |-> n,
              cost |-> cost, x |-> none, y |-> none, v |-> v,
              freeRows |-> none, n_free |-> zero, ret |-> zero, current |-> zero, rr |-> zero,
              round |-> zero, pfree |-> zero, d |-> gone, list |-> none, pred |-> none,
              lo |-> zero, hi |-> zero, slo |-> zero, shi |-> zero, k |-> zero, i |-> neg,
              j |-> neg, ready |-> zero]
  PROVE  L \in LapRec(n) /\ LapBegins(L, n, rows, cols, cost, none)
<1>1. L \in LapRec(n)
  BY ZenonT(60) DEF LapRec
<1>2. LapBegins(L, n, rows, cols, cost, none)
  BY ZenonT(60) DEF LapBegins
<1> QED
  BY <1>1, <1>2

\* At the start no column is assigned.
LEMMA LapBeginsRight ==
  ASSUME NEW L, LapTyped(L), NEW n, NEW rows \in Nat, NEW cols \in Nat, rows > 0, cols > 0,
         n = rows + cols, NEW c, LapBegins(L, n, rows, cols, LapExtend(c, rows, cols),
                                           [i \in LapIdx(n) |-> -1])
  PROVE  LapInv(L)
<1>1. /\ L.at = "reduce" /\ L.n = n /\ L.rows = rows /\ L.cols = cols /\ L.n_free = 0
      /\ L.cost = LapExtend(c, rows, cols) /\ L.y = [i \in LapIdx(n) |-> -1]
  BY DEF LapBegins
<1>2. \A r \in LapIdx(n) : L.y[r] = -1 /\ L.y[r] < 0
  <2>1. \A r \in LapIdx(n) : L.y[r] = -1
    BY <1>1
  <2> QED
    BY <2>1
<1>3. LapMatrix(L)
  <2>1. n = rows + cols
    OBVIOUS
  <2>2. \A r, q \in LapIdx(n) :
          L.cost[r][q] = CASE r < rows /\ q < cols -> c[<<r, q>>]
                           [] r >= rows /\ q >= cols -> 0
                           [] OTHER -> LapHalf
    BY <1>1 DEF LapExtend
  <2>3. ASSUME NEW r \in LapIdx(n), NEW q \in LapIdx(n)
        PROVE  /\ r >= rows /\ q >= cols => L.cost[r][q] = 0
               /\ r < rows /\ q >= cols => L.cost[r][q] = LapHalf
               /\ r >= rows /\ q < cols => L.cost[r][q] = LapHalf
    <3>1. r \in Int /\ q \in Int
      BY DEF LapIdx
    <3>2. PICK z, a, b : /\ z = c[<<r, q>>] /\ (a <=> r < rows) /\ (b <=> q < cols)
                         /\ a \in BOOLEAN /\ b \in BOOLEAN
      OBVIOUS
    <3>3. (r >= rows <=> ~a) /\ (q >= cols <=> ~b)
      BY <3>1, <3>2
    <3>4. L.cost[r][q] = IF a /\ b THEN z ELSE IF ~a /\ ~b THEN 0 ELSE LapHalf
      BY <2>2, <3>2, <3>3
    <3> QED
      BY <3>2, <3>3, <3>4
  <2> QED
    BY <1>1, <2>3 DEF LapMatrix
<1>4. LapSlots(L) = {} /\ LapOpen(L) = {}
  BY <1>1 DEF LapSlots, LapSlot, LapOpen
<1>5. LapWaiting(L) = LapIdx(n)
  BY <1>1, <1>4 DEF LapWaiting, LapUntold
<1>6. LapSlotted(L)
  BY <1>4 DEF LapSlotted
<1>7. LapBounds(L)
  BY <1>1 DEF LapBounds
<1>8. LapAgree(L)
  <2>1. \A q \in LapIdx(L.n) \ LapOpen(L) : ~(L.y[q] >= 0)
    BY <1>1, <1>2
  <2> QED
    BY <2>1 DEF LapAgree, AgreeIn
<1>9. LapAssigned(L)
  BY <1>1, <1>5 DEF LapAssigned, AssignedIn
<1>10. LapTransferring(L)
  BY <1>1, <1>2 DEF LapTransferring
<1>11. LapSearching(L)
  BY <1>1 DEF LapSearching
<1> QED
  BY <1>3, <1>6, <1>7, <1>8, <1>9, <1>10, <1>11 DEF LapInv

\* The state: the algorithm is not run, or its invariant holds.
LapHolds == lap = LapOff \/ LapInv(lap)

\* It holds at the start.
LEMMA LapInitHolds ==
  ASSUME NEW on \in BOOLEAN, LapInitial(on)
  PROVE  LapHolds
<1>1. CASE lap = LapOff
  BY <1>1 DEF LapHolds
<1>2. CASE lap # LapOff
  <2>1. PICK s \in LapShapes : \E cost \in [LapIdx(s[1]) \X LapIdx(s[2]) -> LapCosts] :
                                  lap = LapStart(s[1], s[2], cost)
    BY <1>2, Zenon DEF LapInitial
  <2>2. PICK c \in [LapIdx(s[1]) \X LapIdx(s[2]) -> LapCosts] : lap = LapStart(s[1], s[2], c)
    BY <2>1
  <2>3. PICK rows, cols : rows = s[1] /\ cols = s[2] /\ rows \in Nat \ {0} /\ cols \in Nat \ {0}
    BY LapAssumption
  <2>4. PICK n, cost, none, v, neg :
          /\ n = rows + cols /\ cost = LapExtend(c, rows, cols)
          /\ none = [i \in LapIdx(n) |-> -1] /\ v = [i \in LapIdx(n) |-> LapLarge] /\ neg = -1
    OBVIOUS
  <2>5. lap = [at |-> "reduce", rows |-> rows, cols |-> cols, n |-> n,
               cost |-> cost, x |-> none, y |-> none, v |-> v,
               freeRows |-> none, n_free |-> 0, ret |-> 0, current |-> 0, rr |-> 0,
               round |-> 0, pfree |-> 0, d |-> none, list |-> none, pred |-> none,
               lo |-> 0, hi |-> 0, slo |-> 0, shi |-> 0, k |-> 0, i |-> neg,
               j |-> neg, ready |-> 0]
    BY <2>2, <2>3, <2>4, Zenon DEF LapStart
  <2>6. n \in Nat /\ \A r \in LapIdx(n) : r \in Int
    BY <2>3, <2>4 DEF LapIdx
  <2>7. cost \in LapMatrices(n)
    <3>1. ASSUME NEW r \in LapIdx(n), NEW q \in LapIdx(n), r < rows, q < cols
          PROVE  c[<<r, q>>] \in Int
      <4>1. r \in LapIdx(rows) /\ q \in LapIdx(cols)
        BY <2>3, <2>6, <3>1 DEF LapIdx
      <4>2. <<r, q>> \in LapIdx(s[1]) \X LapIdx(s[2])
        BY <2>3, <4>1
      <4> QED
        BY <2>2, <4>2, LapAssumption
    <3>2. LapHalf \in Int
      BY LapAssumption
    <3>3. ASSUME NEW r \in LapIdx(n), NEW q \in LapIdx(n)
          PROVE
            (CASE r < rows /\ q < cols -> c[<<r, q>>]
               [] r >= rows /\ q >= cols -> 0
               [] OTHER -> LapHalf) \in Int
      <4>1. PICK z : z = c[<<r, q>>]
        OBVIOUS
      <4>2. r < rows /\ q < cols => z \in Int
        BY <3>1, <4>1
      <4>3. r \in Int /\ q \in Int
        BY <2>6
      <4>4. (CASE r < rows /\ q < cols -> z
               [] r >= rows /\ q >= cols -> 0
               [] OTHER -> LapHalf) \in Int
        BY <2>3, <3>2, <4>2, <4>3
      <4> QED
        BY <4>1, <4>4
    <3> QED
      BY <2>4, <3>3 DEF LapExtend, LapMatrices
  <2>8. none \in LapMany(n) /\ none \in LapInts(n) /\ v \in LapInts(n)
    BY <2>4, LapAssumption DEF LapMany, LapInts
  <2>9. neg \in LapNumber /\ neg \in LapOne(n) /\ "reduce" \in LapPlace /\ 0 \in Nat
    BY <2>4 DEF LapNumber, LapOne, LapPlace
  <2>10. lap \in LapRec(n) /\ LapBegins(lap, n, rows, cols, cost, none)
    BY <2>3, <2>5, <2>7, <2>8, <2>9, LapStartFields
  <2>11. LapTyped(lap)
    BY <2>6, <2>10 DEF LapTyped, LapBegins
  <2>12. rows \in Nat /\ cols \in Nat /\ rows > 0 /\ cols > 0
    BY <2>3
  <2>13. LapBegins(lap, n, rows, cols, LapExtend(c, rows, cols), [i \in LapIdx(n) |-> -1])
    BY <2>4, <2>10, Zenon
  <2>14. LapInv(lap)
    BY <2>4, <2>11, <2>12, <2>13, LapBeginsRight
  <2> QED
    BY <2>14 DEF LapHolds
<1> QED
  BY <1>1, <1>2

\* While the algorithm runs.
LEMMA LapRuns ==
  ASSUME LapHolds, lap.at # "off"
  PROVE  /\ LapInv(lap) /\ LapTyped(lap) /\ lap.n \in Nat /\ lap \in LapRec(lap.n)
         /\ \A i \in LapIdx(lap.n) : Reduced(i) = LapRed(lap)[i]
<1>1. LapInv(lap)
  <2>1. lap # LapOff
    BY DEF LapOff
  <2> QED
    BY <2>1 DEF LapHolds
<1>2. \A i \in LapIdx(lap.n) : Reduced(i) = LapRed(lap)[i]
  BY DEF LapRed, RedOf, Reduced
<1>3. LapTyped(lap)
  BY <1>1 DEF LapInv
<1>4. lap.n \in Nat /\ lap \in LapRec(lap.n)
  BY <1>3 DEF LapTyped
<1> QED
  BY <1>1, <1>2, <1>3, <1>4

\* The column reduction, as the action does it.
LEMMA LapReduceStep ==
  ASSUME LapHolds, LapReduce
  PROVE  LapInv(lap')
<1>1. lap.at = "reduce" /\ lap.at # "off"
  BY DEF LapReduce
<1>2. LapInv(lap) /\ LapTyped(lap) /\ lap.n \in Nat /\ lap \in LapRec(lap.n)
  BY <1>1, LapRuns
<1>3. PICK n, cost, best, v, x, y, d :
        /\ n = lap.n /\ cost = lap.cost /\ best = LapBest(lap.n, lap.cost)
        /\ v = [j \in LapIdx(lap.n) |-> lap.cost[LapBest(lap.n, lap.cost)[j]][j]]
        /\ x = [i \in LapIdx(lap.n) |->
                  IF LapMine(lap.n, LapBest(lap.n, lap.cost), i) = {} THEN -1
                  ELSE Max(LapMine(lap.n, LapBest(lap.n, lap.cost), i))]
        /\ y = [j \in LapIdx(lap.n) |->
                  IF j = Max(LapMine(lap.n, LapBest(lap.n, lap.cost),
                                     LapBest(lap.n, lap.cost)[j]))
                  THEN LapBest(lap.n, lap.cost)[j] ELSE -1]
        /\ d = [i \in LapIdx(lap.n) |->
                  Cardinality(LapMine(lap.n, LapBest(lap.n, lap.cost), i))]
  OBVIOUS
<1>4. /\ v = [j \in LapIdx(n) |-> cost[best[j]][j]]
      /\ x = [i \in LapIdx(n) |->
                IF LapMine(n, best, i) = {} THEN -1 ELSE Max(LapMine(n, best, i))]
      /\ y = [j \in LapIdx(n) |-> IF j = Max(LapMine(n, best, best[j])) THEN best[j] ELSE -1]
      /\ d = [i \in LapIdx(n) |-> Cardinality(LapMine(n, best, i))]
  BY <1>3
<1>5. lap' = [lap EXCEPT !.at = "transfer", !.k = 0, !.v = v, !.x = x, !.y = y, !.d = d]
  BY <1>3, ZenonT(30) DEF LapReduce, LapBest, LapColumn, LapMine
<1>6. LapReduces(n, cost, best, v, x, y)
  BY <1>3, <1>4 DEF LapReduces
<1>7. n \in Nat /\ cost \in [LapIdx(n) -> [LapIdx(n) -> Int]]
  BY <1>2, <1>3 DEF LapRec, LapMatrices
<1>8. v \in LapInts(n) /\ x \in LapMany(n) /\ y \in LapMany(n)
  BY <1>6, <1>7, LapReducesGives
<1>9. d \in LapInts(n)
  <2>1. ASSUME NEW i \in LapIdx(n) PROVE Cardinality(LapMine(n, best, i)) \in Int
    <3>1. IsFiniteSet(0..(n - 1)) /\ LapMine(n, best, i) \subseteq 0..(n - 1)
      BY <1>7, FS_Interval DEF LapMine, LapIdx
    <3>2. IsFiniteSet(LapMine(n, best, i))
      BY <3>1, FS_Subset
    <3>3. Cardinality(LapMine(n, best, i)) \in Nat
      BY <3>2, FS_CardinalityType
    <3> QED
      BY <3>3
  <2> QED
    BY <1>4, <2>1 DEF LapInts
<1>10. "transfer" \in LapPlace /\ 0 \in Nat
  BY DEF LapPlace
<1>11. lap' \in LapRec(n) /\ LapReducesTo(lap, lap', v, x, y)
  <2>1. lap \in LapRec(n)
    BY <1>2, <1>3
  <2> QED
    BY <1>5, <1>8, <1>9, <1>10, <2>1, LapReduceFields
<1>12. LapTyped(lap')
  BY <1>3, <1>7, <1>11 DEF LapTyped, LapReducesTo
<1> QED
  BY <1>1, <1>2, <1>3, <1>6, <1>11, <1>12, LapReduceKeeps

\* The reduction transfer at one row.
LEMMA LapTransferStep ==
  ASSUME LapHolds, LapTransfer
  PROVE  LapInv(lap')
<1>1. lap.at = "transfer" /\ lap.at # "off" /\ lap.k < lap.n
  BY DEF LapTransfer
<1>2. /\ LapInv(lap) /\ LapTyped(lap) /\ lap.n \in Nat /\ lap \in LapRec(lap.n)
      /\ \A i \in LapIdx(lap.n) : Reduced(i) = LapRed(lap)[i]
  BY <1>1, LapRuns
<1>3. PICK n, i, j, m : n = lap.n /\ i = lap.k /\ j = lap.x[i] /\ m = lap.n_free
  OBVIOUS
<1>4. /\ n \in Nat /\ i \in Nat /\ m \in Nat /\ lap.v \in LapInts(n) /\ lap.freeRows \in LapMany(n)
      /\ lap.x \in [LapIdx(n) -> LapIdx(n) \cup {-1}] /\ lap.n > 1 /\ m <= i
  <2>1. lap.n = lap.rows + lap.cols /\ lap.rows > 0 /\ lap.cols > 0 /\ m <= i
    BY <1>1, <1>2, <1>3 DEF LapInv, LapMatrix, LapBounds
  <2>2. lap.rows \in Nat /\ lap.cols \in Nat
    BY <1>2, LapFields
  <2>3. lap.n > 1
    BY <2>1, <2>2
  <2>4. lap.v \in [LapIdx(n) -> Int] /\ lap.freeRows \in [LapIdx(n) -> LapIdx(n) \cup {-1}]
    BY <1>2, <1>3, LapFields
  <2> QED
    BY <1>2, <1>3, <2>1, <2>3, <2>4, LapFields DEF LapInts, LapMany
<1>5. i \in LapIdx(n) /\ m \in LapIdx(n)
  BY <1>1, <1>3, <1>4 DEF LapIdx
<1>6. j \in LapIdx(n) \cup {-1} /\ (j \in LapIdx(n) <=> j >= 0)
  BY <1>3, <1>4, <1>5 DEF LapIdx
<1>7. PICK more, free, last, v :
        /\ more = lap.k + 1
        /\ free = IF lap.x[lap.k] < 0 THEN [lap.freeRows EXCEPT ![lap.n_free] = lap.k]
                 ELSE lap.freeRows
        /\ last = IF lap.x[lap.k] < 0 THEN lap.n_free + 1 ELSE lap.n_free
        /\ v = IF lap.x[lap.k] >= 0 /\ lap.d[lap.k] = 1
               THEN [lap.v EXCEPT ![lap.x[lap.k]] = lap.v[lap.x[lap.k]]
                      - Min({Reduced(lap.k)[q] : q \in LapIdx(lap.n) \ {lap.x[lap.k]}})]
               ELSE lap.v
  OBVIOUS
<1>8. lap' = [lap EXCEPT !.k = more, !.freeRows = free, !.n_free = last, !.v = v]
  BY <1>7, ZenonT(30) DEF LapTransfer
<1>9. more \in Nat /\ last \in Nat /\ more = lap.k + 1
  BY <1>3, <1>4, <1>7
<1>10. CASE j < 0
  <2>1. free = [lap.freeRows EXCEPT ![lap.n_free] = i] /\ last = lap.n_free + 1 /\ v = lap.v
    <3>1. ~(j >= 0)
      BY <1>6, <1>10 DEF LapIdx
    <3> QED
      BY <1>3, <1>7, <1>10, <3>1
  <2>2. free \in LapMany(n) /\ v \in LapInts(n)
    BY <1>3, <1>4, <1>5, <2>1 DEF LapMany
  <2>3. lap' \in LapRec(n) /\ LapTransfersTo(lap, lap', more, free, last, v)
    <3>1. lap \in LapRec(n)
      BY <1>2, <1>3
    <3> QED
      BY <1>8, <1>9, <2>2, <3>1, LapTransferFields
  <2>4. LapTyped(lap')
    BY <1>3, <1>4, <2>3 DEF LapTyped, LapTransfersTo
  <2>5. lap.x[lap.k] < 0 /\ free = [lap.freeRows EXCEPT ![lap.n_free] = lap.k]
    BY <1>3, <1>10, <2>1
  <2>6. LapTransfersTo(lap, lap', lap.k + 1, free, lap.n_free + 1, lap.v)
    BY <1>9, <2>1, <2>3
  <2> QED
    BY <1>1, <1>2, <2>4, <2>5, <2>6, LapTransferTellsKeeps
<1>11. CASE j >= 0
  <2>1. free = lap.freeRows /\ last = lap.n_free
    <3>1. ~(j < 0)
      BY <1>6, <1>11 DEF LapIdx
    <3> QED
      BY <1>3, <1>7, <3>1
  <2>2. LapPriceFalls(lap, v, lap.k, j, lap.d[i] = 1)
    <3>1. v = IF lap.d[i] = 1
              THEN [lap.v EXCEPT ![j] = lap.v[j] - Min({Reduced(i)[q] : q \in LapIdx(lap.n) \ {j}})]
              ELSE lap.v
      BY <1>3, <1>7, <1>11
    <3>2. Reduced(i) = LapRed(lap)[lap.k]
      BY <1>2, <1>3, <1>5
    <3>3. v = IF lap.d[i] = 1
              THEN [lap.v EXCEPT ![j] =
                      lap.v[j] - Min({LapRed(lap)[lap.k][q] : q \in LapIdx(lap.n) \ {j}})]
              ELSE lap.v
      BY <3>1, <3>2, Zenon
    <3> QED
      BY <3>3, Zenon DEF LapPriceFalls
  <2>3. lap.k \in LapIdx(lap.n) /\ j \in LapIdx(lap.n)
    BY <1>3, <1>5, <1>6, <1>11
  <2>4. v = lap.v \/ LapFallsBy(lap, v, lap.k, j)
    BY <1>2, <1>4, <2>2, <2>3, LapPriceFallsIs
  <2>5. v \in LapInts(n) /\ free \in LapMany(n)
    BY <1>3, <1>4, <2>1, <2>3, <2>4 DEF LapFallsBy, LapInts
  <2>6. lap' \in LapRec(n) /\ LapTransfersTo(lap, lap', more, free, last, v)
    <3>1. lap \in LapRec(n)
      BY <1>2, <1>3
    <3> QED
      BY <1>8, <1>9, <2>5, <3>1, LapTransferFields
  <2>7. LapTyped(lap') /\ lap'.n = lap.n /\ lap'.cost = lap.cost /\ lap'.v = v
    BY <1>3, <1>4, <2>6 DEF LapTyped, LapTransfersTo
  <2>8. j = lap.x[lap.k] /\ LapPriceFalls(lap, lap'.v, lap.k, j, lap.d[i] = 1)
    BY <1>3, <2>2, <2>7
  <2>9. RisesIn(lap.n, LapRed(lap), LapRed(lap'), j) /\ TightAt(lap.n, LapRed(lap'), lap.k, j)
    BY <1>1, <1>2, <1>11, <2>7, <2>8, LapTransferRises
  <2>10. LapTransfersTo(lap, lap', lap.k + 1, lap.freeRows, lap.n_free, v)
    BY <1>9, <2>1, <2>6
  <2> QED
    BY <1>1, <1>2, <1>11, <2>7, <2>8, <2>9, <2>10, LapTransferHasKeeps
<1> QED
  BY <1>6, <1>10, <1>11 DEF LapIdx

\* The end of the reduction transfer.
LEMMA LapTransferredStep ==
  ASSUME LapHolds, LapTransferred
  PROVE  LapInv(lap')
<1>1. lap.at = "transfer" /\ lap.k = lap.n
  BY DEF LapTransferred
<1>2. LapInv(lap)
  BY <1>1, LapRuns
<1>3. PICK n, m, d : n = lap.n /\ m = lap.n_free /\ d = [i \in LapIdx(lap.n) |-> -1]
  OBVIOUS
<1>4. lap' = [lap EXCEPT !.at = "rounds", !.ret = m, !.k = 0, !.d = d]
  BY <1>3, Zenon DEF LapTransferred
<1>5. d = [i \in LapIdx(n) |-> -1] /\ lap.k = n
  BY <1>1, <1>3
<1> QED
  BY <1>1, <1>2, <1>3, <1>4, <1>5, LapTransferredKeeps

\* The next phase.
LEMMA LapRoundsStep ==
  ASSUME LapHolds, LapRounds
  PROVE  LapInv(lap')
<1>1. lap.at = "rounds"
  BY DEF LapRounds
<1>2. LapInv(lap)
  BY <1>1, LapRuns
<1>3. PICK m, at, round :
        /\ m = lap.ret
        /\ at = IF lap.ret = 0 THEN "done" ELSE IF lap.round < 2 THEN "carr" ELSE "ca"
        /\ round = IF lap.ret > 0 /\ lap.round < 2 THEN lap.round + 1 ELSE lap.round
  OBVIOUS
<1>4. lap' = [lap EXCEPT !.at = at, !.round = round, !.n_free = m, !.ret = 0, !.current = 0,
                         !.rr = 0, !.pfree = 0]
  BY <1>3, ZenonT(30) DEF LapRounds
<1>5. /\ at = IF m = 0 THEN "done" ELSE IF lap.round < 2 THEN "carr" ELSE "ca"
      /\ round = IF m > 0 /\ lap.round < 2 THEN lap.round + 1 ELSE lap.round
  BY <1>3
<1> QED
  BY <1>1, <1>2, <1>3, <1>4, <1>5, LapRoundsKeeps

\* The end of a round of row reduction.
LEMMA LapRowsReducedStep ==
  ASSUME LapHolds, LapRowsReduced
  PROVE  LapInv(lap')
<1>1. lap.at = "carr" /\ lap.current = lap.n_free /\ lap' = [lap EXCEPT !.at = "rounds"]
  BY DEF LapRowsReduced
<1>2. LapInv(lap)
  BY <1>1, LapRuns
<1> QED
  BY <1>1, <1>2, LapRowsReducedKeeps

\* The start of a path.
LEMMA LapPathStartsStep ==
  ASSUME LapHolds, LapPathStarts
  PROVE  LapInv(lap')
<1>1. lap.at = "ca" /\ lap.pfree < lap.n_free
  BY DEF LapPathStarts
<1>2. /\ LapInv(lap) /\ LapTyped(lap) /\ lap.n \in Nat
      /\ \A i \in LapIdx(lap.n) : Reduced(i) = LapRed(lap)[i]
  BY <1>1, LapRuns
<1>3. PICK f, list, pred, d :
        /\ f = lap.freeRows[lap.pfree] /\ list = [i \in LapIdx(lap.n) |-> i]
        /\ pred = [i \in LapIdx(lap.n) |-> lap.freeRows[lap.pfree]]
        /\ d = Reduced(lap.freeRows[lap.pfree])
  OBVIOUS
<1>4. lap' = [lap EXCEPT !.at = "find", !.lo = 0, !.hi = 1, !.k = 1, !.ready = 0, !.list = list,
                         !.pred = pred, !.d = d]
  BY <1>3, ZenonT(30) DEF LapPathStarts
<1>5. f = LapRow(lap) /\ pred = [i \in LapIdx(lap.n) |-> f]
  BY <1>3 DEF LapRow
<1>6. f \in LapIdx(lap.n)
  <2>1. lap.pfree \in Nat /\ lap.n_free \in Nat /\ lap.n_free <= lap.n
    BY <1>1, <1>2, LapFields DEF LapInv, LapBounds
  <2>2. lap.pfree \in LapSlots(lap)
    BY <1>1, <1>2, <2>1 DEF LapSlots, LapSlot, LapIdx
  <2> QED
    BY <1>2, <1>3, <2>2 DEF LapInv, LapSlotted
<1>7. d = LapRed(lap)[f]
  BY <1>2, <1>3, <1>6
<1>8. PICK n : n = lap.n
  OBVIOUS
<1>9. LapPathFrom(n, f, list, pred)
  BY <1>3, <1>5, <1>8 DEF LapPathFrom
<1> QED
  BY <1>1, <1>2, <1>4, <1>5, <1>7, <1>8, <1>9, LapPathStartsKeeps

\* The end of the augmentation.
LEMMA LapAllAugmentedStep ==
  ASSUME LapHolds, LapAllAugmented
  PROVE  LapInv(lap')
<1>1. lap.at = "ca" /\ lap.pfree = lap.n_free /\ lap' = [lap EXCEPT !.at = "done"]
  BY DEF LapAllAugmented
<1>2. LapInv(lap)
  BY <1>1, LapRuns
<1> QED
  BY <1>1, <1>2, LapAllAugmentedKeeps

\* One column in _find_dense.
LEMMA LapFindStep ==
  ASSUME LapHolds, LapFind
  PROVE  LapInv(lap')
<1>1. lap.at = "find" /\ lap.k < lap.n
  BY DEF LapFind
<1>2. LapInv(lap)
  BY <1>1, LapRuns
<1>3. PICK n, k, h, near :
        /\ n = lap.n /\ k = lap.k
        /\ h = IF lap.d[lap.list[lap.k]] < lap.d[lap.list[lap.lo]] THEN lap.lo ELSE lap.hi
        /\ near = (lap.d[lap.list[lap.k]] <= lap.d[lap.list[lap.lo]])
  OBVIOUS
<1>4. PICK list, hi, more :
        /\ list = IF lap.d[lap.list[lap.k]] <= lap.d[lap.list[lap.lo]]
                  THEN Swapped(lap.list, lap.k, h) ELSE lap.list
        /\ hi = IF lap.d[lap.list[lap.k]] <= lap.d[lap.list[lap.lo]] THEN h + 1 ELSE lap.hi
        /\ more = lap.k + 1
  OBVIOUS
<1>5. lap' = [lap EXCEPT !.k = more, !.list = list, !.hi = hi]
  BY <1>3, <1>4, ZenonT(30) DEF LapFind
<1>6. /\ h = IF lap.d[lap.list[k]] < lap.d[lap.list[lap.lo]] THEN lap.lo ELSE lap.hi
      /\ near <=> lap.d[lap.list[k]] <= lap.d[lap.list[lap.lo]]
  BY <1>3
<1>7. /\ list = IF near THEN Swapped(lap.list, k, h) ELSE lap.list
      /\ hi = IF near THEN h + 1 ELSE lap.hi
      /\ more = k + 1
  BY <1>3, <1>4
<1>8. k < n
  BY <1>1, <1>3
<1> QED
  BY <1>1, <1>2, <1>3, <1>5, <1>6, <1>7, <1>8, LapFindKeeps

\* The nearest columns are known: the path ends at a free one, or they are scanned.
LEMMA LapFoundStep ==
  ASSUME LapHolds, LapFound
  PROVE  LapInv(lap')
<1>1. lap.at = "find" /\ lap.k = lap.n
  BY DEF LapFound
<1>2. LapInv(lap)
  BY <1>1, LapRuns
<1>3. PICK n, ends, lo, hi, j :
        /\ n = lap.n /\ ends = {m \in lap.lo..(lap.hi - 1) : lap.y[lap.list[m]] < 0}
        /\ lo = lap.lo /\ hi = lap.hi
        /\ j = lap.list[Max({m \in lap.lo..(lap.hi - 1) : lap.y[lap.list[m]] < 0})]
  OBVIOUS
<1>4. lap' = IF ends # {} THEN [lap EXCEPT !.at = "prices", !.ready = lo, !.j = j]
             ELSE [lap EXCEPT !.at = "scan", !.ready = lo, !.slo = lo, !.shi = hi, !.k = n]
  BY <1>3, ZenonT(60) DEF LapFound
<1>5. j = lap.list[Max(ends)] /\ lap.k = n
  BY <1>1, <1>3
<1> QED
  BY <1>1, <1>2, <1>3, <1>4, <1>5, LapFoundKeeps, ZenonT(40)

\* The next column to scan from.
LEMMA LapScanNextStep ==
  ASSUME LapHolds, LapScanNext
  PROVE  LapInv(lap')
<1>1. lap.at = "scan" /\ lap.k = lap.n /\ lap.slo # lap.shi
  BY DEF LapScanNext
<1>2. LapInv(lap)
  BY <1>1, LapRuns
<1>3. PICK n, slo, shi, more : n = lap.n /\ slo = lap.slo /\ shi = lap.shi /\ more = lap.slo + 1
  OBVIOUS
<1>4. lap' = [lap EXCEPT !.i = slo, !.slo = more, !.k = shi]
  BY <1>3, ZenonT(30) DEF LapScanNext
<1>5. more = slo + 1 /\ lap.k = n /\ slo # shi
  BY <1>1, <1>3
<1> QED
  BY <1>1, <1>2, <1>3, <1>4, <1>5, LapScanNextKeeps

\* The end of the SCAN list.
LEMMA LapScannedStep ==
  ASSUME LapHolds, LapScanned
  PROVE  LapInv(lap')
<1>1. lap.at = "scan" /\ lap.k = lap.n /\ lap.slo = lap.shi
  BY DEF LapScanned
<1>2. LapInv(lap)
  BY <1>1, LapRuns
<1>3. PICK n, slo, more : n = lap.n /\ slo = lap.slo /\ more = lap.slo + 1
  OBVIOUS
<1>4. lap' = [lap EXCEPT !.at = "find", !.lo = slo, !.hi = more, !.k = more]
  BY <1>3, ZenonT(30) DEF LapScanned
<1>5. more = slo + 1 /\ lap.k = n /\ slo = lap.shi
  BY <1>1, <1>3
<1> QED
  BY <1>1, <1>2, <1>3, <1>4, <1>5, LapScannedKeeps

\* The new prices.
LEMMA LapPricesStep ==
  ASSUME LapHolds, LapPrices
  PROVE  LapInv(lap')
<1>1. lap.at = "prices"
  BY DEF LapPrices
<1>2. LapInv(lap)
  BY <1>1, LapRuns
<1>3. PICK n, mind, done, v :
        /\ n = lap.n /\ mind = lap.d[lap.list[lap.lo]]
        /\ done = {lap.list[m] : m \in 0..(lap.ready - 1)}
        /\ v = [j \in LapIdx(lap.n) |->
                  IF j \in {lap.list[m] : m \in 0..(lap.ready - 1)}
                  THEN lap.v[j] + lap.d[j] - lap.d[lap.list[lap.lo]] ELSE lap.v[j]]
  OBVIOUS
<1>4. lap' = [lap EXCEPT !.at = "augment", !.i = -1, !.k = 0, !.v = v]
  BY <1>3, ZenonT(30) DEF LapPrices
<1>5. LapReadyPrices(lap, n, mind, done, v) /\ n = lap.n /\ mind = lap.d[lap.list[lap.lo]]
  BY <1>3 DEF LapReadyPrices
<1> QED
  BY <1>1, <1>2, <1>4, <1>5, LapPricesKeeps

\* The end of the way back.
LEMMA LapAugmentedStep ==
  ASSUME LapHolds, LapAugmented
  PROVE  LapInv(lap')
<1>1. lap.at = "augment" /\ lap.i = lap.freeRows[lap.pfree]
  BY DEF LapAugmented
<1>2. LapInv(lap)
  BY <1>1, LapRuns
<1>3. PICK next : next = lap.pfree + 1
  OBVIOUS
<1>4. lap' = [lap EXCEPT !.at = "ca", !.pfree = next]
  BY <1>3, ZenonT(30) DEF LapAugmented
<1>5. lap.i = LapRow(lap)
  BY <1>1 DEF LapRow
<1> QED
  BY <1>1, <1>2, <1>3, <1>4, <1>5, LapAugmentedKeeps

\* One column in _scan_dense.
LEMMA LapScanStep ==
  ASSUME LapHolds, LapScan
  PROVE  LapInv(lap')
<1>1. lap.at = "scan" /\ lap.k < lap.n
  BY DEF LapScan
<1>2. LapInv(lap) /\ LapTyped(lap)
  BY <1>1, LapRuns
<1>3. PICK n, k, from, i, j, mind, cred :
        /\ n = lap.n /\ k = lap.k /\ from = lap.list[lap.i] /\ i = lap.y[from]
        /\ j = lap.list[lap.k] /\ mind = lap.d[from]
        /\ cred = lap.cost[i][j] - lap.v[j] - (lap.cost[i][from] - lap.v[from] - mind)
  OBVIOUS
<1>4. LapScanOf(lap, k, from, i, j, mind, cred)
  BY <1>1, <1>3 DEF LapScanOf
<1>5. LapScanHas(lap, k, from, i, j, mind, cred)
  BY <1>1, <1>2, <1>3, <1>4, LapScanFacts
<1>6. PICK d, pred, list, more, next :
        /\ d = [lap.d EXCEPT ![j] = cred] /\ pred = [lap.pred EXCEPT ![j] = i]
        /\ list = Swapped(lap.list, lap.k, lap.shi) /\ more = lap.k + 1 /\ next = lap.shi + 1
  OBVIOUS
<1>13. /\ LapRelaxes(lap, i, j, cred, d, pred) /\ more = k + 1 /\ next = lap.shi + 1
       /\ list = Swapped(lap.list, k, lap.shi)
  BY <1>3, <1>6 DEF LapRelaxes
<1>7. cred \in Int /\ mind \in Int /\ lap.d[j] \in Int
  BY <1>5 DEF LapScanHas
<1>8. \/ cred >= lap.d[j] /\ lap' = [lap EXCEPT !.k = more]
      \/ /\ cred < lap.d[j] /\ cred # mind
         /\ lap' = [lap EXCEPT !.d = d, !.pred = pred, !.k = more]
      \/ /\ cred < lap.d[j] /\ cred = mind /\ lap.y[j] < 0
         /\ lap' = [lap EXCEPT !.d = d, !.pred = pred, !.k = more, !.at = "prices", !.j = j]
      \/ /\ cred < lap.d[j] /\ cred = mind /\ ~(lap.y[j] < 0)
         /\ lap' = [lap EXCEPT !.d = d, !.pred = pred, !.k = more, !.list = list, !.shi = next]
  <2>1. lap' = CASE cred >= lap.d[j] -> [lap EXCEPT !.k = more]
                 [] cred < lap.d[j] /\ cred # mind ->
                      [lap EXCEPT !.d = d, !.pred = pred, !.k = more]
                 [] cred < lap.d[j] /\ cred = mind /\ lap.y[j] < 0 ->
                      [lap EXCEPT !.d = d, !.pred = pred, !.k = more, !.at = "prices", !.j = j]
                 [] OTHER ->
                      [lap EXCEPT !.d = d, !.pred = pred, !.k = more,
                                  !.list = list, !.shi = next]
    BY <1>3, <1>6, ZenonT(60) DEF LapScan
  <2>2. (cred >= lap.d[j] <=> ~(cred < lap.d[j]))
    BY <1>7
  <2>3. CASE cred >= lap.d[j]
    BY <2>1, <2>2, <2>3
  <2>4. CASE cred < lap.d[j] /\ cred # mind
    BY <2>1, <2>2, <2>4
  <2>5. CASE cred < lap.d[j] /\ cred = mind /\ lap.y[j] < 0
    BY <2>1, <2>2, <2>5
  <2>6. CASE cred < lap.d[j] /\ cred = mind /\ ~(lap.y[j] < 0)
    BY <2>1, <2>2, <2>6
  <2> QED
    BY <2>2, <2>3, <2>4, <2>5, <2>6
<1>9. CASE cred >= lap.d[j] /\ lap' = [lap EXCEPT !.k = more]
  BY <1>1, <1>2, <1>4, <1>13, <1>9, LapScanGoesOn
<1>10. CASE /\ cred < lap.d[j] /\ cred # mind
            /\ lap' = [lap EXCEPT !.d = d, !.pred = pred, !.k = more]
  BY <1>1, <1>2, <1>4, <1>13, <1>10, LapScanNearerKeeps
<1>11. CASE /\ cred < lap.d[j] /\ cred = mind /\ lap.y[j] < 0
            /\ lap' = [lap EXCEPT !.d = d, !.pred = pred, !.k = more, !.at = "prices", !.j = j]
  BY <1>1, <1>2, <1>4, <1>13, <1>11, LapScanReachesKeeps
<1>12. CASE /\ cred < lap.d[j] /\ cred = mind /\ ~(lap.y[j] < 0)
            /\ lap' = [lap EXCEPT !.d = d, !.pred = pred, !.k = more, !.list = list, !.shi = next]
  BY <1>1, <1>2, <1>4, <1>13, <1>12, LapScanJoinsKeeps
<1> QED
  BY <1>8, <1>9, <1>10, <1>11, <1>12

\* One column on the way back.
LEMMA LapAugmentHolds ==
  ASSUME LapHolds, LapAugment
  PROVE  LapInv(lap')
<1>1. lap.at = "augment" /\ lap.i # lap.freeRows[lap.pfree]
  BY DEF LapAugment
<1>2. LapInv(lap) /\ LapTyped(lap) /\ lap.n \in Nat /\ lap \in LapRec(lap.n)
  BY <1>1, LapRuns
<1>3. PICK n, j, i : n = lap.n /\ j = lap.j /\ i = lap.pred[lap.j]
  OBVIOUS
<1>4. PICK x, y, b, more :
        /\ x = [lap.x EXCEPT ![lap.pred[lap.j]] = lap.j]
        /\ y = [lap.y EXCEPT ![lap.j] = lap.pred[lap.j]]
        /\ b = lap.x[lap.pred[lap.j]] /\ more = lap.k + 1
  OBVIOUS
<1>5. lap' = [lap EXCEPT !.i = i, !.y = y, !.x = x, !.j = b, !.k = more]
  BY <1>3, <1>4, ZenonT(30) DEF LapAugment
<1>6. lap.i # LapRow(lap)
  BY <1>1 DEF LapRow
<1>7. j \in LapIdx(n) /\ i \in LapIdx(n)
  <2>1. \E p \in NearIn(n, lap.list, lap.d, lap.d[lap.list[lap.lo]]) : j = lap.list[p]
    BY <1>1, <1>2, <1>3, <1>6 DEF LapInv, LapSearching, TrailIn
  <2>2. Permutes(lap.list, n) /\ lap.pred \in [LapIdx(n) -> LapIdx(n)]
    BY <1>1, <1>2, <1>3, LapSearchTyped
  <2>3. j \in LapIdx(n)
    BY <2>1, <2>2 DEF NearIn, Permutes
  <2> QED
    BY <1>3, <2>2, <2>3
<1>8. /\ n \in Nat /\ lap.k \in Nat
      /\ lap.x \in [LapIdx(n) -> LapIdx(n) \cup {-1}]
      /\ lap.y \in [LapIdx(n) -> LapIdx(n) \cup {-1}]
  BY <1>2, <1>3, LapFields
<1>9. x = [lap.x EXCEPT ![i] = j] /\ y = [lap.y EXCEPT ![j] = i] /\ b = lap.x[i]
  BY <1>3, <1>4
<1>10. x \in LapMany(n) /\ y \in LapMany(n) /\ b \in LapOne(n) /\ more \in Nat /\ i \in LapNumber
  <2>1. x \in LapMany(n) /\ y \in LapMany(n)
    BY <1>7, <1>8, <1>9 DEF LapMany
  <2>2. b \in LapOne(n)
    BY <1>7, <1>8, <1>9 DEF LapOne
  <2>3. more \in Nat
    BY <1>4, <1>8
  <2>4. i \in LapNumber
    BY <1>7 DEF LapNumber, LapIdx
  <2> QED
    BY <2>1, <2>2, <2>3, <2>4
<1>11. lap' \in LapRec(n) /\ LapAugmentsTo(lap, lap', i, x, y, b, more)
  <2>1. lap \in LapRec(n)
    BY <1>2, <1>3
  <2> QED
    BY <1>5, <1>10, <2>1, LapAugmentFields
<1>12. LapTyped(lap')
  BY <1>3, <1>8, <1>11 DEF LapTyped, LapAugmentsTo
<1>13. i = lap.pred[j] /\ n = lap.n /\ j = lap.j /\ more = lap.k + 1
  BY <1>3, <1>4
<1> QED
  BY <1>1, <1>2, <1>6, <1>9, <1>11, <1>12, <1>13, LapAugmentKeeps

\* The row reduction, field by field.
LapRowSets(L, K, v, cur, free, ret, x, y) ==
  /\ K.at = L.at /\ K.n = L.n /\ K.rows = L.rows /\ K.cols = L.cols /\ K.cost = L.cost
  /\ K.n_free = L.n_free /\ K.pfree = L.pfree
  /\ K.v = v /\ K.current = cur /\ K.freeRows = free /\ K.ret = ret /\ K.x = x /\ K.y = y

LapRowUpdates(L, K, rr, v, cur, free, ret, x, y) ==
  K = [L EXCEPT !.rr = rr, !.v = v, !.current = cur, !.freeRows = free, !.ret = ret,
                !.x = x, !.y = y]

\* The fields after a step of the row reduction.
LEMMA LapRowFields ==
  ASSUME NEW n, NEW L \in LapRec(n), NEW rr \in Nat, NEW v \in LapInts(n), NEW cur \in Nat,
         NEW free \in LapMany(n), NEW ret \in Nat, NEW x \in LapMany(n), NEW y \in LapMany(n),
         NEW K, LapRowUpdates(L, K, rr, v, cur, free, ret, x, y)
  PROVE  K \in LapRec(n) /\ LapRowSets(L, K, v, cur, free, ret, x, y)
<1> K = [L EXCEPT !.rr = rr, !.v = v, !.current = cur, !.freeRows = free, !.ret = ret,
                  !.x = x, !.y = y]
  BY DEF LapRowUpdates
<1>1. K \in LapRec(n)
  BY ZenonT(60) DEF LapRec
<1>2. LapRowSets(L, K, v, cur, free, ret, x, y)
  BY ZenonT(60) DEF LapRec, LapRowSets
<1> QED
  BY <1>1, <1>2

\* One row in the row reduction.
LEMMA LapRowReductionHolds ==
  ASSUME LapHolds, LapRowReduction
  PROVE  LapInv(lap')
<1>1. lap.at = "carr" /\ lap.current < lap.n_free
  BY DEF LapRowReduction
<1>2. /\ LapInv(lap) /\ LapTyped(lap) /\ lap.n \in Nat /\ lap \in LapRec(lap.n)
      /\ \A i \in LapIdx(lap.n) : Reduced(i) = LapRed(lap)[i]
  BY <1>1, LapRuns
<1>3. PICK n, row, c : n = lap.n /\ row = lap.freeRows[lap.current] /\ c = Reduced(row)
  OBVIOUS
<1>4. row \in LapIdx(n) /\ c = LapRed(lap)[row]
  <2>1. row \in LapIdx(lap.n)
    BY <1>1, <1>2, <1>3, LapNextWaits
  <2> QED
    BY <1>2, <1>3, <2>1
<1>5. PICK j1, j2 : j1 = ArgMin(LapIdx(lap.n), c) /\ j2 = ArgMin(LapIdx(lap.n) \ {j1}, c)
  OBVIOUS
<1>6. PICK rr, cur, lowers, again :
        /\ rr = lap.rr + 1 /\ cur = lap.current + 1 /\ lowers = (c[j1] < c[j2])
        /\ again = (lap.rr + 1 < (lap.current + 1) * lap.n)
  OBVIOUS
<1>7. PICK j, i0 : j = (IF again /\ ~lowers /\ lap.y[j1] >= 0 THEN j2 ELSE j1) /\ i0 = lap.y[j]
  OBVIOUS
<1>8. PICK atOnce, later :
        /\ atOnce = (i0 >= 0 /\ again /\ lowers) /\ later = (i0 >= 0 /\ ~atOnce)
  OBVIOUS
<1>9. PICK v, next, free, ret, x, y :
        /\ v = IF again /\ lowers THEN [lap.v EXCEPT ![j1] = lap.v[j1] - (c[j2] - c[j1])]
               ELSE lap.v
        /\ next = IF atOnce THEN cur - 1 ELSE cur
        /\ free = IF atOnce THEN [lap.freeRows EXCEPT ![cur - 1] = i0]
                  ELSE IF later THEN [lap.freeRows EXCEPT ![lap.ret] = i0]
                  ELSE lap.freeRows
        /\ ret = IF later THEN lap.ret + 1 ELSE lap.ret
        /\ x = [lap.x EXCEPT ![row] = j] /\ y = [lap.y EXCEPT ![j] = row]
  OBVIOUS
<1>10. lap' = [lap EXCEPT !.rr = rr, !.v = v, !.current = next, !.freeRows = free,
                          !.ret = ret, !.x = x, !.y = y]
  BY <1>3, <1>5, <1>6, <1>7, <1>8, <1>9, ZenonT(60) DEF LapRowReduction
<1>11. LapChosen(lap, v, row, again, j1, j2, j)
  <2>1. /\ j1 = ArgMin(LapIdx(lap.n), c) /\ j2 = ArgMin(LapIdx(lap.n) \ {j1}, c)
        /\ j = (IF again /\ ~(c[j1] < c[j2]) /\ lap.y[j1] >= 0 THEN j2 ELSE j1)
        /\ v = IF again /\ c[j1] < c[j2] THEN [lap.v EXCEPT ![j1] = lap.v[j1] - (c[j2] - c[j1])]
               ELSE lap.v
    BY <1>5, <1>6, <1>7, <1>9
  <2>2. c = LapRed(lap)[row]
    BY <1>4
  <2> QED
    BY <2>1, <2>2, Zenon DEF LapChosen
<1>12. n \in Nat /\ lap.n > 1
  <2>1. lap.n = lap.rows + lap.cols /\ lap.rows > 0 /\ lap.cols > 0
    BY <1>2 DEF LapInv, LapMatrix
  <2>2. lap.rows \in Nat /\ lap.cols \in Nat
    BY <1>2, LapFields
  <2> QED
    BY <1>2, <1>3, <2>1, <2>2
<1>13. j \in LapIdx(n) /\ v \in LapInts(n)
  <2>1. row \in LapIdx(lap.n)
    BY <1>3, <1>4
  <2>2. j \in LapIdx(lap.n) /\ v \in [LapIdx(lap.n) -> Int]
    BY <1>2, <1>11, <1>12, <2>1, LapChosenIsIn
  <2> QED
    BY <1>3, <2>2 DEF LapInts
<1>14. /\ lap.current \in Nat /\ lap.ret \in Nat /\ lap.n_free \in Nat /\ lap.rr \in Nat
       /\ lap.freeRows \in [LapIdx(n) -> LapIdx(n) \cup {-1}]
       /\ lap.x \in [LapIdx(n) -> LapIdx(n) \cup {-1}]
       /\ lap.y \in [LapIdx(n) -> LapIdx(n) \cup {-1}]
  BY <1>2, <1>3, LapFields
<1>15. lap.ret <= lap.current /\ lap.n_free <= n
  BY <1>1, <1>2, <1>3 DEF LapInv, LapBounds
<1>16. lap.current \in LapIdx(n) /\ lap.ret \in LapIdx(n) /\ cur - 1 = lap.current
  <2>1. PICK cu, re, nf :
          /\ cu = lap.current /\ re = lap.ret /\ nf = lap.n_free
          /\ cu \in Nat /\ re \in Nat /\ nf \in Nat
          /\ re <= cu /\ cu < nf /\ nf <= n
    BY <1>1, <1>14, <1>15
  <2>2. cur = cu + 1
    BY <1>6, <2>1
  <2>3. cu \in LapIdx(n) /\ re \in LapIdx(n)
    BY <1>12, <2>1 DEF LapIdx
  <2>4. cur - 1 = cu
    BY <2>1, <2>2
  <2> QED
    BY <2>1, <2>3, <2>4
<1>17. i0 \in LapIdx(n) \cup {-1}
  BY <1>7, <1>13, <1>14
<1>18. x \in LapMany(n) /\ y \in LapMany(n)
  BY <1>4, <1>9, <1>13, <1>14 DEF LapMany
<1>19. free \in LapMany(n)
  <2>1. \/ free = [lap.freeRows EXCEPT ![lap.current] = i0]
        \/ free = [lap.freeRows EXCEPT ![lap.ret] = i0]
        \/ free = lap.freeRows
    BY <1>9, <1>16
  <2> QED
    BY <1>14, <1>16, <1>17, <2>1 DEF LapMany
<1>20. rr \in Nat /\ next \in Nat /\ ret \in Nat
  BY <1>6, <1>9, <1>14, <1>16
<1>21. lap' \in LapRec(n) /\ LapRowSets(lap, lap', v, next, free, ret, x, y)
  <2>1. lap \in LapRec(n)
    BY <1>2, <1>3
  <2> QED
    <3>1. LapRowUpdates(lap, lap', rr, v, next, free, ret, x, y)
      BY <1>10 DEF LapRowUpdates
    <3> QED
      BY <1>13, <1>18, <1>19, <1>20, <2>1, <3>1, LapRowFields
<1>22. LapTyped(lap') /\ lap'.v = v
  BY <1>3, <1>12, <1>21 DEF LapTyped, LapRowSets
<1>23. LapRowTo(lap, lap', row, j, i0, again /\ lowers)
  <2>1. /\ lap'.at = "carr" /\ lap'.n = lap.n /\ lap'.rows = lap.rows /\ lap'.cols = lap.cols
        /\ lap'.cost = lap.cost /\ lap'.n_free = lap.n_free /\ lap'.pfree = lap.pfree
        /\ lap'.x = [lap.x EXCEPT ![row] = j] /\ lap'.y = [lap.y EXCEPT ![j] = row]
        /\ lap'.current = next /\ lap'.freeRows = free /\ lap'.ret = ret
    BY <1>1, <1>9, <1>21 DEF LapRowSets
  <2>2. \/ /\ i0 >= 0 /\ (again /\ lowers) /\ next = lap.current /\ ret = lap.ret
           /\ free = [lap.freeRows EXCEPT ![lap.current] = i0]
        \/ /\ i0 >= 0 /\ ~(again /\ lowers) /\ next = lap.current + 1 /\ ret = lap.ret + 1
           /\ free = [lap.freeRows EXCEPT ![lap.ret] = i0]
        \/ /\ ~(i0 >= 0) /\ next = lap.current + 1 /\ ret = lap.ret /\ free = lap.freeRows
    BY <1>6, <1>8, <1>9, <1>16
  <2> QED
    BY <2>1, <2>2, Zenon DEF LapRowTo
<1>24. LapChosen(lap, lap'.v, row, again, j1, j2, j)
  BY <1>11, <1>22
<1>25. j \in LapIdx(lap.n) /\ i0 = lap.y[j] /\ row = lap.freeRows[lap.current]
  BY <1>3, <1>7, <1>13
<1> QED
  BY <1>1, <1>2, <1>22, <1>23, <1>24, <1>25, LapRowReductionKeeps

\* Every step keeps the invariant.
LEMMA LapStepHolds ==
  ASSUME LapHolds, [LapNext]_lap
  PROVE  LapHolds'
<1>1. CASE UNCHANGED lap
  <2>1. CASE lap = LapOff
    BY <1>1, <2>1 DEF LapHolds, LapOff
  <2>2. CASE LapInv(lap)
    <3>1. LapInv(lap')
      BY <1>1, <2>2
    <3> QED
      BY <3>1 DEF LapHolds
  <2> QED
    BY <2>1, <2>2 DEF LapHolds
<1>2. CASE LapNext
  <2>1. LapInv(lap')
    BY <1>2, LapReduceStep, LapTransferStep, LapTransferredStep, LapRoundsStep,
       LapRowReductionHolds, LapRowsReducedStep, LapPathStartsStep, LapAllAugmentedStep,
       LapFindStep, LapFoundStep, LapScanNextStep, LapScanStep, LapScannedStep, LapPricesStep,
       LapAugmentHolds, LapAugmentedStep DEF LapNext
  <2> QED
    BY <2>1 DEF LapHolds
<1> QED
  BY <1>1, <1>2

\* It says that assigned columns are cheapest ones, and that x and y agree.
LEMMA LapHoldsTight ==
  ASSUME LapHolds
  PROVE  LapTight
<1> SUFFICES ASSUME lap.at \in {"rounds", "carr", "ca", "done"}, NEW j \in LapIdx(lap.n),
                    lap.y[j] >= 0
             PROVE  /\ lap.x[lap.y[j]] = j
                    /\ \A m \in LapIdx(lap.n) : Reduced(lap.y[j])[j] <= Reduced(lap.y[j])[m]
  BY DEF LapTight
<1>1. /\ LapInv(lap) /\ LapTyped(lap)
      /\ \A i \in LapIdx(lap.n) : Reduced(i) = LapRed(lap)[i]
  BY LapRuns
<1>2. LapOpen(lap) = {}
  BY DEF LapOpen
<1>3. lap.x[lap.y[j]] = j /\ TightAt(lap.n, LapRed(lap), lap.y[j], j)
  BY <1>1, <1>2 DEF LapInv, LapAgree, AgreeIn
<1>4. lap.y[j] \in LapIdx(lap.n)
  <2>1. lap.y \in [LapIdx(lap.n) -> LapIdx(lap.n) \cup {-1}]
    BY <1>1, LapFields
  <2> QED
    BY <2>1
<1> QED
  BY <1>1, <1>3, <1>4 DEF TightAt

\* At the end every row has a column of its own.
LEMMA LapDone ==
  ASSUME LapHolds, lap.at = "done"
  PROVE  \A r \in LapIdx(lap.n) : lap.x[r] \in LapIdx(lap.n) /\ lap.y[lap.x[r]] = r
<1> SUFFICES ASSUME NEW r \in LapIdx(lap.n)
             PROVE  lap.x[r] \in LapIdx(lap.n) /\ lap.y[lap.x[r]] = r
  OBVIOUS
<1>1. LapInv(lap)
  BY LapRuns
<1>2. LapOpen(lap) = {} /\ LapWaiting(lap) = {}
  BY DEF LapOpen, LapWaiting, LapSlots, LapSlot, LapUntold
<1>3. PICK c \in LapIdx(lap.n) : lap.y[c] = r
  BY <1>1, <1>2 DEF LapInv, LapAssigned, AssignedIn
<1>4. r >= 0
  BY DEF LapIdx
<1>5. lap.x[r] = c
  BY <1>1, <1>2, <1>3, <1>4 DEF LapInv, LapAgree, AgreeIn
<1> QED
  BY <1>3, <1>5

\* It says that the way back ends.
LEMMA LapHoldsPathEnds ==
  ASSUME LapHolds
  PROVE  LapPathEnds
<1>1. ASSUME lap.at = "augment"
      PROVE  lap.k <= lap.n /\ lap.j \in LapIdx(lap.n) \cup {-1}
  <2>1. LapInv(lap) /\ LapTyped(lap)
    BY <1>1, LapRuns
  <2>2. PICK n, k : n = lap.n /\ k = lap.k /\ n \in Nat /\ k \in Nat
    BY <2>1, LapFields
  <2>3. CASE lap.i = LapRow(lap)
    BY <1>1, <2>1, <2>3, LapFields DEF LapInv, LapSearching
  <2>4. CASE lap.i # LapRow(lap)
    <3>1. \E p \in NearIn(n, lap.list, lap.d, lap.d[lap.list[lap.lo]]) : k + p < n
      BY <1>1, <2>1, <2>2, <2>4 DEF LapInv, LapSearching, TrailIn
    <3>2. PICK p \in LapIdx(n) : k + p < n
      BY <3>1 DEF NearIn
    <3>3. k <= n
      BY <2>2, <3>2 DEF LapIdx
    <3> QED
      BY <2>1, <2>2, <3>3, LapFields
  <2> QED
    BY <2>3, <2>4
<1>2. lap.at = "done" => \A i \in LapIdx(lap.n) : lap.x[i] \in LapIdx(lap.n)
  BY LapDone
<1> QED
  BY <1>1, <1>2 DEF LapPathEnds

-----------------------------------------------------------------------------
(* The assignment is a cheapest one.                                       *)

\* A sum of zeros.
LEMMA SumOfNothing ==
  ASSUME NEW f, NEW n \in Nat, \A k \in LapIdx(n) : f[k] = 0
  PROVE  LapSum(f, n) = 0
<1> DEFINE T == {k \in 0..n : LapSum(f, k) # 0}
<1>1. T \in SUBSET Nat /\ 0 \notin T
  BY SumNext
<1>2. ASSUME NEW k \in Nat, k + 1 \in T PROVE k \in T
  <2>1. k \in 0..n /\ k \in LapIdx(n)
    BY <1>2 DEF LapIdx
  <2>2. LapSum(f, k + 1) = LapSum(f, k) + f[k]
    BY SumNext
  <2>3. LapSum(f, k) = 0 => LapSum(f, k + 1) = 0
    BY <2>1, <2>2
  <2> QED
    BY <1>2, <2>1, <2>3
<1>3. T = {}
  <2> HIDE DEF T
  <2> QED
    BY <1>1, <1>2, NoLeastNumber
<1> QED
  BY <1>3

\* Indices given to as many indices, no two the same, are all of them.
LEMMA InjectionPermutes ==
  ASSUME NEW n \in Nat, NEW p \in [LapIdx(n) -> LapIdx(n)],
         \A i, k \in LapIdx(n) : p[i] = p[k] => i = k
  PROVE  Permutes(p, n)
<1>1. p \in Injection(LapIdx(n), LapIdx(n))
  BY DEF Injection, IsInjective
<1>2. IsFiniteSet(LapIdx(n))
  BY FS_Interval DEF LapIdx
<1>3. p \in Surjection(LapIdx(n), LapIdx(n))
  BY <1>1, <1>2, FS_Injection
<1>4. \A j \in LapIdx(n) : \E i \in LapIdx(n) : p[i] = j
  BY <1>3 DEF Surjection
<1> QED
  BY <1>4 DEF Permutes

\* Every row has a column that is cheapest for it, and what the choice costs.
ChosenTight(n, cost, v, x) == \A i \in LapIdx(n) : TightAt(n, RedOf(n, cost, v), i, x[i])
CostOf(f, n, cost, x) == \A i \in LapIdx(n) : f[i] = cost[i][x[i]]

\* Columns at which every row is cheapest, all rows having one, are a cheapest choice.
LEMMA TightIsCheapest ==
  ASSUME NEW n \in Nat, NEW cost \in [LapIdx(n) -> [LapIdx(n) -> Int]],
         NEW v \in [LapIdx(n) -> Int], NEW x, Permutes(x, n), NEW p, Permutes(p, n),
         ChosenTight(n, cost, v, x),
         NEW f, CostOf(f, n, cost, x), NEW g, CostOf(g, n, cost, p)
  PROVE  LapSum(f, n) <= LapSum(g, n)
<1>0. \A i \in LapIdx(n) : /\ TightAt(n, RedOf(n, cost, v), i, x[i])
                           /\ f[i] = cost[i][x[i]] /\ g[i] = cost[i][p[i]]
  BY DEF ChosenTight, CostOf
<1>1. x \in [LapIdx(n) -> LapIdx(n)] /\ p \in [LapIdx(n) -> LapIdx(n)]
  BY DEF Permutes
<1>2. PICK a, b : a = [i \in LapIdx(n) |-> v[p[i]]] /\ b = [i \in LapIdx(n) |-> v[x[i]]]
  OBVIOUS
<1>3. \A i \in LapIdx(n) : a[i] = v[p[i]] /\ b[i] = v[x[i]] /\ v[i] \in Int
  BY <1>2
<1>4. LapSum(a, n) = LapSum(v, n) /\ LapSum(b, n) = LapSum(v, n)
  <2>1. SumOrdered(v, n)
    BY <1>3, SumPermuted
  <2>2. (\A i \in LapIdx(n) : a[i] = v[p[i]]) /\ \A i \in LapIdx(n) : b[i] = v[x[i]]
    BY <1>3
  <2> QED
    BY <2>1, <2>2 DEF SumOrdered
<1>5. ASSUME NEW i \in LapIdx(n)
      PROVE  {f[i], a[i], g[i], b[i]} \subseteq Int /\ f[i] + a[i] <= g[i] + b[i]
  <2>1. PICK c, d : c = x[i] /\ d = p[i] /\ c \in LapIdx(n) /\ d \in LapIdx(n)
    BY <1>1
  <2>2. RedOf(n, cost, v)[i][c] <= RedOf(n, cost, v)[i][d]
    BY <1>0, <2>1 DEF TightAt
  <2>3. cost[i][c] - v[c] <= cost[i][d] - v[d]
    BY <2>1, <2>2 DEF RedOf
  <2>4. cost[i][c] \in Int /\ cost[i][d] \in Int /\ v[c] \in Int /\ v[d] \in Int
    BY <2>1
  <2>5. f[i] = cost[i][c] /\ g[i] = cost[i][d] /\ a[i] = v[d] /\ b[i] = v[c]
    BY <1>0, <1>3, <2>1
  <2>6. cost[i][c] + v[d] <= cost[i][d] + v[c]
    BY <2>3, <2>4
  <2> QED
    BY <2>4, <2>5, <2>6
<1>6. LapSum(f, n) + LapSum(a, n) <= LapSum(g, n) + LapSum(b, n)
  BY <1>5, SumCompare
<1>7. LapSum(f, n) \in Int /\ LapSum(g, n) \in Int /\ LapSum(v, n) \in Int
  <2>1. (\A i \in LapIdx(n) : f[i] \in Int) /\ (\A i \in LapIdx(n) : g[i] \in Int)
    BY <1>5
  <2> QED
    BY <1>3, <2>1, SumInt
<1> QED
  BY <1>4, <1>6, <1>7

\* What the dummy rows and the dummy columns cost when p is the choice.
DummyRows(g, p, rows, cols, h) ==
  \A k \in LapIdx(cols) : g[k] = IF p[rows + k] < cols THEN h ELSE 0
DummyCols(u, p, rows, cols, h) ==
  \A j \in LapIdx(cols) : u[j] = IF \E i \in LapIdx(rows) : p[i] = j THEN 0 ELSE h

\* As many dummy rows have a column of the matrix as columns of it have a dummy row.
LEMMA DummiesAgree ==
  ASSUME NEW rows \in Nat, NEW cols \in Nat, NEW n, n = rows + cols, NEW h \in Int,
         NEW p, Permutes(p, n),
         NEW g, DummyRows(g, p, rows, cols, h), NEW u, DummyCols(u, p, rows, cols, h)
  PROVE  LapSum(g, cols) = LapSum(u, cols)
<1>0. /\ \A k \in LapIdx(cols) : g[k] = IF p[rows + k] < cols THEN h ELSE 0
      /\ \A j \in LapIdx(cols) : u[j] = IF \E i \in LapIdx(rows) : p[i] = j THEN 0 ELSE h
  BY DEF DummyRows, DummyCols
<1>1. /\ p \in [LapIdx(n) -> LapIdx(n)]
      /\ \A i, k \in LapIdx(n) : p[i] = p[k] => i = k
  BY DEF Permutes
<1>2. /\ n \in Nat
      /\ \A i \in LapIdx(rows) : i \in LapIdx(n) /\ i \in Nat /\ i < rows
      /\ \A j \in LapIdx(cols) : /\ j \in LapIdx(n) /\ j \in Nat /\ j < cols
                                 /\ rows + j \in LapIdx(n) /\ rows + j >= rows
      /\ \A i \in LapIdx(n) : /\ i \in Nat /\ (i < cols <=> i \in LapIdx(cols))
                              /\ (i < rows <=> i \in LapIdx(rows))
                              /\ (i >= rows <=> ~(i < rows))
      /\ \A k \in LapIdx(rows) : cols + k \in LapIdx(n) /\ ~(cols + k < cols)
  BY DEF LapIdx
<1>3. PICK G : G = [j \in LapIdx(n) |->
                     IF j < cols /\ ~(\E i \in LapIdx(rows) : p[i] = j) THEN h ELSE 0]
  OBVIOUS
<1>4. PICK Gp : Gp = [i \in LapIdx(n) |-> G[p[i]]]
  OBVIOUS
<1>5. \A j \in LapIdx(n) : G[j] = IF j < cols /\ ~(\E i \in LapIdx(rows) : p[i] = j) THEN h ELSE 0
  BY <1>3
<1>6. \A i \in LapIdx(n) : Gp[i] = G[p[i]]
  BY <1>4
<1>7. (\A j \in LapIdx(n) : G[j] \in Int) /\ \A i \in LapIdx(n) : Gp[i] \in Int
  <2>1. \A j \in LapIdx(n) : G[j] \in Int
    BY <1>5
  <2> QED
    BY <1>1, <1>6, <2>1
<1>8. LapSum(Gp, n) = LapSum(G, n)
  <2>1. SumOrdered(G, n)
    BY <1>2, <1>7, SumPermuted
  <2> QED
    BY <1>6, <2>1 DEF SumOrdered
<1>9. PICK z : z = [k \in LapIdx(rows) |-> 0]
  OBVIOUS
<1>10. LapSum(z, rows) = 0
  <2>1. \A k \in LapIdx(rows) : z[k] = 0
    BY <1>9
  <2> QED
    BY <2>1, SumOfNothing
<1>11. LapSum(G, n) = LapSum(u, cols)
  <2>1. \A k \in LapIdx(rows) : z[k] = G[cols + k]
    BY <1>2, <1>5, <1>9
  <2>2. SumTail(G, z, cols, rows)
    BY <2>1 DEF SumTail
  <2>3. n = cols + rows
    OBVIOUS
  <2>4. LapSum(G, n) = LapSum(G, cols) + LapSum(z, rows)
    BY <1>7, <2>2, <2>3, SumSplit
  <2>5. \A k \in LapIdx(cols) : u[k] \in Int /\ G[k] = u[k]
    BY <1>0, <1>2, <1>5
  <2>6. LapSum(G, cols) = LapSum(u, cols)
    BY <2>5, SumEqual
  <2>7. LapSum(u, cols) \in Int
    BY <2>5, SumInt
  <2> QED
    BY <1>10, <2>4, <2>6, <2>7
<1>12. LapSum(Gp, n) = LapSum(g, cols)
  <2>1. \A k \in LapIdx(cols) : g[k] = Gp[rows + k] /\ g[k] \in Int
    <3> TAKE k \in LapIdx(cols)
    <3>1. PICK r, c : r = rows + k /\ c = p[r] /\ r \in LapIdx(n) /\ c \in LapIdx(n) /\ ~(r < rows)
      BY <1>1, <1>2
    <3>2. ~(\E i \in LapIdx(rows) : p[i] = c)
      BY <1>1, <1>2, <3>1
    <3>3. Gp[r] = IF c < cols THEN h ELSE 0
      BY <1>5, <1>6, <3>1, <3>2
    <3>4. g[k] = IF c < cols THEN h ELSE 0
      BY <1>0, <3>1
    <3> QED
      BY <3>1, <3>3, <3>4
  <2>2. \A k \in LapIdx(rows) : Gp[k] = 0
    BY <1>1, <1>2, <1>5, <1>6
  <2>3. LapSum(Gp, rows) = 0
    BY <2>2, SumOfNothing
  <2>4. SumTail(Gp, g, rows, cols)
    BY <2>1 DEF SumTail
  <2>5. LapSum(Gp, n) = LapSum(Gp, rows) + LapSum(g, cols)
    BY <1>7, <2>4, SumSplit
  <2>6. LapSum(g, cols) \in Int
    BY <2>1, SumInt
  <2> QED
    BY <2>3, <2>5, <2>6
<1> QED
  BY <1>8, <1>11, <1>12

\* What a choice on the extended matrix says of the matrix itself.
LapGiven(p) == [i \in LapIdx(lap.rows) |-> IF p[i] >= lap.cols THEN -1 ELSE p[i]]

\* It weighs what the choice costs on the extended matrix.
LEMMA LapWeightOf ==
  ASSUME LapInv(lap), NEW p, Permutes(p, lap.n),
         NEW f, \A i \in LapIdx(lap.n) : f[i] = lap.cost[i][p[i]]
  PROVE  LapWeight(LapGiven(p)) = LapSum(f, lap.n)
<1>1. PICK n, rows, cols, cost : /\ n = lap.n /\ rows = lap.rows /\ cols = lap.cols
                                 /\ cost = lap.cost /\ rows \in Nat /\ cols \in Nat
                                 /\ n \in Nat /\ n = rows + cols
  BY LapFields DEF LapInv, LapMatrix
<1>2. \A r, c \in LapIdx(n) : /\ r >= rows /\ c >= cols => cost[r][c] = 0
                              /\ r < rows /\ c >= cols => cost[r][c] = LapHalf
                              /\ r >= rows /\ c < cols => cost[r][c] = LapHalf
                              /\ cost[r][c] \in Int
  BY <1>1, LapRedIs DEF LapInv, LapMatrix
<1>3. p \in [LapIdx(n) -> LapIdx(n)] /\ Permutes(p, n)
  BY <1>1 DEF Permutes
<1>4. /\ \A i \in LapIdx(rows) : i \in LapIdx(n) /\ i < rows
      /\ \A j \in LapIdx(cols) : /\ rows + j \in LapIdx(n) /\ rows + j >= rows
                                 /\ j \in LapIdx(n) /\ j < cols /\ j >= 0 /\ ~(j >= cols)
      /\ \A c \in LapIdx(n) : c >= 0 /\ (c >= cols <=> ~(c < cols))
  BY <1>1 DEF LapIdx
<1>5. PICK M : M = LapGiven(p)
  OBVIOUS
<1>6. \A i \in LapIdx(rows) : M[i] = IF p[i] >= cols THEN -1 ELSE p[i]
  BY <1>1, <1>5 DEF LapGiven
<1>7. \A i \in LapIdx(n) : f[i] = cost[i][p[i]] /\ f[i] \in Int
  BY <1>1, <1>2, <1>3
<1>8. PICK g : g = [k \in LapIdx(cols) |-> f[rows + k]]
  OBVIOUS
<1>9. LapSum(f, n) = LapSum(f, rows) + LapSum(g, cols)
  <2>1. SumTail(f, g, rows, cols)
    BY <1>8 DEF SumTail
  <2>2. \A k \in LapIdx(n) : f[k] \in Int
    BY <1>7
  <2> QED
    BY <1>1, <2>1, <2>2, SumSplit
<1>10. LapSum(f, rows) = LapSum(LapRowCost(M), rows)
  <2>1. PICK a : a = LapRowCost(M)
    OBVIOUS
  <2>2. ASSUME NEW i \in LapIdx(rows) PROVE f[i] \in Int /\ a[i] = f[i]
    <3>1. PICK c : c = p[i] /\ c \in LapIdx(n) /\ i \in LapIdx(n) /\ i < rows
      BY <1>3, <1>4
    <3>2. a[i] = IF M[i] >= 0 THEN cost[i][M[i]] ELSE LapHalf
      BY <1>1, <2>1 DEF LapRowCost
    <3>3. f[i] = cost[i][c] /\ f[i] \in Int
      BY <1>7, <3>1
    <3>4. CASE c >= cols
      <4>1. M[i] = -1
        BY <1>6, <3>1, <3>4
      <4>2. a[i] = LapHalf
        BY <3>2, <4>1
      <4>3. f[i] = LapHalf
        BY <1>2, <3>1, <3>3, <3>4
      <4> QED
        BY <3>3, <4>2, <4>3
    <3>5. CASE ~(c >= cols)
      <4>1. M[i] = c /\ c >= 0
        BY <1>4, <1>6, <3>1, <3>5
      <4> QED
        BY <3>2, <3>3, <4>1
    <3> QED
      BY <3>4, <3>5
  <2>3. LapSum(a, rows) = LapSum(f, rows)
    BY <1>1, <2>2, SumEqual
  <2> QED
    BY <2>1, <2>3
<1>11. LapSum(g, cols) = LapSum(LapColCost(M), cols)
  <2>1. PICK u : u = LapColCost(M)
    OBVIOUS
  <2>2. LapHalf \in Int
    BY LapAssumption
  <2>3. ASSUME NEW k \in LapIdx(cols)
        PROVE  g[k] = IF p[rows + k] < cols THEN LapHalf ELSE 0
    <3>1. PICK r, c : /\ r = rows + k /\ c = p[r] /\ r \in LapIdx(n) /\ c \in LapIdx(n)
                      /\ r >= rows
      BY <1>3, <1>4
    <3>2. g[k] = cost[r][c]
      BY <1>7, <1>8, <3>1
    <3> QED
      BY <1>2, <1>4, <3>1, <3>2, ZenonT(30)
  <2>4. ASSUME NEW j \in LapIdx(cols)
        PROVE  u[j] = IF \E i \in LapIdx(rows) : p[i] = j THEN 0 ELSE LapHalf
    <3>1. u[j] = IF \E i \in LapIdx(rows) : M[i] = j THEN 0 ELSE LapHalf
      BY <1>1, <2>1 DEF LapColCost
    <3>2. ASSUME NEW i \in LapIdx(rows) PROVE M[i] = j <=> p[i] = j
      <4>1. M[i] = IF p[i] >= cols THEN -1 ELSE p[i]
        BY <1>6
      <4>2. j # -1 /\ ~(j >= cols)
        BY <1>4
      <4> QED
        BY <4>1, <4>2
    <3> QED
      BY <3>1, <3>2
  <2>5. DummyRows(g, p, rows, cols, LapHalf) /\ DummyCols(u, p, rows, cols, LapHalf)
    BY <2>3, <2>4 DEF DummyRows, DummyCols
  <2>6. LapSum(g, cols) = LapSum(u, cols)
    BY <1>1, <1>3, <2>2, <2>5, DummiesAgree
  <2> QED
    BY <2>1, <2>6
<1> QED
  BY <1>1, <1>5, <1>9, <1>10, <1>11 DEF LapWeight

\* A choice for the rows of the matrix that gives no column to two of them.
PartialIn(M, rows, cols) ==
  /\ M \in [LapIdx(rows) -> LapIdx(cols) \cup {-1}]
  /\ \A i, k \in LapIdx(rows) : M[i] = M[k] /\ M[i] >= 0 => i = k

\* It is what some choice on the extended matrix says: a row left alone takes its own
\* dummy column, and a dummy row that of the row its column is given to.
LEMMA PartialExtends ==
  ASSUME NEW rows \in Nat, NEW cols \in Nat, NEW n, n = rows + cols,
         NEW M, PartialIn(M, rows, cols)
  PROVE  \E p : /\ Permutes(p, n)
                /\ \A i \in LapIdx(rows) : p[i] = IF M[i] >= 0 THEN M[i] ELSE cols + i
<1> DEFINE Taken(j) == \E k \in LapIdx(rows) : M[k] = j
<1>1. PICK own : own = [j \in LapIdx(cols) |-> CHOOSE k \in LapIdx(rows) : M[k] = j]
  OBVIOUS
<1>2. \A j \in LapIdx(cols) : Taken(j) => own[j] \in LapIdx(rows) /\ M[own[j]] = j
  BY <1>1
<1>3. \A i \in LapIdx(rows) :
        /\ M[i] >= 0 => M[i] \in LapIdx(cols) /\ Taken(M[i])
        /\ ~(M[i] >= 0) => M[i] = -1
        /\ M[i] >= 0 => own[M[i]] = i
  <2>1. M \in [LapIdx(rows) -> LapIdx(cols) \cup {-1}]
    BY DEF PartialIn
  <2>2. \A i \in LapIdx(rows) : M[i] >= 0 => M[i] \in LapIdx(cols) /\ Taken(M[i])
    BY <2>1
  <2>3. \A i \in LapIdx(rows) : ~(M[i] >= 0) => M[i] = -1
    BY <2>1 DEF LapIdx
  <2>4. \A i \in LapIdx(rows) : M[i] >= 0 => own[M[i]] = i
    BY <1>2, <2>2 DEF PartialIn
  <2> QED
    BY <2>2, <2>3, <2>4
<1>4. /\ n \in Nat
      /\ \A i \in LapIdx(rows) : /\ i \in LapIdx(n) /\ i < rows /\ i \in Int
                                 /\ cols + i \in LapIdx(n) /\ ~(cols + i < cols)
                                 /\ (cols + i) - cols = i
      /\ \A j \in LapIdx(cols) : /\ j \in LapIdx(n) /\ j < cols /\ j \in Int /\ j >= 0
                                 /\ rows + j \in LapIdx(n) /\ ~(rows + j < rows)
                                 /\ (rows + j) - rows = j
      /\ \A i \in LapIdx(n) : /\ i < rows => i \in LapIdx(rows)
                              /\ ~(i < rows) => i - rows \in LapIdx(cols) /\ rows + (i - rows) = i
  BY DEF LapIdx
<1>5. PICK p : p = [i \in LapIdx(n) |->
                     IF i < rows
                     THEN IF M[i] >= 0 THEN M[i] ELSE cols + i
                     ELSE IF Taken(i - rows) THEN cols + own[i - rows] ELSE i - rows]
  OBVIOUS
<1>6. PICK q : q = [c \in LapIdx(n) |->
                     IF c < cols
                     THEN IF Taken(c) THEN own[c] ELSE rows + c
                     ELSE IF M[c - cols] >= 0 THEN rows + M[c - cols] ELSE c - cols]
  OBVIOUS
<1> HIDE DEF Taken
<1>7. \A i \in LapIdx(n) : p[i] = IF i < rows
                                  THEN IF M[i] >= 0 THEN M[i] ELSE cols + i
                                  ELSE IF Taken(i - rows) THEN cols + own[i - rows] ELSE i - rows
  BY <1>5
<1>8. \A c \in LapIdx(n) : q[c] = IF c < cols
                                  THEN IF Taken(c) THEN own[c] ELSE rows + c
                                  ELSE IF M[c - cols] >= 0 THEN rows + M[c - cols] ELSE c - cols
  BY <1>6
<1>9. ASSUME NEW i \in LapIdx(n) PROVE p[i] \in LapIdx(n) /\ q[p[i]] = i
  <2>1. CASE i < rows
    <3>1. i \in LapIdx(rows)
      BY <1>4, <2>1
    <3>2. CASE M[i] >= 0
      <4>1. PICK c : c = M[i] /\ c \in LapIdx(cols) /\ Taken(c) /\ own[c] = i
        BY <1>3, <3>1, <3>2
      <4>2. c < cols /\ c \in LapIdx(n)
        BY <1>4, <4>1
      <4>3. p[i] = c
        BY <1>7, <2>1, <3>2, <4>1
      <4>4. q[c] = own[c]
        BY <1>8, <4>1, <4>2
      <4> QED
        BY <4>1, <4>2, <4>3, <4>4
    <3>3. CASE ~(M[i] >= 0)
      <4>1. PICK c : c = cols + i /\ c \in LapIdx(n) /\ ~(c < cols) /\ c - cols = i
        BY <1>4, <3>1
      <4>2. p[i] = c
        BY <1>7, <2>1, <3>3, <4>1
      <4>3. q[c] = i
        BY <1>8, <3>3, <4>1
      <4> QED
        BY <4>1, <4>2, <4>3
    <3> QED
      BY <3>2, <3>3
  <2>2. CASE ~(i < rows)
    <3>1. PICK j : j = i - rows /\ j \in LapIdx(cols) /\ rows + j = i
      BY <1>4, <2>2
    <3>2. CASE Taken(j)
      <4>1. PICK k : k = own[j] /\ k \in LapIdx(rows) /\ M[k] = j
        BY <1>2, <3>1, <3>2 DEF Taken
      <4>2. PICK c : c = cols + k /\ c \in LapIdx(n) /\ ~(c < cols) /\ c - cols = k
        BY <1>4, <4>1
      <4>3. p[i] = c
        BY <1>7, <2>2, <3>1, <3>2, <4>1, <4>2
      <4>4. j >= 0
        BY <1>4, <3>1
      <4>5. q[c] = rows + j
        BY <1>8, <4>1, <4>2, <4>4
      <4> QED
        BY <3>1, <4>2, <4>3, <4>5
    <3>3. CASE ~Taken(j)
      <4>1. j < cols /\ j \in LapIdx(n)
        BY <1>4, <3>1
      <4>2. p[i] = j
        BY <1>7, <2>2, <3>1, <3>3
      <4>3. q[j] = rows + j
        BY <1>8, <3>3, <4>1
      <4> QED
        BY <3>1, <4>1, <4>2, <4>3
    <3> QED
      BY <3>2, <3>3
  <2> QED
    BY <2>1, <2>2
<1>10. p \in [LapIdx(n) -> LapIdx(n)]
  BY <1>5, <1>9
<1>11. \A i, k \in LapIdx(n) : p[i] = p[k] => i = k
  BY <1>9
<1>12. Permutes(p, n)
  BY <1>4, <1>10, <1>11, InjectionPermutes
<1>13. \A i \in LapIdx(rows) : p[i] = IF M[i] >= 0 THEN M[i] ELSE cols + i
  BY <1>4, <1>7
<1> QED
  BY <1>12, <1>13

\* Every choice for the rows of the matrix is what some choice on the extended one says.
LEMMA LapGivenBy ==
  ASSUME LapInv(lap), NEW M \in LapPartial
  PROVE  \E p : Permutes(p, lap.n) /\ LapGiven(p) = M
<1>1. PICK n, rows, cols : /\ n = lap.n /\ rows = lap.rows /\ cols = lap.cols
                           /\ rows \in Nat /\ cols \in Nat /\ n = rows + cols
  BY LapFields DEF LapInv, LapMatrix
<1>2. PartialIn(M, rows, cols)
  BY <1>1 DEF LapPartial, PartialIn
<1>3. PICK p : /\ Permutes(p, n)
               /\ \A i \in LapIdx(rows) : p[i] = IF M[i] >= 0 THEN M[i] ELSE cols + i
  BY <1>1, <1>2, PartialExtends
<1>4. M \in [LapIdx(rows) -> LapIdx(cols) \cup {-1}]
  BY <1>2 DEF PartialIn
<1>5. PICK g : g = LapGiven(p)
  OBVIOUS
<1>6. /\ g \in [LapIdx(rows) -> {g[i] : i \in LapIdx(rows)}]
      /\ \A i \in LapIdx(rows) : g[i] = IF p[i] >= cols THEN -1 ELSE p[i]
  BY <1>1, <1>5 DEF LapGiven
<1>7. \A i \in LapIdx(rows) : g[i] = M[i]
  <2> TAKE i \in LapIdx(rows)
  <2>1. i \in Nat
    BY DEF LapIdx
  <2>2. CASE M[i] >= 0
    <3>1. M[i] \in Int /\ ~(M[i] >= cols)
      BY <1>1, <1>4, <2>2 DEF LapIdx
    <3> QED
      BY <1>3, <1>6, <2>2, <3>1
  <2>3. CASE ~(M[i] >= 0)
    <3>1. M[i] = -1
      BY <1>4, <2>3 DEF LapIdx
    <3>2. p[i] = cols + i
      BY <1>3, <2>3
    <3> QED
      BY <1>1, <1>6, <2>1, <3>1, <3>2
  <2> QED
    BY <2>2, <2>3
<1>8. g = M
  BY <1>4, <1>6, <1>7
<1> QED
  BY <1>1, <1>3, <1>5, <1>8

\* At the end rows and columns are given to each other.
LEMMA LapDonePermutes ==
  ASSUME LapHolds, lap.at = "done"
  PROVE  /\ Permutes(lap.x, lap.n)
         /\ \A r, c \in LapIdx(lap.n) : lap.x[r] = c <=> lap.y[c] = r
<1>1. LapTyped(lap) /\ lap.n \in Nat
  BY LapRuns
<1>2. PICK n, x, y : /\ n = lap.n /\ x = lap.x /\ y = lap.y /\ n \in Nat
                     /\ x \in [LapIdx(n) -> LapIdx(n) \cup {-1}]
  BY <1>1, LapFields
<1>3. \A r \in LapIdx(n) : x[r] \in LapIdx(n) /\ y[x[r]] = r
  BY <1>2, LapDone
<1>4. x \in [LapIdx(n) -> LapIdx(n)]
  BY <1>2, <1>3
<1>5. \A i, k \in LapIdx(n) : x[i] = x[k] => i = k
  BY <1>3
<1>6. Permutes(x, n)
  BY <1>2, <1>4, <1>5, InjectionPermutes
<1>7. \A r, c \in LapIdx(n) : x[r] = c <=> y[c] = r
  BY <1>3, <1>6 DEF Permutes
<1> QED
  BY <1>2, <1>6, <1>7

\* What the rows are given then is one of the choices.
LEMMA LapRowsolIs ==
  ASSUME LapHolds, lap.at = "done"
  PROVE  LapRowsol = LapGiven(lap.x) /\ LapRowsol \in LapPartial
<1>1. PICK n, rows, cols, x : /\ n = lap.n /\ rows = lap.rows /\ cols = lap.cols /\ x = lap.x
                              /\ rows \in Nat /\ cols \in Nat /\ n = rows + cols
  BY LapRuns, LapFields DEF LapInv, LapMatrix
<1>2. Permutes(x, n)
  BY <1>1, LapDonePermutes
<1>3. PICK M : M = LapRowsol
  OBVIOUS
<1>4. M = [i \in LapIdx(rows) |-> IF x[i] >= cols THEN -1 ELSE x[i]]
  BY <1>1, <1>3 DEF LapRowsol
<1>5. \A i \in LapIdx(rows) : i \in LapIdx(n)
  BY <1>1 DEF LapIdx
<1>6. \A i \in LapIdx(rows) : /\ M[i] = IF x[i] >= cols THEN -1 ELSE x[i]
                              /\ x[i] \in LapIdx(n)
  BY <1>2, <1>4, <1>5 DEF Permutes
<1>7. \A i \in LapIdx(rows) : M[i] \in LapIdx(cols) \cup {-1} /\ (M[i] >= 0 => M[i] = x[i])
  BY <1>1, <1>6 DEF LapIdx
<1>8. M \in [LapIdx(rows) -> LapIdx(cols) \cup {-1}]
  BY <1>4, <1>7
<1>9. \A i, k \in LapIdx(rows) : M[i] = M[k] /\ M[i] >= 0 => i = k
  BY <1>2, <1>5, <1>7 DEF Permutes
<1>10. M \in LapPartial
  BY <1>1, <1>8, <1>9 DEF LapPartial
<1>11. M = LapGiven(lap.x)
  BY <1>1, <1>4 DEF LapGiven
<1> QED
  BY <1>3, <1>10, <1>11

\* None weighs less.
LEMMA LapCheapest ==
  ASSUME LapHolds, lap.at = "done", NEW M \in LapPartial
  PROVE  LapWeight(LapRowsol) <= LapWeight(M)
<1>1. LapInv(lap) /\ LapTyped(lap)
  BY LapRuns
<1>2. PICK n, cost, v, x : /\ n = lap.n /\ cost = lap.cost /\ v = lap.v /\ x = lap.x
                           /\ n \in Nat /\ cost \in [LapIdx(n) -> [LapIdx(n) -> Int]]
                           /\ v \in [LapIdx(n) -> Int]
  <2>1. /\ lap.n \in Nat /\ lap.cost \in [LapIdx(lap.n) -> [LapIdx(lap.n) -> Int]]
        /\ lap.v \in [LapIdx(lap.n) -> Int]
    BY <1>1 DEF LapTyped, LapRec, LapMatrices, LapInts
  <2> QED
    BY <2>1
<1>3. PICK p : Permutes(p, n) /\ LapGiven(p) = M
  BY <1>1, <1>2, LapGivenBy
<1>4. PICK f, g : /\ f = [i \in LapIdx(n) |-> cost[i][x[i]]]
                  /\ g = [i \in LapIdx(n) |-> cost[i][p[i]]]
  OBVIOUS
<1>5. /\ \A i \in LapIdx(n) : f[i] = cost[i][x[i]]
      /\ \A i \in LapIdx(n) : g[i] = cost[i][p[i]]
  BY <1>4
<1>6. Permutes(x, n) /\ \A r, c \in LapIdx(n) : x[r] = c <=> lap.y[c] = r
  BY <1>2, LapDonePermutes
<1>7. LapWeight(LapRowsol) = LapSum(f, n)
  <2>1. LapRowsol = LapGiven(x)
    BY <1>2, LapRowsolIs
  <2>2. LapWeight(LapGiven(x)) = LapSum(f, n)
    BY <1>1, <1>2, <1>5, <1>6, LapWeightOf
  <2> QED
    BY <2>1, <2>2
<1>8. LapWeight(M) = LapSum(g, n)
  <2>1. LapWeight(LapGiven(p)) = LapSum(g, n)
    BY <1>1, <1>2, <1>3, <1>5, LapWeightOf
  <2> QED
    BY <1>3, <2>1
<1>9. ASSUME NEW i \in LapIdx(n) PROVE TightAt(n, RedOf(n, cost, v), i, x[i])
  <2>1. PICK c : c = x[i] /\ c \in LapIdx(n) /\ lap.y[c] = i
    BY <1>6 DEF Permutes
  <2>2. LapOpen(lap) = {} /\ i >= 0
    BY DEF LapOpen, LapIdx
  <2>3. TightAt(n, LapRed(lap), i, c)
    BY <1>1, <1>2, <2>1, <2>2 DEF LapInv, LapAgree, AgreeIn
  <2> QED
    BY <1>2, <2>1, <2>3 DEF LapRed
<1>10. LapSum(f, n) <= LapSum(g, n)
  <2>1. ChosenTight(n, cost, v, x) /\ CostOf(f, n, cost, x) /\ CostOf(g, n, cost, p)
    BY <1>5, <1>9 DEF ChosenTight, CostOf
  <2> QED
    BY <1>2, <1>3, <1>6, <2>1, TightIsCheapest
<1> QED
  BY <1>7, <1>8, <1>10

\* A row left alone instead of given its column changes two summands.
LEMMA LapLeftAlone ==
  ASSUME LapInv(lap), NEW M \in LapPartial, NEW i \in LapIdx(lap.rows), M[i] >= 0
  PROVE  /\ LapWeight(M) \in Int /\ lap.cost[i][M[i]] \in Int
         /\ \E N \in LapPartial : LapWeight(N) = LapWeight(M) - lap.cost[i][M[i]] + 2 * LapHalf
<1>1. PICK n, rows, cols, cost : /\ n = lap.n /\ rows = lap.rows /\ cols = lap.cols
                                 /\ cost = lap.cost /\ rows \in Nat /\ cols \in Nat
                                 /\ n = rows + cols
  BY LapFields DEF LapInv, LapMatrix
<1>2. \A r, c \in LapIdx(n) : cost[r][c] \in Int
  BY <1>1, LapRedIs DEF LapInv
<1>3. LapHalf \in Int
  BY LapAssumption
<1>4. PICK j, N : j = M[i] /\ N = [M EXCEPT ![i] = -1]
  OBVIOUS
<1>5. /\ M \in [LapIdx(rows) -> LapIdx(cols) \cup {-1}] /\ i \in LapIdx(rows)
      /\ \A r, k \in LapIdx(rows) : M[r] = M[k] /\ M[r] >= 0 => r = k
  BY <1>1 DEF LapPartial
<1>6. j \in LapIdx(cols) /\ j >= 0
  BY <1>4, <1>5
<1>7. /\ N \in [LapIdx(rows) -> LapIdx(cols) \cup {-1}] /\ N[i] = -1
      /\ \A r \in LapIdx(rows) : r # i => N[r] = M[r]
  BY <1>4, <1>5
<1>8. \A r, k \in LapIdx(rows) : N[r] = N[k] /\ N[r] >= 0 => r = k
  <2> TAKE r, k \in LapIdx(rows)
  <2> HAVE N[r] = N[k] /\ N[r] >= 0
  <2>1. r # i /\ k # i
    BY <1>7
  <2> QED
    BY <1>5, <1>7, <2>1
<1>9. N \in LapPartial
  BY <1>1, <1>7, <1>8 DEF LapPartial
<1>10. ASSUME NEW K \in [LapIdx(rows) -> LapIdx(cols) \cup {-1}], NEW r \in LapIdx(rows)
       PROVE  LapRowCost(K)[r] = (IF K[r] >= 0 THEN cost[r][K[r]] ELSE LapHalf)
              /\ LapRowCost(K)[r] \in Int
  <2>1. LapRowCost(K)[r] = IF K[r] >= 0 THEN cost[r][K[r]] ELSE LapHalf
    BY <1>1 DEF LapRowCost
  <2>2. r \in LapIdx(n) /\ \A c \in LapIdx(cols) : c \in LapIdx(n)
    BY <1>1 DEF LapIdx
  <2>3. K[r] >= 0 => K[r] \in LapIdx(cols)
    OBVIOUS
  <2> QED
    BY <1>2, <1>3, <2>1, <2>2, <2>3
<1>11. ASSUME NEW K, NEW c \in LapIdx(cols)
       PROVE  LapColCost(K)[c] = (IF \E r \in LapIdx(rows) : K[r] = c THEN 0 ELSE LapHalf)
              /\ LapColCost(K)[c] \in Int
  BY <1>1, <1>3 DEF LapColCost
<1>12. PICK a, b, c, d : /\ a = LapRowCost(M) /\ b = LapRowCost(N)
                         /\ c = LapColCost(M) /\ d = LapColCost(N)
  OBVIOUS
<1>13. LapSum(b, rows) = LapSum(a, rows) - cost[i][j] + LapHalf
  <2>1. a[i] = cost[i][j] /\ b[i] = LapHalf
    <3>1. a[i] = IF M[i] >= 0 THEN cost[i][M[i]] ELSE LapHalf
      BY <1>5, <1>10, <1>12
    <3>2. b[i] = IF N[i] >= 0 THEN cost[i][N[i]] ELSE LapHalf
      BY <1>5, <1>7, <1>10, <1>12
    <3>3. ~(N[i] >= 0)
      BY <1>7
    <3> QED
      BY <1>4, <3>1, <3>2, <3>3
  <2>2. \A r \in LapIdx(rows) : a[r] \in Int /\ b[r] \in Int
    BY <1>5, <1>7, <1>10, <1>12
  <2>3. \A r \in LapIdx(rows) : r # i => b[r] = a[r]
    BY <1>5, <1>7, <1>10, <1>12
  <2>4. LapSum(b, rows) = LapSum(a, rows) - a[i] + b[i]
    BY <1>1, <1>5, <2>2, <2>3, SumChange
  <2> QED
    BY <2>1, <2>4
<1>14. LapSum(d, cols) = LapSum(c, cols) + LapHalf
  <2>1. c[j] = 0 /\ d[j] = LapHalf
    <3>1. \E r \in LapIdx(rows) : M[r] = j
      BY <1>4, <1>5
    <3>2. ~\E r \in LapIdx(rows) : N[r] = j
      BY <1>4, <1>5, <1>6, <1>7
    <3> QED
      BY <1>6, <1>11, <1>12, <3>1, <3>2
  <2>2. \A m \in LapIdx(cols) : c[m] \in Int /\ d[m] \in Int
    BY <1>11, <1>12
  <2>3. ASSUME NEW m \in LapIdx(cols), m # j PROVE d[m] = c[m]
    <3>1. \A r \in LapIdx(rows) : N[r] = m <=> M[r] = m
      <4>1. m # -1
        BY DEF LapIdx
      <4> QED
        BY <1>4, <1>7, <2>3, <4>1
    <3> QED
      BY <1>11, <1>12, <3>1
  <2>4. LapSum(d, cols) = LapSum(c, cols) - c[j] + d[j]
    BY <1>1, <1>6, <2>2, <2>3, SumChange
  <2>5. LapSum(c, cols) \in Int
    BY <1>1, <2>2, SumInt
  <2> QED
    BY <1>3, <2>1, <2>4, <2>5
<1>15. /\ LapWeight(M) = LapSum(a, rows) + LapSum(c, cols)
       /\ LapWeight(N) = LapSum(b, rows) + LapSum(d, cols)
  BY <1>1, <1>12 DEF LapWeight
<1>16. LapSum(a, rows) \in Int /\ LapSum(c, cols) \in Int /\ cost[i][j] \in Int
  <2>1. (\A r \in LapIdx(rows) : a[r] \in Int) /\ \A m \in LapIdx(cols) : c[m] \in Int
    BY <1>5, <1>10, <1>11, <1>12
  <2>2. i \in LapIdx(n) /\ j \in LapIdx(n)
    BY <1>1, <1>5, <1>6 DEF LapIdx
  <2> QED
    BY <1>1, <1>2, <2>1, <2>2, SumInt
<1>17. LapWeight(N) = LapWeight(M) - cost[i][j] + 2 * LapHalf
  BY <1>3, <1>13, <1>14, <1>15, <1>16
<1>18. LapWeight(M) \in Int
  BY <1>15, <1>16
<1> QED
  BY <1>1, <1>4, <1>9, <1>16, <1>17, <1>18

\* At the end the assignment is a cheapest one, and rows and columns tell the same.
LEMMA LapHoldsOptimal ==
  ASSUME LapHolds
  PROVE  LapOptimal
<1> SUFFICES ASSUME lap.at = "done"
             PROVE  /\ LapRowsol \in LapPartial
                    /\ \A M \in LapPartial : LapWeight(LapRowsol) <= LapWeight(M)
                    /\ \A i \in LapIdx(lap.rows), j \in LapIdx(lap.cols) :
                         LapRowsol[i] = j <=> LapColsol[j] = i
                    /\ \A i \in LapIdx(lap.rows) :
                         LapRowsol[i] >= 0 => lap.cost[i][LapRowsol[i]] <= 2 * LapHalf
  BY DEF LapOptimal
<1>1. LapRowsol \in LapPartial
  BY LapRowsolIs
<1>2. \A M \in LapPartial : LapWeight(LapRowsol) <= LapWeight(M)
  BY LapCheapest
<1>3. ASSUME NEW i \in LapIdx(lap.rows), NEW j \in LapIdx(lap.cols)
      PROVE  LapRowsol[i] = j <=> LapColsol[j] = i
  <2>1. PICK n, rows, cols : /\ n = lap.n /\ rows = lap.rows /\ cols = lap.cols
                             /\ rows \in Nat /\ cols \in Nat /\ n = rows + cols
    BY LapRuns, LapFields DEF LapInv, LapMatrix
  <2>2. PICK x, y : x = lap.x /\ y = lap.y
    OBVIOUS
  <2>3. /\ i \in LapIdx(n) /\ j \in LapIdx(n) /\ j # -1 /\ i # -1 /\ ~(j >= cols) /\ ~(i >= rows)
    BY <2>1 DEF LapIdx
  <2>4. x[i] = j <=> y[j] = i
    BY <2>1, <2>2, <2>3, LapDonePermutes
  <2>5. LapRowsol[i] = IF x[i] >= cols THEN -1 ELSE x[i]
    BY <2>1, <2>2 DEF LapRowsol
  <2>6. LapColsol[j] = IF y[j] >= rows THEN -1 ELSE y[j]
    BY <2>1, <2>2 DEF LapColsol
  <2>7. LapRowsol[i] = j <=> x[i] = j
    BY <2>3, <2>5
  <2>8. LapColsol[j] = i <=> y[j] = i
    BY <2>3, <2>6
  <2> QED
    BY <2>4, <2>7, <2>8
<1>4. ASSUME NEW i \in LapIdx(lap.rows), LapRowsol[i] >= 0
      PROVE  lap.cost[i][LapRowsol[i]] <= 2 * LapHalf
  <2>1. PICK M, e, w : M = LapRowsol /\ e = lap.cost[i][M[i]] /\ w = LapWeight(M)
    OBVIOUS
  <2>2. LapInv(lap)
    BY LapRuns
  <2>3. M \in LapPartial /\ M[i] >= 0
    BY <1>1, <1>4, <2>1
  <2>4. w \in Int /\ e \in Int /\ \E N \in LapPartial : LapWeight(N) = w - e + 2 * LapHalf
    BY <2>1, <2>2, <2>3, LapLeftAlone
  <2>5. w <= w - e + 2 * LapHalf
    BY <1>2, <2>1, <2>4
  <2>6. LapHalf \in Int
    BY LapAssumption
  <2>7. e <= 2 * LapHalf
    BY <2>4, <2>5, <2>6
  <2> QED
    BY <2>1, <2>7
<1> QED
  BY <1>1, <1>2, <1>3, <1>4

\* The assignment of detections to tracks is a cheapest one, for every cost matrix,
\* limit and LARGE: no choice of pairs that gives no column to two rows, and charges
\* half the limit for every row and column left alone, costs less, no pair beyond the
\* limit is matched, and rowsol and colsol tell the same; between two rows every
\* assigned row has a column that is cheapest for it at the present prices; and the
\* path back to the free row ends after at most n columns.
THEOREM LapCorrectHolds == LapSpec => []LapCorrect
<1>1. (\E on \in BOOLEAN : LapInitial(on)) => LapHolds
  BY LapInitHolds
<1>2. LapHolds /\ [LapNext]_lap => LapHolds'
  BY LapStepHolds
<1>3. LapHolds => LapCorrect
  BY LapHoldsOptimal, LapHoldsTight, LapHoldsPathEnds DEF LapCorrect
<1> QED
  BY <1>1, <1>2, <1>3, PTL DEF LapSpec

==============================================================================
