---------------------------- MODULE Lists_proofs -----------------------------
(***************************************************************************)
(* Components whose state is a list that is rebuilt by what a loop keeps   *)
(* of another one: first the operator Kept itself and the pages of a list, *)
(* then the tasks that a slave supports (PipelineConfig), the threads that *)
(* the elements of a pipeline are given to (AttachThreads), what the web   *)
(* page and the searches show (WebClient) and the tracks that are reported *)
(* (Tracker).                                                              *)
(***************************************************************************)
EXTENDS PipelineConfig, AttachThreads, WebClient, Tracker,
        SequenceTheorems, FiniteSetTheorems, WellFoundedInduction, TLAPS

-----------------------------------------------------------------------------
(* What Kept leaves of a sequence: the elements of the set and no others,  *)
(* none more often than before, and of two sequences put together what it  *)
(* leaves of each.  Kept is a recursive function; that its recursion has a *)
(* solution, and what holds of every value of it, is shown by the least    *)
(* place where it would not; so too for FlattenSeq, that puts pages        *)
(* together.                                                               *)

\* A set of numbers that is not empty has a least one.
LEMMA LeastOfNumbers ==
  ASSUME NEW T \in SUBSET Nat, NEW n \in T
  PROVE  \E m \in T : \A j \in T : m <= j
<1> DEFINE R == OpToRel(<, Nat)
<1>1. IsWellFoundedOn(R, Nat)
  BY NatLessThanWellFounded
<1>2. \A x, y \in Nat : x < y => <<x, y>> \in R
  BY DEF OpToRel
<1> HIDE DEF R
<1>3. PICK m \in T : \A j \in T : <<j, m>> \notin R
  BY <1>1, WFMin
<1>4. ASSUME NEW j \in T PROVE m <= j
  <2>1. m \in Nat /\ j \in Nat
    OBVIOUS
  <2>2. ~(j < m)
    BY <2>1, <1>2, <1>3
  <2> QED
    BY <2>1, <2>2
<1> QED
  BY <1>4

\* A set of numbers that has no least one is empty.
LEMMA NoLeastNumber ==
  ASSUME NEW T \in SUBSET Nat, 0 \notin T, \A n \in Nat : n + 1 \in T => n \in T
  PROVE  T = {}
<1> SUFFICES ASSUME NEW k \in T PROVE FALSE
  OBVIOUS
<1>1. PICK m \in T : \A j \in T : m <= j
  BY LeastOfNumbers
<1>2. m - 1 \in Nat /\ (m - 1) + 1 = m
  OBVIOUS
<1> QED
  BY <1>1, <1>2

\* The least of a set of numbers is one of them.
LEMMA MinOfNumbers ==
  ASSUME NEW T \in SUBSET Nat, T # {}
  PROVE  Min(T) \in T /\ \A j \in T : Min(T) <= j
<1>1. \E m \in T : \A j \in T : m <= j
  BY LeastOfNumbers
<1> QED
  BY <1>1, Zenon DEF Min

\* The smaller of two numbers.
LEMMA MinOfTwo ==
  ASSUME NEW a \in Nat, NEW b \in Nat
  PROVE  Min({a, b}) = IF a <= b THEN a ELSE b
<1>1. PICK T : T = {a, b}
  OBVIOUS
<1>2. T \in SUBSET Nat /\ T # {}
  BY <1>1
<1>3. PICK m : m = Min(T) /\ m \in T /\ \A j \in T : m <= j
  BY <1>2, MinOfNumbers
<1> QED
  BY <1>1, <1>3

\* What is kept of the first i elements, for every i up to n.
KeptUpTo(f, s, S, n) ==
  f = [i \in 0..n |->
         IF i = 0 THEN <<>>
         ELSE IF s[i] \in S THEN Append(f[i - 1], s[i]) ELSE f[i - 1]]

\* The recursion of Kept has a solution.
LEMMA KeptDefined ==
  ASSUME NEW U, NEW s \in Seq(U), NEW S
  PROVE  \E f : KeptUpTo(f, s, S, Len(s)) /\ Kept(s, S) = f[Len(s)]
<1> DEFINE T == {n \in Nat : ~\E f : KeptUpTo(f, s, S, n)}
<1>1. 0 \notin T
  <2>1. KeptUpTo([i \in 0..0 |-> <<>>], s, S, 0)
    BY DEF KeptUpTo
  <2> QED
    BY <2>1
<1>2. ASSUME NEW n \in Nat, n + 1 \in T PROVE n \in T
  <2> SUFFICES ASSUME NEW f, KeptUpTo(f, s, S, n) PROVE FALSE
    BY <1>2
  <2> DEFINE new == IF s[n + 1] \in S THEN Append(f[n], s[n + 1]) ELSE f[n]
             g == [i \in 0..(n + 1) |-> IF i = n + 1 THEN new ELSE f[i]]
  <2>1. \A i \in 0..n :
          f[i] = IF i = 0 THEN <<>>
                 ELSE IF s[i] \in S THEN Append(f[i - 1], s[i]) ELSE f[i - 1]
    BY DEF KeptUpTo
  <2> HIDE DEF new
  <2>2. /\ g[n + 1] = new /\ DOMAIN g = 0..(n + 1)
        /\ \A i \in 0..n : g[i] = f[i]
    OBVIOUS
  <2> HIDE DEF g
  <2>3. \A i \in 0..(n + 1) :
          g[i] = IF i = 0 THEN <<>>
                 ELSE IF s[i] \in S THEN Append(g[i - 1], s[i]) ELSE g[i - 1]
    <3> SUFFICES ASSUME NEW i \in 0..(n + 1)
                 PROVE  g[i] = IF i = 0 THEN <<>>
                               ELSE IF s[i] \in S THEN Append(g[i - 1], s[i])
                               ELSE g[i - 1]
      OBVIOUS
    <3>1. CASE i = n + 1
      <4>1. g[i - 1] = f[n] /\ i # 0
        BY <2>2, <3>1
      <4> QED
        BY <2>2, <3>1, <4>1 DEF new
    <3>2. CASE i # n + 1
      <4>1. i \in 0..n /\ (i # 0 => g[i - 1] = f[i - 1])
        BY <2>2, <3>2
      <4> QED
        BY <2>1, <2>2, <4>1
    <3> QED
      BY <3>1, <3>2
  <2>4. KeptUpTo(g, s, S, n + 1)
    BY <2>2, <2>3 DEF KeptUpTo, g
  <2> QED
    BY <1>2, <2>4
<1>3. T \in SUBSET Nat
  OBVIOUS
<1>4. \E f : KeptUpTo(f, s, S, Len(s))
  <2> HIDE DEF T
  <2>1. Len(s) \in Nat /\ Len(s) \notin T
    BY <1>1, <1>2, <1>3, NoLeastNumber
  <2> QED
    BY <2>1 DEF T
<1>5. Kept(s, S) = (CHOOSE f : KeptUpTo(f, s, S, Len(s)))[Len(s)]
  BY DEF Kept, KeptUpTo
<1> QED
  BY <1>4, <1>5

\* The values of the recursion.
LEMMA KeptValues ==
  ASSUME NEW f, NEW s, NEW S, NEW n \in Nat, KeptUpTo(f, s, S, n)
  PROVE  /\ f[0] = <<>>
         /\ \A i \in 0..n : i # 0 =>
              f[i] = IF s[i] \in S THEN Append(f[i - 1], s[i]) ELSE f[i - 1]
<1>1. \A i \in 0..n : f[i] = IF i = 0 THEN <<>>
                             ELSE IF s[i] \in S THEN Append(f[i - 1], s[i]) ELSE f[i - 1]
  BY DEF KeptUpTo
<1> QED
  BY <1>1

\* Nothing is kept of an empty sequence.
LEMMA KeptEmpty ==
  ASSUME NEW S
  PROVE  Kept(<<>>, S) = <<>>
<1>1. <<>> \in Seq({}) /\ Len(<<>>) = 0
  BY EmptySeq
<1>2. PICK f : KeptUpTo(f, <<>>, S, 0) /\ Kept(<<>>, S) = f[0]
  BY <1>1, KeptDefined
<1> QED
  BY <1>2, KeptValues

\* What is kept depends on the elements passed only.
LEMMA KeptAgree ==
  ASSUME NEW f, NEW g, NEW s, NEW t, NEW S, NEW m \in Nat, NEW n \in Nat, m <= n,
         KeptUpTo(f, s, S, m), KeptUpTo(g, t, S, n), \A i \in 1..m : s[i] = t[i]
  PROVE  f[m] = g[m]
<1>1. /\ f[0] = <<>> /\ g[0] = <<>>
      /\ \A i \in 0..m : i # 0 =>
           f[i] = IF s[i] \in S THEN Append(f[i - 1], s[i]) ELSE f[i - 1]
      /\ \A i \in 0..n : i # 0 =>
           g[i] = IF t[i] \in S THEN Append(g[i - 1], t[i]) ELSE g[i - 1]
  BY KeptValues
<1> DEFINE T == {i \in 0..m : f[i] # g[i]}
<1>2. T \in SUBSET Nat /\ 0 \notin T
  BY <1>1
<1>3. ASSUME NEW i \in Nat, i + 1 \in T PROVE i \in T
  <2> SUFFICES ASSUME f[i] = g[i] PROVE f[i + 1] = g[i + 1]
    BY <1>3
  <2>1. i + 1 \in 0..m /\ i + 1 \in 0..n /\ i + 1 \in 1..m /\ (i + 1) - 1 = i /\ i + 1 # 0
    BY <1>3
  <2>2. f[i + 1] = IF s[i + 1] \in S THEN Append(f[i], s[i + 1]) ELSE f[i]
    BY <1>1, <2>1
  <2>3. g[i + 1] = IF t[i + 1] \in S THEN Append(g[i], t[i + 1]) ELSE g[i]
    BY <1>1, <2>1
  <2> QED
    BY <2>1, <2>2, <2>3
<1>4. T = {}
  <2> HIDE DEF T
  <2> QED
    BY <1>2, <1>3, NoLeastNumber
<1> QED
  BY <1>4

\* The last element is kept or not.
LEMMA KeptAppend ==
  ASSUME NEW U, NEW s \in Seq(U), NEW x \in U, NEW S
  PROVE  Kept(Append(s, x), S) = IF x \in S THEN Append(Kept(s, S), x) ELSE Kept(s, S)
<1> DEFINE n == Len(s)
           t == Append(s, x)
<1>1. /\ n \in Nat /\ t \in Seq(U) /\ Len(t) = n + 1 /\ t[n + 1] = x
      /\ \A i \in 1..n : s[i] = t[i]
  OBVIOUS
<1> HIDE DEF n, t
<1>2. PICK f : KeptUpTo(f, s, S, n) /\ Kept(s, S) = f[n]
  BY KeptDefined DEF n
<1>3. PICK g : KeptUpTo(g, t, S, n + 1) /\ Kept(t, S) = g[n + 1]
  BY <1>1, KeptDefined
<1>4. f[n] = g[n]
  <2>1. n + 1 \in Nat /\ n <= n + 1
    BY <1>1
  <2> QED
    BY <1>1, <1>2, <1>3, <2>1, KeptAgree
<1>5. g[n + 1] = IF t[n + 1] \in S THEN Append(g[n], t[n + 1]) ELSE g[n]
  <2>1. n + 1 \in Nat /\ n + 1 \in 0..(n + 1) /\ n + 1 # 0 /\ (n + 1) - 1 = n
    BY <1>1
  <2>2. \A i \in 0..(n + 1) : i # 0 =>
          g[i] = IF t[i] \in S THEN Append(g[i - 1], t[i]) ELSE g[i - 1]
    BY <1>3, <2>1, KeptValues
  <2> QED
    BY <2>1, <2>2
<1> QED
  BY <1>1, <1>2, <1>3, <1>4, <1>5 DEF t

\* What Append does to the range of a sequence.
LEMMA RangeAppend ==
  ASSUME NEW U, NEW s \in Seq(U), NEW x \in U
  PROVE  Range(Append(s, x)) = Range(s) \cup {x}
<1>1. Len(s) \in Nat /\ DOMAIN s = 1..Len(s)
  OBVIOUS
<1>2. /\ DOMAIN Append(s, x) = 1..(Len(s) + 1)
      /\ \A i \in 1..Len(s) : Append(s, x)[i] = s[i]
      /\ Append(s, x)[Len(s) + 1] = x
  OBVIOUS
<1>3. 1..(Len(s) + 1) = (1..Len(s)) \cup {Len(s) + 1}
  BY <1>1
<1> QED
  BY <1>1, <1>2, <1>3 DEF Range

\* What Tail does to the range of a sequence.
LEMMA RangeTail ==
  ASSUME NEW U, NEW s \in Seq(U), s # <<>>
  PROVE  /\ Head(s) \in U /\ Tail(s) \in Seq(U)
         /\ Range(s) = {Head(s)} \cup Range(Tail(s))
<1>1. PICK n : n = Len(s)
  OBVIOUS
<1>2. PICK t : t = Tail(s)
  OBVIOUS
<1>3. /\ n \in Nat /\ n # 0 /\ DOMAIN s = 1..n /\ t \in Seq(U) /\ Head(s) = s[1] /\ Head(s) \in U
      /\ Len(t) = n - 1 /\ DOMAIN t = 1..(n - 1) /\ \A i \in 1..(n - 1) : t[i] = s[i + 1]
  BY <1>1, <1>2, HeadTailProperties
<1>4. Range(s) = {s[i] : i \in 1..n} /\ Range(t) = {t[i] : i \in 1..(n - 1)}
  BY <1>3 DEF Range
<1>5. \A i \in 1..n : i = 1 \/ (i - 1 \in 1..(n - 1) /\ (i - 1) + 1 = i)
  BY <1>3
<1>6. \A i \in 1..(n - 1) : i + 1 \in 1..n
  BY <1>3
<1>7. 1 \in 1..n
  BY <1>3
<1>8. \A i \in 1..n : s[i] = s[1] \/ s[i] \in Range(t)
  <2> TAKE i \in 1..n
  <2>1. CASE i # 1
    <3>1. i - 1 \in 1..(n - 1) /\ (i - 1) + 1 = i
      BY <1>5, <2>1
    <3>2. t[i - 1] = s[i]
      BY <1>3, <3>1
    <3> QED
      BY <1>4, <3>1, <3>2
  <2> QED
    BY <2>1
<1>9. Range(s) = {s[1]} \cup Range(t)
  <2>1. Range(t) \subseteq Range(s)
    BY <1>3, <1>4, <1>6
  <2> QED
    BY <1>4, <1>7, <1>8, <2>1
<1> QED
  BY <1>2, <1>3, <1>9

\* What \o does to the range of a sequence.
LEMMA RangeConcat ==
  ASSUME NEW U, NEW s \in Seq(U), NEW t \in Seq(U)
  PROVE  s \o t \in Seq(U) /\ Range(s \o t) = Range(s) \cup Range(t)
<1>1. PICK m : m = Len(s)
  OBVIOUS
<1>2. PICK n : n = Len(t)
  OBVIOUS
<1>3. PICK u : u = s \o t
  OBVIOUS
<1>4. /\ m \in Nat /\ n \in Nat /\ u \in Seq(U) /\ Len(u) = m + n
      /\ \A i \in 1..m : u[i] = s[i]
      /\ \A i \in 1..n : u[m + i] = t[i]
  BY <1>1, <1>2, <1>3, ConcatProperties, LenProperties
<1>5. /\ Range(s) = {s[i] : i \in 1..m} /\ Range(t) = {t[i] : i \in 1..n}
      /\ Range(u) = {u[i] : i \in 1..(m + n)}
  <2>1. DOMAIN s = 1..m /\ DOMAIN t = 1..n
    BY <1>1, <1>2
  <2>2. DOMAIN u = 1..(m + n)
    BY <1>4
  <2> QED
    BY <2>1, <2>2 DEF Range
<1>6. \A i \in 1..(m + n) : i \in 1..m \/ (i - m \in 1..n /\ m + (i - m) = i)
  BY <1>4
<1>7. (\A i \in 1..m : i \in 1..(m + n)) /\ (\A i \in 1..n : m + i \in 1..(m + n))
  BY <1>4
<1>8. Range(u) \subseteq Range(s) \cup Range(t)
  <2> SUFFICES ASSUME NEW i \in 1..(m + n) PROVE u[i] \in Range(s) \cup Range(t)
    BY <1>5
  <2>1. CASE i \in 1..m
    BY <1>4, <1>5, <2>1
  <2>2. CASE i \notin 1..m
    <3>1. i - m \in 1..n /\ m + (i - m) = i
      BY <1>6, <2>2
    <3>2. u[i] = t[i - m]
      BY <1>4, <3>1
    <3> QED
      BY <1>5, <3>1, <3>2
  <2> QED
    BY <2>1, <2>2
<1>9. Range(s) \subseteq Range(u) /\ Range(t) \subseteq Range(u)
  BY <1>4, <1>5, <1>7
<1> QED
  BY <1>3, <1>4, <1>8, <1>9

\* What is left when one element is taken out, and where it was.
LEMMA RemovedAt ==
  ASSUME NEW U, NEW s \in Seq(U), NEW at \in 1..Len(s)
  PROVE  /\ RemoveAt(s, at) \in Seq(U) /\ Len(RemoveAt(s, at)) = Len(s) - 1
         /\ \A i \in 1..(Len(s) - 1) : RemoveAt(s, at)[i] = IF i < at THEN s[i] ELSE s[i + 1]
<1> DEFINE a == SubSeq(s, 1, at - 1)
           b == SubSeq(s, at + 1, Len(s))
<1>1. Len(s) \in Nat /\ at \in Nat /\ at >= 1 /\ at <= Len(s)
  OBVIOUS
<1>2. a \in Seq(U) /\ Len(a) = at - 1 /\ \A i \in 1..(at - 1) : a[i] = s[i]
  BY <1>1
<1>3. b \in Seq(U) /\ Len(b) = Len(s) - at /\ \A i \in 1..(Len(s) - at) : b[i] = s[i + at]
  BY <1>1
<1>4. RemoveAt(s, at) = a \o b
  BY DEF RemoveAt
<1> HIDE DEF a, b
<1>5. /\ a \o b \in Seq(U) /\ Len(a \o b) = Len(a) + Len(b)
      /\ \A i \in 1..(Len(a) + Len(b)) : (a \o b)[i] = IF i <= Len(a) THEN a[i] ELSE b[i - Len(a)]
  BY <1>2, <1>3, ConcatProperties, Zenon
<1>6. Len(a) + Len(b) = Len(s) - 1
  BY <1>1, <1>2, <1>3
<1>7. ASSUME NEW i \in 1..(Len(s) - 1)
      PROVE  (a \o b)[i] = IF i < at THEN s[i] ELSE s[i + 1]
  <2>1. CASE i < at
    <3>1. i \in 1..(at - 1) /\ i <= Len(a)
      BY <1>1, <1>2, <2>1
    <3> QED
      BY <1>2, <1>5, <1>6, <2>1, <3>1
  <2>2. CASE ~(i < at)
    <3>1. /\ ~(i <= Len(a)) /\ i - Len(a) \in 1..(Len(s) - at)
          /\ (i - Len(a)) + at = i + 1
      BY <1>1, <1>2, <2>2
    <3>2. (a \o b)[i] = b[i - Len(a)]
      BY <1>5, <1>6, <3>1
    <3> QED
      BY <1>3, <2>2, <3>1, <3>2
  <2> QED
    BY <2>1, <2>2
<1> QED
  BY <1>4, <1>5, <1>6, <1>7

\* No element is in the sequence twice.
Once(s) == \A i, j \in 1..Len(s) : s[i] = s[j] => i = j

\* An element that is not there yet may be put at the end.
LEMMA OnceAppend ==
  ASSUME NEW U, NEW s \in Seq(U), NEW x \in U, Once(s), x \notin Range(s)
  PROVE  Once(Append(s, x))
<1>1. /\ Len(Append(s, x)) = Len(s) + 1 /\ Len(s) \in Nat
      /\ \A i \in 1..Len(s) : Append(s, x)[i] = s[i] /\ s[i] # x
      /\ Append(s, x)[Len(s) + 1] = x
  BY DEF Range
<1> QED
  BY <1>1 DEF Once

\* As many elements are in the sequence as it is long.
LEMMA OnceCounts ==
  ASSUME NEW U, NEW s \in Seq(U), Once(s)
  PROVE  Len(s) = Cardinality(Range(s))
<1>1. Len(s) \in Nat /\ s \in [1..Len(s) -> Range(s)]
  BY DEF Range
<1>2. s \in Bijection(1..Len(s), Range(s))
  BY <1>1 DEF Once, Bijection, Injection, IsInjective, Surjection, Range
<1>3. ExistsBijection(1..Len(s), Range(s))
  BY <1>2 DEF ExistsBijection
<1> QED
  BY <1>1, <1>3, FS_CountingElements

\* The elements of the set that have been passed, none of them more often.
KeptOf(k, s, S, i) ==
  /\ Range(k) = {s[j] : j \in 1..i} \cap S
  /\ Once(s) => Once(k)

\* What is kept of a prefix are the elements of the set that have been passed.
LEMMA KeptPrefixes ==
  ASSUME NEW U, NEW s \in Seq(U), NEW S, NEW f, KeptUpTo(f, s, S, Len(s))
  PROVE  \A i \in 0..Len(s) : f[i] \in Seq(U) /\ KeptOf(f[i], s, S, i)
<1>1. Len(s) \in Nat /\ \A i \in 1..Len(s) : s[i] \in U
  BY LenProperties, ElementOfSeq
<1>2. /\ f[0] = <<>>
      /\ \A i \in 0..Len(s) : i # 0 =>
           f[i] = IF s[i] \in S THEN Append(f[i - 1], s[i]) ELSE f[i - 1]
  BY <1>1, KeptValues
<1> DEFINE Good(i) == f[i] \in Seq(U) /\ KeptOf(f[i], s, S, i)
           T == {i \in 0..Len(s) : ~Good(i)}
<1>3. Good(0)
  <2>1. /\ <<>> \in Seq(U) /\ Range(<<>>) = {} /\ Once(<<>>)
        /\ {s[j] : j \in 1..0} = {}
    BY DEF Range, Once
  <2> QED
    BY <1>2, <2>1 DEF KeptOf
<1>4. ASSUME NEW i \in Nat, i + 1 \in 1..Len(s), Good(i) PROVE Good(i + 1)
  <2>1. f[i + 1] = IF s[i + 1] \in S THEN Append(f[i], s[i + 1]) ELSE f[i]
    <3>1. i + 1 \in 0..Len(s) /\ i + 1 # 0 /\ (i + 1) - 1 = i
      BY <1>1, <1>4
    <3> QED
      BY <1>2, <3>1
  <2>2. {s[j] : j \in 1..(i + 1)} = {s[j] : j \in 1..i} \cup {s[i + 1]}
    <3>1. 1..(i + 1) = (1..i) \cup {i + 1}
      OBVIOUS
    <3> QED
      BY <3>1
  <2>3. s[i + 1] \in U
    BY <1>1, <1>4
  <2>4. CASE s[i + 1] \notin S
    BY <1>4, <2>1, <2>2, <2>4 DEF KeptOf
  <2>5. CASE s[i + 1] \in S
    <3>1. PICK k : k = f[i]
      OBVIOUS
    <3>2. PICK x : x = s[i + 1]
      OBVIOUS
    <3>3. k \in Seq(U) /\ Range(k) = {s[j] : j \in 1..i} \cap S /\ (Once(s) => Once(k))
      BY <1>4, <3>1 DEF KeptOf
    <3>4. f[i + 1] = Append(k, x) /\ x \in U /\ x \in S
      BY <2>1, <2>3, <2>5, <3>1, <3>2
    <3>5. Once(s) => x \notin Range(k)
      <4> SUFFICES ASSUME Once(s), NEW j \in 1..i, s[j] = s[i + 1] PROVE FALSE
        BY <3>2, <3>3
      <4>1. j \in 1..Len(s) /\ i + 1 \in 1..Len(s) /\ j # i + 1
        BY <1>1, <1>4
      <4> QED
        BY <4>1 DEF Once
    <3>6. Append(k, x) \in Seq(U)
      BY <3>3, <3>4
    <3>7. Range(Append(k, x)) = Range(k) \cup {x}
      BY <3>3, <3>4, RangeAppend
    <3>8. Once(s) => Once(Append(k, x))
      BY <3>3, <3>4, <3>5, OnceAppend
    <3>9. Range(Append(k, x)) = {s[j] : j \in 1..(i + 1)} \cap S
      BY <2>2, <3>2, <3>3, <3>4, <3>7
    <3> QED
      BY <3>4, <3>6, <3>8, <3>9 DEF KeptOf
  <2> QED
    BY <2>4, <2>5
<1> HIDE DEF Good
<1>5. T \in SUBSET Nat /\ 0 \notin T
  BY <1>3
<1>6. ASSUME NEW i \in Nat, i + 1 \in T PROVE i \in T
  <2>1. i + 1 \in 1..Len(s) /\ i \in 0..Len(s) /\ ~Good(i + 1)
    BY <1>1, <1>6
  <2> QED
    BY <1>4, <2>1
<1>7. T = {}
  <2> HIDE DEF T
  <2> QED
    BY <1>5, <1>6, NoLeastNumber
<1> QED
  BY <1>7 DEF Good

\* Kept keeps exactly the elements of the set, none of them more often.
LEMMA KeptIsSeq ==
  ASSUME NEW U, NEW s \in Seq(U), NEW S
  PROVE  /\ Kept(s, S) \in Seq(U)
         /\ Range(Kept(s, S)) = Range(s) \cap S
         /\ Once(s) => Once(Kept(s, S))
<1>1. PICK f : KeptUpTo(f, s, S, Len(s)) /\ Kept(s, S) = f[Len(s)]
  BY KeptDefined
<1>2. Len(s) \in Nat /\ Range(s) = {s[j] : j \in 1..Len(s)}
  BY LenProperties DEF Range
<1>3. Len(s) \in 0..Len(s)
  BY <1>2
<1>4. f[Len(s)] \in Seq(U) /\ KeptOf(f[Len(s)], s, S, Len(s))
  BY <1>1, <1>3, KeptPrefixes
<1> QED
  BY <1>1, <1>2, <1>4 DEF KeptOf

\* No id is in the list twice.
IdsOnce(s) == \A i, j \in 1..Len(s) : s[i].id = s[j].id => i = j

\* What is kept of a list has no id twice either, and is no longer.
LEMMA KeptIdsOnce ==
  ASSUME NEW U, NEW s \in Seq(U), NEW S, IdsOnce(s)
  PROVE  IdsOnce(Kept(s, S)) /\ Len(Kept(s, S)) <= Len(s)
<1>1. PICK k : k = Kept(s, S)
  OBVIOUS
<1>2. Once(s)
  BY DEF Once, IdsOnce
<1>3. k \in Seq(U) /\ Range(k) = Range(s) \cap S /\ Once(k)
  BY <1>1, <1>2, KeptIsSeq
<1>4. Len(s) \in Nat /\ DOMAIN s = 1..Len(s) /\ Len(k) \in Nat /\ DOMAIN k = 1..Len(k)
  BY <1>3
<1>5. IdsOnce(k)
  <2> SUFFICES ASSUME NEW i \in 1..Len(k), NEW j \in 1..Len(k), k[i].id = k[j].id PROVE i = j
    BY DEF IdsOnce
  <2>1. k[i] \in Range(s) /\ k[j] \in Range(s)
    BY <1>3, <1>4 DEF Range
  <2>2. PICK a \in 1..Len(s) : s[a] = k[i]
    BY <1>4, <2>1 DEF Range
  <2>3. PICK b \in 1..Len(s) : s[b] = k[j]
    BY <1>4, <2>1 DEF Range
  <2>4. a = b
    BY <2>2, <2>3 DEF IdsOnce
  <2> QED
    BY <1>3, <2>2, <2>3, <2>4 DEF Once
<1>6. Len(k) <= Len(s)
  <2>1. Len(k) = Cardinality(Range(k)) /\ Len(s) = Cardinality(Range(s))
    BY <1>2, <1>3, OnceCounts
  <2>2. Range(s) = {s[i] : i \in 1..Len(s)} /\ IsFiniteSet(1..Len(s))
    BY <1>4, FS_Interval DEF Range
  <2>3. IsFiniteSet(Range(s))
    <3>1. s \in Surjection(1..Len(s), Range(s))
      BY <1>4, <2>2 DEF Surjection
    <3> QED
      BY <2>2, <3>1, FS_Surjection
  <2> QED
    BY <1>3, <2>1, <2>3, FS_Subset
<1> QED
  BY <1>1, <1>5, <1>6

\* Of two sequences whose elements have different ids, the ids are different
\* also when they are put together.
LEMMA IdsOnceConcat ==
  ASSUME NEW U, NEW s \in Seq(U), NEW t \in Seq(U), IdsOnce(s), IdsOnce(t),
         \A x \in Range(s), y \in Range(t) : x.id # y.id
  PROVE  IdsOnce(s \o t)
<1>1. PICK m : m = Len(s)
  OBVIOUS
<1>2. PICK n : n = Len(t)
  OBVIOUS
<1>3. PICK u : u = s \o t
  OBVIOUS
<1>4. /\ m \in Nat /\ n \in Nat /\ Len(u) = m + n
      /\ \A i \in 1..m : u[i] = s[i]
      /\ \A i \in 1..n : u[m + i] = t[i]
  BY <1>1, <1>2, <1>3, ConcatProperties, LenProperties
<1>5. DOMAIN s = 1..m /\ DOMAIN t = 1..n
  BY <1>1, <1>2
<1>6. \A i \in 1..m, j \in 1..n : s[i].id # t[j].id
  BY <1>5 DEF Range
<1>7. \A i \in 1..(m + n) : i \in 1..m \/ (i - m \in 1..n /\ m + (i - m) = i)
  BY <1>4
<1>8. ASSUME NEW i \in 1..(m + n), NEW j \in 1..(m + n), u[i].id = u[j].id PROVE i = j
  <2>1. CASE i \in 1..m /\ j \in 1..m
    BY <1>1, <1>4, <1>8, <2>1 DEF IdsOnce
  <2>2. CASE i \in 1..m /\ j \notin 1..m
    <3>1. j - m \in 1..n /\ u[j] = t[j - m]
      BY <1>4, <1>7, <2>2
    <3> QED
      BY <1>4, <1>6, <1>8, <2>2, <3>1
  <2>3. CASE i \notin 1..m /\ j \in 1..m
    <3>1. i - m \in 1..n /\ u[i] = t[i - m]
      BY <1>4, <1>7, <2>3
    <3> QED
      BY <1>4, <1>6, <1>8, <2>3, <3>1
  <2>4. CASE i \notin 1..m /\ j \notin 1..m
    <3>1. i - m \in 1..n /\ u[i] = t[i - m] /\ j - m \in 1..n /\ u[j] = t[j - m]
      BY <1>4, <1>7, <2>4
    <3>2. i - m = j - m
      BY <1>2, <1>8, <3>1 DEF IdsOnce
    <3> QED
      BY <1>4, <3>2
  <2> QED
    BY <2>1, <2>2, <2>3, <2>4
<1> QED
  BY <1>3, <1>4, <1>8 DEF IdsOnce

\* An element is put at the end of the second of two sequences.
AppendsTo(a, b, x) == Append(a \o b, x) = a \o Append(b, x)

LEMMA AppendToConcat ==
  ASSUME NEW U, NEW a \in Seq(U), NEW b \in Seq(U), NEW x \in U
  PROVE  AppendsTo(a, b, x)
<1>1. PICK y : y = <<x>>
  OBVIOUS
<1>2. y \in Seq(U)
  BY <1>1
<1>3. (a \o b) \o y = a \o (b \o y)
  <2>1. \A r, s, t \in Seq(U) : (r \o s) \o t = r \o (s \o t)
    BY ConcatAssociative
  <2> QED
    BY <1>2, <2>1, Zenon
<1>4. Append(b, x) = b \o y
  BY <1>1, AppendIsConcat
<1>5. PICK c : c = a \o b /\ c \in Seq(U)
  BY ConcatProperties
<1>6. Append(c, x) = c \o y
  BY <1>1, <1>5, AppendIsConcat
<1> QED
  BY <1>3, <1>4, <1>5, <1>6 DEF AppendsTo

\* What is kept of two sequences is what is kept of each.
LEMMA KeptConcat ==
  ASSUME NEW U, NEW a \in Seq(U), NEW b \in Seq(U), NEW S
  PROVE  Kept(a \o b, S) = Kept(a, S) \o Kept(b, S)
<1> DEFINE m == Len(a)
           n == Len(b)
           t == a \o b
<1>1. /\ m \in Nat /\ n \in Nat /\ t \in Seq(U) /\ Len(t) = m + n
      /\ \A i \in 1..m : a[i] = t[i]
      /\ \A j \in 1..n : t[m + j] = b[j] /\ b[j] \in U
      /\ \A i \in 1..m : a[i] \in U
  BY ConcatProperties, LenProperties, ElementOfSeq
<1> HIDE DEF m, n, t
<1>2. PICK f : KeptUpTo(f, a, S, m) /\ Kept(a, S) = f[m]
  BY KeptDefined DEF m
<1>3. PICK g : KeptUpTo(g, b, S, n) /\ Kept(b, S) = g[n]
  BY KeptDefined DEF n
<1>4. PICK h : KeptUpTo(h, t, S, m + n) /\ Kept(t, S) = h[m + n]
  BY <1>1, KeptDefined
<1>5. h[m] = f[m]
  <2>1. m + n \in Nat /\ m <= m + n
    BY <1>1
  <2> QED
    BY <1>1, <1>2, <1>4, <2>1, KeptAgree
<1>6. f[m] \in Seq(U)
  BY <1>2, KeptIsSeq
<1>7. \A j \in 0..n : g[j] \in Seq(U)
  BY <1>3, KeptPrefixes DEF n
<1> DEFINE Good(j) == h[m + j] = f[m] \o g[j]
           T == {j \in 0..n : ~Good(j)}
<1>8. 0 \notin T
  <2>1. g[0] = <<>> /\ m + 0 = m
    BY <1>1, <1>3, KeptValues
  <2> QED
    BY <1>5, <1>6, <2>1, ConcatEmptySeq
<1>9. ASSUME NEW j \in Nat, j + 1 \in 0..n, Good(j) PROVE Good(j + 1)
  <2>1. /\ j + 1 \in 1..n /\ j + 1 \in 0..n /\ j \in 0..n /\ (j + 1) - 1 = j /\ j + 1 # 0
        /\ m + (j + 1) \in 0..(m + n) /\ m + (j + 1) # 0 /\ (m + (j + 1)) - 1 = m + j
        /\ m + n \in Nat
    BY <1>1, <1>9
  <2>2. g[j + 1] = IF b[j + 1] \in S THEN Append(g[j], b[j + 1]) ELSE g[j]
    <3>1. \A i \in 0..n : i # 0 =>
            g[i] = IF b[i] \in S THEN Append(g[i - 1], b[i]) ELSE g[i - 1]
      BY <1>1, <1>3, KeptValues
    <3> QED
      BY <2>1, <3>1
  <2>3. h[m + (j + 1)] = IF t[m + (j + 1)] \in S THEN Append(h[m + j], t[m + (j + 1)])
                         ELSE h[m + j]
    <3>1. \A i \in 0..(m + n) : i # 0 =>
            h[i] = IF t[i] \in S THEN Append(h[i - 1], t[i]) ELSE h[i - 1]
      BY <1>4, <2>1, KeptValues
    <3>2. PICK k : k = m + (j + 1)
      OBVIOUS
    <3> QED
      BY <2>1, <3>1, <3>2
  <2>4. t[m + (j + 1)] = b[j + 1] /\ b[j + 1] \in U
    BY <1>1, <2>1
  <2>5. Append(f[m] \o g[j], b[j + 1]) = f[m] \o Append(g[j], b[j + 1])
    <3>1. PICK k : k = f[m]
      OBVIOUS
    <3>2. PICK l : l = g[j]
      OBVIOUS
    <3>3. PICK x : x = b[j + 1]
      OBVIOUS
    <3>4. k \in Seq(U) /\ l \in Seq(U) /\ x \in U
      BY <1>6, <1>7, <2>1, <2>4, <3>1, <3>2, <3>3
    <3>5. AppendsTo(k, l, x)
      BY <3>4, AppendToConcat
    <3> QED
      BY <3>1, <3>2, <3>3, <3>5 DEF AppendsTo
  <2> QED
    BY <1>9, <2>2, <2>3, <2>4, <2>5
<1> HIDE DEF Good
<1>10. T = {}
  <2>1. T \in SUBSET Nat
    OBVIOUS
  <2>2. ASSUME NEW j \in Nat, j + 1 \in T PROVE j \in T
    <3>1. j \in 0..n /\ j + 1 \in 0..n
      BY <1>1, <2>2
    <3> QED
      BY <1>9, <2>2, <3>1
  <2> HIDE DEF T
  <2> QED
    BY <1>8, <2>1, <2>2, NoLeastNumber
<1>11. h[m + n] = f[m] \o g[n]
  <2>1. n \in 0..n /\ n \notin T
    BY <1>1, <1>10
  <2> QED
    BY <2>1 DEF Good
<1> QED
  BY <1>2, <1>3, <1>4, <1>11 DEF t

\* A set that has all the elements keeps them all.
LEMMA KeptAll ==
  ASSUME NEW U, NEW s \in Seq(U), NEW S, \A i \in 1..Len(s) : s[i] \in S
  PROVE  Kept(s, S) = s
<1>1. PICK n : n = Len(s) /\ n \in Nat
  BY LenProperties
<1>2. PICK f : KeptUpTo(f, s, S, n) /\ Kept(s, S) = f[n]
  BY <1>1, KeptDefined
<1>3. /\ f[0] = <<>>
      /\ \A i \in 0..n : i # 0 =>
           f[i] = IF s[i] \in S THEN Append(f[i - 1], s[i]) ELSE f[i - 1]
  BY <1>1, <1>2, KeptValues
<1> DEFINE Good(i) == f[i] = SubSeq(s, 1, i)
           T == {i \in 0..n : ~Good(i)}
<1>4. 0 \notin T
  <2>1. SubSeq(s, 1, 0) = <<>>
    BY SubSeqEmpty
  <2> QED
    BY <1>3, <2>1
<1>5. ASSUME NEW i \in Nat, i + 1 \in 1..n, Good(i) PROVE Good(i + 1)
  <2>1. PICK j : j = i + 1
    OBVIOUS
  <2>2. j \in 0..n /\ j # 0 /\ j - 1 = i /\ j \in 1..n /\ j \in 1..Len(s) /\ 1 \in 1..Len(s)
    BY <1>1, <1>5, <2>1
  <2>3. f[j] = Append(f[i], s[j])
    BY <1>1, <1>3, <2>2
  <2>4. SubSeq(s, 1, j) = SubSeq(s, 1, j - 1) \o <<s[j]>>
    BY <2>2, SubSeqRecursiveSecond
  <2>5. PICK t : t = SubSeq(s, 1, i)
    OBVIOUS
  <2>6. t \in Seq(U)
    <3>1. \A k \in 1..i : s[k] \in U
      BY <1>1, <1>5, ElementOfSeq
    <3> QED
      BY <2>5, <3>1, SubSeqProperties
  <2>7. PICK x : x = s[j] /\ x \in U
    BY <2>2, ElementOfSeq
  <2>8. Append(t, x) = t \o <<x>>
    BY <2>6, <2>7, AppendIsConcat
  <2>9. f[j] = SubSeq(s, 1, j)
    BY <1>5, <2>2, <2>3, <2>4, <2>5, <2>7, <2>8
  <2> QED
    BY <2>1, <2>9
<1> HIDE DEF Good
<1>6. T = {}
  <2>1. T \in SUBSET Nat
    OBVIOUS
  <2>2. ASSUME NEW i \in Nat, i + 1 \in T PROVE i \in T
    <3>1. i + 1 \in 1..n /\ i \in 0..n
      BY <1>1, <2>2
    <3> QED
      BY <1>5, <2>2, <3>1
  <2> HIDE DEF T
  <2> QED
    BY <1>4, <2>1, <2>2, NoLeastNumber
<1>7. f[n] = SubSeq(s, 1, n)
  <2>1. n \in 0..n /\ n \notin T
    BY <1>1, <1>6
  <2> QED
    BY <2>1 DEF Good
<1> QED
  BY <1>1, <1>2, <1>7, SubSeqFull

\* The first i sequences put together, for every i up to n.
FlattenUpTo(f, w, n) == f = [i \in 1..n |-> IF i = 1 THEN w[i] ELSE f[i - 1] \o w[i]]

\* The recursion of FlattenSeq has a solution.
LEMMA FlattenDefined ==
  ASSUME NEW w, NEW n \in Nat, n # 0, Len(w) = n
  PROVE  \E f : FlattenUpTo(f, w, n) /\ FlattenSeq(w) = f[n]
<1> DEFINE T == {k \in Nat : ~\E f : FlattenUpTo(f, w, k)}
<1>1. 0 \notin T
  <2>1. FlattenUpTo([i \in 1..0 |-> <<>>], w, 0)
    BY DEF FlattenUpTo
  <2> QED
    BY <2>1
<1>2. ASSUME NEW k \in Nat, k + 1 \in T PROVE k \in T
  <2> SUFFICES ASSUME NEW f, FlattenUpTo(f, w, k) PROVE FALSE
    BY <1>2
  <2> DEFINE new == IF k + 1 = 1 THEN w[k + 1] ELSE f[k] \o w[k + 1]
             g == [i \in 1..(k + 1) |-> IF i = k + 1 THEN new ELSE f[i]]
  <2>1. \A i \in 1..k : f[i] = IF i = 1 THEN w[i] ELSE f[i - 1] \o w[i]
    BY DEF FlattenUpTo
  <2> HIDE DEF new
  <2>2. g[k + 1] = new /\ DOMAIN g = 1..(k + 1) /\ \A i \in 1..k : g[i] = f[i]
    OBVIOUS
  <2> HIDE DEF g
  <2>3. ASSUME NEW i \in 1..(k + 1)
        PROVE  g[i] = IF i = 1 THEN w[i] ELSE g[i - 1] \o w[i]
    <3>1. CASE i = k + 1
      <4>1. i # 1 => g[i - 1] = f[k]
        BY <2>2, <3>1
      <4> QED
        BY <2>2, <3>1, <4>1 DEF new
    <3>2. CASE i # k + 1
      <4>1. i \in 1..k /\ (i # 1 => g[i - 1] = f[i - 1])
        BY <2>2, <3>2
      <4> QED
        BY <2>1, <2>2, <4>1
    <3> QED
      BY <3>1, <3>2
  <2>4. FlattenUpTo(g, w, k + 1)
    BY <2>2, <2>3 DEF FlattenUpTo, g
  <2> QED
    BY <1>2, <2>4
<1>3. T \in SUBSET Nat
  OBVIOUS
<1>4. \E f : FlattenUpTo(f, w, n)
  <2> HIDE DEF T
  <2>1. n \notin T
    BY <1>1, <1>2, <1>3, NoLeastNumber
  <2> QED
    BY <2>1 DEF T
<1>5. FlattenSeq(w) = (CHOOSE f : FlattenUpTo(f, w, n))[n]
  BY DEF FlattenSeq, FlattenUpTo
<1> QED
  BY <1>4, <1>5

\* Where the pages of a list of n elements begin, and how many there are.
LEMMA PageEnds ==
  ASSUME NEW n \in Nat, NEW L \in Nat, L # 0, NEW q, q = (n + L - 1) \div L
  PROVE  /\ q \in Nat /\ (n = 0 => q = 0) /\ (n # 0 => q # 0)
         /\ q * L >= n
         /\ \A i \in Nat : i * L \in Nat /\ (i + 1) * L = i * L + L /\ (i < q => i * L < n)
<1>1. PICK m \in Nat : m = n + L - 1
  OBVIOUS
<1>2. q \in Nat /\ q * L <= m /\ m < q * L + L
  BY <1>1, SMTT(30)
<1>3. \A i \in Nat : i * L \in Nat /\ (i + 1) * L = i * L + L
  OBVIOUS
<1>4. q * L >= n
  <2>1. PICK a : a = q * L /\ a \in Nat
    BY <1>2, <1>3
  <2> QED
    BY <1>1, <1>2, <2>1
<1>5. n = 0 => q = 0
  <2> SUFFICES ASSUME n = 0, q # 0 PROVE FALSE
    OBVIOUS
  <2>1. PICK r \in Nat : q = r + 1
    <3>1. q - 1 \in Nat /\ q = (q - 1) + 1
      BY <1>2
    <3> QED
      BY <3>1
  <2>2. q * L = r * L + L /\ r * L \in Nat
    BY <1>3, <2>1
  <2>3. PICK a \in Nat : a = r * L
    BY <2>2
  <2> QED
    BY <1>1, <1>2, <2>2, <2>3
<1>6. n # 0 => q # 0
  <2> SUFFICES ASSUME n # 0, q = 0 PROVE FALSE
    OBVIOUS
  <2>1. q * L = 0
    OBVIOUS
  <2> QED
    BY <1>1, <1>2, <2>1
<1>7. ASSUME NEW i \in Nat, i < q PROVE i * L < n
  <2>1. PICK d \in Nat : q = (i + d) + 1
    <3>1. q - i - 1 \in Nat /\ q = (i + (q - i - 1)) + 1
      BY <1>2, <1>7
    <3> QED
      BY <3>1
  <2>2. (i + d) * L = i * L + d * L /\ i * L \in Nat /\ d * L \in Nat
    BY <2>1
  <2>3. q * L = (i + d) * L + L
    BY <1>3, <2>1
  <2>4. PICK a \in Nat, b \in Nat : a = i * L /\ b = d * L
    BY <2>2
  <2>5. q * L = a + b + L
    BY <2>2, <2>3, <2>4
  <2> QED
    BY <1>1, <1>2, <2>4, <2>5
<1> QED
  BY <1>2, <1>3, <1>4, <1>5, <1>6, <1>7

-----------------------------------------------------------------------------
(* The tasks that a slave supports: the inductive invariant.               *)

PlSeen == plFile.had \cup {plFile.now}
PlGood == {n \in PlTask : plCfg[n] = "good"}

PlTyped ==
  /\ DOMAIN plFile = {"now", "had"}
  /\ plFile.now \in PlFile /\ plFile.had \subseteq PlFile
  /\ algs \in Seq(Nat)
  /\ DOMAIN pl = {"at", "size", "last", "map", "todo", "whole"}
  /\ pl.at \in {"off", "poll", "read", "add", "keep"}
  /\ pl.map \subseteq PlTask /\ pl.todo \subseteq pl.map

\* The size that AlgThread goes by is that of a file there is or was.
PlSizes ==
  /\ pl.at \in {"read", "add", "keep"} => \E f \in PlSeen : f.size = pl.size
  /\ \/ \E f \in PlSeen : f.size = pl.last
     \/ pl.last = 0 /\ (pl.at = "poll" => algs = <<>>)

\* What it has read is the file that is there now, unless that has another size.
PlMap ==
  pl.at \in {"add", "keep"} /\ pl.whole /\ pl.size = plFile.now.size
    => pl.map = plFile.now.names

\* The supported tasks are those of the map that have been looked at, and until
\* CheckIfDelAlg those from before.
PlAlgs ==
  /\ Once(algs)
  /\ Range(algs) \subseteq PlGood
  /\ pl.at = "add" => pl.whole /\ (pl.map \ pl.todo) \cap PlGood \subseteq Range(algs)
  /\ pl.at = "keep" /\ pl.whole => Range(algs) = pl.map \cap PlGood

PlCurrent ==
  pl.at = "poll" /\ pl.last = plFile.now.size /\ pl.whole
    => Range(algs) = plFile.now.names \cap PlGood

PlInvariant == PlTyped /\ PlSizes /\ PlMap /\ PlAlgs /\ PlCurrent

\* At first nothing is supported.
LEMMA PlInitialHolds ==
  ASSUME NEW on \in BOOLEAN, PlInitial(on)
  PROVE  PlInvariant
<1>1. /\ DOMAIN plFile = {"now", "had"} /\ plFile.now \in PlFile /\ plFile.had = {}
      /\ algs = <<>>
      /\ pl = [at |-> IF on THEN "poll" ELSE "off", size |-> 0, last |-> 0,
               map |-> {}, todo |-> {}, whole |-> TRUE]
  BY DEF PlInitial
<1>2. algs \in Seq(Nat) /\ Once(algs) /\ Range(algs) = {}
  BY <1>1 DEF Once, Range
<1>3. PlTyped /\ PlSizes /\ PlMap /\ PlAlgs
  BY <1>1, <1>2 DEF PlTyped, PlSizes, PlMap, PlAlgs
<1>4. PlCurrent
  <2>1. plFile.now.size = 0 => plFile.now.names = {}
    BY <1>1, PlFileAssumption
  <2> QED
    BY <1>1, <1>2, <2>1 DEF PlCurrent
<1> QED
  BY <1>3, <1>4 DEF PlInvariant

\* Another file never has a size that AlgThread knows.
LEMMA PlEditKeeps ==
  ASSUME PlInvariant, PlEdit
  PROVE  PlInvariant'
<1> USE DEF PlInvariant
<1>1. PICK f \in PlFile \ PlSeen : plFile' = [now |-> f, had |-> plFile.had \cup {plFile.now}]
  BY DEF PlEdit, PlSeen
<1>2. /\ plFile'.now = f /\ plFile'.had = PlSeen /\ DOMAIN plFile' = {"now", "had"}
      /\ pl' = pl /\ algs' = algs /\ plCfg' = plCfg
      /\ PlSeen \subseteq PlFile /\ PlSeen' = PlSeen \cup {f}
  BY <1>1 DEF PlEdit, PlSeen, PlTyped
<1>3. \A g \in PlSeen : g.size # f.size
  BY <1>1, <1>2, PlSizesDiffer
<1>4. PlTyped'
  BY <1>1, <1>2 DEF PlTyped
<1>5. PlSizes'
  BY <1>2 DEF PlSizes
<1>6. PlMap'
  BY <1>2, <1>3 DEF PlMap, PlSizes
<1>7. PlAlgs'
  BY <1>2 DEF PlAlgs, PlGood
<1>8. PlCurrent'
  <2> SUFFICES ASSUME pl.at = "poll", pl.last = f.size
               PROVE  Range(algs) = f.names \cap PlGood
    BY <1>2 DEF PlCurrent, PlGood
  <2>1. algs = <<>> /\ f.size = 0
    BY <1>3 DEF PlSizes
  <2>2. f.names = {} /\ Range(algs) = {}
    BY <1>1, <2>1, PlFileAssumption DEF Range
  <2> QED
    BY <2>2
<1> QED
  BY <1>4, <1>5, <1>6, <1>7, <1>8

\* AlgThread looks at the size.
LEMMA PlPollKeeps ==
  ASSUME PlInvariant, PlPoll
  PROVE  PlInvariant'
<1> USE DEF PlInvariant
<1>1. /\ plFile' = plFile /\ algs' = algs /\ plCfg' = plCfg
      /\ DOMAIN pl' = DOMAIN pl
      /\ pl.at = "poll"
      /\ pl'.at = IF plFile.now.size # pl.last THEN "read" ELSE "poll"
      /\ pl'.size = plFile.now.size
      /\ pl'.last = pl.last /\ pl'.map = pl.map /\ pl'.todo = pl.todo /\ pl'.whole = pl.whole
  BY DEF PlPoll, PlKeeps, PlTyped
<1>2. PlTyped'
  BY <1>1 DEF PlTyped
<1>3. PlSizes'
  BY <1>1 DEF PlSizes, PlSeen
<1>4. PlMap' /\ PlAlgs' /\ PlCurrent'
  BY <1>1 DEF PlMap, PlAlgs, PlCurrent, PlGood
<1> QED
  BY <1>2, <1>3, <1>4

\* AlgThread reads the names of the file.
LEMMA PlReadKeeps ==
  ASSUME PlInvariant, PlRead
  PROVE  PlInvariant'
<1> USE DEF PlInvariant
<1>1. /\ plFile' = plFile /\ algs' = algs /\ plCfg' = plCfg
      /\ DOMAIN pl' = DOMAIN pl
      /\ pl.at = "read"
      /\ pl'.size = pl.size /\ pl'.last = pl.last
      /\ \/ /\ pl'.at = "add" /\ pl'.whole
            /\ pl'.map = plFile.now.names /\ pl'.todo = plFile.now.names
         \/ pl'.at = "keep" /\ ~pl'.whole /\ pl'.map = pl.map /\ pl'.todo = pl.todo
  <2>1. DOMAIN pl = {"at", "size", "last", "map", "todo", "whole"}
    BY DEF PlTyped
  <2>2. CASE plFile.now.ok
    BY <2>1, <2>2 DEF PlRead, PlKeeps
  <2>3. CASE ~plFile.now.ok
    BY <2>1, <2>3 DEF PlRead, PlKeeps
  <2> QED
    BY <2>2, <2>3
<1>2. PlTyped'
  <2>1. plFile.now.names \subseteq PlTask
    BY PlFileAssumption DEF PlTyped
  <2> QED
    BY <1>1, <2>1 DEF PlTyped
<1>3. PlSizes'
  BY <1>1 DEF PlSizes, PlSeen
<1>4. PlMap' /\ PlAlgs' /\ PlCurrent'
  BY <1>1 DEF PlMap, PlAlgs, PlCurrent, PlGood
<1> QED
  BY <1>2, <1>3, <1>4

\* The next name of the map.
LEMMA PlAddKeeps ==
  ASSUME PlInvariant, PlAdd
  PROVE  PlInvariant'
<1> USE DEF PlInvariant
<1>1. /\ pl.at = "add" /\ plFile' = plFile /\ plCfg' = plCfg
      /\ DOMAIN pl = {"at", "size", "last", "map", "todo", "whole"}
      /\ pl.todo # {} /\ pl.todo \subseteq pl.map /\ pl.map \subseteq PlTask
      /\ algs \in Seq(Nat) /\ PlTask \subseteq Nat
  BY PlFileAssumption DEF PlAdd, PlKeeps, PlTyped
<1>2. PICK n : n = CHOOSE x \in pl.todo : \A y \in pl.todo : x <= y
  OBVIOUS
<1>3. n \in pl.todo /\ n \in PlTask /\ n \in Nat
  <2>1. pl.todo \in SUBSET Nat
    BY <1>1
  <2>2. \E x \in pl.todo : \A y \in pl.todo : x <= y
    BY <1>1, <2>1, LeastOfNumbers
  <2> QED
    BY <1>1, <1>2, <2>2
<1>4. IF plCfg[n] = "missing"
      THEN pl' = [pl EXCEPT !.at = "keep", !.whole = FALSE] /\ UNCHANGED algs
      ELSE /\ pl' = [pl EXCEPT !.todo = @ \ {n}]
           /\ algs' = IF ~Supported(n) /\ plCfg[n] = "good" THEN Append(algs, n) ELSE algs
  BY <1>2 DEF PlAdd
<1>5. /\ DOMAIN pl' = DOMAIN pl
      /\ pl'.size = pl.size /\ pl'.last = pl.last /\ pl'.map = pl.map
      /\ \/ pl'.at = "keep" /\ ~pl'.whole /\ pl'.todo = pl.todo /\ algs' = algs
         \/ /\ pl'.at = "add" /\ pl'.whole = pl.whole /\ pl'.todo = pl.todo \ {n}
            /\ algs' = IF n \notin Range(algs) /\ plCfg[n] = "good" THEN Append(algs, n)
                       ELSE algs
  BY <1>1, <1>4 DEF Supported
<1>6. /\ algs' \in Seq(Nat) /\ Once(algs')
      /\ Range(algs) \subseteq Range(algs')
      /\ Range(algs') \subseteq PlGood
      /\ pl'.at = "add" /\ n \in PlGood => n \in Range(algs')
  <2>1. CASE algs' = algs
    <3>1. pl'.at = "add" /\ n \in PlGood => n \in Range(algs)
      <4> SUFFICES ASSUME pl'.at = "add", n \in PlGood, n \notin Range(algs) PROVE FALSE
        OBVIOUS
      <4>1. algs' = Append(algs, n)
        BY <1>5 DEF PlGood
      <4>2. Len(algs') = Len(algs) + 1 /\ Len(algs) \in Nat
        BY <1>1, <1>3, <4>1
      <4> QED
        BY <2>1, <4>2
    <3> QED
      BY <1>1, <2>1, <3>1 DEF PlAlgs
  <2>2. CASE algs' = Append(algs, n) /\ n \notin Range(algs) /\ plCfg[n] = "good"
    <3>1. Range(algs') = Range(algs) \cup {n} /\ n \in PlGood
      BY <1>1, <1>3, <2>2, RangeAppend DEF PlGood
    <3>2. Once(algs')
      BY <1>1, <1>3, <2>2, OnceAppend DEF PlAlgs
    <3>3. algs' \in Seq(Nat)
      BY <1>1, <1>3, <2>2
    <3> QED
      BY <3>1, <3>2, <3>3 DEF PlAlgs
  <2> QED
    BY <1>5, <2>1, <2>2
<1>7. PlTyped'
  BY <1>1, <1>5, <1>6 DEF PlTyped
<1>8. PlSizes' /\ PlMap' /\ PlCurrent'
  BY <1>1, <1>5 DEF PlSizes, PlMap, PlCurrent, PlSeen
<1>9. PlAlgs'
  BY <1>1, <1>3, <1>5, <1>6 DEF PlAlgs, PlGood
<1> QED
  BY <1>7, <1>8, <1>9

\* CheckIfDelAlg.
LEMMA PlDelKeeps ==
  ASSUME PlInvariant, PlDel
  PROVE  PlInvariant'
<1> USE DEF PlInvariant
<1>1. /\ plFile' = plFile /\ plCfg' = plCfg
      /\ pl.at = "add" /\ pl.todo = {} /\ algs \in Seq(Nat)
      /\ algs' = Kept(algs, pl.map)
      /\ DOMAIN pl' = DOMAIN pl /\ pl'.at = "keep"
      /\ pl'.size = pl.size /\ pl'.last = pl.last /\ pl'.map = pl.map /\ pl'.todo = pl.todo
      /\ pl'.whole = pl.whole
  BY DEF PlDel, PlKeeps, PlTyped
<1>2. /\ algs' \in Seq(Nat)
      /\ Range(algs') = Range(algs) \cap pl.map
      /\ Once(algs) => Once(algs')
  BY <1>1, KeptIsSeq
<1>3. PlTyped'
  BY <1>1, <1>2 DEF PlTyped
<1>4. PlSizes' /\ PlMap' /\ PlCurrent'
  BY <1>1 DEF PlSizes, PlMap, PlCurrent, PlSeen
<1>5. PlAlgs'
  BY <1>1, <1>2 DEF PlAlgs, PlGood
<1> QED
  BY <1>3, <1>4, <1>5

\* The size from before the file was read is the one that counts as seen.
LEMMA PlKeepKeeps ==
  ASSUME PlInvariant, PlKeep
  PROVE  PlInvariant'
<1> USE DEF PlInvariant
<1>1. /\ plFile' = plFile /\ algs' = algs /\ plCfg' = plCfg
      /\ DOMAIN pl' = DOMAIN pl /\ pl.at = "keep" /\ pl'.at = "poll"
      /\ pl'.size = pl.size /\ pl'.last = pl.size /\ pl'.map = pl.map /\ pl'.todo = pl.todo
      /\ pl'.whole = pl.whole
  BY DEF PlKeep, PlLastSize, PlKeeps, PlTyped
<1>2. PlTyped' /\ PlSizes' /\ PlMap'
  BY <1>1 DEF PlTyped, PlSizes, PlMap, PlSeen
<1>3. PlAlgs' /\ PlCurrent'
  BY <1>1 DEF PlAlgs, PlCurrent, PlMap, PlGood
<1> QED
  BY <1>2, <1>3

\* Nothing happens.
LEMMA PlStutterKeeps ==
  ASSUME PlInvariant, UNCHANGED plVars
  PROVE  PlInvariant'
<1>1. plFile' = plFile /\ plCfg' = plCfg /\ algs' = algs /\ pl' = pl
  BY DEF plVars
<1> QED
  BY <1>1 DEF PlInvariant, PlTyped, PlSizes, PlMap, PlAlgs, PlCurrent, PlSeen, PlGood

\* When AlgThread has nothing left to do, the supported tasks are those of the file
\* as it is now whose configuration parses, each once, however often the file was
\* replaced, and between whichever steps of AlgThread.
THEOREM PlSupportsTheFileHolds == PlSpec => []PlSupportsTheFile
<1>1. (\E on \in BOOLEAN : PlInitial(on)) => PlInvariant
  BY PlInitialHolds
<1>2. PlInvariant /\ [PlNext]_plVars => PlInvariant'
  BY PlEditKeeps, PlPollKeeps, PlReadKeeps, PlAddKeeps, PlDelKeeps, PlKeepKeeps,
     PlStutterKeeps DEF PlNext
<1>3. PlInvariant => PlSupportsTheFile
  <2> SUFFICES ASSUME PlInvariant, pl.at = "poll", pl.last = plFile.now.size, pl.whole
               PROVE  /\ Range(algs) = {n \in plFile.now.names : plCfg[n] = "good"}
                      /\ Len(algs) = Cardinality(Range(algs))
    BY DEF PlSupportsTheFile
  <2>1. algs \in Seq(Nat) /\ Once(algs) /\ plFile.now \in PlFile
    BY DEF PlInvariant, PlTyped, PlAlgs
  <2>2. plFile.now.names \subseteq PlTask
    BY <2>1, PlFileAssumption
  <2>3. Range(algs) = plFile.now.names \cap PlGood
    BY DEF PlInvariant, PlCurrent
  <2> QED
    BY <2>1, <2>2, <2>3, OnceCounts DEF PlGood
<1> QED
  BY <1>1, <1>2, <1>3, PTL DEF PlSpec

-----------------------------------------------------------------------------
(* The threads of a task: the inductive invariant.  What is placed is      *)
(* written as a relation (AtHolds), and a step that places an element adds *)
(* one place to it, which is the last one (AtGrows).                       *)

\* Thread i holds element e at place j.
AtHolds(i, j, e) ==
  i \in DOMAIN walk.threads /\ j \in DOMAIN walk.threads[i] /\ walk.threads[i][j] = e
AtSomewhere(e) == \E i, j : AtHolds(i, j, e)
AtOneAtMost(e) == \A i, j, k, l : AtHolds(i, j, e) /\ AtHolds(k, l, e) => i = k /\ j = l

\* The pipeline, which the walk does not change.
AtPipeline ==
  /\ DOMAIN walk = {"edges", "queue", "async", "flags", "threads", "cur", "calls"}
  /\ walk.edges \subseteq {e \in AtEle \X AtEle : e[1] < e[2]}
  /\ walk.queue \in Seq(AtEle) /\ Once(walk.queue)

\* Nothing to walk over.
AtOff ==
  /\ AtPipeline
  /\ walk.queue = <<>> /\ walk.edges = {}
  /\ walk.cur = 0 /\ walk.calls = <<>> /\ walk.threads = <<>>

AtTyped ==
  /\ AtPipeline
  /\ Range(walk.queue) = AtEle
  /\ walk.cur \in AtEle \cup {0} /\ walk.calls \in Seq(AtEle)
  /\ walk.threads \in Seq(Seq(AtEle))
  /\ \A i \in DOMAIN walk.threads : walk.threads[i] # <<>>

\* The loop stands at the element placed last.
AtStands ==
  walk.cur # 0 =>
    /\ walk.threads # <<>>
    /\ walk.threads[Len(walk.threads)][Len(walk.threads[Len(walk.threads)])] = walk.cur

AtFlagged == \A e \in AtEle : e \in walk.flags <=> AtSomewhere(e)

\* The numbers rise along a thread.
AtRising == \A i, j, e : AtHolds(i, j, e) => j <= e

\* Each element of a thread is the only consumer of the one before it.
AtChained ==
  \A i, j, p, e : AtHolds(i, j, p) /\ AtHolds(i, j + 1, e) =>
    AtConsumers(p) = {e} /\ e \notin walk.async

\* A call is for the entry or for one of several consumers of an element.
AtCallsFor ==
  \A c \in Range(walk.calls) :
    c = AtEntry \/ \E p \in AtProducers(c) : AtSomewhere(p) /\ AtConsumers(p) # {c}

\* What gets data is placed, or there is still a call to make for it.
AtPending ==
  /\ AtSomewhere(AtEntry) \/ AtEntry \in Range(walk.calls)
  /\ \A p \in AtEle : AtSomewhere(p) /\ p # walk.cur =>
       \A e \in AtConsumers(p) : AtSomewhere(e) \/ e \in Range(walk.calls)

\* What is placed gets data.
AtFed == \A e \in AtEle : AtSomewhere(e) =>
           e = AtEntry \/ \E p \in AtProducers(e) : AtSomewhere(p)

\* The only consumer of its only producer is placed once for each time that one is.
AtFollows ==
  \A e, p \in AtEle :
    AtProducers(e) = {p} /\ AtConsumers(p) = {e} /\ AtOneAtMost(p) =>
      AtOneAtMost(e) /\ (walk.cur = p => ~AtSomewhere(e))

\* Who is nobody's only consumer is placed by a call, which looks at the flag.
AtCalled ==
  \A e \in AtEle : (\A p \in AtProducers(e) : AtConsumers(p) # {e}) => AtOneAtMost(e)

AtWalking ==
  /\ AtTyped /\ AtStands /\ AtFlagged /\ AtRising /\ AtCallsFor /\ AtPending /\ AtFed
  /\ AtFollows /\ AtCalled /\ AtChained

\* What GetNextEle returns.
LEMMA AtNextEle ==
  ASSUME AtTyped, NEW p \in AtEle
  PROVE  /\ GetNextEle(p) \in Seq(AtEle)
         /\ Range(GetNextEle(p)) = AtConsumers(p)
         /\ Len(GetNextEle(p)) = 1 <=> \E e \in AtEle : AtConsumers(p) = {e}
         /\ Len(GetNextEle(p)) = 1 =>
              GetNextEle(p)[1] \in AtEle /\ AtConsumers(p) = {GetNextEle(p)[1]}
<1> DEFINE n == GetNextEle(p)
           C == AtConsumers(p)
<1>1. walk.queue \in Seq(AtEle) /\ Once(walk.queue) /\ Range(walk.queue) = AtEle
  BY DEF AtTyped, AtPipeline
<1>2. n = Kept(walk.queue, C) /\ C \subseteq AtEle
  BY DEF GetNextEle, AtConsumers
<1> HIDE DEF n, C
<1>3. n \in Seq(AtEle) /\ Range(n) = C /\ Once(n)
  <2>1. PICK q : q = walk.queue
    OBVIOUS
  <2>2. q \in Seq(AtEle) /\ Once(q) /\ Range(q) \cap C = C
    BY <1>1, <1>2, <2>1
  <2>3. Kept(q, C) \in Seq(AtEle) /\ Range(Kept(q, C)) = Range(q) \cap C /\ Once(Kept(q, C))
    BY <2>2, KeptIsSeq
  <2> QED
    BY <1>2, <2>1, <2>2, <2>3
<1>4. /\ Len(n) \in Nat /\ DOMAIN n = 1..Len(n)
      /\ \A i \in 1..Len(n) : n[i] \in AtEle /\ n[i] \in C
      /\ \A x \in C : \E i \in 1..Len(n) : n[i] = x
  BY <1>3 DEF Range
<1>5. ASSUME Len(n) = 1 PROVE n[1] \in AtEle /\ C = {n[1]}
  BY <1>4, <1>5
<1>6. ASSUME NEW e \in AtEle, C = {e} PROVE Len(n) = 1
  <2>1. Len(n) # 0
    BY <1>4, <1>6
  <2>2. ASSUME Len(n) > 1 PROVE FALSE
    <3>1. n[1] = e /\ n[2] = e /\ 1 \in 1..Len(n) /\ 2 \in 1..Len(n)
      BY <1>4, <1>6, <2>2
    <3> QED
      BY <1>3, <3>1 DEF Once
  <2> QED
    BY <1>4, <2>1, <2>2
<1> QED
  BY <1>3, <1>5, <1>6 DEF n, C

\* The walk begins with a call for the entry.
LEMMA AtInitialHolds ==
  ASSUME NEW on \in BOOLEAN, AtInitial(on)
  PROVE  AtOff \/ AtWalking
<1>1. AtElements \in Nat /\ AtElements # 0 /\ AtEntry \in AtEle
  BY AtElementsAssumption DEF AtEle, AtEntry
<1>2. PICK D : D = {e \in AtEle : on}
  OBVIOUS
<1>3. /\ DOMAIN walk = {"edges", "queue", "async", "flags", "threads", "cur", "calls"}
      /\ walk.edges \subseteq {e \in AtEle \X AtEle : on /\ e[1] < e[2]}
      /\ walk.queue \in SetToSeqs(D)
      /\ walk.flags = {} /\ walk.threads = <<>> /\ walk.cur = 0
      /\ walk.calls = IF on THEN <<AtEntry>> ELSE <<>>
  BY <1>2 DEF AtInitial
<1>4. IsFiniteSet(D) /\ (on => D = AtEle) /\ (~on => D = {}) /\ IsFiniteSet(AtEle)
      /\ Cardinality(AtEle) = AtElements
  <2>1. IsFiniteSet(AtEle) /\ Cardinality(AtEle) = AtElements
    BY <1>1, FS_Interval DEF AtEle
  <2>2. IsFiniteSet({})
    BY FS_EmptySet
  <2> QED
    BY <1>2, <2>1, <2>2
<1>5. PICK c : c = Cardinality(D) /\ c \in Nat
  BY <1>4, FS_CardinalityType
<1>6. /\ walk.queue \in [1..c -> D]
      /\ \A i, j \in 1..c : i # j => walk.queue[i] # walk.queue[j]
  BY <1>3, <1>5 DEF SetToSeqs
<1>7. walk.queue \in Seq(AtEle) /\ Len(walk.queue) = c /\ Once(walk.queue)
  <2>1. walk.queue \in [1..c -> AtEle]
    BY <1>2, <1>6
  <2> QED
    BY <1>5, <1>6, <2>1 DEF Once
<1>8. AtPipeline
  BY <1>3, <1>7 DEF AtPipeline
<1>9. CASE ~on
  <2>1. c = 0
    BY <1>4, <1>5, <1>9, FS_EmptySet
  <2>2. walk.queue = <<>>
    BY <1>5, <1>7, <2>1
  <2> QED
    BY <1>3, <1>8, <1>9, <2>2 DEF AtOff
<1>10. CASE on
  <2>1. Range(walk.queue) = AtEle
    <3>1. walk.queue \in [1..c -> AtEle]
      BY <1>4, <1>6, <1>10
    <3>2. IsFiniteSet(1..c) /\ Cardinality(1..c) = c
      BY <1>5, FS_Interval
    <3>3. walk.queue \in Injection(1..c, AtEle)
      BY <1>6, <3>1 DEF Injection, IsInjective
    <3>4. Cardinality(1..c) = Cardinality(AtEle) /\ IsFiniteSet(AtEle)
      BY <1>4, <1>5, <1>10, <3>2
    <3>5. walk.queue \in Surjection(1..c, AtEle)
      BY <3>3, <3>4, FS_Injection
    <3>6. DOMAIN walk.queue = 1..c
      BY <3>1
    <3> QED
      BY <3>5, <3>6 DEF Surjection, Range
  <2>2. \A i, j, e : ~AtHolds(i, j, e)
    BY <1>3 DEF AtHolds
  <2>3. walk.calls = <<AtEntry>> /\ Range(walk.calls) = {AtEntry}
    BY <1>3, <1>10 DEF Range
  <2>4. AtTyped
    BY <1>1, <1>3, <1>8, <2>1, <2>3 DEF AtTyped
  <2>5. AtStands /\ AtFlagged /\ AtRising /\ AtCallsFor /\ AtPending /\ AtFed
    BY <1>3, <2>2, <2>3 DEF AtStands, AtFlagged, AtRising, AtCallsFor, AtPending, AtFed, AtSomewhere
  <2>6. AtFollows /\ AtCalled /\ AtChained
    BY <1>3, <2>2 DEF AtFollows, AtCalled, AtChained, AtOneAtMost, AtSomewhere
  <2> QED
    BY <2>4, <2>5, <2>6 DEF AtWalking
<1> QED
  BY <1>9, <1>10

\* Element e is placed in thread k at place l, behind one of prev or at the beginning.
AtGrows(k, l, e, prev) ==
  /\ walk'.threads \in Seq(Seq(AtEle)) /\ walk'.threads # <<>>
  /\ \A i \in DOMAIN walk'.threads : walk'.threads[i] # <<>>
  /\ k = Len(walk'.threads) /\ l = Len(walk'.threads[k]) /\ walk'.threads[k][l] = e
  /\ \A i, j, x : AtHolds(i, j, x)' <=> AtHolds(i, j, x) \/ (i = k /\ j = l /\ x = e)
  /\ l \in Nat /\ \A j, x : AtHolds(k, j, x) => j \in Nat /\ j < l /\ (j + 1 = l => x \in prev)
  /\ l = 1 \/ \E x \in prev : AtHolds(k, l - 1, x)

\* A thread is opened for e.
LEMMA AtOpened ==
  ASSUME AtTyped, NEW e \in AtEle, walk'.threads = Append(walk.threads, <<e>>)
  PROVE  \E k, l : AtGrows(k, l, e, {})
<1> DEFINE t == walk.threads
           n == Len(t)
           u == walk'.threads
<1>1. t \in Seq(Seq(AtEle)) /\ n \in Nat /\ DOMAIN t = 1..n /\ \A i \in 1..n : t[i] # <<>>
  BY DEF AtTyped
<1>2. PICK y : y = <<e>> /\ y \in Seq(AtEle) /\ Len(y) = 1 /\ DOMAIN y = {1} /\ y[1] = e /\ y # <<>>
  <2>1. <<e>> \in Seq(AtEle) /\ Len(<<e>>) = 1 /\ <<e>>[1] = e /\ <<e>> # <<>>
    OBVIOUS
  <2>2. DOMAIN <<e>> = {1}
    OBVIOUS
  <2> QED
    BY <2>1, <2>2
<1>3. u = Append(t, y)
  BY <1>2
<1> HIDE DEF t, n, u
<1>4. /\ u \in Seq(Seq(AtEle)) /\ Len(u) = n + 1 /\ DOMAIN u = 1..(n + 1) /\ u[n + 1] = y
      /\ \A i \in 1..n : u[i] = t[i]
  BY <1>1, <1>2, <1>3, AppendProperties DEF n
<1>5. u # <<>> /\ \A i \in DOMAIN u : u[i] # <<>>
  <2>1. \A i \in 1..(n + 1) : i \in 1..n \/ i = n + 1
    BY <1>1
  <2>2. \A i \in 1..n : u[i] # <<>>
    BY <1>1, <1>4
  <2>3. u[n + 1] # <<>> /\ n + 1 \in 1..(n + 1)
    BY <1>1, <1>2, <1>4
  <2>4. u # <<>>
    BY <1>4, <2>3
  <2> QED
    BY <1>4, <2>1, <2>2, <2>3, <2>4
<1>6. \A i, j, x : AtHolds(i, j, x)' <=> AtHolds(i, j, x) \/ (i = n + 1 /\ j = 1 /\ x = e)
  <2>1. TAKE i, j, x
  <2>2. AtHolds(i, j, x) <=> i \in 1..n /\ j \in DOMAIN t[i] /\ t[i][j] = x
    BY <1>1 DEF AtHolds, t
  <2>3. AtHolds(i, j, x)' <=> i \in 1..(n + 1) /\ j \in DOMAIN u[i] /\ u[i][j] = x
    BY <1>4 DEF AtHolds, u
  <2>4. CASE i \in 1..n
    BY <1>1, <1>4, <2>2, <2>3, <2>4
  <2>5. CASE i = n + 1
    BY <1>1, <1>2, <1>4, <2>2, <2>3, <2>5
  <2>6. CASE i \notin 1..n /\ i # n + 1
    BY <1>1, <2>2, <2>3, <2>6
  <2> QED
    BY <2>4, <2>5, <2>6
<1>7. \A j, x : ~AtHolds(n + 1, j, x)
  BY <1>1 DEF AtHolds, t
<1> QED
  BY <1>1, <1>2, <1>4, <1>5, <1>6, <1>7 DEF AtGrows, u

\* e is put behind the element placed last.
LEMMA AtExtended ==
  ASSUME AtTyped, AtStands, walk.cur # 0, NEW e \in AtEle,
         walk'.threads = [walk.threads EXCEPT ![Len(walk.threads)] = Append(@, e)]
  PROVE  \E k, l : AtGrows(k, l, e, {walk.cur})
<1> DEFINE t == walk.threads
           n == Len(t)
           u == walk'.threads
<1>1. /\ t \in Seq(Seq(AtEle)) /\ n \in Nat /\ DOMAIN t = 1..n /\ \A i \in 1..n : t[i] # <<>>
      /\ t # <<>> /\ n # 0
  BY DEF AtTyped, AtStands
<1>2. PICK y : y = t[n]
  OBVIOUS
<1>3. PICK m : m = Len(y)
  OBVIOUS
<1>4. n \in 1..n /\ y \in Seq(AtEle) /\ y # <<>> /\ m \in Nat /\ m # 0 /\ DOMAIN y = 1..m
      /\ y[m] = walk.cur
  <2>1. n \in 1..n /\ y \in Seq(AtEle) /\ y # <<>>
    BY <1>1, <1>2, ElementOfSeq
  <2> QED
    BY <1>2, <1>3, <2>1 DEF AtStands
<1>5. PICK z : z = Append(y, e)
  OBVIOUS
<1>6. /\ z \in Seq(AtEle) /\ z # <<>> /\ Len(z) = m + 1 /\ DOMAIN z = 1..(m + 1)
      /\ z[m + 1] = e /\ \A j \in 1..m : z[j] = y[j]
  BY <1>3, <1>4, <1>5, AppendProperties
<1>7. u = [t EXCEPT ![n] = z]
  BY <1>2, <1>5
<1> HIDE DEF t, n, u
<1>8. /\ DOMAIN u = 1..n /\ u[n] = z /\ \A i \in 1..n : i # n => u[i] = t[i]
  BY <1>1, <1>4, <1>7
<1>9. u \in Seq(Seq(AtEle)) /\ Len(u) = n
  <2>1. \A i \in 1..n : t[i] \in Seq(AtEle)
    BY <1>1, ElementOfSeq DEF n
  <2>2. \A i \in 1..n : u[i] \in Seq(AtEle)
    BY <1>6, <1>8, <2>1
  <2>3. u \in [1..n -> Seq(AtEle)]
    BY <1>7, <1>8, <1>1, <2>2
  <2>4. PICK w : w = u
    OBVIOUS
  <2>5. PICK S : S = Seq(AtEle)
    OBVIOUS
  <2>6. w \in [1..n -> S]
    BY <2>3, <2>4, <2>5
  <2>7. w \in Seq(S) /\ Len(w) = n
    BY <1>1, <2>6
  <2> QED
    BY <2>4, <2>5, <2>7
<1>10. u # <<>> /\ \A i \in DOMAIN u : u[i] # <<>>
  BY <1>1, <1>6, <1>8, <1>9
<1>11. /\ \A i, j, x : AtHolds(i, j, x) <=> i \in 1..n /\ j \in DOMAIN t[i] /\ t[i][j] = x
       /\ \A j, x : AtHolds(n, j, x) <=> j \in 1..m /\ y[j] = x
  <2>1. \A i, j, x : AtHolds(i, j, x) <=> i \in 1..n /\ j \in DOMAIN t[i] /\ t[i][j] = x
    BY <1>1 DEF AtHolds, t
  <2> QED
    BY <1>2, <1>4, <2>1
<1>12. \A i, j, x : AtHolds(i, j, x)' <=> AtHolds(i, j, x) \/ (i = n /\ j = m + 1 /\ x = e)
  <2>1. TAKE i, j, x
  <2>2. AtHolds(i, j, x)' <=> i \in 1..n /\ j \in DOMAIN u[i] /\ u[i][j] = x
    BY <1>8 DEF AtHolds, u
  <2>3. CASE i # n
    BY <1>8, <1>11, <2>2, <2>3
  <2>4. CASE i = n
    <3>1. AtHolds(i, j, x)' <=> j \in 1..(m + 1) /\ z[j] = x
      <4>1. i \in 1..n /\ u[i] = z /\ DOMAIN z = 1..(m + 1)
        BY <1>4, <1>6, <1>8, <2>4
      <4> QED
        BY <2>2, <4>1
    <3>2. j \in 1..(m + 1) <=> j \in 1..m \/ j = m + 1
      BY <1>4
    <3>3. m + 1 \notin 1..m
      BY <1>4
    <3> QED
      BY <1>6, <1>11, <2>4, <3>1, <3>2, <3>3
  <2> QED
    BY <2>3, <2>4
<1>13. /\ \A j, x : AtHolds(n, j, x) => j \in Nat /\ j < m + 1 /\ (j + 1 = m + 1 => x = walk.cur)
       /\ m + 1 \in Nat /\ AtHolds(n, (m + 1) - 1, walk.cur)
  <2>1. \A j \in 1..m : j \in Nat /\ j < m + 1 /\ (j + 1 = m + 1 => j = m)
    BY <1>4
  <2>2. m + 1 \in Nat /\ (m + 1) - 1 = m /\ m \in 1..m
    BY <1>4
  <2> QED
    BY <1>4, <1>11, <2>1, <2>2
<1> QED
  BY <1>6, <1>8, <1>9, <1>10, <1>12, <1>13 DEF AtGrows, u

\* Why e is placed: by a call, or as the only consumer of where the loop stands.
AtCallPlaces(e, prev) ==
  /\ walk.cur = 0 /\ e \notin walk.flags /\ prev = {}
  /\ e = AtEntry \/ \E p \in AtProducers(e) : AtSomewhere(p) /\ AtConsumers(p) # {e}
AtLoopPlaces(e, prev) ==
  /\ walk.cur # 0 /\ AtConsumers(walk.cur) = {e}
  /\ prev = {} \/ (prev = {walk.cur} /\ e \notin walk.async)

\* The element that the loop stands at is placed.
LEMMA AtStandsSomewhere ==
  ASSUME AtTyped, AtStands, walk.cur # 0
  PROVE  AtSomewhere(walk.cur)
<1> DEFINE t == walk.threads
<1>1. /\ t \in Seq(Seq(AtEle)) /\ t # <<>> /\ t[Len(t)][Len(t[Len(t)])] = walk.cur
      /\ \A i \in DOMAIN t : t[i] # <<>>
  BY DEF AtTyped, AtStands
<1>2. PICK n : n = Len(t)
  OBVIOUS
<1>3. PICK y : y = t[n]
  OBVIOUS
<1>4. n \in DOMAIN t /\ y \in Seq(AtEle) /\ y # <<>>
  BY <1>1, <1>2, <1>3, ElementOfSeq
<1>5. Len(y) \in DOMAIN y /\ y[Len(y)] = walk.cur
  BY <1>1, <1>2, <1>3, <1>4
<1> QED
  BY <1>3, <1>4, <1>5 DEF AtSomewhere, AtHolds

\* Every way an element is placed keeps the invariant.
LEMMA AtPlaceKeeps ==
  ASSUME AtWalking, NEW e \in AtEle, NEW k, NEW l, NEW prev, AtGrows(k, l, e, prev),
         AtCallPlaces(e, prev) \/ AtLoopPlaces(e, prev),
         DOMAIN walk' = DOMAIN walk,
         walk'.edges = walk.edges, walk'.queue = walk.queue, walk'.async = walk.async,
         walk'.flags = walk.flags \cup {e}, walk'.cur = e, walk'.calls \in Seq(AtEle),
         Range(walk'.calls) \subseteq Range(walk.calls),
         Range(walk.calls) \subseteq Range(walk'.calls) \cup {e}
  PROVE  AtWalking'
<1>1. AtTyped /\ AtStands /\ AtFlagged /\ AtRising /\ AtCallsFor /\ AtPending /\ AtFed
      /\ AtFollows /\ AtCalled /\ AtChained
  BY DEF AtWalking
<1>2. /\ \A p : AtConsumers(p)' = AtConsumers(p) /\ AtProducers(p)' = AtProducers(p)
      /\ \A p, x : x \in AtConsumers(p) => x \in AtEle
      /\ \A p \in AtEle, x \in AtEle : x \in AtConsumers(p) <=> p \in AtProducers(x)
      /\ \A p, x : x \in AtConsumers(p) =>
           p \in AtEle /\ x \in AtEle /\ p \in AtProducers(x) /\ p < x /\ p \in Nat /\ x \in Nat
      /\ \A p, x : p \in AtProducers(x) =>
           p \in AtEle /\ x \in AtEle /\ x \in AtConsumers(p) /\ p < x /\ x # AtEntry
  <2>1. \A p, x : <<p, x>> \in walk.edges => p \in AtEle /\ x \in AtEle /\ p < x
    BY <1>1 DEF AtTyped, AtPipeline
  <2>2. AtEle \subseteq Nat /\ \A p \in AtEle : p >= 1
    BY AtElementsAssumption DEF AtEle
  <2>3. \A p, x \in AtEle : p < x => x # AtEntry
    BY <2>2 DEF AtEntry
  <2> QED
    BY <2>1, <2>2, <2>3 DEF AtConsumers, AtProducers
<1>3. /\ \A i, j, x : AtHolds(i, j, x)' <=> AtHolds(i, j, x) \/ (i = k /\ j = l /\ x = e)
      /\ l \in Nat /\ \A j, x : AtHolds(k, j, x) => j \in Nat /\ j < l /\ (j + 1 = l => x \in prev)
  BY DEF AtGrows
<1>4. /\ \A x : AtSomewhere(x)' <=> AtSomewhere(x) \/ x = e
      /\ \A x : x # e => (AtOneAtMost(x)' <=> AtOneAtMost(x))
      /\ AtOneAtMost(e)' <=> ~AtSomewhere(e)
  <2>1. \A x : ~AtHolds(k, l, x)
    BY <1>3
  <2>2. \A x : AtSomewhere(x)' <=> AtSomewhere(x) \/ x = e
    BY <1>3 DEF AtSomewhere
  <2>3. \A x : x # e => (AtOneAtMost(x)' <=> AtOneAtMost(x))
    BY <1>3 DEF AtOneAtMost
  <2>4. AtOneAtMost(e)' <=> ~AtSomewhere(e)
    <3>1. AtHolds(k, l, e)'
      BY <1>3
    <3>2. ASSUME AtOneAtMost(e)', NEW i, NEW j, AtHolds(i, j, e) PROVE FALSE
      <4>1. AtHolds(i, j, e)'
        BY <1>3, <3>2
      <4>2. i = k /\ j = l
        BY <3>1, <3>2, <4>1 DEF AtOneAtMost
      <4> QED
        BY <2>1, <3>2, <4>2
    <3>3. ASSUME ~AtSomewhere(e) PROVE AtOneAtMost(e)'
      BY <1>3, <3>3 DEF AtOneAtMost, AtSomewhere
    <3> QED
      BY <3>2, <3>3 DEF AtSomewhere
  <2> QED
    BY <2>2, <2>3, <2>4
<1>5. walk.cur # 0 => walk.cur \in AtEle /\ AtSomewhere(walk.cur)
  BY <1>1, AtStandsSomewhere DEF AtTyped
<1>6. /\ AtCallPlaces(e, prev) =>
           /\ ~AtSomewhere(e)
           /\ e = AtEntry \/ \E p \in AtProducers(e) : AtSomewhere(p) /\ AtConsumers(p) # {e}
           /\ \A p \in AtEle : p # walk.cur
      /\ AtLoopPlaces(e, prev) =>
           walk.cur \in AtEle /\ walk.cur \in AtProducers(e) /\ AtConsumers(walk.cur) = {e}
  <2>1. 0 \notin AtEle
    BY AtElementsAssumption DEF AtEle
  <2> QED
    BY <1>1, <1>2, <1>5, <2>1 DEF AtCallPlaces, AtLoopPlaces, AtFlagged
<1>7. AtTyped'
  BY <1>1 DEF AtTyped, AtPipeline, AtGrows
<1>8. AtStands' /\ AtFlagged'
  BY <1>1, <1>4 DEF AtStands, AtFlagged, AtGrows
<1>9. AtRising'
  <2>1. l <= e
    <3>1. e \in Nat /\ e >= 1
      BY AtElementsAssumption DEF AtEle
    <3>2. CASE l = 1
      BY <3>1, <3>2
    <3>3. CASE l # 1
      <4>1. PICK x \in prev : AtHolds(k, l - 1, x)
        BY <3>3 DEF AtGrows
      <4>2. x = walk.cur /\ x \in Nat /\ x < e
        BY <1>2, <1>6, <4>1 DEF AtCallPlaces, AtLoopPlaces
      <4>3. l - 1 <= x
        BY <1>1, <4>1 DEF AtRising
      <4> QED
        BY <1>3, <3>1, <4>2, <4>3
    <3> QED
      BY <3>2, <3>3
  <2> QED
    BY <1>1, <1>3, <2>1 DEF AtRising
<1>10. AtCallsFor'
  BY <1>1, <1>2, <1>4 DEF AtCallsFor
<1>11. AtPending'
  <2>1. AtSomewhere(AtEntry)' \/ AtEntry \in Range(walk'.calls)
    BY <1>1, <1>4 DEF AtPending
  <2>2. ASSUME NEW p \in AtEle, AtSomewhere(p)', p # e, NEW x \in AtConsumers(p)
        PROVE  AtSomewhere(x)' \/ x \in Range(walk'.calls)
    <3>1. AtSomewhere(p)
      BY <1>4, <2>2
    <3>2. CASE p # walk.cur
      BY <1>1, <1>4, <2>2, <3>1, <3>2 DEF AtPending
    <3>3. CASE p = walk.cur
      <4>1. x = e
        BY <1>6, <2>2, <3>3
      <4> QED
        BY <1>4, <4>1
    <3> QED
      BY <3>2, <3>3
  <2> QED
    BY <1>2, <2>1, <2>2 DEF AtPending
<1>12. AtFed'
  <2>1. ASSUME NEW x \in AtEle, AtSomewhere(x)', x # AtEntry
        PROVE  \E p \in AtProducers(x) : AtSomewhere(p)
    <3>1. CASE AtSomewhere(x)
      BY <1>1, <2>1, <3>1 DEF AtFed
    <3>2. CASE x = e
      BY <1>5, <1>6, <2>1, <3>2 DEF AtLoopPlaces
    <3> QED
      BY <1>4, <2>1, <3>1, <3>2
  <2> QED
    BY <1>2, <1>4, <2>1 DEF AtFed
<1>13. AtFollows'
  <2> SUFFICES ASSUME NEW x \in AtEle, NEW p \in AtEle,
                      AtProducers(x) = {p}, AtConsumers(p) = {x}, AtOneAtMost(p)'
               PROVE  AtOneAtMost(x)' /\ (e = p => ~AtSomewhere(x)')
    BY <1>2 DEF AtFollows
  <2>1. p \in AtProducers(x) /\ p # x /\ x # AtEntry
    BY <1>2
  <2>2. CASE x = e
    <3>1. AtLoopPlaces(e, prev)
      BY <1>6, <2>1, <2>2
    <3>2. walk.cur = p
      BY <1>6, <2>2, <3>1
    <3>3. ~AtSomewhere(e)
      BY <1>1, <1>4, <2>1, <2>2, <3>2 DEF AtFollows
    <3> QED
      BY <1>4, <2>1, <2>2, <3>3
  <2>3. CASE p = e
    <3>1. ~AtSomewhere(p)
      BY <1>4, <2>3
    <3>2. ~AtSomewhere(x)
      BY <1>1, <2>1, <3>1 DEF AtFed
    <3>3. AtOneAtMost(x)
      BY <3>2 DEF AtOneAtMost, AtSomewhere
    <3> QED
      BY <1>4, <2>1, <2>3, <3>2, <3>3
  <2>4. CASE x # e /\ p # e
    <3>1. AtOneAtMost(p)
      BY <1>4, <2>4
    <3>2. AtOneAtMost(x)
      BY <1>1, <3>1 DEF AtFollows
    <3> QED
      BY <1>4, <2>4, <3>2
  <2> QED
    BY <2>2, <2>3, <2>4
<1>14. AtCalled'
  <2> SUFFICES ASSUME NEW x \in AtEle, \A p \in AtProducers(x) : AtConsumers(p) # {x}
               PROVE  AtOneAtMost(x)'
    BY <1>2 DEF AtCalled
  <2>1. CASE x = e
    BY <1>4, <1>6, <2>1
  <2>2. CASE x # e
    BY <1>1, <1>4, <2>2 DEF AtCalled
  <2> QED
    BY <2>1, <2>2
<1>15. AtChained'
  <2> SUFFICES ASSUME NEW i, NEW j, NEW p, NEW x, AtHolds(i, j, p)', AtHolds(i, j + 1, x)'
               PROVE  AtConsumers(p) = {x} /\ x \notin walk.async
    BY <1>2 DEF AtChained
  <2>1. CASE AtHolds(i, j + 1, x)
    <3>1. CASE AtHolds(i, j, p)
      BY <1>1, <2>1, <3>1 DEF AtChained
    <3>2. CASE i = k /\ j = l
      BY <1>3, <2>1, <3>2
    <3> QED
      BY <1>3, <3>1, <3>2
  <2>2. CASE i = k /\ j + 1 = l /\ x = e
    <3>1. CASE AtHolds(i, j, p)
      <4>1. p \in prev
        BY <1>3, <2>2, <3>1
      <4>2. AtLoopPlaces(e, prev) /\ p = walk.cur /\ e \notin walk.async
        BY <4>1 DEF AtCallPlaces, AtLoopPlaces
      <4> QED
        BY <1>6, <2>2, <4>2
    <3>2. CASE j = l
      BY <1>3, <2>2, <3>2
    <3> QED
      BY <1>3, <3>1, <3>2
  <2> QED
    BY <1>3, <2>1, <2>2
<1> QED
  BY <1>7, <1>8, <1>9, <1>10, <1>11, <1>12, <1>13, <1>14, <1>15 DEF AtWalking

\* A call for an element that has a thread returns, any other opens one.
LEMMA AtCallKeeps ==
  ASSUME AtWalking, AtCall
  PROVE  AtWalking'
<1>1. AtTyped /\ AtStands /\ AtFlagged /\ AtRising /\ AtCallsFor /\ AtPending /\ AtFed
      /\ AtFollows /\ AtCalled /\ AtChained
  BY DEF AtWalking
<1>2. PICK e : e = Head(walk.calls)
  OBVIOUS
<1>3. /\ walk.cur = 0 /\ walk.calls \in Seq(AtEle) /\ walk.calls # <<>> /\ e \in AtEle
      /\ DOMAIN walk = {"edges", "queue", "async", "flags", "threads", "cur", "calls"}
      /\ Tail(walk.calls) \in Seq(AtEle)
      /\ Range(walk.calls) = {e} \cup Range(Tail(walk.calls))
  BY <1>1, <1>2, RangeTail DEF AtCall, AtTyped, AtPipeline
<1>4. CASE e \in walk.flags
  <2>1. /\ DOMAIN walk' = DOMAIN walk /\ walk'.calls = Tail(walk.calls)
        /\ walk'.edges = walk.edges /\ walk'.queue = walk.queue /\ walk'.async = walk.async
        /\ walk'.flags = walk.flags /\ walk'.threads = walk.threads /\ walk'.cur = walk.cur
    BY <1>2, <1>3, <1>4 DEF AtCall, AtHasThread
  <2>2. /\ \A p : AtConsumers(p)' = AtConsumers(p) /\ AtProducers(p)' = AtProducers(p)
        /\ \A i, j, x : AtHolds(i, j, x)' <=> AtHolds(i, j, x)
        /\ \A x : AtSomewhere(x)' <=> AtSomewhere(x)
        /\ \A x : AtOneAtMost(x)' <=> AtOneAtMost(x)
    BY <2>1 DEF AtConsumers, AtProducers, AtHolds, AtSomewhere, AtOneAtMost
  <2>3. AtSomewhere(e)
    BY <1>1, <1>3, <1>4 DEF AtFlagged
  <2>4. AtTyped' /\ AtStands' /\ AtFlagged'
    BY <1>1, <1>3, <2>1, <2>2 DEF AtTyped, AtPipeline, AtStands, AtFlagged
  <2>5. AtRising' /\ AtFed' /\ AtFollows' /\ AtCalled' /\ AtChained'
    BY <1>1, <2>1, <2>2 DEF AtRising, AtFed, AtFollows, AtCalled, AtChained
  <2>6. AtCallsFor' /\ AtPending'
    BY <1>1, <1>3, <2>1, <2>2, <2>3 DEF AtCallsFor, AtPending
  <2> QED
    BY <2>4, <2>5, <2>6 DEF AtWalking
<1>5. CASE e \notin walk.flags
  <2>1. /\ DOMAIN walk' = DOMAIN walk /\ walk'.calls = Tail(walk.calls)
        /\ walk'.edges = walk.edges /\ walk'.queue = walk.queue /\ walk'.async = walk.async
        /\ walk'.flags = walk.flags \cup {e} /\ walk'.cur = e
        /\ walk'.threads = Append(walk.threads, <<e>>)
    BY <1>2, <1>3, <1>5 DEF AtCall, AtHasThread
  <2>2. PICK k, l : AtGrows(k, l, e, {})
    BY <1>1, <1>3, <2>1, AtOpened
  <2>3. AtCallPlaces(e, {})
    BY <1>1, <1>3, <1>5 DEF AtCallPlaces, AtCallsFor
  <2> QED
    BY <1>3, <2>1, <2>2, <2>3, AtPlaceKeeps
<1> QED
  BY <1>4, <1>5

\* The only consumer is placed, in the thread or in one of its own.
LEMMA AtFollowKeeps ==
  ASSUME AtWalking, AtFollow
  PROVE  AtWalking'
<1>1. AtTyped /\ AtStands
  BY DEF AtWalking
<1>2. PICK e : e = GetNextEle(walk.cur)[1]
  OBVIOUS
<1>3. walk.cur # 0 /\ walk.cur \in AtEle /\ Len(GetNextEle(walk.cur)) = 1
  BY <1>1 DEF AtFollow, AtTyped
<1>4. e \in AtEle /\ AtConsumers(walk.cur) = {e}
  BY <1>1, <1>2, <1>3, AtNextEle
<1>5. /\ DOMAIN walk' = DOMAIN walk /\ walk'.calls = walk.calls
      /\ walk'.edges = walk.edges /\ walk'.queue = walk.queue /\ walk'.async = walk.async
      /\ walk'.flags = walk.flags \cup {e} /\ walk'.cur = e
      /\ walk'.threads = AtPlaced(walk.threads, e)
  BY <1>1, <1>2 DEF AtFollow, AtTyped, AtPipeline
<1>6. walk.calls \in Seq(AtEle)
  BY <1>1 DEF AtTyped
<1>7. CASE e \in walk.async
  <2>1. PICK k, l : AtGrows(k, l, e, {})
    BY <1>1, <1>4, <1>5, <1>7, AtOpened DEF AtPlaced
  <2>2. AtLoopPlaces(e, {})
    BY <1>3, <1>4 DEF AtLoopPlaces
  <2> QED
    BY <1>4, <1>5, <1>6, <2>1, <2>2, AtPlaceKeeps
<1>8. CASE e \notin walk.async
  <2>1. PICK k, l : AtGrows(k, l, e, {walk.cur})
    BY <1>1, <1>3, <1>4, <1>5, <1>8, AtExtended DEF AtPlaced
  <2>2. AtLoopPlaces(e, {walk.cur})
    BY <1>3, <1>4, <1>8 DEF AtLoopPlaces
  <2> QED
    BY <1>4, <1>5, <1>6, <2>1, <2>2, AtPlaceKeeps
<1> QED
  BY <1>7, <1>8

\* Calls for all of several consumers, or none.
LEMMA AtBranchKeeps ==
  ASSUME AtWalking, AtBranch
  PROVE  AtWalking'
<1>1. AtTyped /\ AtStands /\ AtFlagged /\ AtRising /\ AtCallsFor /\ AtPending /\ AtFed
      /\ AtFollows /\ AtCalled /\ AtChained
  BY DEF AtWalking
<1>2. PICK n : n = GetNextEle(walk.cur)
  OBVIOUS
<1>3. walk.cur # 0 /\ walk.cur \in AtEle /\ Len(n) # 1 /\ AtSomewhere(walk.cur)
  BY <1>1, <1>2, AtStandsSomewhere DEF AtBranch, AtTyped
<1>4. /\ n \in Seq(AtEle) /\ Range(n) = AtConsumers(walk.cur)
      /\ \A e \in AtEle : AtConsumers(walk.cur) # {e}
  BY <1>1, <1>2, <1>3, AtNextEle
<1>5. /\ DOMAIN walk' = DOMAIN walk /\ walk'.calls = n \o walk.calls
      /\ walk'.edges = walk.edges /\ walk'.queue = walk.queue /\ walk'.async = walk.async
      /\ walk'.flags = walk.flags /\ walk'.threads = walk.threads /\ walk'.cur = 0
  BY <1>1, <1>2 DEF AtBranch, AtTyped, AtPipeline
<1>6. /\ walk'.calls \in Seq(AtEle)
      /\ Range(walk'.calls) = AtConsumers(walk.cur) \cup Range(walk.calls)
  BY <1>1, <1>4, <1>5, RangeConcat DEF AtTyped
<1>7. /\ \A p : AtConsumers(p)' = AtConsumers(p) /\ AtProducers(p)' = AtProducers(p)
      /\ \A i, j, x : AtHolds(i, j, x)' <=> AtHolds(i, j, x)
      /\ \A x : AtSomewhere(x)' <=> AtSomewhere(x)
      /\ \A x : AtOneAtMost(x)' <=> AtOneAtMost(x)
  BY <1>5 DEF AtConsumers, AtProducers, AtHolds, AtSomewhere, AtOneAtMost
<1>8. AtTyped' /\ AtStands' /\ AtFlagged'
  BY <1>1, <1>5, <1>6, <1>7 DEF AtTyped, AtPipeline, AtStands, AtFlagged
<1>9. AtRising' /\ AtFed' /\ AtCalled' /\ AtChained'
  <2>1. AtRising' /\ AtFed' /\ AtCalled'
    BY <1>1, <1>7 DEF AtRising, AtFed, AtCalled
  <2>2. AtChained'
    BY <1>1, <1>5, <1>7 DEF AtChained
  <2> QED
    BY <2>1, <2>2
<1>10. AtFollows'
  <2>1. 0 \notin AtEle
    BY AtElementsAssumption DEF AtEle
  <2> QED
    BY <1>1, <1>5, <1>7, <2>1 DEF AtFollows
<1>11. AtCallsFor'
  <2>1. ASSUME NEW c \in AtConsumers(walk.cur)
        PROVE  walk.cur \in AtProducers(c) /\ AtConsumers(walk.cur) # {c}
    BY <1>3, <1>4 DEF AtConsumers, AtProducers
  <2> QED
    BY <1>1, <1>3, <1>6, <1>7, <2>1 DEF AtCallsFor
<1>12. AtPending'
  <2>1. ASSUME NEW p \in AtEle, AtSomewhere(p), NEW e \in AtConsumers(p)
        PROVE  AtSomewhere(e) \/ e \in Range(walk'.calls)
    <3>1. CASE p = walk.cur
      BY <1>6, <2>1, <3>1
    <3>2. CASE p # walk.cur
      BY <1>1, <1>6, <2>1, <3>2 DEF AtPending
    <3> QED
      BY <3>1, <3>2
  <2>2. AtSomewhere(AtEntry) \/ AtEntry \in Range(walk'.calls)
    BY <1>1, <1>6 DEF AtPending
  <2> QED
    BY <1>7, <2>1, <2>2 DEF AtPending
<1> QED
  BY <1>8, <1>9, <1>10, <1>11, <1>12 DEF AtWalking

\* The places of an element, counted.
LEMMA AtPlacesCount ==
  ASSUME AtTyped, AtRising, NEW e \in AtEle
  PROVE  /\ AtPlaces(e) # {} <=> AtSomewhere(e)
         /\ Cardinality(AtPlaces(e)) <= 1 <=> AtOneAtMost(e)
<1> DEFINE P == AtPlaces(e)
<1>1. PICK n \in Nat : DOMAIN walk.threads = 1..n
  BY DEF AtTyped
<1>2. \A i, j : <<i, j>> \in P <=> AtHolds(i, j, e)
  <2>1. ASSUME NEW i, NEW j, AtHolds(i, j, e) PROVE j \in AtEle
    <3>1. i \in DOMAIN walk.threads /\ j \in DOMAIN walk.threads[i]
      BY <2>1 DEF AtHolds
    <3>2. walk.threads[i] \in Seq(AtEle)
      BY <3>1, ElementOfSeq DEF AtTyped
    <3>3. j \in Nat /\ j >= 1
      BY <3>1, <3>2
    <3>4. j <= e /\ e \in Nat /\ e <= AtElements
      BY <2>1, AtElementsAssumption DEF AtRising, AtEle
    <3> QED
      BY <3>3, <3>4, AtElementsAssumption DEF AtEle
  <2> QED
    BY <2>1 DEF AtPlaces, AtHolds
<1>3. P \subseteq (1..n) \X AtEle
  BY <1>1 DEF AtPlaces
<1>4. \A p \in P : \E i, j : p = <<i, j>>
  BY <1>3
<1>5. IsFiniteSet(P)
  <2>1. IsFiniteSet(1..n) /\ IsFiniteSet(AtEle)
    BY AtElementsAssumption, FS_Interval DEF AtEle
  <2>2. IsFiniteSet((1..n) \X AtEle)
    BY <2>1, FS_Product
  <2> QED
    BY <1>3, <2>2, FS_Subset
<1> HIDE DEF P
<1>6. P # {} <=> AtSomewhere(e)
  BY <1>2, <1>4 DEF AtSomewhere
<1>7. Cardinality(P) <= 1 <=> \A x, y \in P : x = y
  <2>1. ASSUME Cardinality(P) <= 1, NEW x \in P, NEW y \in P PROVE x = y
    <3>1. Cardinality(P) = 0 => P = {}
      BY <1>5, FS_EmptySet
    <3>2. Cardinality(P) \in Nat
      BY <1>5, FS_CardinalityType
    <3>3. Cardinality(P) = 1
      BY <2>1, <3>1, <3>2
    <3>4. PICK z : P = {z}
      BY <1>5, <3>3, FS_Singleton
    <3> QED
      BY <2>1, <3>4
  <2>2. ASSUME \A x, y \in P : x = y PROVE Cardinality(P) <= 1
    <3>1. CASE P = {}
      BY <3>1, FS_EmptySet
    <3>2. CASE P # {}
      <4>1. PICK z : P = {z}
        BY <2>2, <3>2
      <4>2. Cardinality(P) = 1
        BY <4>1, FS_Singleton
      <4> QED
        BY <4>2
    <3> QED
      BY <3>1, <3>2
  <2> QED
    BY <2>1, <2>2
<1>8. (\A x, y \in P : x = y) <=> AtOneAtMost(e)
  <2>1. ASSUME \A x, y \in P : x = y PROVE AtOneAtMost(e)
    <3> SUFFICES ASSUME NEW i, NEW j, NEW k, NEW l, AtHolds(i, j, e), AtHolds(k, l, e)
                 PROVE  i = k /\ j = l
      BY DEF AtOneAtMost
    <3>1. <<i, j>> = <<k, l>>
      BY <1>2, <2>1
    <3> QED
      BY <3>1
  <2>2. ASSUME AtOneAtMost(e), NEW x \in P, NEW y \in P PROVE x = y
    <3>1. PICK i, j : x = <<i, j>>
      BY <1>4
    <3>2. PICK k, l : y = <<k, l>>
      BY <1>4
    <3>3. AtHolds(i, j, e) /\ AtHolds(k, l, e)
      BY <1>2, <2>2, <3>1, <3>2
    <3> QED
      BY <2>2, <3>1, <3>2, <3>3 DEF AtOneAtMost
  <2> QED
    BY <2>1, <2>2
<1> QED
  BY <1>6, <1>7, <1>8 DEF P

\* Nothing to walk over, nothing to do.
LEMMA AtOffKeeps ==
  ASSUME AtOff, [AtNext]_walk
  PROVE  AtOff'
<1>1. walk' = walk
  BY DEF AtOff, AtNext, AtCall, AtFollow, AtBranch
<1> QED
  BY <1>1 DEF AtOff, AtPipeline

\* The invariant holds for as long as the walk lasts.
LEMMA AtWalkingKeeps ==
  ASSUME AtWalking, [AtNext]_walk
  PROVE  AtWalking'
<1>1. CASE walk' = walk
  <2>1. /\ \A p : AtConsumers(p)' = AtConsumers(p) /\ AtProducers(p)' = AtProducers(p)
        /\ \A i, j, x : AtHolds(i, j, x)' <=> AtHolds(i, j, x)
        /\ \A x : AtSomewhere(x)' <=> AtSomewhere(x)
        /\ \A x : AtOneAtMost(x)' <=> AtOneAtMost(x)
    BY <1>1 DEF AtConsumers, AtProducers, AtHolds, AtSomewhere, AtOneAtMost
  <2>2. AtTyped /\ AtStands /\ AtFlagged /\ AtRising /\ AtCallsFor /\ AtPending /\ AtFed
        /\ AtFollows /\ AtCalled /\ AtChained
    BY DEF AtWalking
  <2>3. AtTyped' /\ AtStands' /\ AtFlagged' /\ AtRising'
    BY <1>1, <2>1, <2>2 DEF AtTyped, AtPipeline, AtStands, AtFlagged, AtRising
  <2>4. AtCallsFor' /\ AtPending' /\ AtFed' /\ AtFollows' /\ AtCalled'
    BY <1>1, <2>1, <2>2 DEF AtCallsFor, AtPending, AtFed, AtFollows, AtCalled
  <2>5. AtChained'
    BY <1>1, <2>1, <2>2 DEF AtChained
  <2> QED
    BY <2>3, <2>4, <2>5 DEF AtWalking
<1> QED
  BY <1>1, AtCallKeeps, AtFollowKeeps, AtBranchKeeps DEF AtNext

\* What holds when the walk is over.
LEMMA AtWalkingIsRight ==
  ASSUME AtWalking
  PROVE  AtThreadsRight
<1>1. AtTyped /\ AtStands /\ AtFlagged /\ AtRising /\ AtCallsFor /\ AtPending /\ AtFed
      /\ AtFollows /\ AtCalled /\ AtChained
  BY DEF AtWalking
<1>2. \A e \in AtEle : /\ AtPlaces(e) # {} <=> AtSomewhere(e)
                       /\ Cardinality(AtPlaces(e)) <= 1 <=> AtOneAtMost(e)
  BY <1>1, AtPlacesCount
<1>3. AtThreadsAreChains
  <2> SUFFICES ASSUME NEW i \in DOMAIN walk.threads, NEW j \in 2..Len(walk.threads[i])
               PROVE  /\ AtConsumers(walk.threads[i][j - 1]) = {walk.threads[i][j]}
                      /\ walk.threads[i][j] \notin walk.async
    BY DEF AtThreadsAreChains
  <2>1. PICK t : t = walk.threads[i]
    OBVIOUS
  <2>2. t \in Seq(AtEle)
    BY <1>1, <2>1, ElementOfSeq DEF AtTyped
  <2>3. j - 1 \in DOMAIN t /\ j \in DOMAIN t /\ (j - 1) + 1 = j
    BY <2>1, <2>2
  <2>4. PICK k : k = j - 1
    OBVIOUS
  <2>5. PICK p : p = t[k]
    OBVIOUS
  <2>6. PICK e : e = t[j]
    OBVIOUS
  <2>7. AtHolds(i, k, p) /\ AtHolds(i, k + 1, e)
    BY <2>1, <2>3, <2>4, <2>5, <2>6 DEF AtHolds
  <2>8. AtConsumers(p) = {e} /\ e \notin walk.async
    BY <1>1, <2>7 DEF AtChained
  <2> QED
    BY <2>1, <2>4, <2>5, <2>6, <2>8
<1>4. AtEveryElementRuns
  <2> SUFFICES ASSUME AtDone, NEW e \in AtEle
               PROVE  /\ (AtPlaces(e) # {}) <=>
                           (e = AtEntry \/ \E p \in AtProducers(e) : AtPlaces(p) # {})
                      /\ /\ \A p \in AtProducers(e) : Cardinality(AtPlaces(p)) <= 1
                         /\ \/ Cardinality(AtProducers(e)) = 1
                            \/ \A p \in AtProducers(e) : Cardinality(AtConsumers(p)) > 1
                         => Cardinality(AtPlaces(e)) <= 1
    BY DEF AtEveryElementRuns
  <2>1. /\ walk.cur = 0 /\ Range(walk.calls) = {} /\ 0 \notin AtEle /\ AtEntry \in AtEle
        /\ IsFiniteSet(AtEle)
    BY AtElementsAssumption, FS_Interval DEF AtDone, Range, AtEle, AtEntry
  <2>2. /\ \A p : AtProducers(p) \subseteq AtEle /\ AtConsumers(p) \subseteq AtEle
        /\ \A p \in AtEle, x \in AtEle : x \in AtConsumers(p) <=> p \in AtProducers(x)
    BY DEF AtProducers, AtConsumers
  <2>3. AtSomewhere(e) <=> e = AtEntry \/ \E p \in AtProducers(e) : AtSomewhere(p)
    BY <1>1, <2>1, <2>2 DEF AtFed, AtPending
  <2>4. ASSUME \A p \in AtProducers(e) : AtOneAtMost(p),
               \/ Cardinality(AtProducers(e)) = 1
               \/ \A p \in AtProducers(e) : Cardinality(AtConsumers(p)) > 1
        PROVE  AtOneAtMost(e)
    <3>1. CASE \A p \in AtProducers(e) : AtConsumers(p) # {e}
      BY <1>1, <3>1 DEF AtCalled
    <3>2. ASSUME NEW p \in AtProducers(e), AtConsumers(p) = {e} PROVE AtOneAtMost(e)
      <4>1. Cardinality(AtConsumers(p)) = 1
        BY <3>2, FS_Singleton
      <4>2. Cardinality(AtProducers(e)) = 1
        BY <2>4, <4>1
      <4>3. IsFiniteSet(AtProducers(e))
        BY <2>1, <2>2, FS_Subset
      <4>4. AtProducers(e) = {p}
        BY <4>2, <4>3, FS_Singleton
      <4> QED
        BY <1>1, <2>2, <2>4, <3>2, <4>4 DEF AtFollows
    <3> QED
      BY <3>1, <3>2
  <2> QED
    BY <1>2, <2>2, <2>3, <2>4
<1> QED
  BY <1>3, <1>4 DEF AtThreadsRight

\* AssignToThreads, for pipelines of every size and every order of the elements
\* in the configuration: the threads hold the elements that get data and no
\* other, those with one producer or with producers that have other consumers
\* too no more often than their producers, and each thread is a chain.
THEOREM AtThreadsRightHolds == AtSpec => []AtThreadsRight
<1>1. (\E on \in BOOLEAN : AtInitial(on)) => AtOff \/ AtWalking
  BY AtInitialHolds
<1>2. (AtOff \/ AtWalking) /\ [AtNext]_walk => (AtOff \/ AtWalking)'
  BY AtOffKeeps, AtWalkingKeeps
<1>3. AtOff \/ AtWalking => AtThreadsRight
  <2>1. AtOff => AtThreadsRight
    BY DEF AtOff, AtThreadsRight, AtEveryElementRuns, AtThreadsAreChains
  <2> QED
    BY <2>1, AtWalkingIsRight
<1> QED
  BY <1>1, <1>2, <1>3, PTL DEF AtSpec

-----------------------------------------------------------------------------
(* What the web page shows: the inductive invariant.                       *)

WcObject == [id : WcId, status : {0, 1}]
WcRow == [id : WcId, status : {0, 1}, load : Nat]
WcDoc == [id : WcId, time : WcTime]

\* What request_obj_status may answer.
WcAnswer(a) ==
  /\ a.total \in Nat
  /\ a.obj \in Seq(WcObject) /\ IdsOnce(a.obj) /\ Len(a.obj) <= WcLimit

WcCallTyped(c) ==
  /\ DOMAIN c = {"n", "kind", "arg", "row", "ans"}
  /\ c.n \in Nat /\ c.arg \in Nat
  /\ c.kind \in {"list", "start", "stop", "del"}
  /\ c.kind # "list" => c.row \in WcRow
  /\ c.ans # <<>> => IF c.kind = "list" THEN WcAnswer(c.ans[1]) ELSE c.ans[1] \in BOOLEAN

WcTyped ==
  /\ DOMAIN wc = {"at", "objs", "page", "count", "table", "calls", "made", "other", "disturbed",
                  "unseen", "docs", "alive", "httpf", "writing", "read", "urls"}
  /\ wc.objs \in Seq(WcObject) /\ IdsOnce(wc.objs)
  /\ wc.count \in Nat /\ wc.made \in Nat /\ wc.page \in Nat \ {0}
  /\ wc.table \in Seq(WcRow) /\ IdsOnce(wc.table) /\ Len(wc.table) <= WcLimit
  /\ \A i, j \in 1..Len(wc.table) : wc.table[i].load = wc.table[j].load
  /\ \A c \in wc.calls : WcCallTyped(c)

\* The master has the object, with this status unless it changed unseen.
WcThere(id, status) ==
  \E i \in 1..Len(wc.objs) :
    wc.objs[i].id = id /\ (id \notin wc.unseen => wc.objs[i].status = status)

WcTableThere == \A i \in 1..Len(wc.table) : WcThere(wc.table[i].id, wc.table[i].status)

\* What a call that was carried out has made true of the rows, or will have when it
\* is applied.
WcAnswerThere(c) ==
  CASE c.kind = "list" ->
         \A i \in 1..Len(c.ans[1].obj) : WcThere(c.ans[1].obj[i].id, c.ans[1].obj[i].status)
    [] c.kind = "start" ->
         c.ans[1] /\ \A i \in 1..Len(wc.table) :
                       WcThere(wc.table[i].id, IF i = c.arg THEN 1 ELSE wc.table[i].status)
    [] c.kind = "stop" ->
         \A i \in 1..Len(wc.table) :
           WcThere(wc.table[i].id, IF i = c.arg /\ c.ans[1] THEN 0 ELSE wc.table[i].status)
    [] c.kind = "del" ->
         c.ans[1] /\ \A i \in 1..Len(wc.table) :
                       i # c.arg => WcThere(wc.table[i].id, wc.table[i].status)

\* The only call of a user who is not disturbed.
WcOnlyCall(c) ==
  /\ c.kind # "list" => c.arg \in 1..Len(wc.table) /\ wc.table[c.arg] = c.row
  /\ IF c.ans = <<>> THEN WcTableThere ELSE WcAnswerThere(c)

WcQuiet ==
  wc.at = "pages" /\ ~wc.disturbed =>
    \/ wc.calls = {} /\ WcTableThere
    \/ \E c : wc.calls = {c} /\ WcOnlyCall(c)

\* The documents of the database.
WcStored == wc.docs \in Seq(WcDoc)

\* At most one url of each slave that has been read.
WcUrlsOfRead ==
  /\ wc.read \in 0..WcSlave
  /\ wc.urls \in Seq(Nat) /\ Once(wc.urls) /\ Len(wc.urls) <= wc.read
  /\ \A i \in 1..Len(wc.urls) : wc.urls[i] <= wc.read

WcInvariant == WcTyped /\ WcQuiet /\ WcStored /\ WcUrlsOfRead

\* GetMObj finds the object with the id, or there is none.
LEMMA WcFound ==
  ASSUME WcTyped, NEW id
  PROVE  \/ WcIndex(id) = 0 /\ \A i \in 1..Len(wc.objs) : wc.objs[i].id # id
         \/ /\ WcIndex(id) \in 1..Len(wc.objs) /\ WcIndex(id) # 0
            /\ wc.objs[WcIndex(id)].id = id
            /\ \A i \in 1..Len(wc.objs) : wc.objs[i].id = id => i = WcIndex(id)
<1> DEFINE I == {i \in 1..Len(wc.objs) : wc.objs[i].id = id}
<1>1. WcIndex(id) = IF I # {} THEN Min(I) ELSE 0
  BY DEF WcIndex, SelectInSeq
<1>2. CASE I = {}
  BY <1>1, <1>2
<1>3. CASE I # {}
  <2>1. I \in SUBSET Nat
    OBVIOUS
  <2>2. Min(I) \in I
    BY <1>3, <2>1, MinOfNumbers
  <2>3. WcIndex(id) \in I /\ WcIndex(id) # 0
    BY <1>1, <1>3, <2>2
  <2> QED
    BY <2>3 DEF WcTyped, IdsOnce
<1> QED
  BY <1>2, <1>3

\* A page of a list, and how it lies in it.
LEMMA WcSliced ==
  ASSUME NEW U, NEW s \in Seq(U), NEW offset \in Nat
  PROVE  /\ WcSlice(s, offset) \in Seq(U) /\ Len(WcSlice(s, offset)) <= WcLimit
         /\ \A i \in 1..Len(WcSlice(s, offset)) :
              offset + i \in 1..Len(s) /\ WcSlice(s, offset)[i] = s[offset + i]
<1>1. PICK n : n = Len(s) /\ n \in Nat
  OBVIOUS
<1>2. PICK L : L = WcLimit /\ L \in Nat
  BY WcAssumption
<1>3. PICK m : m = Min({offset + L, n}) /\ m \in Nat /\ m <= offset + L /\ m <= n
  <2>1. offset + L \in Nat
    BY <1>2
  <2> QED
    BY <1>1, <1>2, <2>1, MinOfTwo
<1>4. PICK k : k = offset + 1
  OBVIOUS
<1>5. PICK t : t = SubSeq(s, k, m)
  OBVIOUS
<1>6. WcSlice(s, offset) = t
  BY <1>1, <1>2, <1>3, <1>4, <1>5 DEF WcSlice
<1>7. /\ t \in Seq(U)
      /\ Len(t) = IF offset + 1 <= m THEN m - (offset + 1) + 1 ELSE 0
      /\ \A i \in 1..(m - (offset + 1) + 1) : t[i] = s[(offset + 1) + i - 1]
  <2>1. k \in Int /\ m \in Int /\ k >= 1
    BY <1>3, <1>4
  <2>2. \A i \in k..m : s[i] \in U
    BY <1>1, <1>3, <2>1, ElementOfSeq
  <2>3. /\ SubSeq(s, k, m) \in Seq(U)
        /\ Len(SubSeq(s, k, m)) = IF k <= m THEN m - k + 1 ELSE 0
        /\ \A i \in 1..(m - k + 1) : SubSeq(s, k, m)[i] = s[k + i - 1]
    BY <2>1, <2>2, SubSeqProperties
  <2> QED
    BY <1>4, <1>5, <2>3
<1>8. Len(t) <= L
  BY <1>2, <1>3, <1>7
<1>9. ASSUME NEW i \in 1..Len(t) PROVE offset + i \in 1..n /\ t[i] = s[offset + i]
  <2>1. /\ i \in 1..(m - (offset + 1) + 1) /\ offset + i \in 1..n
        /\ (offset + 1) + i - 1 = offset + i
    BY <1>1, <1>3, <1>7
  <2> QED
    BY <1>7, <2>1
<1> QED
  BY <1>1, <1>2, <1>6, <1>7, <1>8, <1>9

\* The answer of request_obj_status shows objects of the master, as they are.
LEMMA WcAnswers ==
  ASSUME WcTyped, NEW type, NEW offset \in Nat, NEW a, a = WcObjStatus(type, offset)
  PROVE  /\ WcAnswer(a)
         /\ \A i \in 1..Len(a.obj) : \E k \in 1..Len(wc.objs) : wc.objs[k] = a.obj[i]
<1>1. wc.objs \in Seq(WcObject) /\ IdsOnce(wc.objs)
  BY DEF WcTyped
<1>2. PICK t : t = WcSlice(wc.objs, offset)
  OBVIOUS
<1>3. /\ t \in Seq(WcObject) /\ Len(t) <= WcLimit
      /\ \A i \in 1..Len(t) : offset + i \in 1..Len(wc.objs) /\ t[i] = wc.objs[offset + i]
  BY <1>1, <1>2, WcSliced
<1>4. IdsOnce(t)
  <2> SUFFICES ASSUME NEW i \in 1..Len(t), NEW j \in 1..Len(t), t[i].id = t[j].id PROVE i = j
    BY DEF IdsOnce
  <2>1. offset + i = offset + j
    BY <1>1, <1>3 DEF IdsOnce
  <2> QED
    BY <1>3, <2>1
<1>5. PICK S : S = WcOfType(type)
  OBVIOUS
<1>6. PICK k : k = Kept(t, S)
  OBVIOUS
<1>7. a.obj = k /\ a.total = Len(wc.objs)
  BY <1>2, <1>5, <1>6 DEF WcObjStatus
<1>8. k \in Seq(WcObject) /\ Range(k) = Range(t) \cap S /\ IdsOnce(k) /\ Len(k) <= Len(t)
  BY <1>3, <1>4, <1>6, KeptIsSeq, KeptIdsOnce
<1>9. WcAnswer(a)
  BY <1>1, <1>3, <1>7, <1>8, WcAssumption DEF WcAnswer
<1>10. ASSUME NEW i \in 1..Len(k) PROVE \E l \in 1..Len(wc.objs) : wc.objs[l] = k[i]
  <2>1. k[i] \in Range(t)
    <3>1. i \in DOMAIN k
      BY <1>8
    <3>2. k[i] \in Range(k)
      BY <3>1 DEF Range
    <3> QED
      BY <1>8, <3>2
  <2>2. PICK j \in 1..Len(t) : t[j] = k[i]
    BY <1>3, <2>1 DEF Range
  <2>3. offset + j \in 1..Len(wc.objs) /\ wc.objs[offset + j] = k[i]
    BY <1>3, <2>2
  <2> QED
    BY <2>3
<1> QED
  BY <1>7, <1>9, <1>10

\* Nothing is shown at first.
LEMMA WcInitialHolds ==
  ASSUME NEW on, WcInitial(on)
  PROVE  WcInvariant
<1>1. PICK c : c = [n |-> 1, kind |-> "list", arg |-> 0, row |-> <<>>, ans |-> <<>>]
  OBVIOUS
<1>2. /\ DOMAIN wc = {"at", "objs", "page", "count", "table", "calls", "made", "other",
                      "disturbed", "unseen", "docs", "alive", "httpf", "writing", "read", "urls"}
      /\ wc.objs = <<>> /\ wc.count = 0 /\ wc.made = 1 /\ wc.page = 1 /\ wc.table = <<>>
      /\ wc.calls = {c}
      /\ wc.disturbed = FALSE /\ wc.docs = <<>> /\ wc.read = 0 /\ wc.urls = <<>>
  BY <1>1 DEF WcInitial
<1>3. WcCallTyped(c) /\ c.ans = <<>> /\ c.kind = "list"
  BY <1>1 DEF WcCallTyped
<1>4. WcTyped
  BY <1>2, <1>3, WcAssumption DEF WcTyped, IdsOnce
<1>5. WcQuiet
  BY <1>2, <1>3 DEF WcQuiet, WcOnlyCall, WcTableThere
<1>6. WcStored /\ WcUrlsOfRead
  BY <1>2, WcAssumption DEF WcStored, WcUrlsOfRead, Once
<1> QED
  BY <1>4, <1>5, <1>6 DEF WcInvariant

\* A call is made: the user has seen the table as it is now.
LEMMA WcCallKeeps ==
  ASSUME WcInvariant, NEW kind, NEW arg \in Nat, NEW row, WcCall(kind, arg, row),
         kind = "list" \/ /\ kind \in {"start", "stop", "del"}
                          /\ arg \in 1..Len(wc.table) /\ row = wc.table[arg]
  PROVE  WcInvariant'
<1> USE DEF WcInvariant
<1>1. PICK c : c = [n |-> wc.made + 1, kind |-> kind, arg |-> arg, row |-> row, ans |-> <<>>]
  OBVIOUS
<1>2. /\ c.n = wc.made + 1 /\ c.kind = kind /\ c.arg = arg /\ c.row = row /\ c.ans = <<>>
      /\ DOMAIN c = {"n", "kind", "arg", "row", "ans"}
  BY <1>1
<1>3. /\ DOMAIN wc' = DOMAIN wc /\ wc'.at = wc.at /\ wc'.made = wc.made + 1
      /\ wc'.disturbed = (wc.disturbed \/ wc.calls # {}) /\ wc'.calls = wc.calls \cup {c}
      /\ wc'.objs = wc.objs /\ wc'.count = wc.count /\ wc'.table = wc.table
      /\ wc'.docs = wc.docs /\ wc'.read = wc.read /\ wc'.urls = wc.urls
      /\ wc'.unseen = wc.unseen
      /\ wc'.page = IF kind = "list" THEN arg \div WcLimit + 1 ELSE wc.page
  BY <1>1 DEF WcCall, WcTyped
<1>a. wc'.page \in Nat \ {0}
  <2>1. arg \div WcLimit \in Nat
    <3>1. PICK L \in Nat \ {0} : L = WcLimit
      BY WcAssumption
    <3>2. arg \div L \in Nat
      OBVIOUS
    <3> QED
      BY <3>1, <3>2
  <2>2. PICK q \in Nat : q = arg \div WcLimit
    BY <2>1
  <2> QED
    BY <1>3, <2>2 DEF WcTyped
<1>4. WcCallTyped(c)
  <2>1. kind # "list" => row \in WcRow
    BY ElementOfSeq DEF WcTyped
  <2> QED
    BY <1>2, <2>1 DEF WcCallTyped, WcTyped
<1>5. WcTyped'
  <2>1. \A d : WcCallTyped(d)' <=> WcCallTyped(d)
    BY DEF WcCallTyped, WcAnswer
  <2> QED
    BY <1>3, <1>4, <1>a, <2>1 DEF WcTyped
<1>6. WcQuiet'
  <2> SUFFICES ASSUME wc.at = "pages", ~wc.disturbed, wc.calls = {}
               PROVE  wc'.calls = {c} /\ WcOnlyCall(c)'
    BY <1>3 DEF WcQuiet
  <2>1. WcTableThere
    BY DEF WcQuiet
  <2>2. WcTableThere'
    BY <1>3, <2>1 DEF WcTableThere, WcThere
  <2> QED
    BY <1>2, <1>3, <2>2 DEF WcOnlyCall
<1>7. WcStored' /\ WcUrlsOfRead'
  BY <1>3 DEF WcStored, WcUrlsOfRead, Once
<1> QED
  BY <1>5, <1>6, <1>7

\* The objects, after the status of one was set.
WcSetAt(objs, at, v) == [objs EXCEPT ![at].status = v]

WcStatusSetTo(new, objs, at, v) ==
  /\ new \in Seq(WcObject) /\ IdsOnce(new) /\ Len(new) = Len(objs)
  /\ \A i \in 1..Len(objs) :
       /\ new[i].id = objs[i].id
       /\ new[i].status = IF i = at THEN v ELSE objs[i].status

LEMMA WcStatusSet ==
  ASSUME NEW objs \in Seq(WcObject), IdsOnce(objs), NEW at \in 1..Len(objs), NEW v \in {0, 1},
         NEW new, new = WcSetAt(objs, at, v)
  PROVE  WcStatusSetTo(new, objs, at, v)
<1>1. PICK n : n = Len(objs) /\ n \in Nat
  OBVIOUS
<1>2. PICK o : o = objs[at]
  OBVIOUS
<1>3. o \in WcObject
  BY <1>2, ElementOfSeq
<1>4. PICK p : p = [o EXCEPT !.status = v]
  OBVIOUS
<1>5. p \in WcObject /\ p.id = o.id /\ p.status = v
  BY <1>3, <1>4 DEF WcObject
<1>6. new = [objs EXCEPT ![at] = p]
  BY <1>2, <1>4 DEF WcSetAt
<1>7. objs \in [1..n -> WcObject]
  BY <1>1
<1>8. new \in [1..n -> WcObject] /\ \A i \in 1..n : new[i] = IF i = at THEN p ELSE objs[i]
  BY <1>1, <1>5, <1>6, <1>7
<1>9. new \in Seq(WcObject) /\ Len(new) = n
  BY <1>1, <1>8
<1>10. \A i \in 1..n : /\ new[i].id = objs[i].id
                       /\ new[i].status = IF i = at THEN v ELSE objs[i].status
  BY <1>2, <1>5, <1>8
<1>11. IdsOnce(new)
  BY <1>1, <1>9, <1>10 DEF IdsOnce
<1> QED
  BY <1>1, <1>9, <1>10, <1>11 DEF WcStatusSetTo

\* One element was taken out, and no other.
WcWithout(U, new, s, at) ==
  /\ new \in Seq(U) /\ IdsOnce(new) /\ Len(new) = Len(s) - 1
  /\ \A i \in 1..Len(new) : \E j \in 1..Len(s) : j # at /\ new[i] = s[j]
  /\ \A j \in 1..Len(s) : j # at => \E i \in 1..Len(new) : new[i] = s[j]

\* The rows or objects, after one was taken out.
LEMMA WcTakenOut ==
  ASSUME NEW U, NEW s \in Seq(U), IdsOnce(s), NEW at \in 1..Len(s),
         NEW new, new = RemoveAt(s, at)
  PROVE  WcWithout(U, new, s, at)
<1>1. PICK n : n = Len(s) /\ n \in Nat
  OBVIOUS
<1>2. /\ new \in Seq(U) /\ Len(new) = n - 1
      /\ \A i \in 1..(n - 1) : new[i] = IF i < at THEN s[i] ELSE s[i + 1]
  BY <1>1, RemovedAt
<1>3. at \in 1..n
  BY <1>1
<1>4. ASSUME NEW i \in 1..(n - 1)
      PROVE  \E j \in 1..n : j # at /\ new[i] = s[j] /\ j = IF i < at THEN i ELSE i + 1
  <2>1. CASE i < at
    <3>1. i \in 1..n /\ i # at
      BY <1>1, <1>3, <2>1
    <3> QED
      BY <1>2, <2>1, <3>1
  <2>2. CASE ~(i < at)
    <3>1. i + 1 \in 1..n /\ i + 1 # at
      BY <1>1, <1>3, <2>2
    <3> QED
      BY <1>2, <2>2, <3>1
  <2> QED
    BY <2>1, <2>2
<1>5. ASSUME NEW j \in 1..n, j # at PROVE \E i \in 1..(n - 1) : new[i] = s[j]
  <2>1. CASE j < at
    <3>1. j \in 1..(n - 1)
      BY <1>1, <1>3, <2>1
    <3> QED
      BY <1>2, <2>1, <3>1
  <2>2. CASE j > at
    <3>1. j - 1 \in 1..(n - 1) /\ ~(j - 1 < at) /\ (j - 1) + 1 = j
      BY <1>1, <1>3, <2>2
    <3>2. new[j - 1] = s[j]
      BY <1>2, <3>1
    <3> QED
      BY <3>1, <3>2
  <2> QED
    BY <1>3, <1>5, <2>1, <2>2
<1>6. IdsOnce(new)
  <2> SUFFICES ASSUME NEW i \in 1..(n - 1), NEW j \in 1..(n - 1), new[i].id = new[j].id PROVE i = j
    BY <1>2 DEF IdsOnce
  <2>1. PICK k \in 1..n : new[i] = s[k] /\ k = IF i < at THEN i ELSE i + 1
    BY <1>4
  <2>2. PICK l \in 1..n : new[j] = s[l] /\ l = IF j < at THEN j ELSE j + 1
    BY <1>4
  <2>3. k = l
    BY <1>1, <2>1, <2>2 DEF IdsOnce
  <2> QED
    BY <1>3, <2>1, <2>2, <2>3
<1> QED
  BY <1>1, <1>2, <1>4, <1>5, <1>6 DEF WcWithout

\* The call is answered, and nothing else but the objects changes.
WcReplied(c, d, x) ==
  /\ d = [c EXCEPT !.ans = <<x>>]
  /\ DOMAIN wc' = DOMAIN wc /\ wc'.at = wc.at /\ wc'.made = wc.made /\ wc'.page = wc.page
  /\ wc'.disturbed = wc.disturbed /\ wc'.calls = (wc.calls \ {c}) \cup {d}
  /\ wc'.count = wc.count /\ wc'.table = wc.table
  /\ wc'.docs = wc.docs /\ wc'.read = wc.read /\ wc'.urls = wc.urls

LEMMA WcRepliedCall ==
  ASSUME NEW c, WcCallTyped(c), NEW x, NEW d, d = [c EXCEPT !.ans = <<x>>]
  PROVE  /\ d.n = c.n /\ d.kind = c.kind /\ d.arg = c.arg /\ d.row = c.row /\ d.ans = <<x>>
         /\ d.ans # <<>> /\ d.ans[1] = x /\ DOMAIN d = DOMAIN c
  BY DEF WcCallTyped

\* What has to be shown of an answer.
LEMMA WcRepliedKeeps ==
  ASSUME WcInvariant, NEW c \in wc.calls, wc.at = "pages", NEW x, NEW d, WcReplied(c, d, x),
         wc'.objs \in Seq(WcObject), IdsOnce(wc'.objs),
         IF c.kind = "list" THEN WcAnswer(x) ELSE x \in BOOLEAN,
         ~wc.disturbed => WcAnswerThere(d)'
  PROVE  WcInvariant'
<1> USE DEF WcInvariant
<1>1. WcCallTyped(c)
  BY DEF WcTyped
<1>2. /\ d.n = c.n /\ d.kind = c.kind /\ d.arg = c.arg /\ d.row = c.row /\ d.ans = <<x>>
      /\ d.ans # <<>> /\ d.ans[1] = x /\ DOMAIN d = DOMAIN c
  BY <1>1, WcRepliedCall DEF WcReplied
<1>3. WcCallTyped(d)
  BY <1>1, <1>2 DEF WcCallTyped
<1>4. WcTyped'
  <2>1. \A y : WcCallTyped(y)' <=> WcCallTyped(y)
    BY DEF WcCallTyped, WcAnswer
  <2>2. \A y \in wc.calls : WcCallTyped(y)
    BY DEF WcTyped
  <2>3. \A y \in wc'.calls : WcCallTyped(y)'
    BY <1>3, <2>1, <2>2 DEF WcReplied
  <2> QED
    BY <2>3 DEF WcReplied, WcTyped
<1>5. WcQuiet'
  <2> SUFFICES ASSUME ~wc.disturbed PROVE wc'.calls = {d} /\ WcOnlyCall(d)'
    BY DEF WcQuiet, WcReplied
  <2>1. wc.calls = {c} /\ WcOnlyCall(c)
    BY DEF WcQuiet
  <2> QED
    BY <1>2, <2>1 DEF WcOnlyCall, WcReplied
<1> QED
  BY <1>4, <1>5 DEF WcStored, WcUrlsOfRead, Once, WcReplied

\* The only call of a user who is not disturbed names a row, and an object that is there.
LEMMA WcClicked ==
  ASSUME WcInvariant, NEW c \in wc.calls, wc.at = "pages", ~wc.disturbed, c.ans = <<>>,
         c.kind # "list", NEW at, at = WcIndex(c.row.id)
  PROVE  /\ c.arg \in 1..Len(wc.table) /\ at \in 1..Len(wc.objs) /\ wc.objs[at].id = c.row.id
         /\ \A i \in 1..Len(wc.table) :
              /\ i = c.arg <=> wc.table[i].id = c.row.id
              /\ \E k \in 1..Len(wc.objs) :
                   /\ wc.objs[k].id = wc.table[i].id
                   /\ wc.table[i].id \notin wc.unseen => wc.objs[k].status = wc.table[i].status
                   /\ k = at <=> i = c.arg
<1> USE DEF WcInvariant
<1>1. wc.calls = {c} /\ WcOnlyCall(c)
  BY DEF WcQuiet
<1>2. c.arg \in 1..Len(wc.table) /\ wc.table[c.arg] = c.row /\ WcTableThere
  BY <1>1 DEF WcOnlyCall
<1>3. at \in 1..Len(wc.objs) /\ wc.objs[at].id = c.row.id
  <2>1. \E i \in 1..Len(wc.objs) : wc.objs[i].id = c.row.id
    BY <1>2 DEF WcTableThere, WcThere
  <2> QED
    BY <2>1, WcFound
<1>4. ASSUME NEW i \in 1..Len(wc.table)
      PROVE  /\ i = c.arg <=> wc.table[i].id = c.row.id
             /\ \E k \in 1..Len(wc.objs) :
                  /\ wc.objs[k].id = wc.table[i].id
                  /\ wc.table[i].id \notin wc.unseen => wc.objs[k].status = wc.table[i].status
                  /\ k = at <=> i = c.arg
  <2>1. i = c.arg <=> wc.table[i].id = c.row.id
    BY <1>2 DEF WcTyped, IdsOnce
  <2>2. PICK k \in 1..Len(wc.objs) :
               /\ wc.objs[k].id = wc.table[i].id
               /\ wc.table[i].id \notin wc.unseen => wc.objs[k].status = wc.table[i].status
    BY <1>2 DEF WcTableThere, WcThere
  <2>3. k = at <=> i = c.arg
    BY <1>3, <2>1, <2>2 DEF WcTyped, IdsOnce
  <2> QED
    BY <2>1, <2>2, <2>3
<1> QED
  BY <1>2, <1>3, <1>4

\* A page is answered: what it shows is what the master has.
LEMMA WcListedKeeps ==
  ASSUME WcInvariant, NEW c \in wc.calls, wc.at = "pages", c.ans = <<>>, WcListed(c)
  PROVE  WcInvariant'
<1>1. PICK x : x = WcObjStatus("rtsp", c.arg)
  OBVIOUS
<1>2. PICK d : d = [c EXCEPT !.ans = <<x>>]
  OBVIOUS
<1>3. WcTyped /\ WcCallTyped(c)
  BY DEF WcInvariant, WcTyped
<1>4. WcReplied(c, d, x) /\ wc'.objs = wc.objs /\ wc'.unseen = {} /\ c.kind = "list"
  BY <1>1, <1>2, <1>3 DEF WcListed, WcReply, WcReplied, WcTyped
<1>5. WcAnswer(x) /\ \A i \in 1..Len(x.obj) : \E k \in 1..Len(wc.objs) : wc.objs[k] = x.obj[i]
  <2>1. c.arg \in Nat
    BY <1>3 DEF WcCallTyped
  <2> QED
    BY <1>1, <1>3, <2>1, WcAnswers
<1>6. d.kind = "list" /\ d.ans[1] = x
  BY <1>2, <1>3, <1>4, WcRepliedCall
<1>7. WcAnswerThere(d)'
  <2>1. ASSUME NEW i \in 1..Len(x.obj) PROVE WcThere(x.obj[i].id, x.obj[i].status)'
    <3>1. PICK k \in 1..Len(wc.objs) : wc.objs[k] = x.obj[i]
      BY <1>5
    <3> QED
      BY <1>4, <3>1 DEF WcThere
  <2> QED
    BY <1>6, <2>1 DEF WcAnswerThere
<1>8. wc'.objs \in Seq(WcObject) /\ IdsOnce(wc'.objs)
  BY <1>3, <1>4 DEF WcTyped
<1> QED
  BY <1>4, <1>5, <1>7, <1>8, WcRepliedKeeps

\* A start or a stop is answered with success, for an object that is there: the row of the
\* click will show w, which is the status or goes unseen.
LEMMA WcStatusKeeps ==
  ASSUME WcInvariant, NEW c \in wc.calls, wc.at = "pages", c.ans = <<>>,
         NEW at, at = WcIndex(c.row.id), at # 0, NEW v \in {0, 1}, NEW w \in {0, 1},
         c.kind = IF w = 1 THEN "start" ELSE "stop",
         NEW d, WcReplied(c, d, TRUE), wc'.objs = [wc.objs EXCEPT ![at].status = v],
         \/ wc'.unseen = wc.unseen \ {c.row.id} /\ v = w
         \/ wc'.unseen = wc.unseen \cup {c.row.id}
  PROVE  WcInvariant'
<1>1. WcTyped /\ WcCallTyped(c)
  BY DEF WcInvariant, WcTyped
<1>2. /\ wc.objs \in Seq(WcObject) /\ IdsOnce(wc.objs) /\ Len(wc.objs) \in Nat
      /\ at \in 1..Len(wc.objs)
  BY <1>1, WcFound DEF WcTyped
<1>3. /\ wc'.objs \in Seq(WcObject) /\ IdsOnce(wc'.objs) /\ Len(wc'.objs) = Len(wc.objs)
      /\ \A i \in 1..Len(wc.objs) :
           /\ wc'.objs[i].id = wc.objs[i].id
           /\ wc'.objs[i].status = IF i = at THEN v ELSE wc.objs[i].status
  <2>1. PICK s, new : s = wc.objs /\ new = wc'.objs
    OBVIOUS
  <2>2. s \in Seq(WcObject) /\ IdsOnce(s) /\ at \in 1..Len(s) /\ new = WcSetAt(s, at, v)
    BY <1>2, <2>1 DEF WcSetAt
  <2>3. WcStatusSetTo(new, s, at, v)
    BY <2>2, WcStatusSet
  <2> QED
    BY <2>1, <2>3 DEF WcStatusSetTo
<1>4. c.kind # "list" /\ d.kind = c.kind /\ d.arg = c.arg /\ d.ans[1] = TRUE
  BY <1>1, WcRepliedCall DEF WcReplied
<1>t. PICK t : t = wc.table
  OBVIOUS
<1>5. ASSUME ~wc.disturbed, NEW i \in 1..Len(t)
      PROVE  WcThere(t[i].id, IF i = c.arg THEN w ELSE t[i].status)'
  <2>1. PICK z : z = t[i].id
    OBVIOUS
  <2>2. PICK k \in 1..Len(wc.objs) : /\ wc.objs[k].id = z
                                     /\ z \notin wc.unseen => wc.objs[k].status = t[i].status
                                     /\ k = at <=> i = c.arg
    BY <1>4, <1>5, <1>t, <2>1, WcClicked
  <2>3. i = c.arg <=> z = c.row.id
    BY <1>4, <1>5, <1>t, <2>1, WcClicked
  <2>4. z \notin wc'.unseen => wc'.objs[k].status = IF i = c.arg THEN w ELSE t[i].status
    BY <1>3, <2>2, <2>3
  <2>5. k \in 1..Len(wc'.objs) /\ wc'.objs[k].id = z
    BY <1>3, <2>2
  <2> QED
    BY <2>1, <2>4, <2>5 DEF WcThere
<1>6. ~wc.disturbed => WcAnswerThere(d)'
  <2> SUFFICES ASSUME ~wc.disturbed PROVE WcAnswerThere(d)'
    OBVIOUS
  <2>1. wc'.table = t
    BY <1>t DEF WcReplied
  <2> QED
    BY <1>4, <1>5, <2>1 DEF WcAnswerThere
<1> QED
  BY <1>3, <1>4, <1>6, WcRepliedKeeps

\* An answer without effect: no page of a user who is not disturbed names an object that
\* is not there.
LEMMA WcNothingKeeps ==
  ASSUME WcInvariant, NEW c \in wc.calls, wc.at = "pages", c.ans = <<>>, NEW x \in BOOLEAN,
         NEW d, WcReplied(c, d, x), wc'.objs = wc.objs, wc'.unseen = wc.unseen,
         \/ c.kind \in {"start", "del"} /\ WcIndex(c.row.id) = 0
         \/ c.kind = "stop" /\ x = FALSE
  PROVE  WcInvariant'
<1>1. WcTyped /\ WcCallTyped(c) /\ WcQuiet
  BY DEF WcInvariant, WcTyped
<1>2. d.kind = c.kind /\ d.arg = c.arg /\ d.ans[1] = x /\ c.kind # "list"
  BY <1>1, WcRepliedCall DEF WcReplied
<1>3. ASSUME ~wc.disturbed PROVE c.kind = "stop"
  <2>1. WcIndex(c.row.id) \in 1..Len(wc.objs)
    BY <1>2, <1>3, WcClicked
  <2> QED
    BY <1>1, <2>1 DEF WcTyped
<1>4. ~wc.disturbed => WcAnswerThere(d)'
  <2> SUFFICES ASSUME ~wc.disturbed PROVE WcAnswerThere(d)'
    OBVIOUS
  <2>1. WcTableThere
    <3>1. wc.calls = {c} /\ WcOnlyCall(c)
      BY <1>1 DEF WcQuiet
    <3> QED
      BY <3>1 DEF WcOnlyCall
  <2>2. PICK t : t = wc.table
    OBVIOUS
  <2>3. wc'.table = t
    BY <2>2 DEF WcReplied
  <2>4. ASSUME NEW i \in 1..Len(t) PROVE WcThere(t[i].id, t[i].status)'
    <3>1. WcThere(t[i].id, t[i].status)
      BY <2>1, <2>2 DEF WcTableThere
    <3> QED
      BY <3>1 DEF WcThere
  <2>5. c.kind = "stop" /\ ~x
    BY <1>3
  <2> QED
    BY <1>2, <2>3, <2>4, <2>5 DEF WcAnswerThere
<1>5. wc'.objs \in Seq(WcObject) /\ IdsOnce(wc'.objs)
  BY <1>1 DEF WcTyped
<1> QED
  BY <1>2, <1>4, <1>5, WcRepliedKeeps

\* An object is deleted: the other rows stay true.
LEMMA WcGoneKeeps ==
  ASSUME WcInvariant, NEW c \in wc.calls, wc.at = "pages", c.ans = <<>>, c.kind = "del",
         NEW at, at = WcIndex(c.row.id), at # 0, NEW d, WcReplied(c, d, TRUE),
         wc'.objs = RemoveAt(wc.objs, at), wc'.unseen = wc.unseen
  PROVE  WcInvariant'
<1>1. WcTyped /\ WcCallTyped(c)
  BY DEF WcInvariant, WcTyped
<1>2. /\ wc.objs \in Seq(WcObject) /\ IdsOnce(wc.objs) /\ at \in 1..Len(wc.objs)
  BY <1>1, WcFound DEF WcTyped
<1>3. /\ wc'.objs \in Seq(WcObject) /\ IdsOnce(wc'.objs)
      /\ \A j \in 1..Len(wc.objs) : j # at =>
           \E i \in 1..Len(wc'.objs) : wc'.objs[i] = wc.objs[j]
  <2>1. PICK s, new : s = wc.objs /\ new = wc'.objs
    OBVIOUS
  <2>2. s \in Seq(WcObject) /\ IdsOnce(s) /\ at \in 1..Len(s) /\ new = RemoveAt(s, at)
    BY <1>2, <2>1
  <2>3. WcWithout(WcObject, new, s, at)
    BY <2>2, WcTakenOut
  <2> QED
    BY <2>1, <2>3 DEF WcWithout
<1>4. d.kind = c.kind /\ d.arg = c.arg /\ d.ans[1] = TRUE
  BY <1>1, WcRepliedCall DEF WcReplied
<1>5. ~wc.disturbed => WcAnswerThere(d)'
  <2> SUFFICES ASSUME ~wc.disturbed PROVE WcAnswerThere(d)'
    OBVIOUS
  <2>1. PICK t : t = wc.table
    OBVIOUS
  <2>a. wc'.table = t
    BY <2>1 DEF WcReplied
  <2>2. ASSUME NEW i \in 1..Len(t), i # c.arg
        PROVE  WcThere(t[i].id, t[i].status)'
    <3>1. PICK k \in 1..Len(wc.objs) :
                 /\ wc.objs[k].id = t[i].id
                 /\ t[i].id \notin wc.unseen => wc.objs[k].status = t[i].status
                 /\ k # at
      BY <2>1, <2>2, WcClicked
    <3>2. PICK l \in 1..Len(wc'.objs) : wc'.objs[l] = wc.objs[k]
      BY <1>3, <3>1
    <3>3. l \in 1..Len(wc'.objs) /\ wc'.objs[l].id = t[i].id
      BY <3>1, <3>2
    <3>4. t[i].id \notin wc'.unseen => wc'.objs[l].status = t[i].status
      BY <3>1, <3>2
    <3> QED
      BY <3>3, <3>4 DEF WcThere
  <2> QED
    BY <1>4, <2>a, <2>2 DEF WcAnswerThere
<1> QED
  BY <1>3, <1>5, WcRepliedKeeps

\* The master carries out a call.
LEMMA WcServedKeeps ==
  ASSUME WcInvariant, NEW c \in wc.calls, WcServed(c)
  PROVE  WcInvariant'
<1>1. wc.at = "pages" /\ c.ans = <<>>
  BY DEF WcServed
<1>2. PICK at : at = WcIndex(c.row.id)
  OBVIOUS
<1>3. WcTyped
  BY DEF WcInvariant
<1>4. CASE WcStarted(c)
  <2>1. PICK d : d = [c EXCEPT !.ans = <<TRUE>>]
    OBVIOUS
  <2>2. CASE at = 0 /\ wc' = [wc EXCEPT !.calls = WcReply(c, TRUE)]
    <3>1. WcReplied(c, d, TRUE) /\ wc'.objs = wc.objs /\ wc'.unseen = wc.unseen
      BY <1>3, <2>1, <2>2 DEF WcReply, WcReplied, WcTyped
    <3>2. c.kind = "start"
      BY <1>4 DEF WcStarted
    <3> QED
      BY <1>1, <1>2, <2>2, <3>1, <3>2, WcNothingKeeps
  <2>3. ASSUME at # 0, NEW st \in {0, 1},
               wc' = [wc EXCEPT
                   !.calls = WcReply(c, TRUE),
                   !.objs = [@ EXCEPT ![at].status = st],
                   !.unseen = IF st = 1 THEN @ \ {c.row.id} ELSE @ \cup {c.row.id}]
        PROVE  WcInvariant'
    <3>1. /\ WcReplied(c, d, TRUE) /\ wc'.objs = [wc.objs EXCEPT ![at].status = st]
          /\ wc'.unseen = IF st = 1 THEN wc.unseen \ {c.row.id} ELSE wc.unseen \cup {c.row.id}
      BY <1>3, <2>1, <2>3 DEF WcReply, WcReplied, WcTyped
    <3>2. PICK w \in {0, 1} : w = 1
      OBVIOUS
    <3>3. c.kind = IF w = 1 THEN "start" ELSE "stop"
      BY <1>4, <3>2 DEF WcStarted
    <3> QED
      BY <1>1, <1>2, <2>3, <3>1, <3>2, <3>3, WcStatusKeeps
  <2> QED
    BY <1>2, <1>4, <2>2, <2>3 DEF WcStarted
<1>5. CASE WcStopped(c)
  <2>1. CASE wc' = [wc EXCEPT !.calls = WcReply(c, FALSE)]
    <3>1. PICK d : d = [c EXCEPT !.ans = <<FALSE>>]
      OBVIOUS
    <3>2. WcReplied(c, d, FALSE) /\ wc'.objs = wc.objs /\ wc'.unseen = wc.unseen
      BY <1>3, <2>1, <3>1 DEF WcReply, WcReplied, WcTyped
    <3>3. c.kind = "stop"
      BY <1>5 DEF WcStopped
    <3> QED
      BY <1>1, <3>2, <3>3, WcNothingKeeps
  <2>2. CASE /\ at # 0
             /\ wc' = [wc EXCEPT
                  !.calls = WcReply(c, TRUE),
                  !.objs = [@ EXCEPT ![at].status = 0],
                  !.unseen = @ \ {c.row.id}]
    <3>1. PICK d : d = [c EXCEPT !.ans = <<TRUE>>]
      OBVIOUS
    <3>2. PICK w \in {0, 1} : w = 0
      OBVIOUS
    <3>3. /\ WcReplied(c, d, TRUE) /\ wc'.objs = [wc.objs EXCEPT ![at].status = w]
          /\ wc'.unseen = wc.unseen \ {c.row.id}
      BY <1>3, <2>2, <3>1, <3>2 DEF WcReply, WcReplied, WcTyped
    <3>4. c.kind = IF w = 1 THEN "start" ELSE "stop"
      BY <1>5, <3>2 DEF WcStopped
    <3> QED
      BY <1>1, <1>2, <2>2, <3>3, <3>4, WcStatusKeeps
  <2> QED
    BY <1>2, <1>5, <2>1, <2>2 DEF WcStopped
<1>6. CASE WcDeleted(c)
  <2>1. PICK d : d = [c EXCEPT !.ans = <<TRUE>>]
    OBVIOUS
  <2>2. /\ WcReplied(c, d, TRUE) /\ wc'.unseen = wc.unseen /\ c.kind = "del"
        /\ wc'.objs = IF at # 0 THEN RemoveAt(wc.objs, at) ELSE wc.objs
    BY <1>2, <1>3, <1>6, <2>1 DEF WcDeleted, WcReply, WcReplied, WcTyped
  <2>3. CASE at = 0
    BY <1>1, <1>2, <2>2, <2>3, WcNothingKeeps
  <2>4. CASE at # 0
    BY <1>1, <1>2, <2>2, <2>4, WcGoneKeeps
  <2> QED
    BY <2>3, <2>4
<1> QED
  BY <1>1, <1>4, <1>5, <1>6, WcListedKeeps DEF WcServed

\* The rows of an answer.
LEMMA WcRowsTyped ==
  ASSUME NEW a \in Seq(WcObject), IdsOnce(a), NEW n \in Nat, NEW t,
         t = [i \in DOMAIN a |-> [id |-> a[i].id, status |-> a[i].status, load |-> n]]
  PROVE  /\ t \in Seq(WcRow) /\ IdsOnce(t) /\ Len(t) = Len(a)
         /\ \A i \in 1..Len(a) : t[i].id = a[i].id /\ t[i].status = a[i].status /\ t[i].load = n
<1>1. PICK k : k = Len(a) /\ k \in Nat /\ DOMAIN a = 1..k
  OBVIOUS
<1>2. \A i \in 1..k : t[i] = [id |-> a[i].id, status |-> a[i].status, load |-> n]
  BY <1>1
<1>3. ASSUME NEW i \in 1..k
      PROVE  t[i] \in WcRow /\ t[i].id = a[i].id /\ t[i].status = a[i].status /\ t[i].load = n
  <2>1. PICK o : o = a[i] /\ o \in WcObject
    BY <1>1
  <2>2. PICK r : r = t[i] /\ r = [id |-> o.id, status |-> o.status, load |-> n]
    BY <1>2, <2>1
  <2>3. r.id = o.id /\ r.status = o.status /\ r.load = n
    BY <2>2
  <2>4. r \in WcRow
    BY <2>1, <2>2 DEF WcObject, WcRow
  <2> QED
    BY <2>1, <2>2, <2>3, <2>4
<1>4. t = [i \in 1..k |-> t[i]]
  BY <1>1
<1>5. t \in [1..k -> WcRow]
  BY <1>1, <1>3, <1>4
<1>6. t \in Seq(WcRow) /\ Len(t) = k
  BY <1>1, <1>5
<1> QED
  BY <1>1, <1>3, <1>6 DEF IdsOnce

\* What WcRowSet does to rows.
WcSetRows(s, row, v) ==
  [i \in DOMAIN s |->
     IF s[i].id = row.id /\ s[i].load = row.load THEN [s[i] EXCEPT !.status = v] ELSE s[i]]

WcRowsSetTo(t, s, row, v) ==
  /\ t \in Seq(WcRow) /\ IdsOnce(t) /\ Len(t) = Len(s)
  /\ \A i \in 1..Len(s) :
       /\ t[i].id = s[i].id /\ t[i].load = s[i].load
       /\ t[i].status = IF s[i].id = row.id /\ s[i].load = row.load THEN v ELSE s[i].status

\* The rows, after the status of those that fit was set.
LEMMA WcRowsSet ==
  ASSUME NEW s \in Seq(WcRow), IdsOnce(s), NEW row \in WcRow, NEW v \in {0, 1}, NEW t,
         t = WcSetRows(s, row, v)
  PROVE  WcRowsSetTo(t, s, row, v)
<1>1. PICK k : k = Len(s) /\ k \in Nat /\ DOMAIN s = 1..k
  OBVIOUS
<1>2. ASSUME NEW i \in 1..k
      PROVE  /\ t[i] \in WcRow /\ t[i].id = s[i].id /\ t[i].load = s[i].load
             /\ t[i].status = IF s[i].id = row.id /\ s[i].load = row.load THEN v ELSE s[i].status
  <2>1. PICK r : r = s[i] /\ r \in WcRow
    BY <1>1
  <2>2. t[i] = IF r.id = row.id /\ r.load = row.load THEN [r EXCEPT !.status = v] ELSE r
    BY <1>1, <2>1 DEF WcSetRows
  <2>3. CASE r.id = row.id /\ r.load = row.load
    <3>1. t[i] = [r EXCEPT !.status = v]
      BY <2>2, <2>3
    <3> QED
      BY <2>1, <2>3, <3>1 DEF WcRow
  <2>4. CASE ~(r.id = row.id /\ r.load = row.load)
    <3>1. t[i] = r
      BY <2>2, <2>4
    <3> QED
      BY <2>1, <2>4, <3>1
  <2> QED
    BY <2>3, <2>4
<1>3. DOMAIN t = 1..k
  BY <1>1 DEF WcSetRows
<1>4. t = [i \in 1..k |-> t[i]]
  BY <1>1 DEF WcSetRows
<1>5. t \in [1..k -> WcRow]
  BY <1>2, <1>3, <1>4
<1>6. t \in Seq(WcRow) /\ Len(t) = k
  BY <1>1, <1>5
<1> QED
  BY <1>1, <1>2, <1>6 DEF IdsOnce, WcRowsSetTo

\* The answer of a call is shown.
LEMMA WcApplyKeeps ==
  ASSUME WcInvariant, NEW c \in wc.calls, WcApply(c)
  PROVE  WcInvariant'
<1> USE DEF WcInvariant
<1>1. WcCallTyped(c)
  BY DEF WcTyped
<1>2. /\ c.ans # <<>> /\ wc.at = "pages"
      /\ DOMAIN wc' = DOMAIN wc /\ wc'.at = wc.at /\ wc'.made = wc.made /\ wc'.objs = wc.objs
      /\ wc'.unseen = wc.unseen /\ wc'.page = wc.page
      /\ wc'.disturbed = wc.disturbed /\ wc'.calls = wc.calls \ {c}
      /\ wc'.count = IF c.kind = "list" THEN c.ans[1].total ELSE wc.count
      /\ wc'.docs = wc.docs /\ wc'.read = wc.read /\ wc'.urls = wc.urls
      /\ wc'.table = CASE c.kind = "list" -> WcRows(c)
                       [] c.kind = "start" /\ c.ans[1] -> WcRowSet(c, 1)
                       [] c.kind = "stop" /\ c.ans[1] -> WcRowSet(c, 0)
                       [] c.kind = "del" /\ c.ans[1] -> WcSplice(wc.table, c.arg)
                       [] OTHER -> wc.table
  BY DEF WcApply, WcTyped
<1>3. PICK s : s = wc.table
  OBVIOUS
<1>4. PICK t : t = wc'.table
  OBVIOUS
<1>5. /\ s \in Seq(WcRow) /\ IdsOnce(s) /\ Len(s) <= WcLimit /\ Len(s) \in Nat
      /\ \A i, j \in 1..Len(s) : s[i].load = s[j].load
  BY <1>3 DEF WcTyped
<1>6. wc'.count \in Nat
  BY <1>1, <1>2 DEF WcTyped, WcCallTyped, WcAnswer
<1>7. ~wc.disturbed => wc.calls = {c} /\ wc'.calls = {} /\ WcAnswerThere(c)
                       /\ (c.kind # "list" => c.arg \in 1..Len(s) /\ s[c.arg] = c.row)
  <2> SUFFICES ASSUME ~wc.disturbed
               PROVE  /\ wc.calls = {c} /\ wc'.calls = {} /\ WcAnswerThere(c)
                      /\ (c.kind # "list" => c.arg \in 1..Len(s) /\ s[c.arg] = c.row)
    OBVIOUS
  <2>1. wc.calls = {c} /\ WcOnlyCall(c)
    BY <1>2 DEF WcQuiet
  <2> QED
    BY <1>2, <1>3, <2>1 DEF WcOnlyCall
<1>8. ASSUME /\ t \in Seq(WcRow) /\ IdsOnce(t) /\ Len(t) <= WcLimit
             /\ \A i, j \in 1..Len(t) : t[i].load = t[j].load
             /\ ~wc.disturbed => \A i \in 1..Len(t) : WcThere(t[i].id, t[i].status)
      PROVE  WcInvariant'
  <2>1. WcTyped'
    <3>1. \A y : WcCallTyped(y)' <=> WcCallTyped(y)
      BY DEF WcCallTyped, WcAnswer
    <3> QED
      BY <1>2, <1>4, <1>6, <1>8, <3>1 DEF WcTyped
  <2>2. WcQuiet'
    <3> SUFFICES ASSUME ~wc.disturbed PROVE wc'.calls = {} /\ WcTableThere'
      BY <1>2 DEF WcQuiet
    <3>1. ASSUME NEW i \in 1..Len(t) PROVE WcThere(t[i].id, t[i].status)'
      <4>1. t = t' /\ WcThere(t[i].id, t[i].status)
        BY <1>8
      <4> QED
        BY <1>2, <4>1 DEF WcThere
    <3> QED
      BY <1>4, <1>7, <3>1 DEF WcTableThere
  <2> QED
    BY <1>2, <2>1, <2>2 DEF WcStored, WcUrlsOfRead, Once
<1>9. CASE c.kind = "list"
  <2>1. PICK a : a = c.ans[1].obj
    OBVIOUS
  <2>2. a \in Seq(WcObject) /\ IdsOnce(a) /\ Len(a) <= WcLimit /\ c.n \in Nat
    BY <1>1, <1>2, <1>9, <2>1 DEF WcCallTyped, WcAnswer
  <2>3. t = [i \in DOMAIN a |-> [id |-> a[i].id, status |-> a[i].status, load |-> c.n]]
    BY <1>2, <1>4, <1>9, <2>1 DEF WcRows
  <2>4. PICK n \in Nat : n = c.n
    BY <2>2
  <2>5. /\ t \in Seq(WcRow) /\ IdsOnce(t) /\ Len(t) = Len(a)
        /\ \A i \in 1..Len(a) : t[i].id = a[i].id /\ t[i].status = a[i].status /\ t[i].load = n
    BY <2>2, <2>3, <2>4, WcRowsTyped
  <2>6. ~wc.disturbed => \A i \in 1..Len(a) : WcThere(a[i].id, a[i].status)
    BY <1>7, <1>9, <2>1 DEF WcAnswerThere
  <2> QED
    BY <1>8, <2>2, <2>5, <2>6
<1>10. ASSUME NEW v \in {0, 1}, c.kind = (IF v = 1 THEN "start" ELSE "stop"), c.ans[1],
              t = WcRowSet(c, v)
       PROVE  WcInvariant'
  <2>1. PICK row : row = c.row
    OBVIOUS
  <2>2. row \in WcRow
    BY <1>1, <1>10, <2>1 DEF WcCallTyped
  <2>3. t = WcSetRows(s, row, v)
    BY <1>3, <1>10, <2>1 DEF WcRowSet, WcSetRows
  <2>4. /\ t \in Seq(WcRow) /\ IdsOnce(t) /\ Len(t) = Len(s)
        /\ \A i \in 1..Len(s) :
             /\ t[i].id = s[i].id /\ t[i].load = s[i].load
             /\ t[i].status = IF s[i].id = row.id /\ s[i].load = row.load THEN v ELSE s[i].status
    <3>1. s \in Seq(WcRow) /\ IdsOnce(s)
      BY <1>5
    <3>2. WcRowsSetTo(t, s, row, v)
      BY <2>2, <2>3, <3>1, WcRowsSet
    <3> QED
      BY <3>2 DEF WcRowsSetTo
  <2>5. ASSUME ~wc.disturbed, NEW i \in 1..Len(s) PROVE WcThere(t[i].id, t[i].status)
    <3>1. c.arg \in 1..Len(s) /\ s[c.arg] = row
      BY <1>7, <1>10, <2>1, <2>5
    <3>2. s[i].id = row.id /\ s[i].load = row.load <=> i = c.arg
      BY <1>5, <3>1 DEF IdsOnce
    <3>3. t[i].id = s[i].id /\ t[i].status = IF i = c.arg THEN v ELSE s[i].status
      BY <2>4, <3>2
    <3>4. WcThere(s[i].id, IF i = c.arg THEN v ELSE s[i].status)
      BY <1>3, <1>7, <1>10, <2>5 DEF WcAnswerThere
    <3> QED
      BY <3>3, <3>4
  <2> QED
    BY <1>5, <1>8, <2>4, <2>5
<1>11. CASE t = s /\ (~wc.disturbed => c.kind = "del" /\ c.arg \notin 1..Len(s))
  BY <1>5, <1>7, <1>8, <1>11
<1>12. CASE c.kind = "del" /\ c.arg \in 1..Len(s) /\ t = RemoveAt(s, c.arg)
  <2>1. PICK at \in 1..Len(s) : at = c.arg
    BY <1>12
  <2>2. /\ t \in Seq(WcRow) /\ IdsOnce(t) /\ Len(t) = Len(s) - 1
        /\ \A i \in 1..Len(t) : \E j \in 1..Len(s) : j # at /\ t[i] = s[j]
    <3>1. s \in Seq(WcRow) /\ IdsOnce(s) /\ t = RemoveAt(s, at)
      BY <1>5, <1>12, <2>1
    <3>2. WcWithout(WcRow, t, s, at)
      BY <3>1, WcTakenOut
    <3> QED
      BY <3>2 DEF WcWithout
  <2>3. ASSUME ~wc.disturbed, NEW i \in 1..Len(t) PROVE WcThere(t[i].id, t[i].status)
    <3>1. PICK j \in 1..Len(s) : j # at /\ t[i] = s[j]
      BY <2>2
    <3>2. WcThere(s[j].id, s[j].status)
      BY <1>3, <1>7, <1>12, <2>1, <2>3, <3>1 DEF WcAnswerThere
    <3> QED
      BY <3>1, <3>2
  <2>4. Len(t) <= WcLimit
    <3>1. PICK L \in Nat : L = WcLimit
      BY WcAssumption
    <3> QED
      BY <1>5, <2>2, <3>1
  <2>5. ASSUME NEW i \in 1..Len(t), NEW j \in 1..Len(t) PROVE t[i].load = t[j].load
    <3>1. PICK k \in 1..Len(s) : t[i] = s[k]
      BY <2>2
    <3>2. PICK l \in 1..Len(s) : t[j] = s[l]
      BY <2>2
    <3> QED
      BY <1>5, <3>1, <3>2
  <2> QED
    BY <1>8, <2>2, <2>3, <2>4, <2>5
<1>13. CASE c.kind = "start" /\ c.ans[1]
  BY <1>2, <1>4, <1>10, <1>13
<1>14. CASE c.kind = "stop" /\ c.ans[1]
  BY <1>2, <1>4, <1>10, <1>14
<1>15. CASE c.kind = "del" /\ c.ans[1]
  <2>1. t = IF c.arg \in DOMAIN s THEN RemoveAt(s, c.arg) ELSE s
    BY <1>2, <1>3, <1>4, <1>15 DEF WcSplice
  <2>2. DOMAIN s = 1..Len(s)
    BY <1>5
  <2> QED
    BY <1>7, <1>11, <1>12, <1>15, <2>1, <2>2
<1>16. CASE c.kind \in {"start", "del"} /\ ~c.ans[1]
  <2>1. t = s
    BY <1>2, <1>3, <1>4, <1>16
  <2>2. wc.disturbed
    BY <1>7, <1>16 DEF WcAnswerThere
  <2> QED
    BY <1>11, <2>1, <2>2
<1>17. CASE c.kind = "stop" /\ ~c.ans[1]
  <2>1. t = s
    BY <1>2, <1>3, <1>4, <1>17
  <2>2. ~wc.disturbed => \A i \in 1..Len(s) : WcThere(s[i].id, s[i].status)
    BY <1>3, <1>7, <1>17 DEF WcAnswerThere
  <2> QED
    BY <1>5, <1>8, <2>1, <2>2
<1> QED
  BY <1>1, <1>9, <1>13, <1>14, <1>15, <1>16, <1>17 DEF WcCallTyped

\* The invariant depends on what it names only.
LEMMA WcSame ==
  ASSUME WcTyped, WcQuiet, DOMAIN wc' = DOMAIN wc, wc'.at = wc.at, wc'.objs = wc.objs,
         wc'.count = wc.count, wc'.table = wc.table, wc'.calls = wc.calls, wc'.made = wc.made,
         wc'.disturbed = wc.disturbed, wc'.unseen = wc.unseen, wc'.page = wc.page
  PROVE  WcTyped' /\ WcQuiet'
<1>1. \A c : WcCallTyped(c)' <=> WcCallTyped(c)
  BY DEF WcCallTyped, WcAnswer
<1>2. WcTyped'
  BY <1>1 DEF WcTyped
<1>3. \A id, status : WcThere(id, status)' <=> WcThere(id, status)
  BY DEF WcThere
<1>4. WcTableThere' <=> WcTableThere
  BY <1>3 DEF WcTableThere
<1>5. ASSUME NEW c PROVE WcOnlyCall(c)' <=> WcOnlyCall(c)
  <2>1. WcAnswerThere(c)' <=> WcAnswerThere(c)
    BY <1>3 DEF WcAnswerThere
  <2> QED
    BY <1>4, <2>1 DEF WcOnlyCall
<1>6. WcQuiet'
  BY <1>4, <1>5 DEF WcQuiet
<1> QED
  BY <1>2, <1>6

\* A call fails.
LEMMA WcFailsKeeps ==
  ASSUME WcInvariant, NEW c \in wc.calls, WcFails(c)
  PROVE  WcInvariant'
<1> USE DEF WcInvariant
<1>1. /\ DOMAIN wc' = DOMAIN wc /\ wc'.at = wc.at /\ wc'.made = wc.made /\ wc'.objs = wc.objs
      /\ wc'.unseen = wc.unseen /\ wc'.page = wc.page
      /\ wc'.disturbed = TRUE /\ wc'.calls = wc.calls \ {c}
      /\ wc'.count = wc.count /\ wc'.table = wc.table
      /\ wc'.docs = wc.docs /\ wc'.read = wc.read /\ wc'.urls = wc.urls
  BY DEF WcFails, WcTyped
<1>2. \A y : WcCallTyped(y)' <=> WcCallTyped(y)
  BY DEF WcCallTyped, WcAnswer
<1>3. WcTyped'
  BY <1>1, <1>2 DEF WcTyped
<1>4. WcQuiet'
  BY <1>1 DEF WcQuiet
<1> QED
  BY <1>1, <1>3, <1>4 DEF WcStored, WcUrlsOfRead, Once

\* Another client adds an object: the others are still there.
LEMMA WcOtherAddsKeeps ==
  ASSUME WcInvariant, NEW id \in WcId, WcOtherAdds(id)
  PROVE  WcInvariant'
<1> USE DEF WcInvariant
<1>1. PICK o : o = [id |-> id, status |-> 0]
  OBVIOUS
<1>2. o.id = id /\ o \in WcObject
  BY <1>1 DEF WcObject
<1>3. PICK s : s = wc.objs
  OBVIOUS
<1>4. PICK new : new = Append(s, o)
  OBVIOUS
<1>5. /\ DOMAIN wc' = DOMAIN wc /\ wc'.at = wc.at /\ wc'.made = wc.made /\ wc'.objs = new
      /\ wc'.unseen = wc.unseen /\ wc'.page = wc.page
      /\ wc'.disturbed = wc.disturbed /\ wc'.calls = wc.calls
      /\ wc'.count = wc.count /\ wc'.table = wc.table
      /\ wc'.docs = wc.docs /\ wc'.read = wc.read /\ wc'.urls = wc.urls
  BY <1>1, <1>3, <1>4 DEF WcOtherAdds, WcTyped
<1>6. s \in Seq(WcObject) /\ IdsOnce(s) /\ Len(s) \in Nat
  BY <1>3 DEF WcTyped
<1>7. \A i \in 1..Len(s) : s[i].id # id
  BY <1>3, WcFound DEF WcOtherAdds
<1>8. /\ new \in Seq(WcObject) /\ Len(new) = Len(s) + 1 /\ new[Len(s) + 1] = o
      /\ \A i \in 1..Len(s) : new[i] = s[i]
  BY <1>2, <1>4, <1>6
<1>9. IdsOnce(new)
  <2> SUFFICES ASSUME NEW i \in 1..Len(new), NEW j \in 1..Len(new), new[i].id = new[j].id
               PROVE  i = j
    BY DEF IdsOnce
  <2>1. (i \in 1..Len(s) \/ i = Len(s) + 1) /\ (j \in 1..Len(s) \/ j = Len(s) + 1)
    BY <1>6, <1>8
  <2> QED
    BY <1>2, <1>6, <1>7, <1>8, <2>1 DEF IdsOnce
<1>10. WcTyped'
  <2>1. \A y : WcCallTyped(y)' <=> WcCallTyped(y)
    BY DEF WcCallTyped, WcAnswer
  <2> QED
    BY <1>5, <1>8, <1>9, <2>1 DEF WcTyped
<1>11. ASSUME NEW i, NEW v, WcThere(i, v) PROVE WcThere(i, v)'
  <2>1. PICK k \in 1..Len(s) : s[k].id = i /\ (i \notin wc.unseen => s[k].status = v)
    BY <1>3, <1>11 DEF WcThere
  <2>2. k \in 1..Len(new) /\ new[k] = s[k]
    BY <1>6, <1>8
  <2> QED
    BY <1>5, <2>1, <2>2 DEF WcThere
<1>12. WcTableThere => WcTableThere'
  BY <1>5, <1>11 DEF WcTableThere
<1>13. ASSUME NEW c \in wc.calls, WcOnlyCall(c) PROVE WcOnlyCall(c)'
  <2>1. ASSUME WcAnswerThere(c) PROVE WcAnswerThere(c)'
    <3>1. CASE c.kind = "list"
      BY <1>11, <2>1, <3>1 DEF WcAnswerThere
    <3>2. CASE c.kind = "start"
      BY <1>5, <1>11, <2>1, <3>2 DEF WcAnswerThere
    <3>3. CASE c.kind = "stop"
      BY <1>5, <1>11, <2>1, <3>3 DEF WcAnswerThere
    <3>4. CASE c.kind = "del"
      BY <1>5, <1>11, <2>1, <3>4 DEF WcAnswerThere
    <3> QED
      BY <3>1, <3>2, <3>3, <3>4 DEF WcTyped, WcCallTyped
  <2> QED
    BY <1>5, <1>12, <1>13, <2>1 DEF WcOnlyCall
<1>14. WcQuiet'
  BY <1>5, <1>12, <1>13 DEF WcQuiet
<1> QED
  BY <1>5, <1>10, <1>14 DEF WcStored, WcUrlsOfRead, Once

\* Another client deletes an object: a disturbance.
LEMMA WcOtherDelsKeeps ==
  ASSUME WcInvariant, NEW id, WcOtherDels(id)
  PROVE  WcInvariant'
<1> USE DEF WcInvariant
<1>1. PICK at : at = WcIndex(id)
  OBVIOUS
<1>2. PICK s, new : s = wc.objs /\ new = RemoveAt(s, at)
  OBVIOUS
<1>3. /\ DOMAIN wc' = DOMAIN wc /\ wc'.at = wc.at /\ wc'.made = wc.made /\ wc'.objs = new
      /\ wc'.unseen = wc.unseen /\ wc'.page = wc.page
      /\ wc'.disturbed = TRUE /\ wc'.calls = wc.calls
      /\ wc'.count = wc.count /\ wc'.table = wc.table
      /\ wc'.docs = wc.docs /\ wc'.read = wc.read /\ wc'.urls = wc.urls
  BY <1>1, <1>2 DEF WcOtherDels, WcTyped
<1>4. s \in Seq(WcObject) /\ IdsOnce(s)
  BY <1>2 DEF WcTyped
<1>5. at \in 1..Len(s)
  BY <1>1, <1>2, WcFound DEF WcOtherDels
<1>6. new \in Seq(WcObject) /\ IdsOnce(new)
  <2>1. WcWithout(WcObject, new, s, at)
    BY <1>2, <1>4, <1>5, WcTakenOut
  <2> QED
    BY <2>1 DEF WcWithout
<1>7. WcTyped'
  <2>1. \A y : WcCallTyped(y)' <=> WcCallTyped(y)
    BY DEF WcCallTyped, WcAnswer
  <2> QED
    BY <1>3, <1>6, <2>1 DEF WcTyped
<1>8. WcQuiet'
  BY <1>3 DEF WcQuiet
<1> QED
  BY <1>3, <1>7, <1>8 DEF WcStored, WcUrlsOfRead, Once

\* The status of an object changes, which nobody sees.
LEMMA WcOtherStatusKeeps ==
  ASSUME WcInvariant, NEW id, WcOtherStatus(id)
  PROVE  WcInvariant'
<1> USE DEF WcInvariant
<1>1. PICK at : at = WcIndex(id)
  OBVIOUS
<1>2. PICK st \in {0, 1} : wc' = [wc EXCEPT
        !.objs = [@ EXCEPT ![WcIndex(id)].status = st],
        !.unseen = @ \cup {id}, !.other = @ + 1]
  BY DEF WcOtherStatus
<1>3. /\ DOMAIN wc' = DOMAIN wc /\ wc'.at = wc.at /\ wc'.made = wc.made
      /\ wc'.objs = [wc.objs EXCEPT ![at].status = st]
      /\ wc'.unseen = wc.unseen \cup {id} /\ wc'.page = wc.page
      /\ wc'.disturbed = wc.disturbed /\ wc'.calls = wc.calls
      /\ wc'.count = wc.count /\ wc'.table = wc.table
      /\ wc'.docs = wc.docs /\ wc'.read = wc.read /\ wc'.urls = wc.urls
  BY <1>1, <1>2 DEF WcTyped
<1>4. wc.objs \in Seq(WcObject) /\ IdsOnce(wc.objs) /\ Len(wc.objs) \in Nat
  BY DEF WcTyped
<1>5. at \in 1..Len(wc.objs) /\ wc.objs[at].id = id
  BY <1>1, WcFound DEF WcOtherStatus
<1>6. /\ wc'.objs \in Seq(WcObject) /\ IdsOnce(wc'.objs) /\ Len(wc'.objs) = Len(wc.objs)
      /\ \A i \in 1..Len(wc.objs) :
           /\ wc'.objs[i].id = wc.objs[i].id
           /\ wc'.objs[i].status = IF i = at THEN st ELSE wc.objs[i].status
  <2>1. PICK s, new : s = wc.objs /\ new = wc'.objs
    OBVIOUS
  <2>2. s \in Seq(WcObject) /\ IdsOnce(s) /\ at \in 1..Len(s) /\ new = WcSetAt(s, at, st)
    BY <1>3, <1>4, <1>5, <2>1 DEF WcSetAt
  <2>3. WcStatusSetTo(new, s, at, st)
    BY <2>2, WcStatusSet
  <2> QED
    BY <2>1, <2>3 DEF WcStatusSetTo
<1>7. WcTyped'
  <2>1. \A y : WcCallTyped(y)' <=> WcCallTyped(y)
    BY DEF WcCallTyped, WcAnswer
  <2> QED
    BY <1>3, <1>6, <2>1 DEF WcTyped
<1>8. ASSUME NEW i, NEW v, WcThere(i, v) PROVE WcThere(i, v)'
  <2>1. PICK k \in 1..Len(wc.objs) : wc.objs[k].id = i /\ (i \notin wc.unseen => wc.objs[k].status = v)
    BY <1>8 DEF WcThere
  <2>2. k \in 1..Len(wc'.objs) /\ wc'.objs[k].id = i
    BY <1>6, <2>1
  <2>3. i \notin wc'.unseen => wc'.objs[k].status = v
    BY <1>3, <1>5, <1>6, <2>1
  <2> QED
    BY <2>2, <2>3 DEF WcThere
<1>9. WcTableThere => WcTableThere'
  BY <1>3, <1>8 DEF WcTableThere
<1>10. ASSUME NEW c \in wc.calls, WcOnlyCall(c) PROVE WcOnlyCall(c)'
  <2>1. ASSUME WcAnswerThere(c) PROVE WcAnswerThere(c)'
    <3>1. CASE c.kind = "list"
      BY <1>8, <2>1, <3>1 DEF WcAnswerThere
    <3>2. CASE c.kind = "start"
      BY <1>3, <1>8, <2>1, <3>2 DEF WcAnswerThere
    <3>3. CASE c.kind = "stop"
      BY <1>3, <1>8, <2>1, <3>3 DEF WcAnswerThere
    <3>4. CASE c.kind = "del"
      BY <1>3, <1>8, <2>1, <3>4 DEF WcAnswerThere
    <3> QED
      BY <3>1, <3>2, <3>3, <3>4 DEF WcTyped, WcCallTyped
  <2> QED
    BY <1>3, <1>9, <1>10, <2>1 DEF WcOnlyCall
<1>11. WcQuiet'
  BY <1>3, <1>9, <1>10 DEF WcQuiet
<1> QED
  BY <1>3, <1>7, <1>11 DEF WcStored, WcUrlsOfRead, Once

\* A capture is stored.
LEMMA WcCaptureKeeps ==
  ASSUME WcInvariant, WcCapture
  PROVE  WcInvariant'
<1> USE DEF WcInvariant
<1>1. PICK id \in WcId, t \in WcTime : wc' = [wc EXCEPT !.docs = Append(@, [id |-> id, time |-> t])]
  BY DEF WcCapture
<1>2. PICK d : d = [id |-> id, time |-> t]
  OBVIOUS
<1>3. /\ DOMAIN wc' = DOMAIN wc /\ wc'.at = wc.at /\ wc'.objs = wc.objs /\ wc'.count = wc.count
      /\ wc'.table = wc.table /\ wc'.calls = wc.calls /\ wc'.made = wc.made
      /\ wc'.unseen = wc.unseen /\ wc'.page = wc.page
      /\ wc'.disturbed = wc.disturbed /\ wc'.read = wc.read /\ wc'.urls = wc.urls
      /\ wc'.docs = Append(wc.docs, d)
  BY <1>1, <1>2 DEF WcTyped
<1>4. d \in WcDoc
  BY <1>2 DEF WcDoc
<1>5. WcStored'
  BY <1>3, <1>4 DEF WcStored
<1>6. WcTyped' /\ WcQuiet'
  BY <1>3, WcSame
<1> QED
  BY <1>3, <1>5, <1>6 DEF WcUrlsOfRead, Once

\* A slave is read: it adds its own url at most.
LEMMA WcReadSlaveKeeps ==
  ASSUME WcInvariant, WcReadSlave
  PROVE  WcInvariant'
<1> USE DEF WcInvariant
<1>1. PICK s : s = wc.read + 1
  OBVIOUS
<1>2. PICK list : wc' = [wc EXCEPT
        !.read = wc.read + 1,
        !.urls = IF wc.alive[wc.read + 1]
                 THEN @ \o [i \in DOMAIN WcUrlsOf(list) |-> wc.read + 1] ELSE @]
  BY Zenon DEF WcReadSlave
<1>3. PICK w : w = [i \in DOMAIN WcUrlsOf(list) |-> wc.read + 1]
  OBVIOUS
<1>4. PICK u : u = wc.urls
  OBVIOUS
<1>5. /\ DOMAIN wc' = DOMAIN wc /\ wc'.at = wc.at /\ wc'.objs = wc.objs /\ wc'.count = wc.count
      /\ wc'.table = wc.table /\ wc'.calls = wc.calls /\ wc'.made = wc.made
      /\ wc'.unseen = wc.unseen /\ wc'.page = wc.page
      /\ wc'.disturbed = wc.disturbed /\ wc'.docs = wc.docs /\ wc'.read = s
      /\ wc'.urls = IF wc.alive[s] THEN u \o w ELSE u
  BY <1>1, <1>2, <1>3, <1>4 DEF WcTyped
<1>6. /\ u \in Seq(Nat) /\ Once(u) /\ Len(u) < s /\ \A i \in 1..Len(u) : u[i] < s
      /\ s \in 1..WcSlave /\ s \in Nat /\ Len(u) \in Nat
  BY <1>1, <1>4, ElementOfSeq, WcAssumption DEF WcUrlsOfRead, WcReadSlave
<1>7. w = <<>> \/ w = <<s>>
  BY <1>1, <1>3 DEF WcUrlsOf
<1>8. u \o w = u \/ u \o w = Append(u, s)
  <2>1. u \o <<>> = u
    BY <1>6, ConcatEmptySeq
  <2>2. u \o <<s>> = Append(u, s)
    BY <1>6
  <2> QED
    BY <1>7, <2>1, <2>2
<1>9. PICK v : v = wc'.urls
  OBVIOUS
<1>10. v = u \/ v = Append(u, s)
  BY <1>5, <1>8, <1>9
<1>11. v \in Seq(Nat) /\ Once(v) /\ Len(v) <= s /\ \A i \in 1..Len(v) : v[i] <= s
  <2>1. CASE v = u
    BY <1>6, <2>1, ElementOfSeq
  <2>2. CASE v = Append(u, s)
    <3>1. /\ v \in Seq(Nat) /\ Len(v) = Len(u) + 1 /\ v[Len(u) + 1] = s
          /\ \A i \in 1..Len(u) : v[i] = u[i]
      BY <1>6, <2>2
    <3>2. \A i \in 1..Len(v) : i \in 1..Len(u) \/ i = Len(u) + 1
      BY <1>6, <3>1
    <3>3. \A i \in 1..Len(u) : u[i] # s /\ u[i] <= s
      BY <1>6, ElementOfSeq
    <3>4. Once(v)
      BY <1>6, <3>1, <3>2, <3>3 DEF Once
    <3> QED
      BY <1>6, <3>1, <3>2, <3>3, <3>4
  <2> QED
    BY <1>10, <2>1, <2>2
<1>12. WcUrlsOfRead'
  BY <1>5, <1>6, <1>9, <1>11 DEF WcUrlsOfRead
<1>13. WcTyped' /\ WcQuiet'
  BY <1>5, WcSame
<1> QED
  BY <1>5, <1>12, <1>13 DEF WcStored

\* What the threads of the slaves do, and the next request.
LEMMA WcSupportKeeps ==
  ASSUME WcInvariant, WcSupport \/ UNCHANGED wc
  PROVE  WcInvariant'
<1> USE DEF WcInvariant
<1>1. ASSUME /\ DOMAIN wc' = DOMAIN wc /\ wc'.at = wc.at /\ wc'.objs = wc.objs
             /\ wc'.count = wc.count /\ wc'.table = wc.table /\ wc'.calls = wc.calls
             /\ wc'.made = wc.made /\ wc'.disturbed = wc.disturbed /\ wc'.docs = wc.docs
             /\ wc'.unseen = wc.unseen /\ wc'.page = wc.page
             /\ \/ wc'.read = wc.read /\ wc'.urls = wc.urls
                \/ wc'.read = 0 /\ wc'.urls = <<>>
      PROVE  WcInvariant'
  <2>1. WcTyped' /\ WcQuiet'
    BY <1>1, WcSame
  <2>2. CASE wc'.read = wc.read /\ wc'.urls = wc.urls
    BY <1>1, <2>1, <2>2 DEF WcStored, WcUrlsOfRead, Once
  <2>3. CASE wc'.read = 0 /\ wc'.urls = <<>>
    BY <1>1, <2>1, <2>3, WcAssumption DEF WcStored, WcUrlsOfRead, Once
  <2> QED
    BY <1>1, <2>2, <2>3
<1>2. ASSUME NEW s \in 1..WcSlave, WcProbe(s) PROVE WcInvariant'
  BY <1>1, <1>2 DEF WcProbe, WcTyped
<1>3. ASSUME NEW s \in 1..WcSlave, WcClear(s) PROVE WcInvariant'
  BY <1>1, <1>3 DEF WcClear, WcTyped
<1>4. ASSUME NEW s \in 1..WcSlave, NEW list, WcPush(s, list) PROVE WcInvariant'
  BY <1>1, <1>4 DEF WcPush, WcTyped
<1>5. CASE WcAnswered
  BY <1>1, <1>5 DEF WcAnswered, WcTyped
<1>6. CASE UNCHANGED wc
  BY <1>1, <1>6
<1> QED
  BY <1>2, <1>3, <1>4, <1>5, <1>6, WcReadSlaveKeeps DEF WcSupport

\* The page makes its calls.
LEMMA WcCallsKeep ==
  ASSUME WcInvariant, WcTurn \/ WcHandleStart \/ WcHandleStop \/ WcHandleDelete
  PROVE  WcInvariant'
<1>1. PICK t : t = wc.table /\ DOMAIN t = 1..Len(t) /\ \A i \in 1..Len(t) : i \in Nat
  BY DEF WcInvariant, WcTyped
<1>2. CASE WcTurn
  <2>1. PICK val : /\ val = wc.page \/ val \in 1..((wc.count + WcLimit - 1) \div WcLimit)
                   /\ WcCall("list", (val - 1) * WcLimit, <<>>)
    BY <1>2 DEF WcTurn
  <2>2. PICK arg : arg = (val - 1) * WcLimit
    OBVIOUS
  <2>3. arg \in Nat
    <3>1. (val - 1) \in Nat /\ WcLimit \in Nat
      BY <2>1, WcAssumption DEF WcInvariant, WcTyped
    <3> QED
      BY <2>2, <3>1
  <2> QED
    BY <2>1, <2>2, <2>3, WcCallKeeps
<1>3. ASSUME NEW kind \in {"start", "stop", "del"}, NEW i \in DOMAIN wc.table,
             WcCall(kind, i, wc.table[i])
      PROVE  WcInvariant'
  <2>1. i \in Nat /\ i \in 1..Len(wc.table)
    BY <1>1
  <2>2. PICK row : row = wc.table[i]
    OBVIOUS
  <2> QED
    BY <1>3, <2>1, <2>2, WcCallKeeps
<1>4. CASE WcHandleStart
  BY <1>3, <1>4 DEF WcHandleStart
<1>5. CASE WcHandleStop
  BY <1>3, <1>5 DEF WcHandleStop
<1>6. CASE WcHandleDelete
  BY <1>3, <1>6 DEF WcHandleDelete
<1> QED
  BY <1>2, <1>4, <1>5, <1>6

\* The invariant holds of every step.
LEMMA WcStepKeeps ==
  ASSUME WcInvariant, [WcNext]_wc
  PROVE  WcInvariant'
<1>1. ASSUME NEW c \in wc.calls, WcServed(c) \/ WcApply(c) \/ WcFails(c) PROVE WcInvariant'
  BY <1>1, WcServedKeeps, WcApplyKeeps, WcFailsKeeps
<1>2. ASSUME NEW id \in WcId, WcOtherAdds(id) \/ WcOtherDels(id) \/ WcOtherStatus(id)
      PROVE  WcInvariant'
  BY <1>2, WcOtherAddsKeeps, WcOtherDelsKeeps, WcOtherStatusKeeps
<1>3. CASE WcPages
  BY <1>1, <1>2, <1>3, WcCallsKeep DEF WcPages
<1> QED
  BY <1>3, WcCaptureKeeps, WcSupportKeeps DEF WcNext

\* The rows shown are those of one answer, and true while nobody disturbs, but for the
\* statuses that changed unseen: as long as the user waits there is one call at most,
\* which, once carried out, says how the rows will have to change (WcQuiet).
THEOREM WcTableTrueHolds == WcSpec => []WcTableTrue
<1>1. WcInit => WcInvariant
  BY WcInitialHolds DEF WcInit
<1>2. WcInvariant /\ [WcNext]_wc => WcInvariant'
  BY WcStepKeeps
<1>3. WcInvariant => WcTableTrue
  <2> SUFFICES ASSUME WcInvariant PROVE WcTableTrue
    OBVIOUS
  <2>1. WcTyped /\ WcQuiet /\ DOMAIN wc.table = 1..Len(wc.table)
    BY DEF WcInvariant, WcTyped
  <2>2. WcRowsOfOneLoad
    BY <2>1 DEF WcRowsOfOneLoad, WcTyped, IdsOnce
  <2>3. WcQuietTableTrue
    <3> SUFFICES ASSUME wc.at = "pages", wc.calls = {}, ~wc.disturbed, NEW i \in DOMAIN wc.table
                 PROVE  /\ WcIndex(wc.table[i].id) # 0
                        /\ wc.table[i].id \notin wc.unseen =>
                             wc.objs[WcIndex(wc.table[i].id)].status = wc.table[i].status
      BY DEF WcQuietTableTrue
    <3>1. WcTableThere
      BY <2>1 DEF WcQuiet
    <3>2. PICK k \in 1..Len(wc.objs) :
                 /\ wc.objs[k].id = wc.table[i].id
                 /\ wc.table[i].id \notin wc.unseen => wc.objs[k].status = wc.table[i].status
      BY <2>1, <3>1 DEF WcTableThere, WcThere
    <3> QED
      BY <2>1, <3>2, WcFound
  <2> QED
    BY <2>2, <2>3 DEF WcTableTrue
<1> QED
  BY <1>1, <1>2, <1>3, PTL DEF WcSpec

\* The pages of a list, put together, are the list; and of each page what the set keeps.
LEMMA WcPaged ==
  ASSUME NEW U, NEW s \in Seq(U), NEW S, NEW last, last = (Len(s) + WcLimit - 1) \div WcLimit,
         NEW w, w = [p \in 1..last |-> Kept(WcSlice(s, (p - 1) * WcLimit), S)]
  PROVE  FlattenSeq(w) = Kept(s, S)
<1>1. PICK L \in Nat : L = WcLimit /\ L # 0
  BY WcAssumption
<1>2. PICK n \in Nat : n = Len(s)
  BY LenProperties
<1>3. /\ last \in Nat /\ (n = 0 => last = 0) /\ (n # 0 => last # 0)
      /\ last * L >= n
      /\ \A i \in Nat : i * L \in Nat /\ (i + 1) * L = i * L + L /\ (i < last => i * L < n)
  <2>1. last = (n + L - 1) \div L
    BY <1>1, <1>2
  <2> QED
    BY <1>1, <2>1, PageEnds
<1>4. CASE n = 0
  <2>1. last = 0
    BY <1>3, <1>4
  <2>2. w = <<>>
    BY <2>1
  <2>3. FlattenSeq(<<>>) = <<>>
    BY DEF FlattenSeq
  <2>4. s = <<>>
    BY <1>2, <1>4, EmptySeq
  <2> QED
    BY <2>2, <2>3, <2>4, KeptEmpty
<1>5. CASE n # 0
  <2> DEFINE E(i) == IF i * L <= n THEN i * L ELSE n
             To(i) == SubSeq(s, 1, E(i))
  <2>1. Len(w) = last /\ last # 0
    BY <1>3, <1>5
  <2>2. PICK f : FlattenUpTo(f, w, last) /\ FlattenSeq(w) = f[last]
    BY <1>3, <2>1, FlattenDefined
  <2>3. \A i \in 1..last : f[i] = IF i = 1 THEN w[i] ELSE f[i - 1] \o w[i]
    BY <2>2 DEF FlattenUpTo
  <2>4. \A i \in Nat : E(i) \in 0..n
    BY <1>3
  <2>5. ASSUME NEW i \in Nat, i < last
        PROVE  E(i) = i * L /\ w[i + 1] = Kept(SubSeq(s, i * L + 1, E(i + 1)), S)
    <3>1. i + 1 \in 1..last /\ (i + 1) - 1 = i
      BY <1>3, <2>5
    <3>2. PICK k \in Nat : k = i * L /\ k < n
      BY <1>3, <2>5
    <3>3. PICK m \in Nat : m = (i + 1) * L /\ m = k + L
      BY <1>3, <3>2
    <3>4. w[i + 1] = Kept(WcSlice(s, k), S)
      BY <1>1, <3>1, <3>2
    <3>5. Min({k + L, n}) = IF k + L <= n THEN k + L ELSE n
      <4>1. k + L \in Nat
        OBVIOUS
      <4> QED
        BY <4>1, MinOfTwo
    <3>6. Min({k + L, n}) = E(i + 1)
      BY <3>3, <3>5
    <3>7. WcSlice(s, k) = SubSeq(s, k + 1, E(i + 1))
      BY <1>1, <1>2, <3>6, Zenon DEF WcSlice
    <3>8. w[i + 1] = Kept(SubSeq(s, k + 1, E(i + 1)), S)
      BY <3>4, <3>7
    <3>9. E(i) = i * L
      BY <3>2
    <3> HIDE DEF E
    <3> QED
      BY <3>2, <3>8, <3>9
  <2> HIDE DEF E
  <2> DEFINE Good(i) == f[i + 1] = Kept(To(i + 1), S)
             T == {i \in 0..(last - 1) : ~Good(i)}
  <2>6. 0 \notin T
    <3>1. 0 \in Nat /\ 0 < last /\ 1 \in 1..last /\ 0 * L = 0 /\ 0 + 1 = 1
      BY <1>3, <2>1
    <3>2. w[1] = Kept(SubSeq(s, 1, E(1)), S)
      BY <2>5, <3>1
    <3>3. f[1] = w[1]
      BY <2>3, <3>1
    <3> QED
      BY <3>1, <3>2, <3>3
  <2>7. ASSUME NEW i \in Nat, i + 1 \in 0..(last - 1), Good(i) PROVE Good(i + 1)
    <3>1. PICK j \in Nat : j = i + 1
      OBVIOUS
    <3>2. j < last /\ j + 1 \in 1..last /\ (j + 1) - 1 = j /\ j + 1 # 1
      BY <1>3, <2>7, <3>1
    <3>3. f[j + 1] = f[j] \o w[j + 1]
      BY <2>3, <3>2
    <3>4. PICK k \in 0..n : k = E(j) /\ k = j * L
      BY <2>4, <2>5, <3>2
    <3>5. PICK m \in 0..n : m = E(j + 1)
      BY <2>4
    <3>6. k <= m
      BY <1>3, <1>1, <3>4, <3>5 DEF E
    <3>7. PICK a, b : a = SubSeq(s, 1, k) /\ b = SubSeq(s, k + 1, m)
      OBVIOUS
    <3>8. a \in Seq(U) /\ b \in Seq(U)
      <4>1. \A x \in 1..k : s[x] \in U
        BY <1>2, ElementOfSeq
      <4>2. \A x \in (k + 1)..m : s[x] \in U
        BY <1>2, ElementOfSeq
      <4> QED
        BY <3>7, <4>1, <4>2, SubSeqProperties
    <3>9. a \o b = SubSeq(s, 1, m)
      <4>1. /\ 1 \in 1..(Len(s) + 1) /\ k \in (1 - 1)..Len(s) /\ m \in k..Len(s)
        BY <1>2, <3>6
      <4>2. SubSeq(s, 1, k) \o SubSeq(s, k + 1, m) = SubSeq(s, 1, m)
        BY <4>1, ConcatAdjacentSubSeq
      <4> QED
        BY <3>7, <4>2
    <3>10. Kept(a \o b, S) = Kept(a, S) \o Kept(b, S)
      BY <3>8, KeptConcat
    <3>11. f[j] = Kept(a, S)
      BY <2>7, <3>1, <3>4, <3>7
    <3>12. w[j + 1] = Kept(b, S)
      BY <2>5, <3>2, <3>4, <3>5, <3>7
    <3> QED
      BY <3>1, <3>3, <3>5, <3>9, <3>10, <3>11, <3>12
  <2> HIDE DEF Good
  <2>8. T = {}
    <3>1. T \in SUBSET Nat
      OBVIOUS
    <3>2. ASSUME NEW i \in Nat, i + 1 \in T PROVE i \in T
      <4>1. i + 1 \in 0..(last - 1) /\ i \in 0..(last - 1)
        BY <1>3, <3>2
      <4> QED
        BY <2>7, <3>2, <4>1
    <3> HIDE DEF T
    <3> QED
      BY <2>6, <3>1, <3>2, NoLeastNumber
  <2>9. PICK z \in Nat : z + 1 = last /\ z \in 0..(last - 1)
    <3>1. last - 1 \in Nat /\ (last - 1) + 1 = last /\ last - 1 \in 0..(last - 1)
      BY <1>3, <2>1
    <3> QED
      BY <3>1
  <2>10. Good(z)
    BY <2>8, <2>9
  <2>11. E(last) = n
    <3>1. PICK a \in Nat : a = last * L /\ a >= n
      BY <1>3
    <3> QED
      BY <3>1 DEF E
  <2>12. SubSeq(s, 1, n) = s
    BY <1>2, SubSeqFull
  <2> QED
    BY <2>2, <2>9, <2>10, <2>11, <2>12 DEF Good
<1> QED
  BY <1>4, <1>5

\* The pages of the objects are all of them.
LEMMA WcPagesAreAll ==
  ASSUME WcTyped
  PROVE  WcPagesComplete
<1> SUFFICES ASSUME NEW type
             PROVE  LET last == (WcObjStatus(type, 0).total + WcLimit - 1) \div WcLimit
                    IN  FlattenSeq([p \in 1..last |-> WcObjStatus(type, (p - 1) * WcLimit).obj])
                          = Kept([i \in DOMAIN wc.objs |-> wc.objs[WcIndex(WcAllId[i])]],
                                 WcOfType(type))
  BY DEF WcPagesComplete
<1>1. PICK s : s = wc.objs
  OBVIOUS
<1>2. s \in Seq(WcObject) /\ DOMAIN s = 1..Len(s)
  BY <1>1 DEF WcTyped
<1>3. PICK S : S = WcOfType(type)
  OBVIOUS
<1>4. PICK last : last = (Len(s) + WcLimit - 1) \div WcLimit
  OBVIOUS
<1>5. PICK w : w = [p \in 1..last |-> Kept(WcSlice(s, (p - 1) * WcLimit), S)]
  OBVIOUS
<1>6. FlattenSeq(w) = Kept(s, S)
  BY <1>2, <1>4, <1>5, WcPaged
<1>7. [i \in DOMAIN wc.objs |-> wc.objs[WcIndex(WcAllId[i])]] = s
  <2>1. ASSUME NEW i \in 1..Len(s) PROVE s[WcIndex(WcAllId[i])] = s[i]
    <3>1. PICK id : id = s[i].id
      OBVIOUS
    <3>2. WcAllId[i] = id
      BY <1>1, <1>2, <3>1 DEF WcAllId
    <3>3. WcIndex(id) = i
      BY <1>1, <3>1, WcFound
    <3> QED
      BY <3>2, <3>3
  <2>2. s = [i \in 1..Len(s) |-> s[i]]
    BY <1>2
  <2> QED
    BY <1>1, <1>2, <2>1, <2>2
<1>8. WcObjStatus(type, 0).total = Len(s)
  BY <1>1 DEF WcObjStatus
<1>9. \A p : WcObjStatus(type, (p - 1) * WcLimit).obj = Kept(WcSlice(s, (p - 1) * WcLimit), S)
  BY <1>1, <1>3 DEF WcObjStatus
<1>10. [p \in 1..last |-> WcObjStatus(type, (p - 1) * WcLimit).obj] = w
  BY <1>5, <1>9
<1> QED
  BY <1>3, <1>4, <1>6, <1>7, <1>8, <1>10

\* The pages of a search are all that was selected.
LEMMA WcQueryIsAll ==
  ASSUME WcStored
  PROVE  WcQueryComplete
<1> SUFFICES ASSUME NEW from, NEW to, NEW ids
             PROVE  LET sel == WcSelected(from, to, ids)
                        last == (Len(sel) + WcLimit - 1) \div WcLimit
                    IN  /\ FlattenSeq([p \in 1..last |->
                                         WcDBQuery(sel, (p - 1) * WcLimit, WcLimit)]) = sel
                        /\ WcDBQuery(sel, -1, WcLimit) = sel
  BY DEF WcQueryComplete
<1>1. PICK sel : sel = WcSelected(from, to, ids)
  OBVIOUS
<1>2. sel \in Seq(WcDoc)
  BY <1>1, KeptIsSeq DEF WcSelected, WcStored
<1>3. PICK L \in Nat : L = WcLimit /\ L # 0
  BY WcAssumption
<1>4. PICK last : last = (Len(sel) + WcLimit - 1) \div WcLimit
  OBVIOUS
<1>5. PICK w : w = [p \in 1..last |-> Kept(WcSlice(sel, (p - 1) * WcLimit), WcDoc)]
  OBVIOUS
<1>6. FlattenSeq(w) = Kept(sel, WcDoc)
  BY <1>2, <1>4, <1>5, WcPaged
<1>7. Kept(sel, WcDoc) = sel
  BY <1>2, KeptAll, ElementOfSeq
<1>8. ASSUME NEW p \in 1..last
      PROVE  WcDBQuery(sel, (p - 1) * WcLimit, WcLimit)
               = Kept(WcSlice(sel, (p - 1) * WcLimit), WcDoc)
  <2>1. PICK k \in Nat : k = (p - 1) * WcLimit
    <3>1. p - 1 \in Nat /\ \A a, b \in Nat : a * b \in Nat
      OBVIOUS
    <3> QED
      BY <1>3, <3>1
  <2>2. ~(k < 0 \/ WcLimit < 0)
    BY <1>3
  <2>3. WcDBQuery(sel, k, WcLimit) = WcSlice(sel, k)
    BY <2>2, Zenon DEF WcDBQuery, WcSlice
  <2>4. PICK t : t = WcSlice(sel, k)
    OBVIOUS
  <2>5. t \in Seq(WcDoc)
    BY <1>2, <2>4, WcSliced
  <2>6. Kept(t, WcDoc) = t
    BY <2>5, KeptAll, ElementOfSeq
  <2> QED
    BY <2>1, <2>3, <2>4, <2>6
<1>9. [p \in 1..last |-> WcDBQuery(sel, (p - 1) * WcLimit, WcLimit)] = w
  BY <1>5, <1>8
<1>10. WcDBQuery(sel, -1, WcLimit) = sel
  BY DEF WcDBQuery
<1> QED
  BY <1>1, <1>4, <1>6, <1>7, <1>9, <1>10

\* Whatever is asked in pages is answered completely: the pages follow each other without
\* a gap up to the end of the list (WcPaged), and there is one url at most of each slave
\* that was read (WcUrlsOfRead).
THEOREM WcAnswersCompleteHolds == WcSpec => []WcAnswersComplete
<1>1. WcInit => WcInvariant
  BY WcInitialHolds DEF WcInit
<1>2. WcInvariant /\ [WcNext]_wc => WcInvariant'
  BY WcStepKeeps
<1>3. WcInvariant => WcAnswersComplete
  <2> SUFFICES ASSUME WcInvariant PROVE WcAnswersComplete
    OBVIOUS
  <2>1. WcUrlsFit
    <3>1. DOMAIN wc.urls = 1..Len(wc.urls)
      BY DEF WcInvariant, WcUrlsOfRead
    <3> QED
      BY <3>1, WcAssumption DEF WcInvariant, WcUrlsOfRead, WcUrlsFit, Once
  <2> QED
    BY <2>1, WcPagesAreAll, WcQueryIsAll DEF WcInvariant, WcAnswersComplete
<1> QED
  BY <1>1, <1>2, <1>3, PTL DEF WcSpec

-----------------------------------------------------------------------------
(* What the tracker reports.  A captured track keeps its entry for as long *)
(* as it can come back: its entry is behind by the time since it was seen  *)
(* last, and by the frames in which the capture of another track kept the  *)
(* loop from it.  Of those there are TrPassed in a row at most, or the     *)
(* track is an unlucky one, and TrKeep is long enough for them.            *)

\* Tracks, entries and the table of them.

TrTrack == [id : Nat, active : BOOLEAN, seen : Nat, start : Nat]
TrEntry == [capture : BOOLEAN, last : Nat, up : BOOLEAN]
TrTables == UNION {[ids -> TrEntry] : ids \in SUBSET Nat}

TrTyped ==
  tr \in [frame : Nat, packet : Nat, tracked : Seq(TrTrack), lost : SUBSET TrTrack,
          removed : SUBSET Nat, nextId : Nat, tracking : TrTables, last : Nat, shots : Seq(Nat),
          passed : [1..TrIds -> Nat], unlucky : SUBSET Nat, restarts : Nat]

\* The tracks that can be reported in a later frame.
TrAlive == Range(tr.tracked) \cup tr.lost

\* Ids are given out once: every id in use was given out before.
TrIdsGiven ==
  /\ tr.nextId >= 1 /\ tr.nextId <= TrIds + 1
  /\ \A t \in TrAlive : t.id >= 1 /\ t.id < tr.nextId /\ t.seen <= tr.frame
  /\ \A i \in 1..Len(tr.shots) : tr.shots[i] >= 1 /\ tr.shots[i] < tr.nextId
  /\ \A id \in DOMAIN tr.tracking : id < tr.nextId

\* A lost track that was not seen for long was marked removed.
TrGivenUp == \A t \in tr.lost : tr.frame - t.seen > TrMaxLost => t.id \in tr.removed

\* A track that was captured has its entry as long as it can be reported, unless
\* it is an unlucky one.
TrEntered ==
  \A t \in TrAlive : t.id \in Range(tr.shots) /\ t.id \notin tr.unlucky =>
    t.id \in DOMAIN tr.tracking /\ tr.tracking[t.id].capture

\* The others were not passed over too often.
TrLucky == \A id \in 1..TrIds : id \notin tr.unlucky => tr.passed[id] <= TrPassed

\* How far the entry of a track is behind: it was passed over some times since it
\* was reached, and is away since it was seen.
TrBehind(table, count, frame, packet, t) ==
  packet <= table[t.id].last + (frame - t.seen) * TrGap + count * ((TrMaxLost + 2) * TrGap)

TrRecent ==
  \A t \in TrAlive : t.id \in DOMAIN tr.tracking =>
    TrBehind(tr.tracking, tr.passed[t.id], tr.frame, tr.packet, t)

TrInv ==
  /\ TrTyped /\ IsFiniteSet(tr.lost) /\ TrIdsGiven /\ TrListsExact /\ TrGivenUp
  /\ TrCapturedOnce /\ TrEntered /\ TrLucky /\ TrRecent

\* What the type says of each part.
LEMMA TrParts ==
  ASSUME TrTyped
  PROVE  /\ tr.frame \in Nat /\ tr.packet \in Nat
         /\ tr.tracked \in Seq(TrTrack) /\ tr.lost \subseteq TrTrack /\ tr.removed \subseteq Nat
         /\ tr.nextId \in Nat /\ tr.tracking \in TrTables /\ tr.last \in Nat
         /\ tr.shots \in Seq(Nat) /\ tr.restarts \in Nat
         /\ tr.passed \in [1..TrIds -> Nat] /\ tr.unlucky \subseteq Nat
BY DEF TrTyped

LEMMA TrNumbers ==
  /\ TrMaxLost \in Nat /\ TrSweep \in Nat /\ TrSweep # 0 /\ TrGap \in Nat /\ TrDets \in Nat
  /\ TrMaxLost > 0 /\ TrGap > 0
  /\ TrIds \in Nat /\ TrKeep \in Nat /\ TrPassed \in Nat
BY TrTypeAssumption, TrKeepAssumption

\* The alive tracks are tracks, and their ids are all different.
LEMMA TrAliveIs ==
  ASSUME TrInv
  PROVE  /\ TrAlive \subseteq TrTrack /\ IdsOnce(tr.tracked)
         /\ \A s, t \in TrAlive : s.id = t.id => s = t
<1>1. /\ tr.tracked \in Seq(TrTrack) /\ tr.lost \subseteq TrTrack
      /\ DOMAIN tr.tracked = 1..Len(tr.tracked) /\ Len(tr.tracked) \in Nat
  <2>1. tr.tracked \in Seq(TrTrack) /\ tr.lost \subseteq TrTrack
    BY TrParts DEF TrInv
  <2> QED
    BY <2>1
<1>2. Range(tr.tracked) \subseteq TrTrack
  BY <1>1 DEF Range
<1>3. IdsOnce(tr.tracked)
  BY <1>1 DEF TrInv, TrListsExact, IdsOnce
<1>4. ASSUME NEW s \in TrAlive, NEW t \in TrAlive, s.id = t.id PROVE s = t
  <2>1. CASE s \in tr.lost /\ t \in tr.lost
    BY <1>4, <2>1 DEF TrInv, TrListsExact
  <2>2. CASE s \in Range(tr.tracked) /\ t \in tr.lost
    BY <1>4, <2>2 DEF TrInv, TrListsExact, TrIdsOf
  <2>3. CASE s \in tr.lost /\ t \in Range(tr.tracked)
    BY <1>4, <2>3 DEF TrInv, TrListsExact, TrIdsOf
  <2>4. CASE s \in Range(tr.tracked) /\ t \in Range(tr.tracked)
    <3>1. PICK i \in 1..Len(tr.tracked) : tr.tracked[i] = s
      BY <1>1, <2>4 DEF Range
    <3>2. PICK j \in 1..Len(tr.tracked) : tr.tracked[j] = t
      BY <1>1, <2>4 DEF Range
    <3> QED
      BY <1>3, <1>4, <3>1, <3>2 DEF IdsOnce
  <2> QED
    BY <2>1, <2>2, <2>3, <2>4 DEF TrAlive
<1> QED
  BY <1>1, <1>2, <1>3, <1>4 DEF TrAlive

\* The track was found: it is one of them, confirmed.
TrFoundAs(t, found) == t.active /\ \E s \in found : s.id = t.id

\* A list of tracks seen in frame f: found ones and new ones.
TrListOf(list, found, fresh, f) ==
  /\ list \in Seq(TrTrack) /\ IdsOnce(list)
  /\ \A t \in Range(list) :
       /\ t.seen = f
       /\ TrFoundAs(t, found) \/ (t.id >= tr.nextId /\ t.id < tr.nextId + fresh)

\* Updating keeps the ids.
LEMMA TrUpdatedEach ==
  ASSUME NEW s \in Seq(TrTrack), NEW f \in Nat, IdsOnce(s)
  PROVE  /\ UpdatedEach(s, f) \in Seq(TrTrack) /\ IdsOnce(UpdatedEach(s, f))
         /\ \A t \in Range(UpdatedEach(s, f)) :
              t.seen = f /\ t.active /\ \E r \in Range(s) : r.id = t.id
<1>1. PICK u : u = UpdatedEach(s, f)
  OBVIOUS
<1>2. Len(s) \in Nat /\ DOMAIN s = 1..Len(s) /\ \A i \in 1..Len(s) : s[i] \in TrTrack
  OBVIOUS
<1>3. u = [i \in 1..Len(s) |-> Updated(s[i], f)]
  BY <1>1, <1>2 DEF UpdatedEach
<1>4. ASSUME NEW r \in TrTrack
      PROVE  /\ Updated(r, f) \in TrTrack /\ Updated(r, f).id = r.id
             /\ Updated(r, f).seen = f /\ Updated(r, f).active
  BY DEF Updated, TrTrack
<1>5. ASSUME NEW i \in 1..Len(s)
      PROVE  u[i] \in TrTrack /\ u[i].id = s[i].id /\ u[i].seen = f /\ u[i].active
  <2>1. u[i] = Updated(s[i], f) /\ s[i] \in TrTrack
    BY <1>2, <1>3
  <2> QED
    BY <1>4, <2>1
<1>6. u \in Seq(TrTrack) /\ Len(u) = Len(s) /\ DOMAIN u = 1..Len(s)
  BY <1>2, <1>3, <1>5
<1>7. IdsOnce(u)
  BY <1>5, <1>6 DEF IdsOnce
<1> QED
  BY <1>1, <1>2, <1>5, <1>6, <1>7 DEF Range

\* The new tracks have ids that no track had.
LEMMA TrCreated ==
  ASSUME TrInv, NEW fresh \in Nat, NEW f \in Nat
  PROVE  /\ Created(fresh, f) \in Seq(TrTrack) /\ IdsOnce(Created(fresh, f))
         /\ \A t \in Range(Created(fresh, f)) :
              t.seen = f /\ t.id >= tr.nextId /\ t.id < tr.nextId + fresh
<1>1. PICK n : n = tr.nextId /\ n \in Nat /\ n >= 1
  BY TrParts DEF TrInv, TrIdsGiven
<1>2. PICK c : c = Created(fresh, f)
  OBVIOUS
<1>3. c = [i \in 1..fresh |-> Activated(n + i - 1, f)]
  BY <1>1, <1>2 DEF Created
<1>4. ASSUME NEW i \in 1..fresh
      PROVE  c[i] \in TrTrack /\ c[i].id = n + i - 1 /\ c[i].seen = f
  <2>1. n + i - 1 \in Nat
    BY <1>1
  <2>2. c[i] = [id |-> n + i - 1, active |-> f = 1, seen |-> f, start |-> f]
    BY <1>3 DEF Activated
  <2> QED
    BY <2>1, <2>2 DEF TrTrack
<1>5. c \in Seq(TrTrack) /\ Len(c) = fresh /\ DOMAIN c = 1..fresh
  BY <1>3, <1>4
<1>6. IdsOnce(c)
  <2> SUFFICES ASSUME NEW i \in 1..fresh, NEW j \in 1..fresh, c[i].id = c[j].id PROVE i = j
    BY <1>5 DEF IdsOnce
  <2>1. n + i - 1 = n + j - 1
    BY <1>4
  <2> QED
    BY <1>1, <2>1
<1>7. ASSUME NEW t \in Range(c) PROVE t.seen = f /\ t.id >= n /\ t.id < n + fresh
  <2>1. PICK i \in 1..fresh : c[i] = t
    BY <1>5 DEF Range
  <2>2. t.id = n + i - 1 /\ t.seen = f
    BY <1>4, <2>1
  <2> QED
    BY <1>1, <2>2
<1> QED
  BY <1>1, <1>2, <1>5, <1>6, <1>7

\* The tracks found again, in the order of their ids.
LEMMA TrSorted ==
  ASSUME NEW T \in SUBSET TrTrack, IsFiniteSet(T), NEW s \in SortedById(T)
  PROVE  s \in Seq(TrTrack) /\ IdsOnce(s) /\ Range(s) \subseteq T
<1>1. PICK n \in Nat : n = Cardinality(T)
  BY FS_CardinalityType
<1>2. /\ s \in [1..n -> T]
      /\ \A i, j \in DOMAIN s : i < j => s[i].id < s[j].id
  BY <1>1 DEF SortedById
<1>3. s \in Seq(TrTrack) /\ Len(s) = n /\ DOMAIN s = 1..n
  BY <1>1, <1>2
<1>4. IdsOnce(s)
  <2> SUFFICES ASSUME NEW i \in 1..n, NEW j \in 1..n, s[i].id = s[j].id PROVE i = j
    BY <1>3 DEF IdsOnce
  <2>1. s[i].id \in Nat
    BY <1>2 DEF TrTrack
  <2>2. ~(i < j)
    BY <1>2, <1>3, <2>1
  <2>3. ~(j < i)
    BY <1>2, <1>3, <2>1
  <2> QED
    BY <2>2, <2>3
<1> QED
  BY <1>2, <1>3, <1>4 DEF Range

\* The new tracked_stracks: found tracks and new ones, no id twice.
LEMMA TrListed ==
  ASSUME TrInv, NEW found \in SUBSET TrAlive, NEW fresh \in Nat, NEW f \in Nat,
         NEW refound \in SortedById(found \cap tr.lost)
  PROVE  TrListOf(TrackedList(found, refound, fresh, f), found, fresh, f)
<1>1. PICK k : k = Kept(tr.tracked, found)
  OBVIOUS
<1>2. PICK a : a = UpdatedEach(k, f)
  OBVIOUS
<1>3. PICK b : b = Created(fresh, f)
  OBVIOUS
<1>4. PICK c : c = UpdatedEach(refound, f)
  OBVIOUS
<1>5. TrackedList(found, refound, fresh, f) = (a \o b) \o c
  BY <1>1, <1>2, <1>3, <1>4 DEF TrackedList
<1>6. /\ tr.tracked \in Seq(TrTrack) /\ tr.lost \subseteq TrTrack /\ tr.nextId \in Nat
      /\ IdsOnce(tr.tracked) /\ IsFiniteSet(tr.lost)
  BY TrParts, TrAliveIs DEF TrInv
<1>7. k \in Seq(TrTrack) /\ IdsOnce(k) /\ Range(k) = Range(tr.tracked) \cap found
  BY <1>1, <1>6, KeptIsSeq, KeptIdsOnce
<1>8. refound \in Seq(TrTrack) /\ IdsOnce(refound) /\ Range(refound) \subseteq found \cap tr.lost
  <2>1. PICK T : T = found \cap tr.lost
    OBVIOUS
  <2>2. IsFiniteSet(T) /\ T \in SUBSET TrTrack
    BY <1>6, <2>1, FS_Subset
  <2>3. refound \in SortedById(T)
    BY <2>1
  <2>4. refound \in Seq(TrTrack) /\ IdsOnce(refound) /\ Range(refound) \subseteq T
    BY <2>2, <2>3, TrSorted
  <2> QED
    BY <2>1, <2>4
<1>9. /\ a \in Seq(TrTrack) /\ IdsOnce(a)
      /\ \A t \in Range(a) : t.seen = f /\ t.active /\ \E r \in Range(k) : r.id = t.id
  BY <1>2, <1>7, TrUpdatedEach
<1>10. /\ c \in Seq(TrTrack) /\ IdsOnce(c)
       /\ \A t \in Range(c) : t.seen = f /\ t.active /\ \E r \in Range(refound) : r.id = t.id
  BY <1>4, <1>8, TrUpdatedEach
<1>11. /\ b \in Seq(TrTrack) /\ IdsOnce(b)
       /\ \A t \in Range(b) : t.seen = f /\ t.id >= tr.nextId /\ t.id < tr.nextId + fresh
  BY <1>3, TrCreated
<1>12. \A t \in TrAlive : t.id \in Nat /\ t.id < tr.nextId
  BY TrAliveIs DEF TrInv, TrIdsGiven, TrTrack
<1>13. \A t \in Range(a) :
         /\ t.id < tr.nextId /\ TrFoundAs(t, found)
         /\ \E r \in Range(tr.tracked) : r.id = t.id
  BY <1>7, <1>9, <1>12 DEF TrAlive, TrFoundAs
<1>14. \A t \in Range(c) : t.id < tr.nextId /\ TrFoundAs(t, found) /\ \E r \in tr.lost : r.id = t.id
  BY <1>8, <1>10, <1>12 DEF TrAlive, TrFoundAs
<1>15. /\ \A t \in Range(a) \cup Range(b) \cup Range(c) : t \in TrTrack
       /\ \A t \in TrTrack : t.id \in Nat
  <2>1. \A s \in Seq(TrTrack) : Range(s) \subseteq TrTrack
    BY DEF Range
  <2> QED
    BY <1>9, <1>10, <1>11, <2>1 DEF TrTrack
<1>16. PICK ab : ab = a \o b
  OBVIOUS
<1>17. ab \in Seq(TrTrack) /\ Range(ab) = Range(a) \cup Range(b) /\ IdsOnce(ab)
  <2>1. \A x \in Range(a), y \in Range(b) : x.id # y.id
    BY <1>6, <1>11, <1>13, <1>15
  <2> QED
    BY <1>9, <1>11, <1>16, <2>1, RangeConcat, IdsOnceConcat
<1>18. /\ ab \o c \in Seq(TrTrack) /\ Range(ab \o c) = Range(ab) \cup Range(c)
       /\ IdsOnce(ab \o c)
  <2>1. \A x \in Range(ab), y \in Range(c) : x.id # y.id
    <3> SUFFICES ASSUME NEW x \in Range(ab), NEW y \in Range(c), x.id = y.id PROVE FALSE
      OBVIOUS
    <3>1. CASE x \in Range(a)
      <4>1. PICK r \in Range(tr.tracked) : r.id = x.id
        BY <1>13, <3>1
      <4>2. PICK q \in tr.lost : q.id = y.id
        BY <1>14
      <4> QED
        BY <4>1, <4>2 DEF TrInv, TrListsExact, TrIdsOf
    <3>2. CASE x \in Range(b)
      BY <1>6, <1>11, <1>14, <1>15, <3>2
    <3> QED
      BY <1>17, <3>1, <3>2
  <2> QED
    BY <1>10, <1>17, <2>1, RangeConcat, IdsOnceConcat
<1>19. PICK l : l = ab \o c
  OBVIOUS
<1>20. \A t \in Range(l) :
          /\ t.seen = f
          /\ TrFoundAs(t, found) \/ (t.id >= tr.nextId /\ t.id < tr.nextId + fresh)
  BY <1>9, <1>10, <1>11, <1>13, <1>14, <1>17, <1>18, <1>19
<1> QED
  BY <1>5, <1>16, <1>18, <1>19, <1>20 DEF TrListOf
\* What is left of such a list is one as well.
LEMMA TrListKept ==
  ASSUME NEW list, NEW S, NEW found, NEW fresh, NEW f, TrListOf(list, found, fresh, f)
  PROVE  TrListOf(Kept(list, S), found, fresh, f)
<1>1. list \in Seq(TrTrack) /\ IdsOnce(list)
  BY DEF TrListOf
<1>2. PICK k : k = Kept(list, S)
  OBVIOUS
<1>3. k \in Seq(TrTrack) /\ IdsOnce(k) /\ Range(k) = Range(list) \cap S
  BY <1>1, <1>2, KeptIsSeq, KeptIdsOnce
<1> QED
  BY <1>2, <1>3 DEF TrListOf

TrShaped(s) ==
  s = [frame |-> s.frame, packet |-> s.packet, tracked |-> s.tracked,
       lost |-> s.lost, removed |-> s.removed, nextId |-> s.nextId, tracking |-> s.tracking,
       last |-> s.last, shots |-> s.shots, passed |-> s.passed, unlucky |-> s.unlucky,
       restarts |-> s.restarts]

\* The tracks that are reported: the confirmed ones, each once.
TrOut(out, tracked) ==
  /\ out \in Seq(TrTrack) /\ IdsOnce(out)
  /\ Range(out) = {t \in Range(tracked) : t.active}

\* What one packet does to the lists.
TrLists(gap, fresh, found) ==
  /\ tr.nextId + fresh - 1 <= TrIds
  /\ tr'.frame = tr.frame + 1 /\ tr'.packet = tr.packet + gap
  /\ tr'.nextId = tr.nextId + fresh /\ tr'.restarts = tr.restarts
  /\ TrListOf(tr'.tracked, found, fresh, tr.frame + 1)
  /\ tr'.lost \subseteq LostList(found, NewlyLost(found))
  /\ tr'.removed \subseteq Nat
  /\ tr.removed \cup TrIdsOf(Outdated(found, tr.frame + 1)) \subseteq tr'.removed

\* What one packet does to the entries.
TrTable(out, boxes, packet, shot) ==
  /\ shot = Captured(out, boxes, packet)
  /\ tr'.tracking = Swept(Entries(out, boxes, packet, shot), packet)
  /\ tr'.last = IF shot = 0 THEN tr.last ELSE packet
  /\ tr'.shots = IF shot = 0 THEN tr.shots ELSE Append(tr.shots, out[shot].id)
  /\ tr'.passed = PassedCount(out, shot)
  /\ tr'.unlucky = tr.unlucky \cup Unlucky(out, shot)

\* The capture of a state.
LEMMA TrCaptureIs ==
  ASSUME NEW s, TrShaped(s), s.tracked \in Seq(TrTrack), IdsOnce(s.tracked),
         s.last = tr.last, s.shots = tr.shots, s.unlucky = tr.unlucky, TrCapture(s)
  PROVE  /\ TrShaped(tr')
         /\ tr'.frame = s.frame /\ tr'.packet = s.packet
         /\ tr'.tracked = s.tracked /\ tr'.lost = s.lost /\ tr'.removed = s.removed
         /\ tr'.nextId = s.nextId /\ tr'.restarts = s.restarts
         /\ \E out, boxes, shot : TrOut(out, s.tracked) /\ TrTable(out, boxes, s.packet, shot)
<1>1. PICK out : out = Kept(s.tracked, {t \in Range(s.tracked) : t.active})
  OBVIOUS
<1>2. PICK boxes \in [DOMAIN out -> {Above, Across, Below}] :
        tr' = [s EXCEPT
              !.tracking = Swept(Entries(out, boxes, s.packet, Captured(out, boxes, s.packet)),
                                 s.packet),
              !.last = IF Captured(out, boxes, s.packet) = 0 THEN @ ELSE s.packet,
              !.shots = IF Captured(out, boxes, s.packet) = 0 THEN @
                        ELSE Append(@, out[Captured(out, boxes, s.packet)].id),
              !.passed = PassedCount(out, Captured(out, boxes, s.packet)),
              !.unlucky = @ \cup Unlucky(out, Captured(out, boxes, s.packet))]
  BY <1>1, Zenon DEF TrCapture
<1>3. PICK shot : shot = Captured(out, boxes, s.packet)
  OBVIOUS
<1>4. PICK table : table = Swept(Entries(out, boxes, s.packet, shot), s.packet)
  OBVIOUS
<1>5. PICK last : last = IF shot = 0 THEN s.last ELSE s.packet
  OBVIOUS
<1>6. PICK shots : shots = IF shot = 0 THEN s.shots ELSE Append(s.shots, out[shot].id)
  OBVIOUS
<1> PICK passed : passed = PassedCount(out, shot)
  OBVIOUS
<1> PICK unlucky : unlucky = s.unlucky \cup Unlucky(out, shot)
  OBVIOUS
<1>7. tr' = [s EXCEPT !.tracking = table, !.last = last, !.shots = shots,
                      !.passed = passed, !.unlucky = unlucky]
  BY <1>2, <1>3, <1>4, <1>5, <1>6, Zenon
<1>8. tr' = [frame |-> s.frame, packet |-> s.packet, tracked |-> s.tracked,
             lost |-> s.lost, removed |-> s.removed, nextId |-> s.nextId, tracking |-> table,
             last |-> last, shots |-> shots, passed |-> passed, unlucky |-> unlucky,
             restarts |-> s.restarts]
  BY <1>7 DEF TrShaped
<1>9. TrOut(out, s.tracked)
  BY <1>1, KeptIsSeq, KeptIdsOnce DEF TrOut
<1>10. TrTable(out, boxes, s.packet, shot)
  <2>1. /\ tr'.tracking = table /\ tr'.last = last /\ tr'.shots = shots
        /\ tr'.passed = passed /\ tr'.unlucky = unlucky
    BY <1>8
  <2> QED
    BY <1>3, <1>4, <1>5, <1>6, <2>1 DEF TrTable
<1>11. TrShaped(tr')
  BY <1>8 DEF TrShaped
<1> QED
  BY <1>8, <1>9, <1>10, <1>11

\* Found tracks are alive ones.
LEMMA TrFoundAlive ==
  ASSUME NEW n, NEW m, NEW k, NEW first \in Assigned(StrackPool, n),
         NEW second \in Assigned(Confirmed \ first, m), NEW third \in Assigned(Unconfirmed, k)
  PROVE  first \cup second \cup third \in SUBSET TrAlive
BY DEF Assigned, StrackPool, Confirmed, Unconfirmed, TrAlive

\* One packet: the lists, and of the confirmed tracks the entries.
LEMMA TrProcessIs ==
  ASSUME TrInv, TrProcess
  PROVE  /\ TrShaped(tr')
         /\ \E gap \in 1..TrGap, fresh \in Nat, found \in SUBSET TrAlive :
              /\ TrLists(gap, fresh, found)
              /\ \E out, boxes, shot :
                   TrOut(out, tr'.tracked) /\ TrTable(out, boxes, tr.packet + gap, shot)
<1>1. PICK gap \in 1..TrGap, fresh \in 0..TrDets :
     \E first \in Assigned(StrackPool, TrDets - fresh) :
     \E second \in Assigned(Confirmed \ first, TrDets - fresh - Cardinality(first)) :
     \E third \in Assigned(Unconfirmed, TrDets - fresh - Cardinality(first \cup second)) :
       /\ tr.nextId + fresh - 1 <= TrIds
       /\ TrFollow(gap, fresh, first \cup second \cup third, Unconfirmed \ third)
  BY Zenon DEF TrProcess
<1>2. PICK first \in Assigned(StrackPool, TrDets - fresh) :
     \E second \in Assigned(Confirmed \ first, TrDets - fresh - Cardinality(first)) :
     \E third \in Assigned(Unconfirmed, TrDets - fresh - Cardinality(first \cup second)) :
       /\ tr.nextId + fresh - 1 <= TrIds
       /\ TrFollow(gap, fresh, first \cup second \cup third, Unconfirmed \ third)
  BY <1>1, Zenon
<1>3. PICK second \in Assigned(Confirmed \ first, TrDets - fresh - Cardinality(first)) :
     \E third \in Assigned(Unconfirmed, TrDets - fresh - Cardinality(first \cup second)) :
       /\ tr.nextId + fresh - 1 <= TrIds
       /\ TrFollow(gap, fresh, first \cup second \cup third, Unconfirmed \ third)
  BY <1>2, Zenon
<1>4. PICK third \in Assigned(Unconfirmed, TrDets - fresh - Cardinality(first \cup second)) :
       /\ tr.nextId + fresh - 1 <= TrIds
       /\ TrFollow(gap, fresh, first \cup second \cup third, Unconfirmed \ third)
  BY <1>3, Zenon
<1>5. PICK found : found = first \cup second \cup third
  OBVIOUS
<1>6. PICK gone : gone = Unconfirmed \ third
  OBVIOUS
<1>7. found \in SUBSET TrAlive
  BY <1>5, TrFoundAlive, Zenon
<1>8. fresh \in Nat /\ gap \in Nat
  BY TrNumbers
<1>9. TrFollow(gap, fresh, found, gone)
  BY <1>4, <1>5, <1>6
<1>10. PICK refound \in SortedById(found \cap tr.lost) :
        \E pairs \in SUBSET (Range(TrackedList(found, refound, fresh, tr.frame + 1))
                               \X LostList(found, NewlyLost(found))) :
          TrCapture([tr EXCEPT
              !.frame = tr.frame + 1, !.packet = @ + gap, !.nextId = @ + fresh,
              !.tracked = Kept(TrackedList(found, refound, fresh, tr.frame + 1),
                 Range(TrackedList(found, refound, fresh, tr.frame + 1))
                   \ DuplicateTracked(pairs)),
              !.lost = LostList(found, NewlyLost(found)) \ DuplicateLost(pairs),
              !.removed = RemovedList(Outdated(found, tr.frame + 1), gone)])
  BY <1>9, Zenon DEF TrFollow
<1>11. PICK pairs :
          TrCapture([tr EXCEPT
              !.frame = tr.frame + 1, !.packet = @ + gap, !.nextId = @ + fresh,
              !.tracked = Kept(TrackedList(found, refound, fresh, tr.frame + 1),
                 Range(TrackedList(found, refound, fresh, tr.frame + 1))
                   \ DuplicateTracked(pairs)),
              !.lost = LostList(found, NewlyLost(found)) \ DuplicateLost(pairs),
              !.removed = RemovedList(Outdated(found, tr.frame + 1), gone)])
  BY <1>10, Zenon
<1>12. PICK f : f = tr.frame + 1
  OBVIOUS
<1>13. PICK lost : lost = LostList(found, NewlyLost(found))
  OBVIOUS
<1>14. PICK s : s = [tr EXCEPT
                !.frame = f, !.packet = @ + gap, !.nextId = @ + fresh,
                !.tracked = Kept(TrackedList(found, refound, fresh, f),
                   Range(TrackedList(found, refound, fresh, f)) \ DuplicateTracked(pairs)),
                !.lost = lost \ DuplicateLost(pairs),
                !.removed = RemovedList(Outdated(found, f), gone)]
  OBVIOUS
<1>15. TrCapture(s)
  BY <1>11, <1>12, <1>13, <1>14, Zenon
<1>16. TrListOf(TrackedList(found, refound, fresh, f), found, fresh, f)
  BY <1>7, <1>8, <1>12, TrListed, TrParts DEF TrInv
<1>17. PICK kept : /\ kept = Kept(TrackedList(found, refound, fresh, f),
                                Range(TrackedList(found, refound, fresh, f))
                                  \ DuplicateTracked(pairs))
                   /\ TrListOf(kept, found, fresh, f)
  BY <1>16, TrListKept
<1>18. PICK removed : removed = RemovedList(Outdated(found, f), gone)
  OBVIOUS
<1>19. s = [tr EXCEPT !.frame = f, !.packet = @ + gap, !.nextId = @ + fresh, !.tracked = kept,
                     !.lost = lost \ DuplicateLost(pairs), !.removed = removed]
  BY <1>14, <1>17, <1>18, Zenon
<1>20. s = [frame |-> f, packet |-> tr.packet + gap, tracked |-> kept,
            lost |-> lost \ DuplicateLost(pairs), removed |-> removed,
            nextId |-> tr.nextId + fresh, tracking |-> tr.tracking, last |-> tr.last,
            shots |-> tr.shots, passed |-> tr.passed, unlucky |-> tr.unlucky,
            restarts |-> tr.restarts]
  BY <1>19 DEF TrInv, TrTyped
<1>21. /\ TrShaped(s) /\ s.tracked = kept /\ kept \in Seq(TrTrack) /\ IdsOnce(kept)
       /\ s.last = tr.last /\ s.shots = tr.shots /\ s.packet = tr.packet + gap
       /\ s.unlucky = tr.unlucky
  BY <1>17, <1>20 DEF TrListOf, TrShaped
<1>22. /\ TrShaped(tr')
       /\ tr'.frame = s.frame /\ tr'.packet = s.packet
       /\ tr'.tracked = s.tracked /\ tr'.lost = s.lost /\ tr'.removed = s.removed
       /\ tr'.nextId = s.nextId /\ tr'.restarts = s.restarts
       /\ \E out, boxes, shot : TrOut(out, s.tracked) /\ TrTable(out, boxes, s.packet, shot)
  BY <1>15, <1>21, TrCaptureIs
<1>23. /\ removed \subseteq Nat
       /\ tr.removed \cup TrIdsOf(Outdated(found, f)) \subseteq removed
  <2>1. tr.removed \subseteq Nat /\ \A t \in TrAlive : t.id \in Nat
    BY TrParts, TrAliveIs DEF TrInv, TrTrack
  <2>2. Outdated(found, f) \subseteq TrAlive /\ gone \subseteq TrAlive
    BY <1>6 DEF Outdated, Unconfirmed, TrAlive
  <2> QED
    BY <1>18, <2>1, <2>2 DEF RemovedList, TrIdsOf
<1>24. TrLists(gap, fresh, found)
  BY <1>4, <1>12, <1>13, <1>17, <1>20, <1>22, <1>23 DEF TrLists
<1> QED
  BY <1>7, <1>8, <1>21, <1>22, <1>24
\* The output tracks that the loop of the capture comes to.
TrReached(out, shot) == {i \in 1..Len(out) : shot = 0 \/ i <= shot}

\* The entries after the loop: those it came to are up to date, and the one of
\* the captured track is marked; the others are as they were.
TrMarked(e, out, packet, shot) ==
  /\ e \in TrTables
  /\ DOMAIN e = DOMAIN tr.tracking \cup {out[i].id : i \in TrReached(out, shot)}
  /\ \A id \in DOMAIN tr.tracking :
       (\A i \in TrReached(out, shot) : out[i].id # id) => e[id] = tr.tracking[id]
  /\ \A i \in TrReached(out, shot) :
       /\ e[out[i].id].last = packet
       /\ out[i].id \in DOMAIN tr.tracking /\ (tr.tracking[out[i].id].capture \/ i = shot) =>
            e[out[i].id].capture

\* An entry that is up to date, and marked if it was or is now.
TrSeenEntry(y, x, b, packet) ==
  y \in TrEntry /\ y.last = packet /\ ((x.capture \/ b) => y.capture)

\* A new entry, and one that is seen again.
LEMMA TrEntryIs ==
  ASSUME NEW packet \in Nat, NEW box
  PROVE  /\ NewEntry(box, packet) \in TrEntry /\ NewEntry(box, packet).last = packet
         /\ \A x \in TrEntry, b \in BOOLEAN :
              TrSeenEntry([Seen(x, packet) EXCEPT !.capture = @ \/ b], x, b, packet)
<1>1. PICK e : e = NewEntry(box, packet)
  OBVIOUS
<1>2. PICK up \in BOOLEAN : up = (box # Above)
  OBVIOUS
<1>3. e = [capture |-> FALSE, last |-> packet, up |-> up]
  BY <1>1, <1>2 DEF NewEntry
<1>4. e \in TrEntry /\ e.last = packet
  BY <1>3 DEF TrEntry
<1>5. ASSUME NEW x \in TrEntry, NEW b \in BOOLEAN
      PROVE  TrSeenEntry([Seen(x, packet) EXCEPT !.capture = @ \/ b], x, b, packet)
  <2>1. PICK y : y = [Seen(x, packet) EXCEPT !.capture = @ \/ b]
    OBVIOUS
  <2>2. x.capture \in BOOLEAN /\ x.up \in BOOLEAN
    BY DEF TrEntry
  <2>3. x = [capture |-> x.capture, last |-> x.last, up |-> x.up]
    BY DEF TrEntry
  <2>4. PICK c \in BOOLEAN : c = (x.capture \/ b)
    OBVIOUS
  <2>5. y = [capture |-> c, last |-> packet, up |-> x.up]
    BY <2>1, <2>3, <2>4 DEF Seen
  <2>6. y \in TrEntry /\ y.last = packet /\ y.capture = c
    BY <2>2, <2>5 DEF TrEntry
  <2>7. TrSeenEntry(y, x, b, packet)
    BY <2>4, <2>6 DEF TrSeenEntry
  <2> QED
    BY <2>1, <2>7
<1> QED
  BY <1>1, <1>4, <1>5, Zenon

\* What the loop leaves in "tracking".
LEMMA TrEntriesAre ==
  ASSUME TrTyped, NEW out \in Seq(TrTrack), IdsOnce(out), NEW boxes, NEW packet \in Nat, NEW shot
  PROVE  TrMarked(Entries(out, boxes, packet, shot), out, packet, shot)
<1>1. PICK e : e = Entries(out, boxes, packet, shot)
  OBVIOUS
<1>2. PICK R : R = {i \in DOMAIN out : shot = 0 \/ i <= shot}
  OBVIOUS
<1>3. PICK ids : ids = {out[i].id : i \in R}
  OBVIOUS
<1>4. PICK table : table = tr.tracking
  OBVIOUS
<1> DEFINE At(id) == CHOOSE i \in R : out[i].id = id
           val(id) == IF id \notin ids THEN table[id]
                      ELSE IF id \notin DOMAIN table THEN NewEntry(boxes[At(id)], packet)
                      ELSE [Seen(table[id], packet) EXCEPT !.capture = @ \/ At(id) = shot]
<1>5. e = [id \in DOMAIN table \cup ids |-> val(id)]
  BY <1>1, <1>2, <1>3, <1>4 DEF Entries
<1>6. /\ DOMAIN out = 1..Len(out) /\ Len(out) \in Nat
      /\ R = TrReached(out, shot) /\ R \subseteq 1..Len(out)
  BY <1>2 DEF TrReached
<1>7. /\ table \in TrTables /\ DOMAIN table \subseteq Nat
      /\ \A id \in DOMAIN table : table[id] \in TrEntry
  <2>1. table \in TrTables
    BY <1>4, TrParts
  <2>2. PICK d \in SUBSET Nat : table \in [d -> TrEntry]
    BY <2>1 DEF TrTables
  <2> QED
    BY <2>1, <2>2
<1>8. ids \subseteq Nat
  <2>1. \A i \in 1..Len(out) : out[i] \in TrTrack
    BY <1>6
  <2>2. \A x \in TrTrack : x.id \in Nat
    BY DEF TrTrack
  <2> QED
    BY <1>3, <1>6, <2>1, <2>2
<1>9. \A i \in R : At(out[i].id) = i
  <2> TAKE i \in R
  <2>1. \A j \in R : out[j].id = out[i].id => j = i
    BY <1>6 DEF IdsOnce
  <2> QED
    BY <2>1
<1> HIDE DEF At
<1>10. ASSUME NEW id \in ids
      PROVE  /\ val(id) \in TrEntry /\ val(id).last = packet
             /\ id \in DOMAIN table /\ (table[id].capture \/ At(id) = shot) => val(id).capture
  <2>1. CASE id \notin DOMAIN table
    <3>1. val(id) = NewEntry(boxes[At(id)], packet)
      BY <1>10, <2>1
    <3> HIDE DEF val
    <3> QED
      BY <2>1, <3>1, TrEntryIs
  <2>2. CASE id \in DOMAIN table
    <3>1. PICK x \in TrEntry : x = table[id]
      BY <1>7, <2>2
    <3>2. PICK b \in BOOLEAN : b = (At(id) = shot)
      OBVIOUS
    <3>3. val(id) = [Seen(x, packet) EXCEPT !.capture = @ \/ b]
      BY <1>10, <2>2, <3>1, <3>2
    <3>4. TrSeenEntry(val(id), x, b, packet)
      BY <3>3, TrEntryIs
    <3> HIDE DEF val
    <3> QED
      BY <3>1, <3>2, <3>4 DEF TrSeenEntry
  <2> QED
    BY <2>1, <2>2
<1>11. \A id \in DOMAIN table : id \notin ids => val(id) = table[id]
  OBVIOUS
<1> HIDE DEF val
<1>12. e \in TrTables
  <2>1. PICK d : d = DOMAIN table \cup ids
    OBVIOUS
  <2>2. d \in SUBSET Nat /\ e \in [d -> TrEntry]
    BY <1>5, <1>7, <1>8, <1>10, <1>11, <2>1
  <2> QED
    BY <2>2 DEF TrTables
<1>13. ASSUME NEW i \in R
       PROVE  /\ e[out[i].id].last = packet
              /\ out[i].id \in DOMAIN table /\ (table[out[i].id].capture \/ i = shot) =>
                   e[out[i].id].capture
  <2>1. PICK id \in ids : id = out[i].id
    BY <1>3
  <2>2. e[id] = val(id) /\ At(id) = i
    BY <1>5, <1>9, <2>1
  <2> QED
    BY <1>10, <2>1, <2>2
<1>14. \A id \in DOMAIN table : (\A i \in R : out[i].id # id) => e[id] = table[id]
  BY <1>3, <1>5, <1>11
<1>15. DOMAIN e = DOMAIN table \cup {out[i].id : i \in R}
  BY <1>3, <1>5
<1>16. TrMarked(e, out, packet, shot)
  BY <1>4, <1>6, <1>12, <1>13, <1>14, <1>15 DEF TrMarked
<1> QED
  BY <1>1, <1>16

\* A captured track has an entry, which says that it was not captured before.
LEMMA TrCapturedIs ==
  ASSUME NEW out \in Seq(TrTrack), NEW boxes, NEW packet, NEW shot,
         shot = Captured(out, boxes, packet)
  PROVE  /\ shot \in 0..Len(out)
         /\ shot # 0 => out[shot].id \in DOMAIN tr.tracking /\ ~tr.tracking[out[shot].id].capture
<1> DEFINE hit == {i \in DOMAIN out :
                /\ out[i].id \in DOMAIN tr.tracking
                /\ MayCapture(tr.tracking[out[i].id], tr.last, packet)
                /\ Crossed(tr.tracking[out[i].id], boxes[i])}
<1>1. shot = IF hit = {} THEN 0 ELSE CHOOSE i \in hit : \A j \in hit : i <= j
  BY DEF Captured
<1>2. DOMAIN out = 1..Len(out) /\ Len(out) \in Nat
  OBVIOUS
<1>3. hit \in SUBSET Nat
  BY <1>2
<1>4. \A i \in hit : /\ i \in 1..Len(out) /\ out[i].id \in DOMAIN tr.tracking
                     /\ ~tr.tracking[out[i].id].capture
  BY <1>2 DEF MayCapture
<1> HIDE DEF hit
<1>5. CASE hit = {}
  BY <1>1, <1>2, <1>5
<1>6. CASE hit # {}
  <2>1. \E i \in hit : \A j \in hit : i <= j
    BY <1>3, <1>6, LeastOfNumbers
  <2>2. shot \in hit
    BY <1>1, <1>6, <2>1
  <2> QED
    BY <1>2, <1>4, <2>2
<1> QED
  BY <1>5, <1>6

\* The entries left by the sweep: no other ones, and none that was seen lately.
LEMMA TrSweptIs ==
  ASSUME TrTyped, NEW e \in TrTables, NEW packet \in Nat
  PROVE  /\ Swept(e, packet) \in TrTables
         /\ DOMAIN Swept(e, packet) \subseteq DOMAIN e
         /\ \A id \in DOMAIN Swept(e, packet) : Swept(e, packet)[id] = e[id]
         /\ \A id \in DOMAIN e :
              e[id].last + TrKeep >= packet => id \in DOMAIN Swept(e, packet)
<1>1. PICK d \in SUBSET Nat : e \in [d -> TrEntry]
  BY DEF TrTables
<1>2. CASE packet % TrSweep # 0
  BY <1>2 DEF Swept
<1>3. CASE ~(packet % TrSweep # 0)
  <2>1. PICK k : k = {i \in DOMAIN e : e[i].last + TrKeep >= packet}
    OBVIOUS
  <2>2. PICK w : w = Swept(e, packet)
    OBVIOUS
  <2>3. w = [id \in k |-> e[id]] /\ k \subseteq d
    BY <1>1, <1>3, <2>1, <2>2 DEF Swept
  <2>4. k \in SUBSET Nat /\ w \in [k -> TrEntry]
    BY <1>1, <2>3
  <2>5. w \in TrTables
    BY <2>4 DEF TrTables
  <2> QED
    BY <2>1, <2>2, <2>3, <2>5
<1> QED
  BY <1>2, <1>3
\* A track that is alive after the packet is a lost one that was not found, a
\* found one or a new one.
TrStillLost(t, found) == t \in tr'.lost /\ t \in TrAlive /\ t \notin found
TrNewlySeen(t) == t \in Range(tr'.tracked) /\ t.seen = tr.frame + 1
TrNewId(t, fresh) == t.id >= tr.nextId /\ t.id < tr.nextId + fresh

LEMMA TrAliveNext ==
  ASSUME TrInv, NEW gap, NEW fresh, NEW found, TrLists(gap, fresh, found), NEW t \in TrAlive'
  PROVE  /\ t \in TrTrack
         /\ \/ TrStillLost(t, found)
            \/ TrNewlySeen(t) /\ TrFoundAs(t, found)
            \/ TrNewlySeen(t) /\ TrNewId(t, fresh)
<1>1. CASE t \in tr'.lost
  <2>1. t \in LostList(found, NewlyLost(found))
    BY <1>1 DEF TrLists
  <2>2. t \in TrAlive /\ t \notin found
    BY <2>1 DEF LostList, NewlyLost, Confirmed, TrAlive
  <2> QED
    BY <1>1, <2>2, TrAliveIs DEF TrStillLost
<1>2. CASE t \in Range(tr'.tracked)
  <2>1. TrListOf(tr'.tracked, found, fresh, tr.frame + 1)
    BY DEF TrLists
  <2>2. t \in TrTrack
    BY <1>2, <2>1 DEF TrListOf, Range
  <2> QED
    BY <1>2, <2>1, <2>2 DEF TrListOf, TrNewlySeen, TrNewId
<1> QED
  BY <1>1, <1>2 DEF TrAlive

\* Lost tracks are finitely many: alive ones.
LEMMA TrFiniteKeeps ==
  ASSUME TrInv, NEW gap, NEW fresh, NEW found, TrLists(gap, fresh, found)
  PROVE  IsFiniteSet(tr'.lost)
<1>1. IsFiniteSet(tr.lost)
  BY DEF TrInv
<1>2. PICK n \in Nat : tr.tracked \in [1..n -> Range(tr.tracked)]
  <2>1. tr.tracked \in Seq(TrTrack)
    BY TrParts DEF TrInv
  <2> QED
    BY <2>1 DEF Range
<1>3. tr.tracked \in Surjection(1..n, Range(tr.tracked))
  BY <1>2 DEF Surjection, Range
<1>4. IsFiniteSet(Range(tr.tracked))
  BY <1>3, FS_Interval, FS_Surjection
<1>5. IsFiniteSet(TrAlive)
  BY <1>1, <1>4, FS_Union DEF TrAlive
<1>6. tr'.lost \subseteq TrAlive
  BY DEF TrLists, LostList, NewlyLost, Confirmed, TrAlive
<1> QED
  BY <1>5, <1>6, FS_Subset

\* What the history says of a packet.
LEMMA TrHistoryIs ==
  ASSUME TrTyped, NEW out \in Seq(TrTrack), IdsOnce(out), NEW shot \in Nat
  PROVE  /\ PassedCount(out, shot) \in [1..TrIds -> Nat] /\ Unlucky(out, shot) \subseteq Nat
         /\ \A id \in 1..TrIds :
              /\ id \notin TrIdsOf(Range(out)) => PassedCount(out, shot)[id] = tr.passed[id]
              /\ \A i \in 1..Len(out) :
                   out[i].id = id /\ i \notin TrReached(out, shot) /\ id \in DOMAIN tr.tracking =>
                     PassedCount(out, shot)[id] = tr.passed[id] + 1
              /\ tr.passed[id] <= TrPassed /\ id \notin Unlucky(out, shot) =>
                   PassedCount(out, shot)[id] <= TrPassed
<1>1. PICK count, over, passed :
        count = PassedCount(out, shot) /\ over = PassedOver(out, shot) /\ passed = tr.passed
  OBVIOUS
<1>2. passed \in [1..TrIds -> Nat]
  BY <1>1, TrParts
<1>3. DOMAIN out = 1..Len(out) /\ Len(out) \in Nat /\ \A i \in 1..Len(out) : out[i].id \in Nat
  <2>1. \A x \in TrTrack : x.id \in Nat
    BY DEF TrTrack
  <2> QED
    BY <2>1
<1>4. count = [id \in 1..TrIds |-> IF id \in over THEN passed[id] + 1
                                  ELSE IF id \in TrIdsOf(Range(out)) THEN 0 ELSE passed[id]]
  BY <1>1, Zenon DEF PassedCount
<1>5. count \in [1..TrIds -> Nat]
  BY <1>2, <1>4
<1>6. over \subseteq TrIdsOf(Range(out)) /\ over \subseteq Nat
  BY <1>1, <1>3 DEF PassedOver, TrIdsOf, Range
<1>7. \A id \in 1..TrIds : id \notin TrIdsOf(Range(out)) => count[id] = passed[id]
  BY <1>4, <1>6
<1>8. ASSUME NEW i \in 1..Len(out), i \notin TrReached(out, shot), out[i].id \in DOMAIN tr.tracking
      PROVE  out[i].id \in over
  <2>1. shot # 0 /\ i > shot
    BY <1>3, <1>8 DEF TrReached
  <2> QED
    BY <1>1, <1>3, <1>8, <2>1 DEF PassedOver
<1>9. \A id \in 1..TrIds : id \in over => count[id] = passed[id] + 1
  BY <1>4
<1>10. ASSUME NEW id \in 1..TrIds, passed[id] <= TrPassed, id \notin Unlucky(out, shot)
       PROVE  count[id] <= TrPassed
  <2>1. passed[id] \in Nat /\ TrPassed \in Nat
    BY <1>2, TrNumbers
  <2>2. CASE id \in over
    <3>1. ~(passed[id] >= TrPassed)
      BY <1>1, <1>10, <2>2, Zenon DEF Unlucky
    <3> QED
      BY <1>9, <2>1, <2>2, <3>1
  <2>3. CASE id \notin over
    <3>1. count[id] \in {0, passed[id]}
      BY <1>4, <2>3
    <3> QED
      BY <1>10, <2>1, <3>1
  <2> QED
    BY <2>2, <2>3
<1>11. Unlucky(out, shot) \subseteq Nat
  BY <1>1, <1>6, Zenon DEF Unlucky
<1> QED
  BY <1>1, <1>5, <1>7, <1>8, <1>9, <1>10, <1>11, Zenon

\* Every part keeps its type.
LEMMA TrTypedKeeps ==
  ASSUME TrInv, TrShaped(tr'), NEW gap \in 1..TrGap, NEW fresh \in Nat, NEW found,
         TrLists(gap, fresh, found), NEW out, NEW boxes, NEW shot, TrOut(out, tr'.tracked),
         TrTable(out, boxes, tr.packet + gap, shot)
  PROVE  TrTyped'
<1>1. /\ tr.frame \in Nat /\ tr.packet \in Nat
      /\ tr.lost \subseteq TrTrack /\ tr.nextId \in Nat /\ tr.last \in Nat
      /\ tr.shots \in Seq(Nat) /\ tr.restarts \in Nat
  BY TrParts DEF TrInv
<1>2. gap \in Nat
  BY TrNumbers
<1>3. tr'.frame \in Nat /\ tr'.packet \in Nat /\ tr'.nextId \in Nat
  <2>1. /\ tr'.frame = tr.frame + 1 /\ tr'.packet = tr.packet + gap
        /\ tr'.nextId = tr.nextId + fresh
    BY DEF TrLists
  <2>2. PICK f \in Nat, p \in Nat, n \in Nat : f = tr.frame /\ p = tr.packet /\ n = tr.nextId
    BY <1>1
  <2>3. f + 1 \in Nat /\ p + gap \in Nat /\ n + fresh \in Nat
    BY <1>2
  <2>4. tr'.frame = f + 1 /\ tr'.packet = p + gap /\ tr'.nextId = n + fresh
    BY <2>1, <2>2
  <2> QED
    BY <2>3, <2>4
<1>4. tr'.tracked \in Seq(TrTrack) /\ tr'.removed \subseteq Nat /\ tr'.restarts \in Nat
  BY <1>1 DEF TrLists, TrListOf
<1>5. tr'.lost \subseteq TrTrack
  <2>1. tr'.lost \subseteq TrAlive
    BY DEF TrLists, LostList, NewlyLost, Confirmed, TrAlive
  <2>2. TrAlive \subseteq TrTrack
    BY TrAliveIs
  <2> QED
    BY <2>1, <2>2
<1>6. PICK packet \in Nat : packet = tr.packet + gap
  BY <1>1, <1>2
<1>7. out \in Seq(TrTrack) /\ IdsOnce(out)
  BY DEF TrOut
<1>8. tr'.tracking \in TrTables
  <2>1. PICK e : e = Entries(out, boxes, packet, shot) /\ e \in TrTables
    BY <1>7, TrEntriesAre DEF TrMarked, TrInv
  <2>2. Swept(e, packet) \in TrTables
    BY <2>1, TrSweptIs DEF TrInv
  <2> QED
    BY <1>6, <2>1, <2>2 DEF TrTable
<1>9. tr'.last \in Nat
  BY <1>1, <1>6 DEF TrTable
<1>10. tr'.shots \in Seq(Nat)
  <2>1. shot \in 0..Len(out)
    BY <1>7, TrCapturedIs DEF TrTable
  <2>2. CASE shot = 0
    BY <1>1, <2>2 DEF TrTable
  <2>3. CASE shot # 0
    <3>1. out[shot] \in TrTrack
      BY <1>7, <2>1, <2>3
    <3>2. out[shot].id \in Nat
      BY <3>1 DEF TrTrack
    <3> QED
      BY <1>1, <2>3, <3>2 DEF TrTable
  <2> QED
    BY <2>2, <2>3
<1>11. tr'.passed \in [1..TrIds -> Nat] /\ tr'.unlucky \subseteq Nat
  <2>1. shot \in 0..Len(out) /\ Len(out) \in Nat
    BY <1>7, TrCapturedIs DEF TrTable
  <2>2. TrTyped /\ shot \in Nat
    BY <2>1 DEF TrInv
  <2>3. PassedCount(out, shot) \in [1..TrIds -> Nat] /\ Unlucky(out, shot) \subseteq Nat
    BY <1>7, <2>2, TrHistoryIs, Zenon
  <2>4. tr.unlucky \subseteq Nat
    BY <2>2, TrParts
  <2>5. tr'.passed = PassedCount(out, shot) /\ tr'.unlucky = tr.unlucky \cup Unlucky(out, shot)
    BY Zenon DEF TrTable
  <2> QED
    BY <2>3, <2>4, <2>5, Zenon
<1> QED
  BY <1>3, <1>4, <1>5, <1>8, <1>9, <1>10, <1>11 DEF TrTyped, TrShaped

\* What the capture adds to the shots: the id of a track that has an entry and
\* was not captured before or is unlucky.
LEMMA TrShotsAre ==
  ASSUME TrInv, NEW gap, NEW fresh, NEW found \in SUBSET TrAlive,
         TrLists(gap, fresh, found), NEW out, NEW boxes, NEW packet, NEW shot,
         TrOut(out, tr'.tracked),
         TrTable(out, boxes, packet, shot)
  PROVE  \/ shot = 0 /\ tr'.shots = tr.shots
         \/ \E id \in DOMAIN tr.tracking :
              /\ shot \in 1..Len(out) /\ id = out[shot].id
              /\ tr'.shots = Append(tr.shots, id)
              /\ id \in Range(tr.shots) => id \in tr.unlucky
              /\ id >= 1 /\ id < tr.nextId /\ id \in Nat
<1>1. out \in Seq(TrTrack) /\ Range(out) \subseteq Range(tr'.tracked) /\ Len(out) \in Nat
  BY DEF TrOut
<1>2. /\ shot \in 0..Len(out)
      /\ shot # 0 => out[shot].id \in DOMAIN tr.tracking /\ ~tr.tracking[out[shot].id].capture
  BY <1>1, TrCapturedIs DEF TrTable
<1>3. CASE shot = 0
  BY <1>3 DEF TrTable
<1>4. CASE shot # 0
  <2>1. PICK id \in DOMAIN tr.tracking : id = out[shot].id
    BY <1>2, <1>4
  <2>2. shot \in 1..Len(out) /\ out[shot] \in Range(tr'.tracked)
    BY <1>1, <1>2, <1>4 DEF Range
  <2>3. PICK t \in TrAlive' : t = out[shot]
    BY <2>2 DEF TrAlive
  <2>4. id < tr.nextId /\ id \in Nat
    <3>1. t \in TrTrack
      BY TrAliveNext
    <3> QED
      BY <2>1, <2>3, <3>1 DEF TrInv, TrIdsGiven, TrTrack
  <2>5. PICK s \in TrAlive : s.id = id
    <3>1. \/ TrStillLost(t, found)
          \/ TrNewlySeen(t) /\ TrFoundAs(t, found)
          \/ TrNewlySeen(t) /\ TrNewId(t, fresh)
      BY TrAliveNext
    <3>2. CASE TrStillLost(t, found)
      BY <2>1, <2>3, <3>2 DEF TrStillLost
    <3>3. CASE TrFoundAs(t, found)
      BY <2>1, <2>3, <3>3 DEF TrFoundAs
    <3>4. CASE TrNewId(t, fresh)
      <4>1. tr.nextId \in Nat
        BY TrParts DEF TrInv
      <4> QED
        BY <2>1, <2>3, <2>4, <3>4, <4>1 DEF TrNewId
    <3> QED
      BY <3>1, <3>2, <3>3, <3>4
  <2>6. id >= 1
    BY <2>5 DEF TrInv, TrIdsGiven
  <2>7. id \in Range(tr.shots) => id \in tr.unlucky
    BY <1>2, <1>4, <2>1, <2>5 DEF TrInv, TrEntered
  <2>8. tr'.shots = Append(tr.shots, id)
    BY <1>4, <2>1 DEF TrTable
  <2> QED
    BY <2>1, <2>2, <2>4, <2>6, <2>7, <2>8
<1> QED
  BY <1>3, <1>4
\* The hypotheses of what follows: one packet.
TrPacket(gap, fresh, found, out, boxes, packet, shot) ==
  /\ TrInv /\ TrTyped' /\ gap \in 1..TrGap /\ fresh \in Nat /\ found \in SUBSET TrAlive
  /\ packet = tr.packet + gap
  /\ TrLists(gap, fresh, found) /\ TrOut(out, tr'.tracked)
  /\ TrTable(out, boxes, packet, shot)

\* What the entries are before the sweep.
LEMMA TrPacketEntries ==
  ASSUME NEW gap, NEW fresh, NEW found, NEW out, NEW boxes, NEW packet, NEW shot,
         TrPacket(gap, fresh, found, out, boxes, packet, shot)
  PROVE  \E e \in TrTables :
           /\ TrMarked(e, out, packet, shot)
           /\ DOMAIN tr'.tracking \subseteq DOMAIN e
           /\ \A id \in DOMAIN tr'.tracking : tr'.tracking[id] = e[id]
           /\ \A id \in DOMAIN e :
                e[id].last + TrKeep >= packet => id \in DOMAIN tr'.tracking
<1>1. /\ TrTyped /\ out \in Seq(TrTrack) /\ IdsOnce(out) /\ gap \in Nat
  BY TrNumbers DEF TrPacket, TrInv, TrOut
<1>2. packet \in Nat
  BY <1>1, TrParts DEF TrPacket
<1>3. PICK e : e = Entries(out, boxes, packet, shot)
  OBVIOUS
<1>4. TrMarked(e, out, packet, shot)
  BY <1>1, <1>2, <1>3, TrEntriesAre
<1>5. e \in TrTables
  BY <1>4 DEF TrMarked
<1>6. PICK w : w = Swept(e, packet)
  OBVIOUS
<1>7. /\ DOMAIN w \subseteq DOMAIN e
      /\ \A id \in DOMAIN w : w[id] = e[id]
      /\ \A id \in DOMAIN e : e[id].last + TrKeep >= packet => id \in DOMAIN w
  BY <1>1, <1>2, <1>5, <1>6, TrSweptIs
<1>8. tr'.tracking = w
  BY <1>3, <1>6 DEF TrPacket, TrTable
<1> QED
  BY <1>4, <1>5, <1>7, <1>8

\* The output tracks are alive, found in this frame and confirmed.
LEMMA TrOutAre ==
  ASSUME NEW gap, NEW fresh, NEW found, NEW out, NEW boxes, NEW packet, NEW shot,
         TrPacket(gap, fresh, found, out, boxes, packet, shot)
  PROVE  /\ out \in Seq(TrTrack) /\ Len(out) \in Nat /\ IdsOnce(out)
         /\ \A i \in 1..Len(out) : out[i] \in Range(tr'.tracked) /\ out[i].id \in Nat
         /\ \A t \in Range(tr'.tracked) : t.active => \E i \in 1..Len(out) : out[i] = t
<1>1. out \in Seq(TrTrack) /\ IdsOnce(out) /\ Range(out) = {t \in Range(tr'.tracked) : t.active}
  BY DEF TrPacket, TrOut
<1>2. Len(out) \in Nat /\ DOMAIN out = 1..Len(out) /\ \A i \in 1..Len(out) : out[i] \in TrTrack
  BY <1>1
<1> QED
  BY <1>1, <1>2 DEF Range, TrTrack

\* Ids are given out once.
LEMMA TrIdsGivenKeeps ==
  ASSUME NEW gap, NEW fresh, NEW found, NEW out, NEW boxes, NEW packet, NEW shot,
         TrPacket(gap, fresh, found, out, boxes, packet, shot)
  PROVE  TrIdsGiven'
<1>1. /\ TrInv /\ tr.nextId \in Nat /\ TrIds \in Nat /\ tr.frame \in Nat /\ fresh \in Nat
      /\ tr.nextId + fresh - 1 <= TrIds /\ tr'.nextId = tr.nextId + fresh
      /\ tr'.frame = tr.frame + 1 /\ TrLists(gap, fresh, found) /\ found \in SUBSET TrAlive
  BY TrParts, TrNumbers DEF TrPacket, TrInv, TrLists
<1>2. \A t \in TrAlive : t \in TrTrack /\ t.id >= 1 /\ t.id < tr.nextId /\ t.seen <= tr.frame
  BY <1>1, TrAliveIs DEF TrInv, TrIdsGiven
<1>3. \A t \in TrTrack : t.id \in Nat /\ t.seen \in Nat
  BY DEF TrTrack
<1>4. tr.nextId >= 1 /\ tr.nextId <= TrIds + 1
  BY <1>1 DEF TrInv, TrIdsGiven
<1>5. tr'.nextId >= 1 /\ tr'.nextId <= TrIds + 1
  BY <1>1, <1>4
<1>6. ASSUME NEW t \in TrAlive' PROVE t.id >= 1 /\ t.id < tr'.nextId /\ t.seen <= tr'.frame
  <2>1. /\ t \in TrTrack
        /\ \/ TrStillLost(t, found)
           \/ TrNewlySeen(t) /\ TrFoundAs(t, found)
           \/ TrNewlySeen(t) /\ TrNewId(t, fresh)
    BY <1>1, TrAliveNext
  <2>2. CASE TrStillLost(t, found)
    BY <1>1, <1>2, <1>3, <2>2 DEF TrStillLost
  <2>3. CASE TrNewlySeen(t) /\ TrFoundAs(t, found)
    BY <1>1, <1>2, <1>3, <2>3 DEF TrNewlySeen, TrFoundAs
  <2>4. CASE TrNewlySeen(t) /\ TrNewId(t, fresh)
    BY <1>1, <1>3, <1>4, <2>1, <2>4 DEF TrNewlySeen, TrNewId
  <2> QED
    BY <2>1, <2>2, <2>3, <2>4
<1>7. ASSUME NEW i \in 1..Len(tr'.shots) PROVE tr'.shots[i] >= 1 /\ tr'.shots[i] < tr'.nextId
  <2>1. tr.shots \in Seq(Nat) /\ Len(tr.shots) \in Nat
    BY <1>1, TrParts DEF TrInv
  <2>2. \A j \in 1..Len(tr.shots) :
          tr.shots[j] >= 1 /\ tr.shots[j] < tr.nextId /\ tr.shots[j] \in Nat
    <3>1. \A j \in 1..Len(tr.shots) : tr.shots[j] \in Nat
      BY <2>1
    <3>2. \A j \in 1..Len(tr.shots) : tr.shots[j] >= 1 /\ tr.shots[j] < tr.nextId
      BY <1>1 DEF TrInv, TrIdsGiven
    <3> QED
      BY <3>1, <3>2
  <2>3. CASE tr'.shots = tr.shots
    BY <1>1, <2>2, <2>3
  <2>4. ASSUME NEW id, tr'.shots = Append(tr.shots, id), id >= 1, id < tr.nextId, id \in Nat
        PROVE  tr'.shots[i] >= 1 /\ tr'.shots[i] < tr'.nextId
    <3>1. i \in 1..(Len(tr.shots) + 1)
      BY <2>1, <2>4
    <3>2. CASE i \in 1..Len(tr.shots)
      <4>1. tr'.shots[i] = tr.shots[i]
        BY <2>1, <2>4, <3>2
      <4> QED
        BY <1>1, <2>2, <3>2, <4>1
    <3>3. CASE i \notin 1..Len(tr.shots)
      <4>1. i = Len(tr.shots) + 1
        BY <2>1, <3>1, <3>3
      <4>2. tr'.shots[i] = id
        BY <2>1, <2>4, <4>1
      <4> QED
        BY <1>1, <2>4, <4>2
    <3> QED
      BY <3>2, <3>3
  <2> QED
    BY <2>3, <2>4, TrShotsAre DEF TrPacket
<1>8. ASSUME NEW id \in DOMAIN tr'.tracking PROVE id < tr'.nextId
  <2>1. PICK e \in TrTables :
          TrMarked(e, out, packet, shot) /\ DOMAIN tr'.tracking \subseteq DOMAIN e
    BY TrPacketEntries
  <2>2. id \in DOMAIN tr.tracking \/ \E i \in TrReached(out, shot) : id = out[i].id
    BY <2>1 DEF TrMarked
  <2>3. CASE id \in DOMAIN tr.tracking
    <3>1. id \in Nat
      <4>1. tr.tracking \in TrTables
        BY <1>1, TrParts DEF TrInv
      <4> QED
        BY <2>3, <4>1 DEF TrTables
    <3> QED
      BY <1>1, <2>3, <3>1 DEF TrInv, TrIdsGiven
  <2>4. CASE \E i \in TrReached(out, shot) : id = out[i].id
    <3>1. PICK i \in 1..Len(out) : id = out[i].id
      BY <2>4 DEF TrReached
    <3>2. out[i] \in TrAlive'
      BY TrOutAre DEF TrAlive
    <3> QED
      BY <1>6, <3>1, <3>2
  <2> QED
    BY <2>2, <2>3, <2>4
<1> QED
  BY <1>5, <1>6, <1>7, <1>8 DEF TrIdsGiven

\* No id is in two places, and a lost track is given up in time.
LEMMA TrListsExactKeeps ==
  ASSUME NEW gap, NEW fresh, NEW found, NEW out, NEW boxes, NEW packet, NEW shot,
         TrPacket(gap, fresh, found, out, boxes, packet, shot)
  PROVE  TrListsExact' /\ TrGivenUp'
<1>1. /\ TrInv /\ tr.nextId \in Nat /\ tr.frame \in Nat /\ fresh \in Nat
      /\ tr'.frame = tr.frame + 1 /\ TrLists(gap, fresh, found) /\ found \in SUBSET TrAlive
      /\ TrListOf(tr'.tracked, found, fresh, tr.frame + 1)
  BY TrParts DEF TrPacket, TrInv, TrLists
<1>2. /\ TrAlive \subseteq TrTrack
      /\ \A s, t \in TrAlive : s.id = t.id => s = t
      /\ \A t \in TrAlive : t.id < tr.nextId /\ t.id \in Nat /\ t.seen \in Nat
  BY <1>1, TrAliveIs DEF TrInv, TrIdsGiven, TrTrack
<1>3. \A t \in tr'.lost : t \in TrAlive /\ t \notin found
  BY <1>1, TrAliveNext DEF TrLists, LostList, NewlyLost, Confirmed, TrAlive
<1>4. \A i, j \in DOMAIN tr'.tracked : tr'.tracked[i].id = tr'.tracked[j].id => i = j
  BY <1>1, SMTT(30) DEF TrListOf, IdsOnce
<1>5. ASSUME NEW t \in Range(tr'.tracked) PROVE t.seen = tr'.frame /\ t.id \notin TrIdsOf(tr'.lost)
  <2>1. t.seen = tr'.frame
    BY <1>1 DEF TrListOf
  <2>2. ASSUME NEW s \in tr'.lost, s.id = t.id PROVE FALSE
    <3>1. CASE TrFoundAs(t, found)
      BY <1>1, <1>2, <1>3, <2>2, <3>1 DEF TrFoundAs
    <3>2. CASE t.id >= tr.nextId
      BY <1>1, <1>2, <1>3, <2>2, <3>2
    <3> QED
      BY <1>1, <3>1, <3>2 DEF TrListOf
  <2> QED
    BY <2>1, <2>2 DEF TrIdsOf
<1>6. \A s, t \in tr'.lost : s.id = t.id => s = t
  BY <1>2, <1>3
<1>7. ASSUME NEW t \in tr'.lost
      PROVE  /\ tr'.frame - t.seen <= TrMaxLost + 1
             /\ tr'.frame - t.seen > TrMaxLost => t.id \in tr'.removed
  <2>1. t \in LostList(found, NewlyLost(found))
    BY <1>1 DEF TrLists
  <2>2. CASE t \in tr.lost \ found
    <3>1. t.id \notin tr.removed
      BY <2>1 DEF LostList
    <3>2. tr.frame - t.seen <= TrMaxLost
      BY <1>1, <1>2, <1>3, <2>2, <3>1, TrNumbers DEF TrInv, TrGivenUp
    <3>3. tr'.frame - t.seen > TrMaxLost => t \in Outdated(found, tr.frame + 1)
      BY <1>1, <2>2 DEF Outdated
    <3>4. TrIdsOf(Outdated(found, tr.frame + 1)) \subseteq tr'.removed
      BY <1>1 DEF TrLists
    <3> QED
      BY <1>1, <1>2, <1>3, <3>2, <3>3, <3>4, TrNumbers DEF TrIdsOf
  <2>3. CASE t \in Range(tr.tracked)
    <3>1. t.seen = tr.frame
      BY <1>1, <2>3 DEF TrInv, TrListsExact
    <3> QED
      BY <1>1, <3>1, TrNumbers
  <2> QED
    BY <2>1, <2>2, <2>3 DEF LostList, NewlyLost, Confirmed
<1> QED
  BY <1>4, <1>5, <1>6, <1>7 DEF TrListsExact, TrGivenUp

\* No track is captured twice.
LEMMA TrCapturedOnceKeeps ==
  ASSUME NEW gap, NEW fresh, NEW found, NEW out, NEW boxes, NEW packet, NEW shot,
         TrPacket(gap, fresh, found, out, boxes, packet, shot)
  PROVE  TrCapturedOnce'
<1>1. /\ TrInv /\ tr.shots \in Seq(Nat) /\ DOMAIN tr.shots = 1..Len(tr.shots)
  BY TrParts DEF TrPacket, TrInv
<1>2. tr.unlucky \subseteq tr'.unlucky
  BY DEF TrPacket, TrTable
<1>3. CASE tr'.shots = tr.shots
  BY <1>1, <1>2, <1>3 DEF TrInv, TrCapturedOnce
<1>4. ASSUME NEW id \in Nat, tr'.shots = Append(tr.shots, id),
             id \in Range(tr.shots) => id \in tr.unlucky
      PROVE  TrCapturedOnce'
  <2>1. PICK n \in Nat, s \in Seq(Nat), o \in Seq(Nat) :
          n = Len(tr.shots) /\ o = tr.shots /\ s = Append(o, id)
    <3>1. PICK o \in Seq(Nat) : o = tr.shots
      BY <1>1, Zenon
    <3>2. Len(o) \in Nat /\ Append(o, id) \in Seq(Nat)
      OBVIOUS
    <3> QED
      BY <3>1, <3>2, Zenon
  <2>2. /\ DOMAIN s = 1..(n + 1) /\ DOMAIN o = 1..n /\ s[n + 1] = id
        /\ \A i \in 1..n : s[i] = o[i] /\ o[i] \in Range(o)
    BY <2>1 DEF Range
  <2>3. ASSUME NEW i \in 1..(n + 1), NEW j \in 1..(n + 1), s[i] = s[j], s[i] \notin tr'.unlucky
        PROVE  i = j
    <3>1. s[i] \notin tr.unlucky
      BY <1>2, <2>3
    <3>2. CASE i \in 1..n /\ j \in 1..n
      BY <1>1, <2>1, <2>2, <2>3, <3>1, <3>2 DEF TrInv, TrCapturedOnce
    <3>3. CASE i = n + 1 /\ j \in 1..n
      BY <1>4, <2>1, <2>2, <2>3, <3>1, <3>3
    <3>4. CASE j = n + 1 /\ i \in 1..n
      BY <1>4, <2>1, <2>2, <2>3, <3>1, <3>4
    <3> QED
      BY <3>2, <3>3, <3>4
  <2> QED
    BY <1>4, <2>1, <2>2, <2>3, SMTT(30) DEF TrCapturedOnce
<1> QED
  BY <1>3, <1>4, TrShotsAre DEF TrPacket

\* The captured track is one of the list, or none.
LEMMA TrShotIs ==
  ASSUME NEW gap, NEW fresh, NEW found, NEW out, NEW boxes, NEW packet, NEW shot,
         TrPacket(gap, fresh, found, out, boxes, packet, shot)
  PROVE  shot \in Nat
<1>1. out \in Seq(TrTrack) /\ Len(out) \in Nat
  BY DEF TrPacket, TrOut
<1>2. shot \in 0..Len(out)
  BY <1>1, TrCapturedIs DEF TrPacket, TrTable
<1> QED
  BY <1>1, <1>2

\* The lucky ones stay lucky or become unlucky.
LEMMA TrLuckyKeeps ==
  ASSUME NEW gap, NEW fresh, NEW found, NEW out, NEW boxes, NEW packet, NEW shot,
         TrPacket(gap, fresh, found, out, boxes, packet, shot)
  PROVE  TrLucky'
<1>1. /\ TrTyped /\ TrLucky /\ out \in Seq(TrTrack) /\ IdsOnce(out)
      /\ tr'.passed = PassedCount(out, shot) /\ tr'.unlucky = tr.unlucky \cup Unlucky(out, shot)
  BY DEF TrPacket, TrInv, TrTable, TrOut
<1>2. ASSUME NEW id \in 1..TrIds, id \notin tr'.unlucky
      PROVE  tr'.passed[id] <= TrPassed
  <2>1. id \notin tr.unlucky /\ id \notin Unlucky(out, shot)
    BY <1>1, <1>2
  <2>2. tr.passed[id] <= TrPassed
    BY <1>1, <2>1 DEF TrLucky
  <2> QED
    BY <1>1, <2>1, <2>2, TrShotIs, TrHistoryIs, Zenon
<1> QED
  BY <1>2, Zenon DEF TrLucky

\* A product grows with its factor.
LEMMA TrProduct ==
  ASSUME NEW a \in Int, NEW b \in Int, NEW w \in Nat, a <= b
  PROVE  a * w \in Int /\ b * w \in Int /\ a * w <= b * w /\ (a + 1) * w = a * w + w
<1>1. PICK d \in Nat : b = a + d
  OBVIOUS
<1>2. d * w \in Nat
  OBVIOUS
<1>3. (a + d) * w = a * w + d * w /\ (a + 1) * w = a * w + w /\ a * w \in Int
  OBVIOUS
<1> QED
  BY <1>1, <1>2, <1>3

\* So long behind as an entry can be, it is kept.
LEMMA TrKeepIsEnough ==
  ASSUME NEW k \in Nat, k <= TrPassed, NEW age \in Int, age <= TrMaxLost + 1,
         NEW last \in Nat, NEW packet \in Nat,
         packet <= last + age * TrGap + k * ((TrMaxLost + 2) * TrGap)
  PROVE  last + TrKeep >= packet
<1>1. PICK M \in Nat, G \in Nat, K \in Nat, P \in Nat :
        /\ M = TrMaxLost /\ G = TrGap /\ K = TrKeep /\ P = TrPassed /\ G >= 1
        /\ K + 1 >= (P + 1) * ((M + 2) * G)
  BY TrNumbers, TrKeepAssumption
<1>2. PICK W \in Nat : W = (M + 2) * G
  OBVIOUS
<1>3. W = (M + 1) * G + G /\ (M + 1) * G \in Nat
  BY <1>2
<1>4. age * G \in Int /\ age * G <= (M + 1) * G
  BY <1>1, TrProduct
<1>5. k * W \in Int /\ P * W \in Int /\ k * W <= P * W /\ (P + 1) * W = P * W + W
  BY <1>1, TrProduct
<1>6. packet <= last + age * G + k * W
  BY <1>1, <1>2
<1>7. PICK p \in Int, q \in Int, r \in Int, g1 \in Nat :
        p = age * G /\ q = k * W /\ r = P * W /\ g1 = (M + 1) * G
  BY <1>3, <1>4, <1>5
<1>8. /\ packet <= last + p + q /\ p <= g1 /\ q <= r /\ K + 1 >= r + W /\ W = g1 + G
  BY <1>1, <1>2, <1>3, <1>4, <1>5, <1>6, <1>7
<1>9. last + K >= packet
  BY <1>1, <1>8
<1> QED
  BY <1>1, <1>9

\* Before the sweep no entry of a track that can be reported is too far behind.
LEMMA TrRecentBefore ==
  ASSUME NEW gap, NEW fresh, NEW found, NEW out, NEW boxes, NEW packet, NEW shot,
         TrPacket(gap, fresh, found, out, boxes, packet, shot),
         NEW e \in TrTables, TrMarked(e, out, packet, shot), NEW t \in TrAlive', t.id \in DOMAIN e
  PROVE  TrBehind(e, tr'.passed[t.id], tr.frame + 1, packet, t)
<1>1. /\ TrInv /\ tr.nextId \in Nat /\ tr.frame \in Nat /\ fresh \in Nat
      /\ gap \in Nat /\ gap <= TrGap
      /\ tr.packet \in Nat /\ packet = tr.packet + gap /\ packet \in Nat
      /\ tr.tracking \in TrTables /\ tr.passed \in [1..TrIds -> Nat]
      /\ TrLists(gap, fresh, found) /\ found \in SUBSET TrAlive
  BY TrParts, TrNumbers, SMTT(30) DEF TrPacket, TrInv
<1>2. PICK f : f = tr.frame + 1
  OBVIOUS
<1>3. PICK G \in Nat, M \in Nat, W \in Nat : G = TrGap /\ M = TrMaxLost /\ W = (M + 2) * G
  BY TrNumbers
<1>4. /\ t \in TrTrack /\ t.id \in Nat /\ t.seen \in Nat
      /\ \/ TrStillLost(t, found)
         \/ TrNewlySeen(t) /\ TrFoundAs(t, found)
         \/ TrNewlySeen(t) /\ TrNewId(t, fresh)
  BY <1>1, TrAliveNext DEF TrTrack
<1>5. t.seen <= f
  BY <1>1, <1>2, <1>4, TrIdsGivenKeeps DEF TrIdsGiven, TrLists
<1>6. t.id \in 1..TrIds
  <2>1. /\ t.id >= 1 /\ t.id < tr'.nextId /\ tr'.nextId <= TrIds + 1
    BY TrIdsGivenKeeps DEF TrIdsGiven
  <2>2. tr'.nextId \in Nat /\ TrIds \in Nat
    BY TrNumbers DEF TrPacket, TrTyped
  <2> QED
    BY <1>4, <2>1, <2>2
<1>7. PICK id \in 1..TrIds, c \in Nat, d \in Nat :
        id = t.id /\ c = tr.passed[id] /\ d = tr'.passed[id]
  BY <1>1, <1>6 DEF TrPacket, TrTyped
<1>8. /\ TrTyped /\ out \in Seq(TrTrack) /\ IdsOnce(out) /\ tr'.passed = PassedCount(out, shot)
  BY DEF TrPacket, TrInv, TrOut, TrTable
<1>81. /\ id \notin TrIdsOf(Range(out)) => d = c
      /\ \A i \in 1..Len(out) :
           out[i].id = id /\ i \notin TrReached(out, shot) /\ id \in DOMAIN tr.tracking =>
             d = c + 1
  <2>1. d = PassedCount(out, shot)[id]
    BY <1>7, <1>8
  <2>2. shot \in Nat
    BY TrShotIs, Zenon
  <2>3. /\ id \notin TrIdsOf(Range(out)) => PassedCount(out, shot)[id] = tr.passed[id]
        /\ \A i \in 1..Len(out) :
             out[i].id = id /\ i \notin TrReached(out, shot) /\ id \in DOMAIN tr.tracking =>
               PassedCount(out, shot)[id] = tr.passed[id] + 1
    BY <1>8, <2>2, TrHistoryIs, Zenon
  <2>4. c = tr.passed[id]
    BY <1>7
  <2> QED
    BY <2>1, <2>3, <2>4, Zenon
<1>9. CASE \E i \in TrReached(out, shot) : out[i].id = id
  <2>1. e[id].last = packet
    BY <1>7, <1>9 DEF TrMarked
  <2>2. PICK a \in Nat : a = f - t.seen
    BY <1>1, <1>2, <1>4, <1>5
  <2>3. a * G \in Nat /\ d * W \in Nat
    OBVIOUS
  <2>4. packet <= packet + a * G + d * W
    BY <1>1, <2>3
  <2> QED
    BY <1>2, <1>3, <1>7, <2>1, <2>2, <2>4 DEF TrBehind
<1>10. CASE ~\E i \in TrReached(out, shot) : out[i].id = id
  <2>1. id \in DOMAIN tr.tracking /\ e[id] = tr.tracking[id]
    BY <1>7, <1>10 DEF TrMarked
  <2>2. id < tr.nextId
    BY <1>1, <2>1 DEF TrInv, TrIdsGiven
  <2>3. PICK last \in Nat : last = tr.tracking[id].last
    <3>1. PICK dom \in SUBSET Nat : tr.tracking \in [dom -> TrEntry]
      BY <1>1 DEF TrTables
    <3>2. tr.tracking[id] \in TrEntry
      BY <2>1, <3>1
    <3> QED
      BY <3>2 DEF TrEntry
  <2>4. ASSUME NEW s \in TrAlive, s.id = id
        PROVE  tr.packet <= last + (tr.frame - s.seen) * G + c * W
    <3>1. TrBehind(tr.tracking, tr.passed[s.id], tr.frame, tr.packet, s)
      BY <1>1, <2>1, <2>4 DEF TrInv, TrRecent
    <3> QED
      BY <1>3, <1>7, <2>3, <2>4, <3>1 DEF TrBehind
  \* It was away and still is,
  <2>5. CASE TrStillLost(t, found)
    <3>1. t \in TrAlive
      BY <2>5 DEF TrStillLost
    <3>2. tr.packet <= last + (tr.frame - t.seen) * G + c * W
      BY <1>7, <2>4, <3>1
    <3>3. id \notin TrIdsOf(Range(out))
      <4>1. TrListsExact'
        BY TrListsExactKeeps
      <4>2. t \in tr'.lost /\ Range(out) \subseteq Range(tr'.tracked)
        BY <2>5 DEF TrStillLost, TrPacket, TrOut
      <4>3. \A x \in Range(tr'.tracked) : x.id \notin TrIdsOf(tr'.lost)
        BY <4>1 DEF TrListsExact
      <4> QED
        BY <1>7, <4>2, <4>3 DEF TrIdsOf
    <3>4. d = c
      BY <3>3, <1>81, Zenon
    <3>5. packet <= last + (f - t.seen) * G + c * W
      <4>1. PICK a \in Int : a = tr.frame - t.seen /\ a + 1 = f - t.seen
        <5>1. PICK n \in Nat, x \in Nat : n = tr.frame /\ x = t.seen
          BY <1>1, <1>4
        <5>2. n - x \in Int /\ (n - x) + 1 = (n + 1) - x
          OBVIOUS
        <5> QED
          BY <1>2, <5>1, <5>2
      <4>2. (a + 1) * G = a * G + G /\ a * G \in Int
        OBVIOUS
      <4>3. PICK p \in Int, q \in Int : p = a * G /\ q = c * W
        BY <4>2
      <4>4. packet <= last + (p + G) + q
        <5>1. tr.packet <= last + p + q
          BY <3>2, <4>1, <4>3
        <5>2. PICK n \in Nat : n = tr.packet /\ packet = n + gap /\ gap <= G
          BY <1>1, <1>3
        <5>3. n <= last + p + q
          BY <5>1, <5>2
        <5> QED
          BY <1>1, <5>2, <5>3
      <4> QED
        BY <4>1, <4>2, <4>3, <4>4
    <3> QED
      BY <1>2, <1>3, <1>7, <2>1, <2>3, <3>4, <3>5 DEF TrBehind
  \* or it is back and was passed over.
  <2>6. CASE TrNewlySeen(t) /\ TrFoundAs(t, found)
    <3>1. PICK s \in TrAlive : s.id = id
      BY <1>1, <1>7, <2>6 DEF TrFoundAs
    <3>2. tr.packet <= last + (tr.frame - s.seen) * G + c * W
      BY <2>4, <3>1
    <3>3. d = c + 1
      <4>1. PICK i \in 1..Len(out) : out[i] = t
        BY <2>6, TrOutAre DEF TrNewlySeen, TrFoundAs
      <4>2. i \notin TrReached(out, shot) /\ out[i].id = id
        BY <1>7, <1>10, <4>1
      <4> QED
        BY <2>1, <4>2, <1>81, Zenon
    <3>4. packet <= last + (f - t.seen) * G + (c + 1) * W
      <4>1. s.seen \in Nat /\ tr.frame - s.seen <= M + 1
        <5>1. s.seen \in Nat
          BY <1>1, TrAliveIs DEF TrTrack
        <5>2. CASE s \in Range(tr.tracked)
          BY <1>1, <1>3, <5>1, <5>2 DEF TrInv, TrListsExact
        <5>3. CASE s \in tr.lost
          BY <1>1, <1>3, <5>1, <5>3 DEF TrInv, TrListsExact
        <5> QED
          BY <5>1, <5>2, <5>3 DEF TrAlive
      <4>2. PICK a \in Int : a = tr.frame - s.seen
        BY <1>1, <4>1
      <4>3. a * G \in Int /\ a * G <= (M + 1) * G /\ (M + 1) * G \in Int /\ W = (M + 1) * G + G
        <5>1. PICK b \in Int : b = M + 1
          OBVIOUS
        <5>2. a <= b
          BY <4>1, <4>2, <5>1
        <5>3. a * G \in Int /\ b * G \in Int /\ a * G <= b * G /\ (b + 1) * G = b * G + G
          BY <5>2, TrProduct
        <5> QED
          BY <1>3, <5>1, <5>3
      <4>4. (c + 1) * W = c * W + W /\ c * W \in Int
        BY TrProduct
      <4>5. t.seen = f
        BY <1>2, <2>6 DEF TrNewlySeen
      <4>6. (f - t.seen) * G = 0
        BY <1>1, <1>2, <4>5
      <4>7. tr.packet <= last + a * G + c * W
        BY <3>2, <4>2
      <4>8. PICK p \in Int, q \in Int, r \in Int : p = a * G /\ q = c * W /\ r = (M + 1) * G
        BY <4>3, <4>4
      <4>9. packet <= last + q + W
        <5>1. tr.packet <= last + p + q /\ p <= r /\ W = r + G
          BY <4>3, <4>7, <4>8
        <5>2. PICK n \in Nat : n = tr.packet /\ packet = n + gap /\ gap <= G
          BY <1>1, <1>3
        <5>3. n <= last + p + q
          BY <5>1, <5>2
        <5> QED
          BY <1>1, <5>1, <5>2, <5>3
      <4> QED
        BY <4>4, <4>6, <4>8, <4>9
    <3> QED
      BY <1>2, <1>3, <1>7, <2>1, <2>3, <3>3, <3>4 DEF TrBehind
  <2>7. ~TrNewId(t, fresh)
    BY <1>1, <1>4, <1>7, <2>2 DEF TrNewId
  <2> QED
    BY <1>4, <2>5, <2>6, <2>7
<1> QED
  BY <1>9, <1>10
\* An entry that is not too far behind is kept by the sweep.
LEMMA TrRecentIsEnough ==
  ASSUME NEW gap, NEW fresh, NEW found, NEW out, NEW boxes, NEW packet, NEW shot,
         TrPacket(gap, fresh, found, out, boxes, packet, shot), NEW e \in TrTables,
         TrMarked(e, out, packet, shot), NEW t \in TrAlive', t.id \in DOMAIN e,
         t.id \notin tr'.unlucky
  PROVE  e[t.id].last + TrKeep >= packet
<1>1. /\ TrInv /\ tr.frame \in Nat /\ tr.packet \in Nat /\ gap \in Nat /\ packet = tr.packet + gap
      /\ packet \in Nat /\ tr'.frame = tr.frame + 1 /\ TrLists(gap, fresh, found)
  BY TrParts, TrNumbers, SMTT(30) DEF TrPacket, TrInv, TrLists
<1>2. TrIdsGiven' /\ TrListsExact' /\ TrLucky'
  BY TrIdsGivenKeeps, TrListsExactKeeps, TrLuckyKeeps
<1>3. t.id \in Nat /\ t.seen \in Nat
  BY <1>1, TrAliveNext DEF TrTrack
<1>4. t.id \in 1..TrIds
  <2>1. t.id >= 1 /\ t.id < tr'.nextId /\ tr'.nextId <= TrIds + 1
    BY <1>2 DEF TrIdsGiven
  <2>2. tr'.nextId \in Nat /\ TrIds \in Nat
    BY TrNumbers DEF TrPacket, TrTyped
  <2> QED
    BY <1>3, <2>1, <2>2
<1>5. PICK k \in Nat : k = tr'.passed[t.id]
  BY <1>4 DEF TrPacket, TrTyped
<1>6. k <= TrPassed
  BY <1>2, <1>4, <1>5 DEF TrLucky
<1>7. PICK age \in Int : age = (tr.frame + 1) - t.seen
  BY <1>1, <1>3
<1>8. age <= TrMaxLost + 1
  <2>1. CASE t \in Range(tr'.tracked)
    <3>1. t.seen = tr.frame + 1
      BY <1>1, <1>2, <2>1 DEF TrListsExact
    <3> QED
      BY <1>1, <1>7, <3>1, TrNumbers
  <2>2. CASE t \in tr'.lost
    BY <1>1, <1>2, <1>7, <2>2 DEF TrListsExact
  <2> QED
    BY <2>1, <2>2 DEF TrAlive
<1>9. PICK last \in Nat : last = e[t.id].last
  <2>1. PICK d \in SUBSET Nat : e \in [d -> TrEntry]
    BY DEF TrTables
  <2>2. e[t.id] \in TrEntry
    BY <2>1
  <2> QED
    BY <2>2 DEF TrEntry
<1>10. packet <= last + age * TrGap + k * ((TrMaxLost + 2) * TrGap)
  <2>1. TrBehind(e, tr'.passed[t.id], tr.frame + 1, packet, t)
    BY TrRecentBefore
  <2> QED
    BY <1>5, <1>7, <1>9, <2>1 DEF TrBehind
<1>11. last + TrKeep >= packet
  BY <1>1, <1>6, <1>8, <1>10, TrKeepIsEnough
<1> QED
  BY <1>9, <1>11

\* A captured track keeps its entry, and no entry is too far behind.
LEMMA TrEntriesKeep ==
  ASSUME NEW gap, NEW fresh, NEW found, NEW out, NEW boxes, NEW packet, NEW shot,
         TrPacket(gap, fresh, found, out, boxes, packet, shot)
  PROVE  TrEntered' /\ TrRecent'
<1>1. PICK e \in TrTables :
        /\ TrMarked(e, out, packet, shot)
        /\ DOMAIN tr'.tracking \subseteq DOMAIN e
        /\ \A id \in DOMAIN tr'.tracking : tr'.tracking[id] = e[id]
        /\ \A id \in DOMAIN e : e[id].last + TrKeep >= packet => id \in DOMAIN tr'.tracking
  BY TrPacketEntries
<1>2. /\ TrInv /\ tr.nextId \in Nat /\ fresh \in Nat /\ found \in SUBSET TrAlive
      /\ TrLists(gap, fresh, found) /\ tr'.frame = tr.frame + 1 /\ tr'.packet = packet
  BY TrParts DEF TrPacket, TrInv, TrLists
<1>3. PICK table : table = tr'.tracking
  OBVIOUS
<1>4. ASSUME NEW t \in TrAlive', t.id \in DOMAIN table
      PROVE  TrBehind(table, tr'.passed[t.id], tr'.frame, tr'.packet, t)
  <2>1. t.id \in DOMAIN e /\ table[t.id] = e[t.id]
    BY <1>1, <1>3, <1>4
  <2>2. TrBehind(e, tr'.passed[t.id], tr.frame + 1, packet, t)
    BY <1>1, <2>1, TrRecentBefore
  <2> QED
    BY <1>2, <2>1, <2>2 DEF TrBehind
<1>5. ASSUME NEW t \in TrAlive', t.id \in Range(tr'.shots), t.id \notin tr'.unlucky
      PROVE  t.id \in DOMAIN table /\ table[t.id].capture
  <2>1. PICK id \in Nat : id = t.id
    BY <1>2, TrAliveNext DEF TrTrack
  <2>2. id \in DOMAIN tr.tracking /\ e[id].capture
    <3>1. CASE id \in Range(tr.shots)
      <4>1. PICK s \in TrAlive : s.id = id
        <5>1. id < tr.nextId
          <6>1. tr.shots \in Seq(Nat)
            BY <1>2, TrParts DEF TrInv
          <6>2. PICK i \in 1..Len(tr.shots) : tr.shots[i] = id
            BY <3>1, <6>1 DEF Range
          <6> QED
            BY <1>2, <6>2 DEF TrInv, TrIdsGiven
        <5>2. ~TrNewId(t, fresh)
          BY <1>2, <2>1, <5>1 DEF TrNewId
        <5>3. TrStillLost(t, found) \/ TrFoundAs(t, found)
          BY <1>2, <5>2, TrAliveNext
        <5> QED
          BY <1>2, <2>1, <5>3 DEF TrStillLost, TrFoundAs
      <4>2. id \in DOMAIN tr.tracking /\ tr.tracking[id].capture
        <5>1. id \notin tr.unlucky
          BY <1>5, <2>1 DEF TrPacket, TrTable
        <5> QED
          BY <1>2, <3>1, <4>1, <5>1 DEF TrInv, TrEntered
      <4>3. CASE \E i \in TrReached(out, shot) : out[i].id = id
        BY <1>1, <4>2, <4>3 DEF TrMarked
      <4>4. CASE ~\E i \in TrReached(out, shot) : out[i].id = id
        <5>1. e[id] = tr.tracking[id]
          BY <1>1, <4>2, <4>4 DEF TrMarked
        <5> QED
          BY <4>2, <5>1
      <4> QED
        BY <4>3, <4>4
    <3>2. CASE id \notin Range(tr.shots)
      <4>1. tr'.shots # tr.shots
        BY <1>5, <2>1, <3>2
      <4>2. PICK x \in DOMAIN tr.tracking :
              /\ shot \in 1..Len(out) /\ x = out[shot].id
              /\ tr'.shots = Append(tr.shots, x) /\ x \in Nat
        BY <4>1, TrShotsAre DEF TrPacket
      <4>3. x = id
        <5>1. tr.shots \in Seq(Nat)
          BY <1>2, TrParts DEF TrInv
        <5>2. Range(Append(tr.shots, x)) = Range(tr.shots) \cup {x}
          BY <4>2, <5>1, RangeAppend
        <5> QED
          BY <1>5, <2>1, <3>2, <4>2, <5>2
      <4>4. shot \in TrReached(out, shot)
        BY <4>2, TrOutAre DEF TrReached
      <4>5. e[out[shot].id].capture
        BY <1>1, <4>2, <4>4 DEF TrMarked
      <4> QED
        BY <4>2, <4>3, <4>5
    <3> QED
      BY <3>1, <3>2
  <2>3. id \in DOMAIN e
    BY <1>1, <2>2 DEF TrMarked
  <2>4. e[id].last + TrKeep >= packet
    BY <1>1, <1>5, <2>1, <2>3, TrRecentIsEnough
  <2> QED
    BY <1>1, <1>3, <2>1, <2>2, <2>3, <2>4
<1> QED
  BY <1>3, <1>4, <1>5 DEF TrEntered, TrRecent

\* A packet keeps the invariant.
LEMMA TrProcessKeeps ==
  ASSUME TrInv, TrProcess
  PROVE  TrInv'
<1>1. PICK gap \in 1..TrGap, fresh \in Nat, found \in SUBSET TrAlive :
        /\ TrLists(gap, fresh, found)
        /\ \E out, boxes, shot :
             TrOut(out, tr'.tracked) /\ TrTable(out, boxes, tr.packet + gap, shot)
  BY TrProcessIs
<1>2. PICK out, boxes, shot : TrOut(out, tr'.tracked) /\ TrTable(out, boxes, tr.packet + gap, shot)
  BY <1>1
<1>3. TrTyped'
  BY <1>1, <1>2, TrProcessIs, TrTypedKeeps
<1>4. PICK packet : packet = tr.packet + gap
  OBVIOUS
<1>5. TrPacket(gap, fresh, found, out, boxes, packet, shot)
  BY <1>1, <1>2, <1>3, <1>4 DEF TrPacket
<1>6. TrIdsGiven' /\ TrListsExact' /\ TrGivenUp' /\ TrCapturedOnce' /\ TrEntered' /\ TrLucky'
      /\ TrRecent'
  BY <1>5, TrIdsGivenKeeps, TrListsExactKeeps, TrCapturedOnceKeeps, TrLuckyKeeps, TrEntriesKeep
<1>7. IsFiniteSet(tr'.lost)
  BY <1>1, TrFiniteKeeps
<1> QED
  BY <1>3, <1>6, <1>7 DEF TrInv

\* A new tracker has no tracks; of the ids and the captures nothing is forgotten.
TrFreshGood ==
  \A nextId \in Nat, shots \in Seq(Nat), unlucky \in SUBSET Nat, restarts \in Nat :
    /\ nextId >= 1 /\ nextId <= TrIds + 1
    /\ \A i \in 1..Len(shots) : shots[i] >= 1 /\ shots[i] < nextId
    /\ \A i, j \in DOMAIN shots : shots[i] = shots[j] /\ shots[i] \notin unlucky => i = j
    /\ tr = TrFresh(nextId, shots, unlucky, restarts)
    => TrInv

LEMMA TrFreshIs == TrFreshGood
<1> SUFFICES ASSUME NEW nextId \in Nat, NEW shots \in Seq(Nat), NEW unlucky \in SUBSET Nat,
                    NEW restarts \in Nat, nextId >= 1, nextId <= TrIds + 1,
                    \A i \in 1..Len(shots) : shots[i] >= 1 /\ shots[i] < nextId,
                    \A i, j \in DOMAIN shots :
                      shots[i] = shots[j] /\ shots[i] \notin unlucky => i = j,
                    tr = TrFresh(nextId, shots, unlucky, restarts)
             PROVE  TrInv
  BY DEF TrFreshGood
<1>1. /\ tr = [frame |-> 0, packet |-> 0, tracked |-> <<>>, lost |-> {},
               removed |-> {}, nextId |-> nextId, tracking |-> <<>>, last |-> 0, shots |-> shots,
               passed |-> [id \in 1..TrIds |-> 0], unlucky |-> unlucky, restarts |-> restarts]
  BY DEF TrFresh
<1>2. PICK none : none = <<>>
  OBVIOUS
<1>3. none \in Seq(TrTrack) /\ DOMAIN none = {} /\ none \in [{} -> TrEntry]
  BY <1>2
<1>4. none \in TrTables /\ Range(none) = {}
  <2>1. {} \in SUBSET Nat
    OBVIOUS
  <2> QED
    BY <1>3, <2>1 DEF TrTables, Range
<1> PICK zeros : zeros = [id \in 1..TrIds |-> 0]
  OBVIOUS
<1>12. zeros \in [1..TrIds -> Nat] /\ \A id \in 1..TrIds : zeros[id] = 0
  OBVIOUS
<1>5. TrTyped
  BY <1>1, <1>2, <1>3, <1>4, <1>12 DEF TrTyped
<1>13. TrLucky
  <2>1. tr.passed = zeros
    BY <1>1
  <2> QED
    BY <1>12, <2>1, TrNumbers DEF TrLucky
<1>6. TrAlive = {} /\ DOMAIN tr.tracking = {} /\ tr.lost = {} /\ tr.tracked = none
  BY <1>1, <1>2, <1>3, <1>4 DEF TrAlive
<1>7. TrIdsGiven
  BY <1>1, <1>6 DEF TrIdsGiven
<1>8. TrListsExact /\ TrGivenUp
  BY <1>3, <1>4, <1>6 DEF TrListsExact, TrGivenUp
<1>9. TrCapturedOnce
  BY <1>1 DEF TrCapturedOnce
<1>10. TrEntered /\ TrRecent
  BY <1>6 DEF TrEntered, TrRecent
<1>11. IsFiniteSet(tr.lost)
  BY <1>6, FS_EmptySet
<1> QED
  BY <1>5, <1>7, <1>8, <1>9, <1>10, <1>11, <1>13 DEF TrInv

\* The same of the next state.
LEMMA TrFreshNext == TrFreshGood'
BY TrFreshIs, PTL

\* The invariant holds at first.
LEMMA TrInitialHolds ==
  ASSUME TrInitial
  PROVE  TrInv
<1>1. tr = TrFresh(1, <<>>, {}, 0)
  BY DEF TrInitial
<1>2. PICK n \in Nat, m \in Nat, none \in SUBSET Nat : n = 1 /\ m = 0 /\ none = {}
  OBVIOUS
<1>3. PICK shots : shots = <<>>
  OBVIOUS
<1>4. shots \in Seq(Nat) /\ Len(shots) = 0 /\ DOMAIN shots = {}
  BY <1>3
<1>5. tr = TrFresh(n, shots, none, m)
  BY <1>1, <1>2, <1>3
<1>6. /\ n >= 1 /\ n <= TrIds + 1
      /\ \A i \in 1..Len(shots) : shots[i] >= 1 /\ shots[i] < n
      /\ \A i, j \in DOMAIN shots : shots[i] = shots[j] /\ shots[i] \notin none => i = j
  BY <1>2, <1>4, TrNumbers
<1> QED
  BY <1>4, <1>5, <1>6, TrFreshIs DEF TrFreshGood

\* Stopping and starting the task keeps the invariant.
LEMMA TrStopKeeps ==
  ASSUME TrInv, TrStop
  PROVE  TrInv'
<1>1. /\ tr.nextId \in Nat /\ tr.shots \in Seq(Nat) /\ tr.restarts \in Nat
      /\ tr.unlucky \subseteq Nat /\ TrIdsGiven /\ TrCapturedOnce
  BY TrParts DEF TrInv
<1>2. PICK nextId \in Nat, shots \in Seq(Nat), unlucky \in SUBSET Nat, restarts \in Nat :
        /\ nextId = tr.nextId /\ shots = tr.shots /\ unlucky = tr.unlucky
        /\ restarts = tr.restarts + 1
  <2>1. PICK m \in Nat : m = tr.restarts + 1
    BY <1>1
  <2> QED
    BY <1>1, <2>1, Zenon
<1>3. tr' = TrFresh(nextId, shots, unlucky, restarts)
  BY <1>2 DEF TrStop
<1>4. /\ nextId >= 1 /\ nextId <= TrIds + 1
      /\ \A i \in 1..Len(shots) : shots[i] >= 1 /\ shots[i] < nextId
      /\ \A i, j \in DOMAIN shots : shots[i] = shots[j] /\ shots[i] \notin unlucky => i = j
  BY <1>1, <1>2 DEF TrIdsGiven, TrCapturedOnce
<1> QED
  BY <1>3, <1>4, TrFreshNext DEF TrFreshGood

\* So does a step in which nothing happens.
LEMMA TrStutterKeeps ==
  ASSUME TrInv, UNCHANGED tr
  PROVE  TrInv'
BY DEF TrInv, TrTyped, TrIdsGiven, TrListsExact, TrGivenUp, TrCapturedOnce, TrEntered, TrLucky,
      TrRecent, TrAlive

\* However long the task runs, however many tracks there are and however often it
\* is restarted: no position is reported that is an old one, and an object that is
\* reported twice was passed over more often in a row than its entry is kept for
\* (TrackerProcess).
THEOREM TrExactHolds == TrSpec => []TrExact
<1>1. TrInitial => TrInv
  BY TrInitialHolds
<1>2. TrInv /\ [TrNext]_tr => TrInv'
  BY TrProcessKeeps, TrStopKeeps, TrStutterKeeps DEF TrNext
<1>3. TrInv => TrExact
  BY DEF TrInv, TrExact
<1> QED
  BY <1>1, <1>2, <1>3, PTL DEF TrSpec

==============================================================================
