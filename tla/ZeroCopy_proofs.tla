--------------------------- MODULE ZeroCopy_proofs ---------------------------
(***************************************************************************)
(* read_numpy of a local file gives the selection, and maps the file where *)
(* the slabs allow it: for every rank, every extent and chunk shape, every *)
(* selection, and every layout of the payloads that Init describes.        *)
(*                                                                         *)
(* Why a view is right.  The chunks of the plan hold all that is selected  *)
(* (PlanMeans).  The test of the total length says that they hold no more  *)
(* than that, so nothing else and no padding (NothingElse).  Their leading *)
(* index grows by 1, so the elements of each come before those of the next *)
(* (LeadingRises), and row-major order of the whole is that of the chunks, *)
(* one after the other (Concatenated): the file, from the first payload    *)
(* on, as the payloads are adjacent (AdjacentAdds) and raw (LayMeans).     *)
(*                                                                         *)
(* Nothing is assumed but that the constants are positive.                 *)
(***************************************************************************)
EXTENDS ZeroCopy, FiniteSetTheorems, WellFoundedInduction, TLAPS

-----------------------------------------------------------------------------
(* Numbers *)

(* Induction over the numbers up to p, from the well-foundedness of <: the
   least number that is not in S would follow one that is. *)
LEMMA InductTo ==
  ASSUME NEW p \in Nat, NEW S, 0 \in S,
         \A n \in 0 .. p - 1 : n \in S => n + 1 \in S
  PROVE  \A n \in 0 .. p : n \in S
<1> DEFINE T == {n \in 0 .. p : n \notin S}
           R == OpToRel(<, Nat)
<1>1. SUFFICES ASSUME T # {} PROVE FALSE
  OBVIOUS
<1>2. IsWellFoundedOn(R, Nat)
  BY NatLessThanWellFounded
<1>3. T \subseteq Nat
  OBVIOUS
<1>4. \E n \in T : \A m \in T : ~(<<m, n>> \in R)
  <2> HIDE DEF T, R
  <2> QED BY <1>1, <1>2, <1>3, WFMin
<1>5. PICK n \in T : \A m \in T : ~(<<m, n>> \in R)
  BY <1>4
<1>6. \A m \in T : ~(m < n)
  BY <1>3, <1>5 DEF OpToRel
<1>7. n \in 0 .. p /\ n \notin S /\ n # 0
  BY <1>5
<1>8. n - 1 \in 0 .. p - 1 /\ n - 1 \in Nat /\ (n - 1) + 1 = n
  BY <1>7
<1>9. n - 1 \notin T
  BY <1>6, <1>7, <1>8
<1>10. n - 1 \in S
  BY <1>8, <1>9
<1>11. (n - 1) + 1 \in S
  BY <1>8, <1>10
<1> QED BY <1>7, <1>8, <1>11

(* The integer part of a quotient. *)
LEMMA Quotient ==
  ASSUME NEW x \in Nat, NEW c \in Nat \ {0}
  PROVE  /\ x \div c \in Nat
         /\ (x \div c) * c <= x
         /\ x < (x \div c + 1) * c
OBVIOUS

(* Products are ordered as their factors. *)
LEMMA Product ==
  ASSUME NEW k \in Nat, NEW m \in Nat, NEW c \in Nat \ {0}
  PROVE  /\ k * c \in Nat
         /\ k <= m => k * c <= m * c
         /\ k * c < m * c => k < m
         /\ (k + 1) * c = k * c + c
OBVIOUS

(* A number with the two bounds of the integer part is the integer part. *)
LEMMA QuotientIs ==
  ASSUME NEW x \in Nat, NEW c \in Nat \ {0}, NEW k \in Nat,
         k * c <= x, x < (k + 1) * c
  PROVE  x \div c = k
<1>1. (x \div c) * c <= x /\ x < (x \div c + 1) * c /\ x \div c \in Nat
  BY Quotient
<1>2. k < x \div c + 1
  <2>1. k * c < (x \div c + 1) * c /\ k * c \in Nat /\ (x \div c + 1) * c \in Nat
    BY <1>1, Product
  <2> QED BY <1>1, <2>1, Product
<1>3. x \div c < k + 1
  <2>1. (x \div c) * c < (k + 1) * c
    BY <1>1, Product
  <2> QED BY <1>1, <2>1, Product
<1> QED BY <1>1, <1>2, <1>3

-----------------------------------------------------------------------------
(* Sums *)

(* The recursive function that Sums defines exists, and is what it says. *)
LEMMA SumsExists ==
  ASSUME NEW f \in Seq(Nat)
  PROVE  \E g : g = [n \in 0 .. Len(f) |-> IF n = 0 THEN 0 ELSE g[n - 1] + f[n]]
<1> DEFINE Is(g, p) == g = [n \in 0 .. p |-> IF n = 0 THEN 0 ELSE g[n - 1] + f[n]]
           S == {p \in Nat : \E g : Is(g, p)}
<1>1. 0 \in S
  <2>1. Is([n \in 0 .. 0 |-> 0], 0)
    OBVIOUS
  <2> QED BY <2>1
<1>2. ASSUME NEW p \in 0 .. Len(f) - 1, p \in S PROVE p + 1 \in S
  <2>1. PICK g : Is(g, p)
    BY <1>2
  <2> DEFINE h == [n \in 0 .. p + 1 |-> IF n = p + 1 THEN g[p] + f[p + 1] ELSE g[n]]
  <2>2. \A n \in 0 .. p + 1 : h[n] = IF n = 0 THEN 0 ELSE h[n - 1] + f[n]
    <3> TAKE n \in 0 .. p + 1
    <3>1. CASE n = p + 1
      BY <3>1
    <3>2. CASE n \in 1 .. p
      <4>1. h[n] = g[n] /\ h[n - 1] = g[n - 1]
        BY <3>2
      <4>2. g[n] = g[n - 1] + f[n]
        BY <2>1, <3>2
      <4> QED BY <3>2, <4>1, <4>2
    <3>3. CASE n = 0
      BY <2>1, <3>3
    <3> QED BY <3>1, <3>2, <3>3
  <2>3. Is(h, p + 1)
    BY <2>2
  <2> HIDE DEF h
  <2>4. \E e : Is(e, p + 1)
    BY <2>3
  <2>5. p + 1 \in Nat
    OBVIOUS
  <2> QED BY <2>4, <2>5
<1>3. Len(f) \in 0 .. Len(f) /\ Len(f) \in Nat
  OBVIOUS
<1> HIDE DEF S
<1>4. Len(f) \in S
  BY <1>1, <1>2, <1>3, InductTo
<1> QED BY <1>4 DEF S

(* Each sum is the one before it and the next summand. *)
LEMMA SumsMeans ==
  ASSUME NEW f \in Seq(Nat)
  PROVE  /\ Sums(f) \in [0 .. Len(f) -> Nat]
         /\ Sums(f)[0] = 0
         /\ \A n \in 1 .. Len(f) : Sums(f)[n] = Sums(f)[n - 1] + f[n]
<1> DEFINE g == Sums(f)
<1>1. g = [n \in 0 .. Len(f) |-> IF n = 0 THEN 0 ELSE g[n - 1] + f[n]]
  BY SumsExists DEF Sums
<1>2. Len(f) \in Nat /\ 0 \in 0 .. Len(f)
  OBVIOUS
<1> HIDE DEF g
<1>3. g[0] = 0
  <2>1. g[0] = IF 0 = 0 THEN 0 ELSE g[0 - 1] + f[0]
    BY <1>1, <1>2
  <2> QED BY <2>1
<1>4. \A n \in 1 .. Len(f) : g[n] = g[n - 1] + f[n]
  <2> TAKE n \in 1 .. Len(f)
  <2>1. n \in 0 .. Len(f) /\ n # 0
    BY <1>2
  <2>2. g[n] = IF n = 0 THEN 0 ELSE g[n - 1] + f[n]
    BY <1>1, <2>1
  <2> QED BY <2>1, <2>2
<1>5. \A n \in 0 .. Len(f) : n \in {m \in Nat : g[m] \in Nat}
  <2> DEFINE S == {m \in Nat : g[m] \in Nat}
  <2>1. 0 \in S
    BY <1>3
  <2>2. ASSUME NEW n \in 0 .. Len(f) - 1, n \in S PROVE n + 1 \in S
    <3>1. g[n + 1] = g[n] + f[n + 1] /\ f[n + 1] \in Nat
      BY <1>2, <1>4
    <3> QED BY <2>2, <3>1
  <2> HIDE DEF S
  <2>3. \A n \in 0 .. Len(f) : n \in S
    BY <1>2, <2>1, <2>2, InductTo
  <2> QED BY <2>3 DEF S
<1>6. g \in [0 .. Len(f) -> Nat]
  BY <1>1, <1>5
<1> QED BY <1>3, <1>4, <1>6 DEF g

(* Sequences with the same summands are the same. *)
LEMMA SameSummands ==
  ASSUME NEW f \in Seq(Nat), NEW h \in Seq(Nat), Len(f) = Len(h),
         \A n \in 1 .. Len(f) : f[n] = h[n]
  PROVE  f = h
OBVIOUS

(* Sums of naturals never fall. *)
LEMMA SumsRise ==
  ASSUME NEW f \in Seq(Nat), NEW m \in 0 .. Len(f), NEW n \in m .. Len(f)
  PROVE  Sums(f)[m] <= Sums(f)[n]
<1> DEFINE g == Sums(f)
           S == {k \in Nat : m <= k => g[m] <= g[k]}
<1>1. /\ g \in [0 .. Len(f) -> Nat]
      /\ \A k \in 1 .. Len(f) : g[k] = g[k - 1] + f[k]
  BY SumsMeans
<1>2. Len(f) \in Nat /\ n \in 0 .. Len(f)
  OBVIOUS
<1> HIDE DEF g
<1>3. 0 \in S
  BY <1>1
<1>4. ASSUME NEW k \in 0 .. Len(f) - 1, k \in S PROVE k + 1 \in S
  <2>1. g[k + 1] = g[k] + f[k + 1] /\ f[k + 1] \in Nat /\ g[k] \in Nat /\ g[m] \in Nat
    BY <1>1, <1>2
  <2>2. k + 1 = m \/ m <= k \/ ~(m <= k + 1)
    BY <1>2
  <2> QED BY <1>4, <2>1, <2>2
<1> HIDE DEF S
<1>5. n \in S
  BY <1>2, <1>3, <1>4, InductTo
<1> QED BY <1>5 DEF S, g

(* Two sums of which one has the greater summands, and their being equal. *)
LEMMA SumsCompare ==
  ASSUME NEW f \in Seq(Nat), NEW h \in Seq(Nat), Len(f) = Len(h),
         \A n \in 1 .. Len(f) : f[n] <= h[n],
         NEW p \in 0 .. Len(f)
  PROVE  /\ Sums(f)[p] <= Sums(h)[p]
         /\ Sums(f)[p] = Sums(h)[p] => \A n \in 1 .. p : f[n] = h[n]
<1> DEFINE a == Sums(f)
           b == Sums(h)
           S == {k \in Nat : /\ a[k] <= b[k]
                             /\ a[k] = b[k] => \A n \in 1 .. k : f[n] = h[n]}
<1>1. /\ a \in [0 .. Len(f) -> Nat] /\ b \in [0 .. Len(f) -> Nat] /\ a[0] = 0 /\ b[0] = 0
      /\ \A k \in 1 .. Len(f) : a[k] = a[k - 1] + f[k] /\ b[k] = b[k - 1] + h[k]
  BY SumsMeans
<1>2. Len(f) \in Nat
  OBVIOUS
<1> HIDE DEF a, b
<1>3. 0 \in S
  BY <1>1
<1>4. ASSUME NEW k \in 0 .. Len(f) - 1, k \in S PROVE k + 1 \in S
  <2>1. /\ a[k + 1] = a[k] + f[k + 1] /\ b[k + 1] = b[k] + h[k + 1]
        /\ f[k + 1] \in Nat /\ h[k + 1] \in Nat /\ f[k + 1] <= h[k + 1]
        /\ a[k] \in Nat /\ b[k] \in Nat
    <3>1. k + 1 \in 1 .. Len(f) /\ k \in 0 .. Len(f) /\ (k + 1) - 1 = k
      BY <1>2
    <3>2. f[k + 1] \in Nat /\ h[k + 1] \in Nat
      BY <3>1
    <3> QED BY <1>1, <3>1, <3>2
  <2>2. a[k] <= b[k] /\ (a[k] = b[k] => \A n \in 1 .. k : f[n] = h[n])
    BY <1>4
  <2>3. a[k + 1] <= b[k + 1]
    BY <2>1, <2>2
  <2>4. ASSUME a[k + 1] = b[k + 1] PROVE \A n \in 1 .. k + 1 : f[n] = h[n]
    <3>1. PICK x \in Nat, y \in Nat, u \in Nat, v \in Nat :
            x = a[k] /\ y = b[k] /\ u = f[k + 1] /\ v = h[k + 1]
      BY <2>1
    <3>2. x <= y /\ u <= v /\ x + u = y + v
      BY <2>1, <2>2, <2>4, <3>1
    <3>3. x = y /\ u = v
      BY <3>2
    <3>4. \A n \in 1 .. k + 1 : n \in 1 .. k \/ n = k + 1
      OBVIOUS
    <3> QED BY <2>2, <3>1, <3>3, <3>4
  <2> QED BY <2>3, <2>4
<1> HIDE DEF S
<1>5. p \in S
  BY <1>2, <1>3, <1>4, InductTo
<1> QED BY <1>5 DEF S, a, b

(* Every number up to the sum of all falls into one summand. *)
LEMMA SumsLocate ==
  ASSUME NEW f \in Seq(Nat), NEW x \in 1 .. Sums(f)[Len(f)]
  PROVE  \E n \in 1 .. Len(f) : Sums(f)[n - 1] < x /\ x <= Sums(f)[n]
<1> DEFINE g == Sums(f)
           S == {k \in Nat : x <= g[k] => \E n \in 1 .. k : g[n - 1] < x /\ x <= g[n]}
<1>1. g \in [0 .. Len(f) -> Nat] /\ g[0] = 0
  BY SumsMeans
<1>2. Len(f) \in Nat /\ x \in Nat /\ 0 < x /\ x <= g[Len(f)] /\ Len(f) \in 0 .. Len(f)
  BY <1>1
<1> HIDE DEF g
<1>3. 0 \in S
  BY <1>1, <1>2
<1>4. ASSUME NEW k \in 0 .. Len(f) - 1, k \in S PROVE k + 1 \in S
  <2> SUFFICES ASSUME x <= g[k + 1] PROVE \E n \in 1 .. k + 1 : g[n - 1] < x /\ x <= g[n]
    OBVIOUS
  <2>1. CASE x <= g[k]
    <3>1. PICK n \in 1 .. k : g[n - 1] < x /\ x <= g[n]
      BY <1>4, <2>1
    <3>2. n \in 1 .. k + 1
      OBVIOUS
    <3> QED BY <3>1, <3>2
  <2>2. CASE ~(x <= g[k])
    <3>1. k + 1 \in 1 .. k + 1 /\ (k + 1) - 1 = k
      OBVIOUS
    <3>2. g[k] \in Nat
      BY <1>1, <1>2
    <3>3. g[(k + 1) - 1] < x
      BY <1>2, <2>2, <3>1, <3>2
    <3> QED BY <3>1, <3>3
  <2> QED BY <2>1, <2>2
<1> HIDE DEF S
<1>5. Len(f) \in S
  BY <1>2, <1>3, <1>4, InductTo
<1> QED BY <1>2, <1>5 DEF S, g

-----------------------------------------------------------------------------
(* Row-major order *)

Tuples == [Axes -> Nat]

(* There is a leading axis. *)
LEMMA AxesAre == Axes \subseteq Nat \ {0} /\ 1 \in Axes /\ Rank \in Nat
BY ConstantsAssumption DEF Axes

(* Before is a strict order of the index tuples. *)
LEMMA BeforeOrder ==
  ASSUME NEW i \in Tuples, NEW j \in Tuples, NEW k \in Tuples
  PROVE  /\ ~Before(i, i)
         /\ Before(i, j) => ~Before(j, i)
         /\ Before(i, j) /\ Before(j, k) => Before(i, k)
<1> USE AxesAre DEF Tuples
<1>1. ~Before(i, i)
  BY DEF Before
<1>2. ASSUME Before(i, j), Before(j, k) PROVE Before(i, k)
  <2>1. PICK a \in Axes : i[a] < j[a] /\ \A c \in Axes : c < a => i[c] = j[c]
    BY <1>2 DEF Before
  <2>2. PICK b \in Axes : j[b] < k[b] /\ \A c \in Axes : c < b => j[c] = k[c]
    BY <1>2 DEF Before
  <2>3. CASE a <= b
    <3>1. i[a] < k[a]
      BY <2>1, <2>2, <2>3
    <3>2. \A c \in Axes : c < a => i[c] = k[c]
      BY <2>1, <2>2, <2>3
    <3> QED BY <3>1, <3>2 DEF Before
  <2>4. CASE ~(a <= b)
    <3>1. i[b] < k[b]
      BY <2>1, <2>2, <2>4
    <3>2. \A c \in Axes : c < b => i[c] = k[c]
      BY <2>1, <2>2, <2>4
    <3> QED BY <3>1, <3>2 DEF Before
  <2> QED BY <2>3, <2>4
<1>3. ASSUME Before(i, j), Before(j, i) PROVE FALSE
  <2>1. PICK a \in Axes : i[a] < j[a] /\ \A c \in Axes : c < a => i[c] = j[c]
    BY <1>3 DEF Before
  <2>2. PICK b \in Axes : j[b] < i[b] /\ \A c \in Axes : c < b => j[c] = i[c]
    BY <1>3 DEF Before
  <2> QED BY <2>1, <2>2
<1> QED BY <1>1, <1>2, <1>3

(* Two index tuples differ first on some axis. *)
LEMMA BeforeTotal ==
  ASSUME NEW i \in Tuples, NEW j \in Tuples, i # j
  PROVE  Before(i, j) \/ Before(j, i)
<1> DEFINE T == {a \in Axes : i[a] # j[a]}
           R == OpToRel(<, Nat)
<1>1. T # {} /\ T \subseteq Nat
  <2>1. (\A a \in Axes : i[a] = j[a]) => i = j
    BY DEF Tuples
  <2> QED BY <2>1, AxesAre
<1>2. IsWellFoundedOn(R, Nat)
  BY NatLessThanWellFounded
<1>3. \E a \in T : \A b \in T : ~(<<b, a>> \in R)
  <2> HIDE DEF T, R
  <2> QED BY <1>1, <1>2, WFMin
<1>4. PICK a \in T : \A b \in T : ~(<<b, a>> \in R)
  BY <1>3
<1>5. \A b \in T : ~(b < a)
  BY <1>1, <1>4 DEF OpToRel
<1>6. \A b \in Axes : b < a => i[b] = j[b]
  BY <1>5
<1>7. a \in Axes /\ i[a] # j[a] /\ i[a] \in Nat /\ j[a] \in Nat
  BY <1>4 DEF Tuples
<1> QED BY <1>6, <1>7 DEF Before

(* How many tuples of T come before one determines it. *)
Below(T, i) == {j \in T : Before(j, i)}

(* The tuples before i are finitely many, and fewer than those before a later j. *)
LEMMA BelowCounts ==
  ASSUME NEW T \in SUBSET Tuples, IsFiniteSet(T), NEW i \in T
  PROVE  /\ IsFiniteSet(Below(T, i))
         /\ Cardinality(Below(T, i)) \in 0 .. Cardinality(T) - 1
         /\ \A j \in T : Before(i, j) => Cardinality(Below(T, i)) < Cardinality(Below(T, j))
<1>1. \A j \in T : Below(T, j) \in SUBSET T /\ IsFiniteSet(Below(T, j))
                   /\ Cardinality(Below(T, j)) \in Nat /\ j \notin Below(T, j)
  <2> TAKE j \in T
  <2>1. Below(T, j) \in SUBSET T /\ j \notin Below(T, j)
    BY BeforeOrder DEF Below
  <2>2. IsFiniteSet(Below(T, j))
    BY <2>1, FS_Subset
  <2> QED BY <2>1, <2>2, FS_CardinalityType
<1>2. Cardinality(T) \in Nat
  BY FS_CardinalityType
<1>3. Cardinality(Below(T, i)) < Cardinality(T)
  <2>1. /\ Cardinality(Below(T, i)) <= Cardinality(T)
        /\ Cardinality(T) = Cardinality(Below(T, i)) => T = Below(T, i)
    BY <1>1, FS_Subset
  <2> QED BY <1>1, <1>2, <2>1
<1>4. ASSUME NEW j \in T, Before(i, j)
      PROVE  Cardinality(Below(T, i)) < Cardinality(Below(T, j))
  <2>1. Below(T, i) \in SUBSET Below(T, j) /\ i \in Below(T, j)
    BY <1>4, BeforeOrder DEF Below
  <2>2. /\ Cardinality(Below(T, i)) <= Cardinality(Below(T, j))
        /\ Cardinality(Below(T, j)) = Cardinality(Below(T, i)) => Below(T, j) = Below(T, i)
    BY <1>1, <2>1, FS_Subset
  <2> QED BY <1>1, <2>1, <2>2
<1> QED BY <1>1, <1>2, <1>3, <1>4

(* RowMajor lists the tuples of a finite set, each at the place that the number
   of tuples before it gives. *)
LEMMA RowMajorMeans ==
  ASSUME NEW T \in SUBSET Tuples, IsFiniteSet(T)
  PROVE  /\ Cardinality(T) \in Nat
         /\ RowMajor(T) \in [1 .. Cardinality(T) -> T]
         /\ RowMajor(T) \in Seq(T) /\ Len(RowMajor(T)) = Cardinality(T)
         /\ \A n \in 1 .. Cardinality(T) : Cardinality(Below(T, RowMajor(T)[n])) = n - 1
         /\ \A i \in T : /\ Cardinality(Below(T, i)) + 1 \in 1 .. Cardinality(T)
                         /\ RowMajor(T)[Cardinality(Below(T, i)) + 1] = i
<1> DEFINE c == Cardinality(T)
           r == [i \in T |-> Cardinality(Below(T, i))]
<1>1. c \in Nat
  BY FS_CardinalityType
<1>2. r \in [T -> 0 .. c - 1]
  BY BelowCounts
<1>3. \A i, j \in T : r[i] = r[j] => i = j
  <2> SUFFICES ASSUME NEW i \in T, NEW j \in T, i # j PROVE r[i] # r[j]
    OBVIOUS
  <2>1. Before(i, j) \/ Before(j, i)
    BY BeforeTotal
  <2>2. r[i] \in Nat /\ r[j] \in Nat /\ (r[i] < r[j] \/ r[j] < r[i])
    BY <1>1, <2>1, BelowCounts
  <2> QED BY <2>2
<1>4. r \in Injection(T, 0 .. c - 1)
  BY <1>2, <1>3 DEF Injection, IsInjective
<1>5. IsFiniteSet(0 .. c - 1) /\ Cardinality(0 .. c - 1) = c
  <2>1. 0 \in Int /\ c - 1 \in Int
    BY <1>1
  <2> HIDE DEF c
  <2>2. IsFiniteSet(0 .. c - 1) /\ Cardinality(0 .. c - 1) = IF 0 > c - 1 THEN 0 ELSE (c - 1) - 0 + 1
    BY <2>1, FS_Interval
  <2> QED BY <1>1, <2>2
<1>6. r \in Surjection(T, 0 .. c - 1)
  BY <1>4, <1>5, FS_Injection
<1>7. \A n \in 1 .. c : \E i \in T : r[i] = n - 1
  <2>1. \A n \in 1 .. c : n - 1 \in 0 .. c - 1
    BY <1>1
  <2>2. \A m \in 0 .. c - 1 : \E i \in T : r[i] = m
    <3> HIDE DEF c, r
    <3> QED BY <1>6 DEF Surjection
  <2> HIDE DEF c, r
  <2> QED BY <2>1, <2>2
<1>8. \A i \in T : r[i] = Cardinality(Below(T, i)) /\ Below(T, i) = {j \in T : Before(j, i)}
  BY DEF Below
<1>9. \A n \in 1 .. c : RowMajor(T)[n] = CHOOSE i \in T : Cardinality({j \in T : Before(j, i)}) = n - 1
  BY DEF RowMajor
<1>10. \A n \in 1 .. c : RowMajor(T)[n] \in T /\ r[RowMajor(T)[n]] = n - 1
  <2> TAKE n \in 1 .. c
  <2>1. \E i \in T : Cardinality({j \in T : Before(j, i)}) = n - 1
    <3> HIDE DEF c, r
    <3> QED BY <1>7, <1>8
  <2>2. RowMajor(T)[n] \in T /\ Cardinality({j \in T : Before(j, RowMajor(T)[n])}) = n - 1
    <3> HIDE DEF c, r
    <3> QED BY <1>9, <2>1
  <2> HIDE DEF r
  <2> QED BY <1>8, <2>2
<1>11. RowMajor(T) \in [1 .. c -> T]
  <2>1. PICK f : f = RowMajor(T)
    OBVIOUS
  <2>2. f = [n \in 1 .. c |-> CHOOSE i \in T : Cardinality({j \in T : Before(j, i)}) = n - 1]
    BY <2>1 DEF RowMajor
  <2>3. \A n \in 1 .. c : f[n] \in T
    BY <1>10, <2>1
  <2> HIDE DEF c, r
  <2>4. f \in [1 .. c -> T]
    BY <2>2, <2>3
  <2> QED BY <2>1, <2>4
<1>12. RowMajor(T) \in Seq(T) /\ Len(RowMajor(T)) = c
  <2> HIDE DEF c
  <2> QED BY <1>1, <1>11
<1>13. \A i \in T : r[i] + 1 \in 1 .. c /\ RowMajor(T)[r[i] + 1] = i
  <2> TAKE i \in T
  <2> HIDE DEF c, r
  <2>1. r[i] + 1 \in 1 .. c /\ (r[i] + 1) - 1 = r[i]
    BY <1>1, <1>2
  <2>2. RowMajor(T)[r[i] + 1] \in T /\ r[RowMajor(T)[r[i] + 1]] = r[i]
    BY <1>10, <2>1
  <2> QED BY <1>3, <2>1, <2>2
<1> HIDE DEF r
<1> QED BY <1>1, <1>8, <1>10, <1>11, <1>12, <1>13

(* Blocks of tuples one after the other: I[n] is what the n-th block holds. *)
Sizes(I) == [n \in DOMAIN I |-> Cardinality(I[n])]
Upto(I, n) == UNION {I[m] : m \in 1 .. n}

Blocks(I, p) ==
  /\ p \in Nat
  /\ I \in [1 .. p -> SUBSET Tuples]
  /\ \A n \in 1 .. p : IsFiniteSet(I[n])
  /\ \A n, m \in 1 .. p : n < m => \A i \in I[n], j \in I[m] : Before(i, j)

(* The sizes of the blocks are summands. *)
LEMMA SizesType ==
  ASSUME NEW I, NEW p, Blocks(I, p)
  PROVE  /\ Sizes(I) \in Seq(Nat) /\ Len(Sizes(I)) = p
         /\ \A n \in 1 .. p : Sizes(I)[n] = Cardinality(I[n]) /\ Cardinality(I[n]) \in Nat
<1>1. p \in Nat /\ DOMAIN I = 1 .. p
  BY DEF Blocks
<1>2. \A n \in 1 .. p : Cardinality(I[n]) \in Nat
  BY FS_CardinalityType DEF Blocks
<1>3. Sizes(I) = [n \in 1 .. p |-> Cardinality(I[n])]
  BY <1>1 DEF Sizes
<1>4. Sizes(I) \in [1 .. p -> Nat]
  BY <1>2, <1>3
<1> QED BY <1>1, <1>2, <1>3, <1>4

(* The first n blocks have as many tuples as their sizes add up to. *)
LEMMA UptoCounts ==
  ASSUME NEW I, NEW p, Blocks(I, p), NEW n \in 0 .. p
  PROVE  /\ IsFiniteSet(Upto(I, n)) /\ Upto(I, n) \in SUBSET Tuples
         /\ Cardinality(Upto(I, n)) = Sums(Sizes(I))[n]
<1> DEFINE S == {k \in Nat : /\ IsFiniteSet(Upto(I, k))
                             /\ Cardinality(Upto(I, k)) = Sums(Sizes(I))[k]}
<1>0. /\ p \in Nat
      /\ Sums(Sizes(I)) \in [0 .. p -> Nat] /\ Sums(Sizes(I))[0] = 0
      /\ \A k \in 1 .. p : Sums(Sizes(I))[k] = Sums(Sizes(I))[k - 1] + Cardinality(I[k])
  <2>1. p \in Nat
    BY DEF Blocks
  <2> QED BY <2>1, SizesType, SumsMeans
<1>1. 0 \in S
  <2>1. Upto(I, 0) = {}
    BY DEF Upto
  <2> QED BY <1>0, <2>1, FS_EmptySet
<1>2. ASSUME NEW k \in 0 .. p - 1, k \in S PROVE k + 1 \in S
  <2>1. k + 1 \in 1 .. p /\ (k + 1) - 1 = k /\ k \in Nat /\ k + 1 \in Nat
    BY <1>0
  <2>2. Upto(I, k + 1) = Upto(I, k) \cup I[k + 1]
    <3>1. \A m : m \in 1 .. k + 1 <=> m \in 1 .. k \/ m = k + 1
      BY <2>1
    <3> QED BY <3>1 DEF Upto
  <2>3. Upto(I, k) \cap I[k + 1] = {}
    <3> SUFFICES ASSUME NEW i \in Upto(I, k), i \in I[k + 1] PROVE FALSE
      OBVIOUS
    <3>1. PICK m \in 1 .. k : i \in I[m]
      BY DEF Upto
    <3>2. m \in 1 .. p /\ m < k + 1
      BY <1>0, <2>1
    <3>3. Before(i, i) /\ i \in Tuples
      BY <2>1, <3>1, <3>2 DEF Blocks
    <3> QED BY <3>3, BeforeOrder
  <2>4. IsFiniteSet(Upto(I, k)) /\ Cardinality(Upto(I, k)) = Sums(Sizes(I))[k]
    BY <1>2
  <2>5. IsFiniteSet(I[k + 1])
    BY <2>1 DEF Blocks
  <2>6. /\ IsFiniteSet(Upto(I, k) \cup I[k + 1])
        /\ Cardinality(Upto(I, k) \cup I[k + 1]) =
             Cardinality(Upto(I, k)) + Cardinality(I[k + 1]) - Cardinality(Upto(I, k) \cap I[k + 1])
    BY <2>4, <2>5, FS_Union
  <2>7. Cardinality(Upto(I, k) \cap I[k + 1]) = 0
    BY <2>3, FS_EmptySet
  <2>8. Cardinality(I[k + 1]) \in Nat /\ Cardinality(Upto(I, k)) \in Nat
    BY <2>4, <2>5, FS_CardinalityType
  <2> HIDE DEF S
  <2>9. Cardinality(Upto(I, k + 1)) = Sums(Sizes(I))[k] + Cardinality(I[k + 1])
    <3>1. Cardinality(Upto(I, k + 1)) =
            Cardinality(Upto(I, k)) + Cardinality(I[k + 1]) - 0
      BY <2>2, <2>6, <2>7
    <3> QED BY <2>4, <2>8, <3>1
  <2>10. Cardinality(Upto(I, k + 1)) = Sums(Sizes(I))[k + 1]
    BY <1>0, <2>1, <2>9
  <2> QED BY <2>1, <2>2, <2>6, <2>10 DEF S
<1> HIDE DEF S
<1>3. n \in S
  BY <1>0, <1>1, <1>2, InductTo
<1>4. Upto(I, n) \in SUBSET Tuples
  <2>1. \A m \in 1 .. n : m \in 1 .. p
    BY <1>0
  <2> QED BY <2>1 DEF Upto, Blocks
<1> QED BY <1>3, <1>4 DEF S

(* In row-major order, all of them are the blocks one after the other. *)
LEMMA Concatenated ==
  ASSUME NEW I, NEW p, Blocks(I, p), NEW n \in 1 .. p, NEW i \in I[n]
  PROVE  Cardinality(Below(Upto(I, p), i)) =
           Sums(Sizes(I))[n - 1] + Cardinality(Below(I[n], i))
<1>0. p \in Nat /\ n - 1 \in 0 .. p /\ I[n] \in SUBSET Tuples /\ IsFiniteSet(I[n])
  BY DEF Blocks
<1>1. Below(Upto(I, p), i) = Upto(I, n - 1) \cup Below(I[n], i)
  <2>1. ASSUME NEW m \in 1 .. p, NEW j \in I[m]
        PROVE  Before(j, i) <=> m \in 1 .. n - 1 \/ (m = n /\ Before(j, i))
    <3>0. i \in Tuples /\ j \in Tuples
      BY DEF Blocks
    <3>1. CASE m < n
      BY <3>1 DEF Blocks
    <3>2. CASE n < m
      <4>1. Before(i, j)
        BY <3>2 DEF Blocks
      <4>2. ~Before(j, i)
        BY <3>0, <4>1, BeforeOrder
      <4> QED BY <3>2, <4>2
    <3>3. CASE m = n
      BY <3>3
    <3> QED BY <1>0, <3>1, <3>2, <3>3
  <2>2. \A m \in 1 .. n - 1 : m \in 1 .. p
    BY <1>0
  <2>3. \A j : j \in Below(Upto(I, p), i) <=> \E m \in 1 .. p : j \in I[m] /\ Before(j, i)
    BY DEF Below, Upto
  <2>4. \A j : j \in Upto(I, n - 1) <=> \E m \in 1 .. n - 1 : j \in I[m]
    BY DEF Upto
  <2>5. \A j : j \in Below(I[n], i) <=> j \in I[n] /\ Before(j, i)
    BY DEF Below
  <2>6. \A j : j \in Below(Upto(I, p), i) => j \in Upto(I, n - 1) \/ j \in Below(I[n], i)
    BY <2>1, <2>3, <2>4, <2>5
  <2>7. \A j : j \in Upto(I, n - 1) => j \in Below(Upto(I, p), i)
    BY <2>1, <2>2, <2>3, <2>4
  <2>8. \A j : j \in Below(I[n], i) => j \in Below(Upto(I, p), i)
    BY <2>3, <2>5
  <2> QED BY <2>6, <2>7, <2>8
<1>2. Upto(I, n - 1) \cap Below(I[n], i) = {}
  <2> SUFFICES ASSUME NEW j \in Upto(I, n - 1), j \in I[n] PROVE FALSE
    BY DEF Below
  <2>1. PICK m \in 1 .. n - 1 : j \in I[m]
    BY DEF Upto
  <2>2. m \in 1 .. p /\ m < n
    BY <1>0
  <2>3. Before(j, j) /\ j \in Tuples
    BY <2>1, <2>2 DEF Blocks
  <2> QED BY <2>3, BeforeOrder
<1>3. IsFiniteSet(Upto(I, n - 1)) /\ Cardinality(Upto(I, n - 1)) = Sums(Sizes(I))[n - 1]
  BY <1>0, UptoCounts
<1>4. IsFiniteSet(Below(I[n], i)) /\ Cardinality(Below(I[n], i)) \in Nat
  BY <1>0, BelowCounts, FS_CardinalityType
<1>5. Cardinality(Below(Upto(I, p), i)) =
        Cardinality(Upto(I, n - 1)) + Cardinality(Below(I[n], i))
          - Cardinality(Upto(I, n - 1) \cap Below(I[n], i))
  BY <1>1, <1>3, <1>4, FS_Union
<1>6. Cardinality(Upto(I, n - 1) \cap Below(I[n], i)) = 0
  BY <1>2, FS_EmptySet
<1>7. Cardinality(Upto(I, n - 1)) \in Nat
  BY <1>3, FS_CardinalityType
<1> QED BY <1>3, <1>4, <1>5, <1>6, <1>7

(* So the position of a tuple among all is its position in its own block after
   the sizes of the blocks before. *)
LEMMA ConcatenatedRows ==
  ASSUME NEW I, NEW p, Blocks(I, p), NEW n \in 1 .. p, NEW m \in 1 .. Cardinality(I[n])
  PROVE  /\ Sums(Sizes(I))[n - 1] + m \in 1 .. Cardinality(Upto(I, p))
         /\ RowMajor(Upto(I, p))[Sums(Sizes(I))[n - 1] + m] = RowMajor(I[n])[m]
<1> DEFINE i == RowMajor(I[n])[m]
           U == Upto(I, p)
<1>1. p \in Nat /\ I[n] \in SUBSET Tuples /\ IsFiniteSet(I[n]) /\ n - 1 \in 0 .. p
  BY DEF Blocks
<1>2. i \in I[n] /\ Cardinality(Below(I[n], i)) = m - 1
  BY <1>1, RowMajorMeans
<1>3. i \in U
  BY <1>2 DEF Upto
<1>4. U \in SUBSET Tuples /\ IsFiniteSet(U)
  BY <1>1, UptoCounts
<1>5. Cardinality(Below(U, i)) = Sums(Sizes(I))[n - 1] + (m - 1)
  BY <1>2, Concatenated
<1>6. Sums(Sizes(I))[n - 1] \in Nat /\ m \in Nat
  <2>1. Sums(Sizes(I)) \in [0 .. p -> Nat]
    BY SizesType, SumsMeans
  <2>2. Cardinality(I[n]) \in Nat
    BY SizesType
  <2> QED BY <1>1, <2>1, <2>2
<1>7. Cardinality(Below(U, i)) + 1 = Sums(Sizes(I))[n - 1] + m
  BY <1>5, <1>6
<1> HIDE DEF i, U
<1>8. Cardinality(Below(U, i)) + 1 \in 1 .. Cardinality(U) /\ RowMajor(U)[Cardinality(Below(U, i)) + 1] = i
  BY <1>3, <1>4, RowMajorMeans
<1> QED BY <1>7, <1>8 DEF i, U

-----------------------------------------------------------------------------
(* Boxes, chunks and their payloads *)

(* Finitely many tuples have their parts in a finite set. *)
LEMMA FunctionsFinite ==
  ASSUME NEW B, IsFiniteSet(B)
  PROVE  IsFiniteSet([Axes -> B])
<1> DEFINE g == [f \in [Axes -> B] |-> {<<a, f[a]>> : a \in Axes}]
<1>1. IsFiniteSet(Axes)
  <2>1. Rank \in Int /\ 1 \in Int
    BY AxesAre
  <2> QED BY <2>1, FS_Interval DEF Axes
<1>2. IsFiniteSet(SUBSET (Axes \X B))
  BY <1>1, FS_Product, FS_SUBSET
<1>3. g \in [[Axes -> B] -> SUBSET (Axes \X B)]
  <2>1. \A f \in [Axes -> B] : {<<a, f[a]>> : a \in Axes} \in SUBSET (Axes \X B)
    OBVIOUS
  <2> QED BY <2>1
<1>4. ASSUME NEW f \in [Axes -> B], NEW h \in [Axes -> B], g[f] = g[h] PROVE f = h
  <2>1. \A a \in Axes : f[a] = h[a]
    <3> TAKE a \in Axes
    <3>1. <<a, f[a]>> \in g[h]
      BY <1>4
    <3>2. PICK b \in Axes : <<a, f[a]>> = <<b, h[b]>>
      BY <3>1
    <3> QED BY <3>2
  <2> HIDE DEF g
  <2> QED BY <2>1
<1>5. g \in Injection([Axes -> B], SUBSET (Axes \X B))
  <2> HIDE DEF g
  <2> QED BY <1>3, <1>4 DEF Injection, IsInjective
<1> QED BY <1>2, <1>5, FS_Injection

(* A box of finite sides is a finite set of index tuples. *)
LEMMA BoxedMeans ==
  ASSUME NEW box \in [Axes -> SUBSET Nat], \A a \in Axes : IsFiniteSet(box[a])
  PROVE  /\ Boxed(box) \in SUBSET Tuples /\ IsFiniteSet(Boxed(box))
         /\ \A i : i \in Boxed(box) <=> i \in Tuples /\ \A a \in Axes : i[a] \in box[a]
<1> DEFINE B == UNION {box[a] : a \in Axes}
<1>1. IsFiniteSet(B)
  <2> DEFINE S == {box[a] : a \in Axes}
  <2>1. IsFiniteSet(Axes)
    <3>1. Rank \in Int /\ 1 \in Int
      BY AxesAre
    <3> QED BY <3>1, FS_Interval DEF Axes
  <2>2. box \in Surjection(Axes, S)
    BY DEF Surjection
  <2>3. \A T \in S : IsFiniteSet(T)
    OBVIOUS
  <2> HIDE DEF S
  <2>4. IsFiniteSet(S)
    BY <2>1, <2>2, FS_Surjection
  <2>5. IsFiniteSet(UNION S)
    BY <2>3, <2>4, FS_UNION
  <2> QED BY <2>5 DEF S
<1>2. \A i : i \in Boxed(box) <=> i \in Tuples /\ \A a \in Axes : i[a] \in box[a]
  <2> SUFFICES ASSUME NEW i PROVE i \in Boxed(box) <=> i \in Tuples /\ \A a \in Axes : i[a] \in box[a]
    OBVIOUS
  <2>1. B \subseteq Nat
    OBVIOUS
  <2>2. i \in Boxed(box) <=> i \in [Axes -> B] /\ \A a \in Axes : i[a] \in box[a]
    BY DEF Boxed
  <2>3. i \in [Axes -> B] => i \in Tuples
    BY <2>1 DEF Tuples
  <2>4. i \in Tuples /\ (\A a \in Axes : i[a] \in box[a]) => i \in [Axes -> B]
    <3> SUFFICES ASSUME i \in [Axes -> Nat], \A a \in Axes : i[a] \in box[a]
                 PROVE  i \in [Axes -> B]
      BY DEF Tuples
    <3>1. \A a \in Axes : i[a] \in B
      OBVIOUS
    <3> HIDE DEF B
    <3> QED BY <3>1
  <2> HIDE DEF B
  <2> QED BY <2>2, <2>3, <2>4
<1>3. Boxed(box) \in SUBSET [Axes -> B]
  BY DEF Boxed
<1>4. IsFiniteSet(Boxed(box))
  <2> HIDE DEF B
  <2>1. IsFiniteSet([Axes -> B])
    BY <1>1, FunctionsFinite
  <2> QED BY <1>3, <2>1, FS_Subset
<1> QED BY <1>2, <1>4

Extents == [Axes -> Dims]

(* The extent of an axis is a positive number. *)
LEMMA ExtentType ==
  ASSUME NEW s \in Extents, NEW a \in Axes
  PROVE  s[a] \in Nat \ {0} /\ s[a] <= MaxDim /\ MaxDim \in Nat
<1>1. MaxDim \in Nat
  BY ConstantsAssumption
<1>2. s[a] \in 1 .. MaxDim
  BY DEF Extents, Dims
<1> QED BY <1>1, <1>2

(* As many chunks as it takes: chunk k starts before the dataset ends. *)
LEMMA CeilMeans ==
  ASSUME NEW s \in Nat \ {0}, NEW c \in Nat \ {0}, NEW k \in Nat
  PROVE  /\ Ceil(s, c) - 1 \in Int
         /\ k \in 0 .. Ceil(s, c) - 1 <=> k * c < s
<1> DEFINE x == s + c - 1
           q == x \div c
<1>0. x \in Nat
  OBVIOUS
<1> HIDE DEF x
<1>1. q \in Nat /\ q * c <= x /\ x < (q + 1) * c
  BY <1>0, Quotient
<1>2. k * c \in Nat /\ (k + 1) * c = k * c + c /\ (k + 1) * c \in Nat
  BY Product
<1>3. ASSUME k * c < s PROVE k < q
  <2>1. (k + 1) * c <= x
    BY <1>2, <1>3 DEF x
  <2>2. (k + 1) * c < (q + 1) * c /\ (q + 1) * c \in Nat
    BY <1>0, <1>1, <1>2, <2>1, Product
  <2>3. k + 1 < q + 1
    BY <1>1, <2>2, Product
  <2> QED BY <1>1, <2>3
<1>4. ASSUME k < q PROVE k * c < s
  <2>1. k + 1 <= q
    BY <1>1, <1>4
  <2>2. (k + 1) * c <= q * c /\ q * c \in Nat
    BY <1>1, <2>1, Product
  <2>3. (k + 1) * c <= x
    BY <1>0, <1>1, <1>2, <2>2
  <2> QED BY <1>2, <2>3 DEF x
<1>5. Ceil(s, c) = q
  BY DEF Ceil, x
<1> HIDE DEF q
<1> QED BY <1>1, <1>3, <1>4, <1>5

(* The grid is finite, and its chunks are those that start in the dataset. *)
LEMMA GridMeans ==
  ASSUME NEW s \in Extents, NEW c \in Extents
  PROVE  /\ Grid(s, c) \in SUBSET Tuples /\ IsFiniteSet(Grid(s, c))
         /\ \A k : k \in Grid(s, c) <=> k \in Tuples /\ \A a \in Axes : k[a] * c[a] < s[a]
<1> DEFINE box == [a \in Axes |-> 0 .. Ceil(s[a], c[a]) - 1]
<1>1. \A a \in Axes : Ceil(s[a], c[a]) - 1 \in Int
                      /\ \A k \in Nat : k \in 0 .. Ceil(s[a], c[a]) - 1 <=> k * c[a] < s[a]
  BY ExtentType, CeilMeans
<1>2. \A a \in Axes : box[a] \in SUBSET Nat /\ IsFiniteSet(box[a])
  <2> TAKE a \in Axes
  <2>1. Ceil(s[a], c[a]) - 1 \in Int /\ 0 \in Int
    BY <1>1
  <2>2. IsFiniteSet(0 .. Ceil(s[a], c[a]) - 1)
    BY <2>1, FS_Interval
  <2>3. 0 .. Ceil(s[a], c[a]) - 1 \in SUBSET Nat
    BY <2>1
  <2> QED BY <2>2, <2>3
<1>3. box \in [Axes -> SUBSET Nat]
  BY <1>2
<1>4. /\ Boxed(box) \in SUBSET Tuples /\ IsFiniteSet(Boxed(box))
      /\ \A k : k \in Boxed(box) <=> k \in Tuples /\ \A a \in Axes : k[a] \in box[a]
  <2> HIDE DEF box
  <2> QED BY <1>2, <1>3, BoxedMeans
<1>5. \A k \in Tuples : (\A a \in Axes : k[a] \in box[a]) <=> \A a \in Axes : k[a] * c[a] < s[a]
  BY <1>1 DEF Tuples
<1>6. Grid(s, c) = Boxed(box)
  BY DEF Grid
<1> HIDE DEF box
<1> QED BY <1>4, <1>5, <1>6

(* The chunk that an index is in. *)
ChunkOf(c, i) == [a \in Axes |-> i[a] \div c[a]]

(* A cell belongs to the chunk that its index is divided into. *)
LEMMA CellsMeans ==
  ASSUME NEW c \in Extents, NEW k \in Tuples
  PROVE  /\ Cells(c, k) \in SUBSET Tuples /\ IsFiniteSet(Cells(c, k))
         /\ \A i : i \in Cells(c, k) <=> i \in Tuples /\ k = ChunkOf(c, i)
         /\ \A i : i \in Cells(c, k) <=>
              i \in Tuples /\ \A a \in Axes : k[a] * c[a] <= i[a] /\ i[a] < (k[a] + 1) * c[a]
<1> DEFINE box == [a \in Axes |-> k[a] * c[a] .. (k[a] + 1) * c[a] - 1]
<1>1. \A a \in Axes : /\ k[a] \in Nat /\ c[a] \in Nat \ {0}
                      /\ k[a] * c[a] \in Nat /\ (k[a] + 1) * c[a] \in Nat
  <2> TAKE a \in Axes
  <2>1. k[a] \in Nat /\ c[a] \in Nat \ {0} /\ k[a] + 1 \in Nat
    BY ExtentType DEF Tuples
  <2> QED BY <2>1, Product
<1>2. \A a \in Axes : box[a] \in SUBSET Nat /\ IsFiniteSet(box[a])
  <2> TAKE a \in Axes
  <2>1. k[a] * c[a] \in Int /\ (k[a] + 1) * c[a] - 1 \in Int /\ k[a] * c[a] \in Nat
    BY <1>1
  <2>2. IsFiniteSet(k[a] * c[a] .. (k[a] + 1) * c[a] - 1)
    BY <2>1, FS_Interval
  <2>3. k[a] * c[a] .. (k[a] + 1) * c[a] - 1 \in SUBSET Nat
    BY <2>1
  <2> QED BY <2>2, <2>3
<1>3. box \in [Axes -> SUBSET Nat]
  BY <1>2
<1>4. /\ Boxed(box) \in SUBSET Tuples /\ IsFiniteSet(Boxed(box))
      /\ \A i : i \in Boxed(box) <=> i \in Tuples /\ \A a \in Axes : i[a] \in box[a]
  <2> HIDE DEF box
  <2> QED BY <1>2, <1>3, BoxedMeans
<1>5. \A i \in Tuples : (\A a \in Axes : i[a] \in box[a]) <=>
         \A a \in Axes : k[a] * c[a] <= i[a] /\ i[a] < (k[a] + 1) * c[a]
  <2> TAKE i \in Tuples
  <2>1. \A a \in Axes : i[a] \in Nat
    BY DEF Tuples
  <2> QED BY <1>1, <2>1
<1>6. \A i \in Tuples : (\A a \in Axes : k[a] * c[a] <= i[a] /\ i[a] < (k[a] + 1) * c[a]) <=>
         k = ChunkOf(c, i)
  <2> TAKE i \in Tuples
  <2>1. \A a \in Axes : i[a] \in Nat
    BY DEF Tuples
  <2>2. \A a \in Axes : k[a] * c[a] <= i[a] /\ i[a] < (k[a] + 1) * c[a] <=> k[a] = i[a] \div c[a]
    <3> TAKE a \in Axes
    <3>1. /\ i[a] \in Nat /\ k[a] \in Nat /\ c[a] \in Nat \ {0}
      BY <1>1, <2>1
    <3>2. (i[a] \div c[a]) * c[a] <= i[a] /\ i[a] < (i[a] \div c[a] + 1) * c[a]
      BY <3>1, Quotient
    <3> QED BY <3>1, <3>2, QuotientIs
  <2>3. k = ChunkOf(c, i) <=> \A a \in Axes : k[a] = i[a] \div c[a]
    BY DEF ChunkOf, Tuples
  <2> QED BY <2>2, <2>3
<1>7. Cells(c, k) = Boxed(box)
  BY DEF Cells
<1> HIDE DEF box
<1> QED BY <1>4, <1>5, <1>6, <1>7

(* An index of the dataset is in a chunk of the grid. *)
LEMMA ChunkOfType ==
  ASSUME NEW s \in Extents, NEW c \in Extents, NEW i \in Tuples
  PROVE  /\ ChunkOf(c, i) \in Tuples
         /\ i \in Cells(c, ChunkOf(c, i))
         /\ Inside(s, i) => ChunkOf(c, i) \in Grid(s, c) /\ i \in Elements(s, c, ChunkOf(c, i))
<1>1. \A a \in Axes : /\ i[a] \in Nat /\ c[a] \in Nat \ {0} /\ s[a] \in Nat
                      /\ i[a] \div c[a] \in Nat /\ (i[a] \div c[a]) * c[a] <= i[a]
                      /\ (i[a] \div c[a]) * c[a] \in Nat
  <2> TAKE a \in Axes
  <2>1. i[a] \in Nat /\ c[a] \in Nat \ {0} /\ s[a] \in Nat
    BY ExtentType DEF Tuples
  <2>2. i[a] \div c[a] \in Nat /\ (i[a] \div c[a]) * c[a] <= i[a]
    BY <2>1, Quotient
  <2> QED BY <2>1, <2>2, Product
<1>2. ChunkOf(c, i) \in Tuples
  BY <1>1 DEF ChunkOf, Tuples
<1>3. i \in Cells(c, ChunkOf(c, i))
  BY <1>2, CellsMeans
<1>4. ASSUME Inside(s, i) PROVE ChunkOf(c, i) \in Grid(s, c)
  <2>1. \A a \in Axes : ChunkOf(c, i)[a] * c[a] < s[a]
    BY <1>1, <1>4 DEF ChunkOf, Inside
  <2> QED BY <1>2, <2>1, GridMeans
<1> QED BY <1>2, <1>3, <1>4 DEF Elements

(* Padding and other data are nobody's index. *)
LEMMA MarksMean ==
  /\ Pad \in Tuples /\ Other \in Tuples /\ NoChunk \in Tuples /\ Pad # Other
  /\ \A s \in Extents : ~Inside(s, Pad) /\ ~Inside(s, Other)
<1>1. MaxDim \in Nat \ {0} /\ 1 \in Axes
  BY AxesAre, ConstantsAssumption
<1>2. Pad \in Tuples /\ Other \in Tuples /\ NoChunk \in Tuples
  BY <1>1 DEF Pad, Other, NoChunk, Tuples
<1>3. Pad[1] = 3 * MaxDim /\ Other[1] = 4 * MaxDim
  BY <1>1 DEF Pad, Other
<1>4. Pad # Other
  BY <1>1, <1>3
<1>5. ASSUME NEW s \in Extents PROVE ~Inside(s, Pad) /\ ~Inside(s, Other)
  <2>1. s[1] \in Nat /\ s[1] <= MaxDim
    BY <1>1, ExtentType
  <2>2. ~(Pad[1] < s[1]) /\ ~(Other[1] < s[1])
    BY <1>1, <1>3, <2>1
  <2> QED BY <1>1, <2>2 DEF Inside
<1> QED BY <1>2, <1>4, <1>5

(* The elements of a chunk are the indices of the dataset that are in it. *)
LEMMA ElementsMeans ==
  ASSUME NEW s \in Extents, NEW c \in Extents, NEW k \in Grid(s, c)
  PROVE  /\ Elements(s, c, k) \in SUBSET Cells(c, k)
         /\ Elements(s, c, k) \in SUBSET Tuples /\ IsFiniteSet(Elements(s, c, k))
         /\ Cardinality(Elements(s, c, k)) \in Nat \ {0}
         /\ \A i : i \in Elements(s, c, k) <=> i \in Tuples /\ Inside(s, i) /\ k = ChunkOf(c, i)
<1>1. k \in Tuples /\ \A a \in Axes : k[a] * c[a] < s[a]
  BY GridMeans
<1>2. /\ Cells(c, k) \in SUBSET Tuples /\ IsFiniteSet(Cells(c, k))
      /\ \A i : i \in Cells(c, k) <=> i \in Tuples /\ k = ChunkOf(c, i)
  BY <1>1, CellsMeans
<1>3. Elements(s, c, k) \in SUBSET Cells(c, k)
  BY DEF Elements
<1>4. IsFiniteSet(Elements(s, c, k))
  BY <1>2, <1>3, FS_Subset
<1>5. Elements(s, c, k) # {}
  <2> DEFINE i == [a \in Axes |-> k[a] * c[a]]
  <2>1. \A a \in Axes : k[a] * c[a] \in Nat /\ k[a] * c[a] < (k[a] + 1) * c[a]
    <3> TAKE a \in Axes
    <3>1. k[a] \in Nat /\ c[a] \in Nat \ {0}
      BY <1>1, ExtentType DEF Tuples
    <3> QED BY <3>1, Product
  <2>2. i \in Tuples
    BY <2>1 DEF Tuples
  <2>3. \A a \in Axes : k[a] * c[a] <= i[a] /\ i[a] < (k[a] + 1) * c[a]
    BY <2>1
  <2>4. Inside(s, i)
    BY <1>1 DEF Inside
  <2> HIDE DEF i
  <2>5. i \in Cells(c, k)
    BY <1>1, <2>2, <2>3, CellsMeans
  <2> QED BY <2>4, <2>5 DEF Elements
<1>6. Cardinality(Elements(s, c, k)) \in Nat \ {0}
  BY <1>4, <1>5, FS_CardinalityType, FS_EmptySet
<1>7. \A i : i \in Elements(s, c, k) <=> i \in Tuples /\ Inside(s, i) /\ k = ChunkOf(c, i)
  BY <1>2 DEF Elements
<1> QED BY <1>2, <1>3, <1>4, <1>6, <1>7

(* A payload that is no longer than its elements, or that has no padding in
   it, is its elements in row-major order. *)
LEMMA PayloadMeans ==
  ASSUME NEW s \in Extents, NEW c \in Extents, NEW k \in Grid(s, c), NEW padded \in BOOLEAN
  PROVE  LET w == Payload(s, c, k, padded)
             e == Elements(s, c, k)
         IN  /\ w \in Seq(e \cup {Pad})
             /\ Len(w) \in Nat /\ Cardinality(e) <= Len(w)
             /\ Len(w) = Cardinality(e) => w = RowMajor(e)
             /\ (\A m \in 1 .. Len(w) : w[m] # Pad) => w = RowMajor(e)
<1> DEFINE w == Payload(s, c, k, padded)
           e == Elements(s, c, k)
           all == Cells(c, k)
<1>1. /\ all \in SUBSET Tuples /\ IsFiniteSet(all)
  BY GridMeans, CellsMeans
<1>2. /\ e \in SUBSET all /\ e \in SUBSET Tuples /\ IsFiniteSet(e)
      /\ e = {i \in all : Inside(s, i)}
  BY ElementsMeans DEF Elements
<1>3. /\ RowMajor(e) \in Seq(e) /\ Len(RowMajor(e)) = Cardinality(e) /\ Cardinality(e) \in Nat
  BY <1>2, RowMajorMeans
<1>4. CASE ~padded
  <2>1. w = RowMajor(e)
    BY <1>4 DEF Payload
  <2>2. Seq(e) \subseteq Seq(e \cup {Pad})
    OBVIOUS
  <2> HIDE DEF w, e
  <2> QED BY <1>3, <2>1, <2>2 DEF w, e
<1>5. CASE padded
  <2> DEFINE r == RowMajor(all)
             n == Cardinality(all)
  <2>0. w = [m \in 1 .. n |-> LET i == r[m] IN IF Inside(s, i) THEN i ELSE Pad]
    BY <1>5 DEF Payload
  <2>1. /\ n \in Nat /\ r \in Seq(all) /\ Len(r) = n /\ r \in [1 .. n -> all]
        /\ \A i \in all : \E m \in 1 .. n : r[m] = i
    BY <1>1, RowMajorMeans
  <2>2. Cardinality(e) <= n /\ (n = Cardinality(e) => e = all)
    BY <1>1, <1>2, FS_Subset
  <2> HIDE DEF w, r, n, e, all
  <2>3. \A m \in 1 .. n : /\ r[m] \in all
                          /\ w[m] = IF Inside(s, r[m]) THEN r[m] ELSE Pad
    BY <2>0, <2>1
  <2>4. \A m \in 1 .. n : w[m] \in e \cup {Pad}
    BY <1>2, <2>3
  <2>5. w \in [1 .. n -> e \cup {Pad}]
    BY <2>0, <2>4
  <2>6. w \in Seq(e \cup {Pad}) /\ Len(w) = n
    BY <2>1, <2>5
  <2>7. e = all => w = RowMajor(e)
    <3> SUFFICES ASSUME e = all PROVE w = r
      BY DEF r
    <3>1. \A m \in 1 .. n : w[m] = r[m]
      BY <1>2, <2>3
    <3> QED BY <2>1, <2>5, <3>1
  <2>8. (\A m \in 1 .. n : w[m] # Pad) => e = all
    <3> SUFFICES ASSUME \A m \in 1 .. n : w[m] # Pad, NEW i \in all PROVE i \in e
      BY <1>2
    <3>1. PICK m \in 1 .. n : r[m] = i
      BY <2>1
    <3> QED BY <1>2, <2>3, <3>1
  <2> QED BY <2>1, <2>2, <2>6, <2>7, <2>8 DEF w, e
<1> QED BY <1>4, <1>5

-----------------------------------------------------------------------------
(* The file *)

(* Every chunk once, in some order. *)
Enumerates(at, G) ==
  /\ Cardinality(G) \in Nat
  /\ at \in [1 .. Cardinality(G) -> G]
  /\ \A k \in G : \E n \in 1 .. Cardinality(G) : at[n] = k
  /\ \A n, m \in 1 .. Cardinality(G) : at[n] = at[m] => n = m

(* Row-major order and its reverse name every chunk of the grid once. *)
LEMMA RowsEnumerate ==
  ASSUME NEW G \in SUBSET Tuples, IsFiniteSet(G)
  PROVE  Enumerates(RowMajor(G), G) /\ Enumerates(Reverse(RowMajor(G)), G)
<1> DEFINE c == Cardinality(G)
           r == RowMajor(G)
           v == Reverse(RowMajor(G))
<1>1. /\ c \in Nat /\ r \in [1 .. c -> G] /\ Len(r) = c
      /\ \A n \in 1 .. c : Cardinality(Below(G, r[n])) = n - 1
      /\ \A k \in G : \E n \in 1 .. c : r[n] = k
  BY RowMajorMeans
<1>2. v = [n \in 1 .. Len(r) |-> r[(Len(r) - n) + 1]]
  BY DEF Reverse
<1> HIDE DEF c, r, v
<1>3. \A n, m \in 1 .. c : r[n] = r[m] => n = m
  <2> SUFFICES ASSUME NEW n \in 1 .. c, NEW m \in 1 .. c, r[n] = r[m] PROVE n = m
    OBVIOUS
  <2>1. n - 1 = m - 1
    BY <1>1
  <2> QED BY <1>1, <2>1
<1>4. Enumerates(r, G)
  BY <1>1, <1>3 DEF Enumerates, c
<1>5. \A n \in 1 .. c : (c - n) + 1 \in 1 .. c /\ (c - ((c - n) + 1)) + 1 = n /\ v[n] = r[(c - n) + 1]
  BY <1>1, <1>2
<1>6. v \in [1 .. c -> G]
  BY <1>1, <1>2, <1>5
<1>7. \A k \in G : \E n \in 1 .. c : v[n] = k
  <2> TAKE k \in G
  <2>1. PICK n \in 1 .. c : r[n] = k
    BY <1>1
  <2>2. (c - n) + 1 \in 1 .. c /\ v[(c - n) + 1] = r[n]
    BY <1>5
  <2> QED BY <2>1, <2>2
<1>8. \A n, m \in 1 .. c : v[n] = v[m] => n = m
  <2> SUFFICES ASSUME NEW n \in 1 .. c, NEW m \in 1 .. c, v[n] = v[m] PROVE n = m
    OBVIOUS
  <2>1. (c - n) + 1 = (c - m) + 1
    BY <1>3, <1>5
  <2> QED BY <1>1, <2>1
<1>9. Enumerates(v, G)
  BY <1>1, <1>6, <1>7, <1>8 DEF Enumerates, c
<1> QED BY <1>4, <1>9 DEF r, v

(* Payloads in any order do not overlap, and their cells hold them. *)
LEMMA LayMeans ==
  ASSUME NEW G, NEW payloads \in [G -> Seq(Tuples)],
         NEW at, Enumerates(at, G), NEW gap, NEW packed,
         Lay(payloads, at, gap, packed)
  PROVE  /\ file \in Seq(Tuples)
         /\ \A k \in G :
              /\ stored[k].at \in Nat /\ stored[k].len \in Nat /\ stored[k].raw \in BOOLEAN
              /\ stored[k].len = Len(payloads[k])
              /\ stored[k].at + stored[k].len <= Len(file)
              /\ stored[k].raw => \A m \in 1 .. stored[k].len :
                   file[stored[k].at + m] = payloads[k][m]
         /\ \A x \in 1 .. Len(file) :
              \/ file[x] = Other
              \/ \E k \in G : /\ stored[k].raw
                              /\ stored[k].at < x /\ x <= stored[k].at + stored[k].len
<1> DEFINE g == Cardinality(G)
           size(n) == Len(payloads[at[n]]) + (IF at[n] = gap THEN 1 ELSE 0)
           f == [n \in DOMAIN at |-> size(n)]
           ends == Sums(f)
           Place(k) == CHOOSE n \in DOMAIN at : at[n] = k
           Holds(k, x) == /\ stored[k].raw
                          /\ stored[k].at < x /\ x <= stored[k].at + stored[k].len
           Cell(x) == IF \E k \in G : Holds(k, x)
                        THEN payloads[CHOOSE k \in G : Holds(k, x)]
                               [x - stored[CHOOSE k \in G : Holds(k, x)].at]
                        ELSE Other
<1>1. /\ stored = [k \in G |->
                     [at |-> ends[Place(k)] - Len(payloads[k]),
                      len |-> Len(payloads[k]), raw |-> k # packed]]
      /\ file = [x \in 1 .. ends[Len(at)] |-> Cell(x)]
  <2>1. DOMAIN payloads = G
    OBVIOUS
  <2>2. stored = [k \in DOMAIN payloads |->
                    [at |-> ends[Place(k)] - Len(payloads[k]),
                     len |-> Len(payloads[k]), raw |-> k # packed]]
    BY DEF Lay, Ends
  <2>3. file = [x \in 1 .. ends[Len(at)] |->
                  IF \E k \in DOMAIN payloads : Holds(k, x)
                    THEN payloads[CHOOSE k \in DOMAIN payloads : Holds(k, x)]
                           [x - stored[CHOOSE k \in DOMAIN payloads : Holds(k, x)].at]
                    ELSE Other]
    BY DEF Lay, Ends
  <2> HIDE DEF ends, Place, Holds
  <2> QED BY <2>1, <2>2, <2>3
<1>2. /\ g \in Nat /\ at \in [1 .. g -> G] /\ DOMAIN at = 1 .. g /\ Len(at) = g
      /\ \A k \in G : \E n \in 1 .. g : at[n] = k
      /\ \A n, m \in 1 .. g : at[n] = at[m] => n = m
  BY DEF Enumerates
<1>4. \A k \in G : payloads[k] \in Seq(Tuples) /\ Len(payloads[k]) \in Nat
  OBVIOUS
<1> HIDE DEF g
<1>5. \A n \in 1 .. g : size(n) \in Nat /\ Len(payloads[at[n]]) <= size(n)
  <2> TAKE n \in 1 .. g
  <2>1. Len(payloads[at[n]]) \in Nat
    BY <1>2, <1>4
  <2>2. PICK l \in Nat : l = Len(payloads[at[n]])
    BY <2>1
  <2>3. size(n) = l + (IF at[n] = gap THEN 1 ELSE 0)
    BY <2>2
  <2>4. size(n) = l \/ size(n) = l + 1
    <3> HIDE DEF size
    <3> QED BY <2>3
  <2> HIDE DEF size
  <2> QED BY <2>2, <2>4
<1> HIDE DEF size
<1>6. f \in Seq(Nat) /\ Len(f) = g /\ \A n \in 1 .. g : f[n] = size(n)
  <2>1. f = [n \in 1 .. g |-> size(n)]
    BY <1>2
  <2>2. f \in [1 .. g -> Nat]
    BY <1>5, <2>1
  <2> HIDE DEF f
  <2> QED BY <1>2, <2>1, <2>2
<1> HIDE DEF f
<1>7. /\ ends \in [0 .. g -> Nat] /\ ends[0] = 0
      /\ \A n \in 1 .. g : ends[n] = ends[n - 1] + size(n)
      /\ \A n \in 0 .. g : \A m \in n .. g : ends[n] <= ends[m]
  BY <1>6, SumsMeans, SumsRise
<1> HIDE DEF ends
<1>8. \A k \in G : Place(k) \in 1 .. g /\ at[Place(k)] = k
  BY <1>2
<1> HIDE DEF Place
<1>9. \A k \in G : /\ stored[k].at = ends[Place(k)] - Len(payloads[k])
                   /\ stored[k].len = Len(payloads[k])
                   /\ stored[k].raw \in BOOLEAN
  BY <1>1
<1>10. \A k \in G : /\ stored[k].at \in Nat /\ stored[k].len \in Nat
                    /\ ends[Place(k) - 1] \in Nat /\ ends[Place(k)] \in Nat
                    /\ ends[Place(k) - 1] <= stored[k].at
                    /\ stored[k].at + stored[k].len = ends[Place(k)]
                    /\ ends[Place(k)] <= ends[g] /\ ends[g] \in Nat
  <2> TAKE k \in G
  <2> DEFINE p == Place(k)
             l == Len(payloads[k])
  <2>1. p \in 0 .. g /\ p - 1 \in 0 .. g /\ g \in p .. g /\ g \in 0 .. g /\ p \in 1 .. g
    BY <1>2, <1>8
  <2>2. ends[p] = ends[p - 1] + size(p) /\ ends[p] <= ends[g]
    BY <1>7, <2>1
  <2>3. ends[p - 1] \in Nat /\ ends[p] \in Nat /\ ends[g] \in Nat
    BY <1>7, <2>1
  <2>4. l <= size(p) /\ size(p) \in Nat /\ l \in Nat
    BY <1>4, <1>5, <1>8
  <2>5. stored[k].at = ends[p] - l /\ stored[k].len = l
    BY <1>9
  <2> HIDE DEF p, l
  <2>6. /\ stored[k].at \in Nat /\ stored[k].len \in Nat
        /\ ends[p - 1] <= stored[k].at
        /\ stored[k].at + stored[k].len = ends[p]
    BY <2>2, <2>3, <2>4, <2>5
  <2> QED BY <2>2, <2>3, <2>6 DEF p
<1>11. ASSUME NEW k \in G, NEW j \in G, NEW x \in Nat, Holds(k, x), Holds(j, x)
       PROVE  k = j
  <2>1. ASSUME NEW h \in G, NEW l \in G, Place(h) < Place(l), Holds(h, x), Holds(l, x)
        PROVE  FALSE
    <3>1. /\ Place(h) \in 0 .. g /\ Place(l) - 1 \in Place(h) .. g
      <4>1. Place(h) \in 1 .. g /\ Place(l) \in 1 .. g /\ g \in Nat
        BY <1>2, <1>8
      <4> QED BY <2>1, <4>1
    <3>2. ends[Place(h)] <= ends[Place(l) - 1]
      BY <1>7, <3>1
    <3>3. x <= ends[Place(h)]
      BY <1>10, <2>1
    <3>4. ends[Place(l) - 1] < x
      BY <1>10, <2>1
    <3>5. ends[Place(h)] \in Nat /\ ends[Place(l) - 1] \in Nat
      BY <1>10
    <3> QED BY <3>2, <3>3, <3>4, <3>5
  <2>2. ~(Place(k) < Place(j)) /\ ~(Place(j) < Place(k))
    BY <1>11, <2>1
  <2>3. Place(k) = Place(j)
    BY <1>2, <1>8, <2>2
  <2> QED BY <1>8, <2>3
<1>12. DOMAIN file = 1 .. ends[g] /\ ends[g] \in Nat /\ \A x \in 1 .. ends[g] : file[x] = Cell(x)
  <2>1. g \in 0 .. g
    BY <1>2
  <2>2. file = [x \in 1 .. ends[g] |-> Cell(x)]
    BY <1>1, <1>2
  <2> HIDE DEF Cell
  <2> QED BY <1>7, <2>1, <2>2
<1>13. \A x \in 1 .. ends[g] : (\E k \in G : Holds(k, x)) \/ file[x] = Other
  BY <1>12
<1>14. ASSUME NEW k \in G, NEW x \in 1 .. ends[g], Holds(k, x)
       PROVE  file[x] = payloads[k][x - stored[k].at]
  <2>1. PICK j : j = CHOOSE h \in G : Holds(h, x)
    OBVIOUS
  <2>2. j \in G /\ Holds(j, x)
    BY <1>14, <2>1
  <2>3. x \in Nat
    BY <1>12
  <2>4. j = k
    <3> HIDE DEF Holds
    <3> QED BY <1>11, <1>14, <2>2, <2>3
  <2>5. Cell(x) = payloads[j][x - stored[j].at]
    <3> HIDE DEF Holds
    <3> QED BY <1>14, <2>1
  <2> HIDE DEF Cell
  <2> QED BY <1>12, <2>4, <2>5
<1> HIDE DEF Cell
<1>15. ASSUME NEW k \in G, stored[k].raw, NEW m \in 1 .. stored[k].len
       PROVE  file[stored[k].at + m] = payloads[k][m]
  <2>1. stored[k].at + m \in 1 .. ends[g] /\ (stored[k].at + m) - stored[k].at = m
    BY <1>10
  <2>2. Holds(k, stored[k].at + m)
    BY <1>10, <1>15
  <2> HIDE DEF Holds
  <2> QED BY <1>14, <2>1, <2>2
<1>16. \A x \in 1 .. ends[g] : file[x] \in Tuples
  <2> TAKE x \in 1 .. ends[g]
  <2>1. CASE file[x] = Other
    BY <2>1, MarksMean
  <2>2. CASE \E k \in G : Holds(k, x)
    <3>1. PICK k \in G : Holds(k, x)
      BY <2>2
    <3>2. file[x] = payloads[k][x - stored[k].at]
      BY <1>14, <3>1
    <3>3. x - stored[k].at \in 1 .. stored[k].len
      <4>1. stored[k].at \in Nat /\ stored[k].len \in Nat /\ x \in Nat
        BY <1>10, <1>12
      <4> QED BY <3>1, <4>1
    <3>4. stored[k].len = Len(payloads[k]) /\ payloads[k] \in Seq(Tuples)
      BY <1>9
    <3>5. payloads[k][x - stored[k].at] \in Tuples
      BY <3>3, <3>4
    <3> QED BY <3>2, <3>5
  <2> QED BY <1>13, <2>1, <2>2
<1>17. file \in Seq(Tuples) /\ Len(file) = ends[g]
  <2>1. file \in [1 .. ends[g] -> Tuples]
    BY <1>1, <1>2, <1>16
  <2> QED BY <1>12, <2>1
<1>18. \A k \in G : stored[k].at + stored[k].len <= Len(file)
  BY <1>10, <1>17
<1>19. \A x \in 1 .. Len(file) : file[x] = Other \/ \E k \in G : Holds(k, x)
  BY <1>13, <1>17
<1> QED BY <1>9, <1>10, <1>15, <1>17, <1>18, <1>19

(* What is known of the file that is read. *)
LaidOut(padded) ==
  /\ file \in Seq(Tuples)
  /\ \A k \in Grid(shape, chunk) :
       /\ stored[k].at \in Nat /\ stored[k].len \in Nat /\ stored[k].raw \in BOOLEAN
       /\ stored[k].len = Len(Payload(shape, chunk, k, padded))
       /\ stored[k].at + stored[k].len <= Len(file)
       /\ stored[k].raw => \A m \in 1 .. stored[k].len :
            file[stored[k].at + m] = Payload(shape, chunk, k, padded)[m]
  /\ \A x \in 1 .. Len(file) :
       \/ file[x] = Other
       \/ \E k \in Grid(shape, chunk) :
            /\ stored[k].raw
            /\ stored[k].at < x /\ x <= stored[k].at + stored[k].len

(* Payloads are sequences that name elements or padding. *)
LEMMA PayloadsType ==
  ASSUME NEW s \in Extents, NEW c \in Extents, NEW padded \in BOOLEAN
  PROVE  [k \in Grid(s, c) |-> Payload(s, c, k, padded)] \in [Grid(s, c) -> Seq(Tuples)]
<1>1. ASSUME NEW k \in Grid(s, c) PROVE Payload(s, c, k, padded) \in Seq(Tuples)
  <2>1. Payload(s, c, k, padded) \in Seq(Elements(s, c, k) \cup {Pad})
    BY PayloadMeans
  <2>2. Elements(s, c, k) \cup {Pad} \subseteq Tuples
    BY ElementsMeans, MarksMean
  <2> QED BY <2>1, <2>2
<1> QED BY <1>1

(* Every initial file is laid out as LaidOut says, with padded edges or not. *)
LEMMA InitLaidOut ==
  ASSUME Init
  PROVE  shape \in Extents /\ chunk \in Extents /\ \E padded \in BOOLEAN : LaidOut(padded)
<1>1. shape \in Extents /\ chunk \in Extents
  BY DEF Init, Extents
<1> DEFINE G == Grid(shape, chunk)
           All(padded) == [k \in G |-> Payload(shape, chunk, k, padded)]
<1>2. PICK payloads \in {All(padded) : padded \in BOOLEAN},
           at \in {RowMajor(G), Reverse(RowMajor(G))}, gap \in G \cup {NoChunk},
           packed \in G \cup {NoChunk} : Lay(payloads, at, gap, packed)
  BY DEF Init
<1>3. PICK padded \in BOOLEAN : payloads = All(padded)
  OBVIOUS
<1>4. payloads \in [G -> Seq(Tuples)]
  BY <1>1, <1>3, PayloadsType
<1>5. G \in SUBSET Tuples /\ IsFiniteSet(G)
  BY <1>1, GridMeans
<1>6. \A k \in G : payloads[k] = Payload(shape, chunk, k, padded)
  BY <1>3
<1> HIDE DEF G, All
<1>7. Enumerates(at, G)
  BY <1>5, RowsEnumerate
<1>8. LaidOut(padded)
  <2>1. /\ file \in Seq(Tuples)
        /\ \A k \in G :
             /\ stored[k].at \in Nat /\ stored[k].len \in Nat /\ stored[k].raw \in BOOLEAN
             /\ stored[k].len = Len(payloads[k])
             /\ stored[k].at + stored[k].len <= Len(file)
             /\ stored[k].raw => \A m \in 1 .. stored[k].len :
                  file[stored[k].at + m] = payloads[k][m]
        /\ \A x \in 1 .. Len(file) :
             \/ file[x] = Other
             \/ \E k \in G : /\ stored[k].raw
                             /\ stored[k].at < x /\ x <= stored[k].at + stored[k].len
    BY <1>2, <1>4, <1>7, LayMeans
  <2> QED BY <1>6, <2>1 DEF LaidOut, G
<1> QED BY <1>1, <1>8

-----------------------------------------------------------------------------
(* The selection and the plan *)

SelInv ==
  \A a \in Axes : /\ sel[a].lo \in Nat /\ sel[a].hi \in Nat /\ sel[a].step \in Nat \ {0}
                  /\ sel[a].lo < sel[a].hi /\ sel[a].hi <= shape[a]

Selection == Boxed([a \in Axes |-> Chosen(a)])
Touched == {k \in Grid(shape, chunk) :
              \A a \in Axes : \E x \in Chosen(a) : x \div chunk[a] = k[a]}

(* A selection is a finite, non-empty set of indices of the dataset. *)
LEMMA SelectionMeans ==
  ASSUME shape \in Extents, chunk \in Extents, SelInv
  PROVE  /\ Selection \in SUBSET Tuples /\ IsFiniteSet(Selection) /\ Selection # {}
         /\ \A i : i \in Selection <=> i \in Tuples /\ \A a \in Axes : i[a] \in Chosen(a)
         /\ \A i \in Selection : Inside(shape, i) /\ ChunkOf(chunk, i) \in Touched
         /\ Selected = RowMajor(Selection)
         /\ Selected \in Seq(Selection) /\ Len(Selected) = Cardinality(Selection)
         /\ Cardinality(Selection) \in Nat
<1> DEFINE box == [a \in Axes |-> Chosen(a)]
<1>0. MaxDim \in Nat
  BY ConstantsAssumption
<1>1. \A a \in Axes : box[a] \in SUBSET Nat /\ IsFiniteSet(box[a])
  <2> TAKE a \in Axes
  <2>1. IsFiniteSet(0 .. MaxDim - 1)
    <3>1. 0 \in Int /\ MaxDim - 1 \in Int
      BY <1>0
    <3> QED BY <3>1, FS_Interval
  <2>2. Chosen(a) \in SUBSET (0 .. MaxDim - 1)
    BY DEF Chosen
  <2>3. 0 .. MaxDim - 1 \in SUBSET Nat
    BY <1>0
  <2>4. IsFiniteSet(Chosen(a))
    BY <2>1, <2>2, FS_Subset
  <2> QED BY <2>2, <2>3, <2>4
<1>2. box \in [Axes -> SUBSET Nat]
  BY <1>1
<1>3. /\ Selection \in SUBSET Tuples /\ IsFiniteSet(Selection)
      /\ \A i : i \in Selection <=> i \in Tuples /\ \A a \in Axes : i[a] \in box[a]
  <2>1. Selection = Boxed(box)
    BY DEF Selection
  <2> HIDE DEF box
  <2> QED BY <1>1, <1>2, <2>1, BoxedMeans
<1>4. \A i : i \in Selection <=> i \in Tuples /\ \A a \in Axes : i[a] \in Chosen(a)
  BY <1>3
<1> HIDE DEF box
<1>5. Selection # {}
  <2> DEFINE i == [a \in Axes |-> sel[a].lo]
  <2>1. i \in Tuples
    BY DEF Tuples, SelInv
  <2>2. \A a \in Axes : sel[a].lo \in Chosen(a)
    <3> TAKE a \in Axes
    <3>1. /\ sel[a].lo \in Nat /\ sel[a].hi \in Nat /\ sel[a].step \in Nat \ {0}
          /\ sel[a].lo < sel[a].hi /\ sel[a].hi <= shape[a]
      BY DEF SelInv
    <3>2. shape[a] \in Nat /\ shape[a] <= MaxDim
      BY ExtentType
    <3>3. (sel[a].lo - sel[a].lo) % sel[a].step = 0
      BY <3>1
    <3>4. sel[a].lo \in 0 .. MaxDim - 1
      BY <1>0, <3>1, <3>2
    <3> QED BY <3>1, <3>3, <3>4 DEF Chosen
  <2>3. i \in Selection
    BY <1>4, <2>1, <2>2
  <2> QED BY <2>3
<1>6. ASSUME NEW i \in Selection PROVE Inside(shape, i) /\ ChunkOf(chunk, i) \in Touched
  <2>1. i \in Tuples /\ \A a \in Axes : i[a] \in Chosen(a)
    BY <1>4
  <2>2. Inside(shape, i)
    <3> SUFFICES ASSUME NEW a \in Axes PROVE i[a] < shape[a]
      BY DEF Inside
    <3>1. i[a] \in Nat /\ i[a] < sel[a].hi
      BY <2>1 DEF Chosen, Tuples
    <3>2. sel[a].hi \in Nat /\ sel[a].hi <= shape[a] /\ shape[a] \in Nat
      BY ExtentType DEF SelInv
    <3> QED BY <3>1, <3>2
  <2>3. ChunkOf(chunk, i) \in Grid(shape, chunk)
    BY <2>1, <2>2, ChunkOfType
  <2>4. \A a \in Axes : i[a] \div chunk[a] = ChunkOf(chunk, i)[a]
    BY DEF ChunkOf
  <2> QED BY <2>1, <2>2, <2>3, <2>4 DEF Touched
<1>7. Selected = RowMajor(Selection)
  BY DEF Selected, Selection
<1> QED BY <1>3, <1>4, <1>5, <1>6, <1>7, RowMajorMeans

(* The plan names the chunks that hold what is selected, each once. *)
LEMMA PlanMeans ==
  ASSUME shape \in Extents, chunk \in Extents, SelInv, plan = RowMajor(Touched)
  PROVE  /\ Len(plan) \in Nat \ {0} /\ plan \in [1 .. Len(plan) -> Touched]
         /\ \A k \in Touched : \E n \in 1 .. Len(plan) : plan[n] = k
         /\ Touched \in SUBSET Grid(shape, chunk) /\ Touched \in SUBSET Tuples
         /\ IsFiniteSet(Touched)
         /\ \A n \in 1 .. Len(plan) : plan[n] \in Grid(shape, chunk) /\ plan[n] \in Tuples
         /\ DOMAIN plan = 1 .. Len(plan) /\ plan # <<>>
<1>1. Grid(shape, chunk) \in SUBSET Tuples /\ IsFiniteSet(Grid(shape, chunk))
  BY GridMeans
<1>2. Touched \in SUBSET Grid(shape, chunk) /\ Touched \in SUBSET Tuples
  BY <1>1 DEF Touched
<1>3. IsFiniteSet(Touched)
  BY <1>1, <1>2, FS_Subset
<1>4. /\ Cardinality(Touched) \in Nat /\ plan \in [1 .. Cardinality(Touched) -> Touched]
      /\ Len(plan) = Cardinality(Touched)
      /\ \A k \in Touched : \E n \in 1 .. Cardinality(Touched) : plan[n] = k
  BY <1>2, <1>3, RowMajorMeans
<1>5. Touched # {}
  BY SelectionMeans
<1>6. Len(plan) # 0
  BY <1>3, <1>4, <1>5, FS_EmptySet
<1>7. plan # <<>>
  BY <1>6
<1> QED BY <1>2, <1>3, <1>4, <1>6, <1>7

(* What the chunks of the plan hold of the dataset. *)
Parts == [n \in 1 .. Len(plan) |-> Elements(shape, chunk, plan[n])]
Lengths == [n \in DOMAIN plan |-> stored[plan[n]].len]

(* The leading index of the chunks grows by 1, so that all elements of a chunk
   come before all of the next. *)
Leading == \A n \in 1 .. Len(plan) - 1 : plan[n + 1][1] = plan[n][1] + 1

(* A leading index that grows by 1 grows along the plan. *)
LEMMA LeadingRises ==
  ASSUME shape \in Extents, chunk \in Extents, SelInv, plan = RowMajor(Touched), Leading,
         NEW n \in 1 .. Len(plan), NEW m \in n + 1 .. Len(plan)
  PROVE  plan[n][1] < plan[m][1]
<1> DEFINE p == Len(plan)
           S == {k \in Nat : n < k => plan[n][1] < plan[k][1]}
<1>1. /\ p \in Nat /\ 1 \in Axes
      /\ \A k \in 1 .. p : plan[k][1] \in Nat
  <2>1. p \in Nat /\ \A k \in 1 .. p : plan[k] \in Tuples
    BY PlanMeans
  <2> QED BY <2>1, AxesAre DEF Tuples
<1>2. \A k \in 1 .. p - 1 : plan[k + 1][1] = plan[k][1] + 1
  BY DEF Leading
<1> HIDE DEF p
<1>3. 0 \in S
  OBVIOUS
<1>4. ASSUME NEW k \in 0 .. p - 1, k \in S PROVE k + 1 \in S
  <2> SUFFICES ASSUME n < k + 1 PROVE plan[n][1] < plan[k + 1][1]
    OBVIOUS
  <2>1. k \in 1 .. p - 1 /\ k \in 1 .. p /\ n \in 1 .. p /\ (n < k \/ n = k)
    BY <1>1 DEF p
  <2>2. plan[k + 1][1] = plan[k][1] + 1
    BY <1>2, <2>1
  <2>3. n < k => plan[n][1] < plan[k][1]
    BY <1>4
  <2> QED BY <1>1, <2>1, <2>2, <2>3
<1> HIDE DEF S
<1>5. m \in 0 .. p
  BY <1>1 DEF p
<1>6. m \in S
  BY <1>1, <1>3, <1>4, <1>5, InductTo
<1>7. n < m
  BY <1>1 DEF p
<1> QED BY <1>6, <1>7 DEF S

(* The elements of the plan's chunks are blocks in row-major order. *)
LEMMA PartsAreBlocks ==
  ASSUME shape \in Extents, chunk \in Extents, SelInv, plan = RowMajor(Touched), Leading
  PROVE  /\ Blocks(Parts, Len(plan))
         /\ Selection \in SUBSET Upto(Parts, Len(plan))
         /\ \A n \in 1 .. Len(plan) : Parts[n] = Elements(shape, chunk, plan[n])
<1> DEFINE p == Len(plan)
<1>1. /\ p \in Nat
      /\ \A n \in 1 .. p : plan[n] \in Grid(shape, chunk) /\ plan[n] \in Tuples
      /\ \A k \in Touched : \E n \in 1 .. p : plan[n] = k
  BY PlanMeans
<1>2. \A n \in 1 .. p :
        /\ Parts[n] = Elements(shape, chunk, plan[n])
        /\ Parts[n] \in SUBSET Tuples /\ IsFiniteSet(Parts[n])
        /\ \A i : i \in Parts[n] <=> i \in Tuples /\ Inside(shape, i) /\ plan[n] = ChunkOf(chunk, i)
  <2> TAKE n \in 1 .. p
  <2>1. Parts[n] = Elements(shape, chunk, plan[n])
    BY DEF Parts
  <2> QED BY <1>1, <2>1, ElementsMeans
<1>3. Parts \in [1 .. p -> SUBSET Tuples]
  BY <1>2 DEF Parts
<1>4. ASSUME NEW n \in 1 .. p, NEW m \in 1 .. p, n < m, NEW i \in Parts[n], NEW j \in Parts[m]
      PROVE  Before(i, j)
  <2>1. m \in n + 1 .. p
    BY <1>1, <1>4
  <2>2. plan[n][1] < plan[m][1]
    BY <2>1, LeadingRises
  <2>3. i \in Tuples /\ j \in Tuples /\ plan[n] = ChunkOf(chunk, i) /\ plan[m] = ChunkOf(chunk, j)
    BY <1>2
  <2>4. 1 \in Axes /\ \A b \in Axes : ~(b < 1)
    BY AxesAre
  <2>5. /\ i[1] \in Nat /\ j[1] \in Nat /\ chunk[1] \in Nat \ {0}
        /\ plan[n][1] = i[1] \div chunk[1] /\ plan[m][1] = j[1] \div chunk[1]
    BY <2>3, <2>4, ExtentType DEF Tuples, ChunkOf
  <2>6. /\ plan[n][1] \in Nat /\ plan[m][1] \in Nat
        /\ i[1] < (plan[n][1] + 1) * chunk[1] /\ plan[m][1] * chunk[1] <= j[1]
    BY <2>5, Quotient
  <2>7. /\ (plan[n][1] + 1) * chunk[1] <= plan[m][1] * chunk[1]
        /\ (plan[n][1] + 1) * chunk[1] \in Nat /\ plan[m][1] * chunk[1] \in Nat
    <3>1. plan[n][1] + 1 \in Nat /\ plan[n][1] + 1 <= plan[m][1]
      BY <2>2, <2>6
    <3> QED BY <2>5, <2>6, <3>1, Product
  <2>8. i[1] < j[1]
    BY <2>5, <2>6, <2>7
  <2> QED BY <2>4, <2>8 DEF Before
<1>5. Blocks(Parts, p)
  BY <1>1, <1>2, <1>3, <1>4 DEF Blocks
<1>6. ASSUME NEW i \in Selection PROVE i \in Upto(Parts, p)
  <2>1. i \in Tuples /\ Inside(shape, i) /\ ChunkOf(chunk, i) \in Touched
    BY SelectionMeans
  <2>2. PICK n \in 1 .. p : plan[n] = ChunkOf(chunk, i)
    BY <1>1, <2>1
  <2>3. i \in Parts[n]
    BY <1>2, <2>1, <2>2
  <2> QED BY <2>3 DEF Upto
<1> QED BY <1>2, <1>5, <1>6

(* The lengths of the payloads are summands. *)
LEMMA LengthsType ==
  ASSUME shape \in Extents, chunk \in Extents, SelInv, plan = RowMajor(Touched),
         NEW padded \in BOOLEAN, LaidOut(padded)
  PROVE  /\ Lengths \in Seq(Nat) /\ Len(Lengths) = Len(plan)
         /\ \A n \in 1 .. Len(plan) : Lengths[n] = stored[plan[n]].len
         /\ TotalRaw = Sums(Lengths)[Len(plan)]
<1>1. /\ Len(plan) \in Nat /\ DOMAIN plan = 1 .. Len(plan)
      /\ \A n \in 1 .. Len(plan) : plan[n] \in Grid(shape, chunk)
  BY PlanMeans
<1>2. \A n \in 1 .. Len(plan) : stored[plan[n]].len \in Nat
  BY <1>1 DEF LaidOut
<1>3. Lengths = [n \in 1 .. Len(plan) |-> stored[plan[n]].len]
  BY <1>1 DEF Lengths
<1>4. TotalRaw = Sums(Lengths)[Len(plan)]
  BY DEF TotalRaw, Lengths
<1> DEFINE p == Len(plan)
<1> HIDE DEF p
<1>5. Lengths \in [1 .. Len(plan) -> Nat]
  BY <1>2, <1>3
<1>6. Lengths \in Seq(Nat) /\ Len(Lengths) = Len(plan)
  BY <1>1, <1>5
<1> QED BY <1>3, <1>4, <1>6

-----------------------------------------------------------------------------
(* A view is the selection *)

(* As many elements as the selection has, in chunks that hold all of it: they
   hold nothing else, and no padding. *)
LEMMA NothingElse ==
  ASSUME shape \in Extents, chunk \in Extents, SelInv, plan = RowMajor(Touched), Leading,
         NEW padded \in BOOLEAN, LaidOut(padded), TotalRaw = Len(Selected)
  PROVE  /\ Selection = Upto(Parts, Len(plan))
         /\ Lengths = Sizes(Parts)
         /\ \A n \in 1 .. Len(plan) :
              Payload(shape, chunk, plan[n], padded) = RowMajor(Parts[n])
<1> DEFINE p == Len(plan)
           U == Upto(Parts, p)
<1>1. /\ p \in Nat /\ p \in 0 .. p
      /\ \A n \in 1 .. p : plan[n] \in Grid(shape, chunk)
  BY PlanMeans
<1>2. /\ Blocks(Parts, p) /\ Selection \in SUBSET U
      /\ \A n \in 1 .. p : Parts[n] = Elements(shape, chunk, plan[n])
  BY PartsAreBlocks
<1>3. /\ Lengths \in Seq(Nat) /\ Len(Lengths) = p
      /\ \A n \in 1 .. p : Lengths[n] = stored[plan[n]].len
      /\ TotalRaw = Sums(Lengths)[p]
  BY LengthsType
<1>4. /\ Sizes(Parts) \in Seq(Nat) /\ Len(Sizes(Parts)) = p
      /\ \A n \in 1 .. p : Sizes(Parts)[n] = Cardinality(Parts[n])
  BY <1>2, SizesType
<1>5. \A n \in 1 .. p :
        LET w == Payload(shape, chunk, plan[n], padded)
        IN  /\ Cardinality(Parts[n]) <= Len(w) /\ Lengths[n] = Len(w)
            /\ Len(w) = Cardinality(Parts[n]) => w = RowMajor(Parts[n])
  <2> TAKE n \in 1 .. p
  <2>1. plan[n] \in Grid(shape, chunk) /\ Parts[n] = Elements(shape, chunk, plan[n])
    BY <1>1, <1>2
  <2>2. Lengths[n] = Len(Payload(shape, chunk, plan[n], padded))
    BY <1>3, <2>1 DEF LaidOut
  <2> DEFINE w == Payload(shape, chunk, plan[n], padded)
             e == Elements(shape, chunk, plan[n])
  <2>3. Cardinality(e) <= Len(w) /\ (Len(w) = Cardinality(e) => w = RowMajor(e))
    BY <2>1, PayloadMeans
  <2>4. Lengths[n] = Len(w) /\ Parts[n] = e
    BY <2>1, <2>2
  <2> HIDE DEF w, e
  <2>5. /\ Cardinality(Parts[n]) <= Len(w) /\ Lengths[n] = Len(w)
        /\ Len(w) = Cardinality(Parts[n]) => w = RowMajor(Parts[n])
    BY <2>3, <2>4
  <2> QED BY <2>5 DEF w
<1>6. \A n \in 1 .. p : Sizes(Parts)[n] <= Lengths[n]
  BY <1>4, <1>5
<1> HIDE DEF p
<1>7. /\ Sums(Sizes(Parts))[p] <= Sums(Lengths)[p]
      /\ Sums(Sizes(Parts))[p] = Sums(Lengths)[p] => \A n \in 1 .. p : Sizes(Parts)[n] = Lengths[n]
  BY <1>1, <1>3, <1>4, <1>6, SumsCompare
<1>8. IsFiniteSet(U) /\ Cardinality(U) = Sums(Sizes(Parts))[p]
  BY <1>1, <1>2, UptoCounts
<1>9. Sums(Sizes(Parts))[p] \in Nat /\ Sums(Lengths)[p] \in Nat
  BY <1>1, <1>3, <1>4, SumsMeans
<1>10. /\ Cardinality(Selection) <= Cardinality(U)
       /\ Cardinality(U) = Cardinality(Selection) => U = Selection
  BY <1>2, <1>8, FS_Subset
<1>11. Cardinality(Selection) = Sums(Lengths)[p] /\ Cardinality(Selection) \in Nat
  BY <1>3, SelectionMeans
<1>12. Sums(Sizes(Parts))[p] = Sums(Lengths)[p] /\ U = Selection
  BY <1>7, <1>8, <1>9, <1>10, <1>11
<1>13. \A n \in 1 .. p : Sizes(Parts)[n] = Lengths[n]
  BY <1>7, <1>12
<1>14. Lengths = Sizes(Parts)
  <2>1. \A n \in 1 .. Len(Lengths) : Lengths[n] = Sizes(Parts)[n]
    BY <1>3, <1>13
  <2> QED BY <1>3, <1>4, <2>1, SameSummands
<1>15. \A n \in 1 .. p : Payload(shape, chunk, plan[n], padded) = RowMajor(Parts[n])
  BY <1>4, <1>5, <1>13
<1> QED BY <1>12, <1>14, <1>15 DEF p

(* Adjacent payloads lie as far from the first as there are elements before. *)
LEMMA AdjacentAdds ==
  ASSUME shape \in Extents, chunk \in Extents, SelInv, plan = RowMajor(Touched),
         NEW padded \in BOOLEAN, LaidOut(padded), Adjacent, NEW n \in 1 .. Len(plan)
  PROVE  stored[plan[n]].at = stored[plan[1]].at + Sums(Lengths)[n - 1]
<1> DEFINE p == Len(plan)
           at(k) == stored[plan[k]].at
           S == {k \in Nat : k + 1 <= p => at(k + 1) = at(1) + Sums(Lengths)[k]}
<1>1. /\ p \in Nat \ {0}
      /\ \A k \in 1 .. p : at(k) \in Nat
  <2>1. p \in Nat \ {0} /\ \A k \in 1 .. p : plan[k] \in Grid(shape, chunk)
    BY PlanMeans
  <2> QED BY <2>1 DEF LaidOut
<1>2. /\ Lengths \in Seq(Nat) /\ Len(Lengths) = p
      /\ \A k \in 1 .. p : Lengths[k] = stored[plan[k]].len
  BY LengthsType
<1>3. /\ Sums(Lengths) \in [0 .. p -> Nat] /\ Sums(Lengths)[0] = 0
      /\ \A k \in 1 .. p : Sums(Lengths)[k] = Sums(Lengths)[k - 1] + Lengths[k]
  BY <1>2, SumsMeans
<1>4. \A k \in 1 .. p - 1 : at(k) + Lengths[k] = at(k + 1)
  BY <1>1, <1>2 DEF Adjacent
<1> HIDE DEF p, at
<1>5. 0 \in S
  BY <1>1, <1>3
<1>6. ASSUME NEW k \in 0 .. p - 1, k \in S PROVE k + 1 \in S
  <2> SUFFICES ASSUME (k + 1) + 1 <= p PROVE at((k + 1) + 1) = at(1) + Sums(Lengths)[k + 1]
    BY <1>1
  <2>1. k + 1 \in 1 .. p - 1 /\ k + 1 \in 1 .. p /\ (k + 1) - 1 = k /\ k \in 0 .. p /\ 1 \in 1 .. p
    BY <1>1
  <2>2. at(k + 1) + Lengths[k + 1] = at((k + 1) + 1)
    BY <1>4, <2>1
  <2>3. at(k + 1) = at(1) + Sums(Lengths)[k]
    BY <1>1, <1>6, <2>1
  <2>4. Sums(Lengths)[k + 1] = Sums(Lengths)[k] + Lengths[k + 1]
    BY <1>3, <2>1
  <2>5. at(1) \in Nat /\ Sums(Lengths)[k] \in Nat /\ Lengths[k + 1] \in Nat
    <3>1. at(1) \in Nat
      BY <1>1, <2>1
    <3>2. Sums(Lengths)[k] \in Nat
      BY <1>3, <2>1
    <3>3. Lengths[k + 1] \in Nat
      BY <1>2, <2>1
    <3> QED BY <3>1, <3>2, <3>3
  <2> QED BY <2>2, <2>3, <2>4, <2>5
<1> HIDE DEF S
<1>7. n - 1 \in 0 .. p /\ n \in 1 .. p
  BY <1>1 DEF p
<1>8. n - 1 \in S
  BY <1>1, <1>5, <1>6, <1>7, InductTo
<1>9. (n - 1) + 1 = n
  BY <1>7
<1> QED BY <1>7, <1>8, <1>9 DEF S, at

(* Where the code's test succeeds, the cells that it maps are the selection. *)
LEMMA ViewIsSelected ==
  ASSUME shape \in Extents, chunk \in Extents, SelInv, plan = RowMajor(Touched),
         NEW padded \in BOOLEAN, LaidOut(padded), MayView
  PROVE  SubSeq(file, stored[plan[1]].at + 1, stored[plan[1]].at + TotalRaw) = Selected
<1> DEFINE p == Len(plan)
           s == stored[plan[1]].at
           t == TotalRaw
           sums == Sums(Lengths)
<1>1. /\ Leading /\ Adjacent /\ t = Len(Selected) /\ s + t <= Len(file)
      /\ \A n \in DOMAIN plan : stored[plan[n]].raw
  BY DEF MayView, Contiguous, LeadingAxisSlabs, Leading
<1>2. /\ Selection = Upto(Parts, p) /\ Lengths = Sizes(Parts)
      /\ \A n \in 1 .. p : Payload(shape, chunk, plan[n], padded) = RowMajor(Parts[n])
  BY <1>1, NothingElse
<1>3. /\ p \in Nat \ {0} /\ DOMAIN plan = 1 .. p
      /\ \A n \in 1 .. p : plan[n] \in Grid(shape, chunk)
  BY PlanMeans
<1>4. Blocks(Parts, p)
  BY <1>1, PartsAreBlocks
<1>5. /\ Lengths \in Seq(Nat) /\ Len(Lengths) = p /\ t = sums[p]
      /\ \A n \in 1 .. p : Lengths[n] = stored[plan[n]].len
  BY LengthsType
<1>6. /\ sums \in [0 .. p -> Nat]
      /\ \A n \in 1 .. p : sums[n] = sums[n - 1] + Lengths[n]
  BY <1>5, SumsMeans
<1>7. \A n \in 1 .. p : stored[plan[n]].at = s + sums[n - 1]
  BY <1>1, AdjacentAdds
<1>8. /\ Selected = RowMajor(Selection) /\ Selected \in Seq(Selection)
      /\ Selection \in SUBSET Tuples
  BY SelectionMeans
<1>9. s \in Nat /\ t \in Nat /\ file \in Seq(Tuples)
  <2>1. s \in Nat /\ file \in Seq(Tuples)
    <3>1. 1 \in 1 .. p
      BY <1>3
    <3> QED BY <1>3, <3>1 DEF LaidOut
  <2>2. p \in 0 .. p
    BY <1>3
  <2>3. t \in Nat
    <3> HIDE DEF t, sums
    <3> QED BY <1>5, <1>6, <2>2
  <2> QED BY <2>1, <2>3
<1>10. \A n \in 1 .. p : \A m \in 1 .. Lengths[n] :
         /\ file[stored[plan[n]].at + m] = RowMajor(Parts[n])[m]
         /\ RowMajor(Selection)[sums[n - 1] + m] = RowMajor(Parts[n])[m]
  <2> TAKE n \in 1 .. p
  <2> TAKE m \in 1 .. Lengths[n]
  <2>1. /\ plan[n] \in Grid(shape, chunk) /\ stored[plan[n]].raw
        /\ m \in 1 .. stored[plan[n]].len
    BY <1>1, <1>3, <1>5
  <2>2. file[stored[plan[n]].at + m] = Payload(shape, chunk, plan[n], padded)[m]
    BY <2>1 DEF LaidOut
  <2>3. m \in 1 .. Cardinality(Parts[n])
    BY <1>2, <1>4, SizesType
  <2>4. RowMajor(Upto(Parts, p))[Sums(Sizes(Parts))[n - 1] + m] = RowMajor(Parts[n])[m]
    BY <1>4, <2>3, ConcatenatedRows
  <2> QED BY <1>2, <2>2, <2>4
<1> HIDE DEF p, s, t
<1>11. ASSUME NEW x \in 1 .. t PROVE file[s + x] = Selected[x]
  <2>1. PICK n \in 1 .. p : sums[n - 1] < x /\ x <= sums[n]
    BY <1>5, SumsLocate
  <2> HIDE DEF sums
  <2>2. /\ n - 1 \in 0 .. p /\ n \in 0 .. p /\ x \in Nat
    BY <1>3, <1>9
  <2>3. /\ sums[n - 1] \in Nat /\ sums[n] \in Nat /\ sums[n] = sums[n - 1] + Lengths[n]
        /\ Lengths[n] \in Nat
    <3>1. Lengths[n] \in Nat
      BY <1>5
    <3> QED BY <1>6, <2>2, <3>1
  <2>4. PICK m \in 1 .. Lengths[n] : x = sums[n - 1] + m
    <3>1. x - sums[n - 1] \in 1 .. Lengths[n] /\ x = sums[n - 1] + (x - sums[n - 1])
      BY <2>1, <2>2, <2>3
    <3> QED BY <3>1
  <2>5. s + x = stored[plan[n]].at + m
    <3>1. stored[plan[n]].at = s + sums[n - 1] /\ m \in Nat
      BY <1>7, <2>3
    <3> QED BY <1>9, <2>3, <2>4, <3>1
  <2> QED BY <1>8, <1>10, <2>4, <2>5
<1> HIDE DEF sums
<1> DEFINE v == SubSeq(file, s + 1, s + t)
<1>12. v = [x \in 1 .. t |-> file[s + x]]
  <2>1. /\ \A x \in 1 .. t : x + (s + 1) - 1 = s + x
        /\ (s + t) - (s + 1) + 1 = t
    BY <1>9
  <2>2. v = [x \in 1 .. (s + t) - (s + 1) + 1 |-> file[x + (s + 1) - 1]]
    BY <1>1, <1>9
  <2> QED BY <2>1, <2>2
<1>13. Selected = [x \in 1 .. t |-> Selected[x]]
  BY <1>1, <1>8
<1> HIDE DEF v
<1>14. v = Selected
  BY <1>11, <1>12, <1>13
<1> QED BY <1>14 DEF v, s, t

-----------------------------------------------------------------------------
(* Slabs are viewed *)

Whole == Boxed([a \in Axes |-> 0 .. shape[a] - 1])
Wide == \A a \in Axes \ {1} : chunk[a] >= shape[a]

(* The whole dataset is a finite set of indices. *)
LEMMA WholeMeans ==
  ASSUME shape \in Extents
  PROVE  /\ Whole \in SUBSET Tuples /\ IsFiniteSet(Whole)
         /\ \A i : i \in Whole <=> i \in Tuples /\ Inside(shape, i)
<1> DEFINE box == [a \in Axes |-> 0 .. shape[a] - 1]
<1>1. \A a \in Axes : box[a] \in SUBSET Nat /\ IsFiniteSet(box[a])
  <2> TAKE a \in Axes
  <2>1. 0 \in Int /\ shape[a] - 1 \in Int
    BY ExtentType
  <2>2. IsFiniteSet(0 .. shape[a] - 1)
    BY <2>1, FS_Interval
  <2>3. 0 .. shape[a] - 1 \in SUBSET Nat
    BY <2>1
  <2> QED BY <2>2, <2>3
<1>2. box \in [Axes -> SUBSET Nat]
  BY <1>1
<1>3. /\ Boxed(box) \in SUBSET Tuples /\ IsFiniteSet(Boxed(box))
      /\ \A i : i \in Boxed(box) <=> i \in Tuples /\ \A a \in Axes : i[a] \in box[a]
  <2> HIDE DEF box
  <2> QED BY <1>1, <1>2, BoxedMeans
<1>4. \A i \in Tuples : (\A a \in Axes : i[a] \in box[a]) <=> Inside(shape, i)
  <2> TAKE i \in Tuples
  <2>1. \A a \in Axes : i[a] \in Nat /\ shape[a] \in Nat
    BY ExtentType DEF Tuples
  <2>2. \A a \in Axes : i[a] \in box[a] <=> i[a] < shape[a]
    BY <2>1
  <2> HIDE DEF box
  <2> QED BY <2>2 DEF Inside
<1>5. Whole = Boxed(box)
  BY DEF Whole
<1> HIDE DEF box
<1> QED BY <1>3, <1>4, <1>5

(* Sets in the same row-major order are the same. *)
LEMMA RowMajorIs ==
  ASSUME NEW S \in SUBSET Tuples, IsFiniteSet(S), NEW T \in SUBSET Tuples, IsFiniteSet(T),
         RowMajor(S) = RowMajor(T)
  PROVE  S = T
<1>1. /\ Cardinality(S) = Cardinality(T)
      /\ \A n \in 1 .. Cardinality(S) : RowMajor(S)[n] \in S /\ RowMajor(T)[n] \in T
      /\ \A i \in S : \E n \in 1 .. Cardinality(S) : RowMajor(S)[n] = i
      /\ \A i \in T : \E n \in 1 .. Cardinality(T) : RowMajor(T)[n] = i
  <2>1. Len(RowMajor(S)) = Cardinality(S) /\ Len(RowMajor(T)) = Cardinality(T)
    BY RowMajorMeans
  <2>2. Cardinality(S) = Cardinality(T)
    BY <2>1
  <2>3. /\ RowMajor(S) \in [1 .. Cardinality(S) -> S]
        /\ RowMajor(T) \in [1 .. Cardinality(T) -> T]
    BY RowMajorMeans
  <2>4. /\ \A i \in S : \E n \in 1 .. Cardinality(S) : RowMajor(S)[n] = i
        /\ \A i \in T : \E n \in 1 .. Cardinality(T) : RowMajor(T)[n] = i
    BY RowMajorMeans
  <2> QED BY <2>2, <2>3, <2>4
<1> QED BY <1>1

(* All of the dataset touches all of its chunks, and where they are as wide as
   the dataset, their leading indices are 0, 1, 2, ... *)
LEMMA AllTouched ==
  ASSUME shape \in Extents, chunk \in Extents, SelInv, Selection = Whole
  PROVE  Touched = Grid(shape, chunk)
<1> SUFFICES ASSUME NEW k \in Grid(shape, chunk), NEW a \in Axes
             PROVE  \E x \in Chosen(a) : x \div chunk[a] = k[a]
  BY DEF Touched
<1> DEFINE i == [b \in Axes |-> k[b] * chunk[b]]
<1>1. k \in Tuples /\ \A b \in Axes : k[b] * chunk[b] < shape[b]
  BY GridMeans
<1>2. \A b \in Axes : k[b] \in Nat /\ chunk[b] \in Nat \ {0} /\ k[b] * chunk[b] \in Nat
  <2> TAKE b \in Axes
  <2>1. k[b] \in Nat /\ chunk[b] \in Nat \ {0}
    BY <1>1, ExtentType DEF Tuples
  <2> QED BY <2>1, Product
<1>3. i \in Tuples /\ Inside(shape, i)
  BY <1>1, <1>2 DEF Tuples, Inside
<1> DEFINE x == k[a] * chunk[a]
<1>4. i[a] = x
  OBVIOUS
<1> HIDE DEF i
<1>5. i \in Selection
  BY <1>3, WholeMeans
<1>6. x \in Chosen(a)
  BY <1>4, <1>5, SelectionMeans
<1>7. x \div chunk[a] = k[a]
  <2>1. x \in Nat /\ x <= x /\ x < (k[a] + 1) * chunk[a] /\ k[a] \in Nat /\ chunk[a] \in Nat \ {0}
    BY <1>2, Product
  <2> QED BY <2>1, QuotientIs
<1> QED BY <1>6, <1>7

(* Of full-width chunks that hold the whole dataset, the plan is in order of
   the leading index, from 0 and by 1. *)
LEMMA SlabsLead ==
  ASSUME shape \in Extents, chunk \in Extents, SelInv, Selection = Whole, Wide,
         plan = RowMajor(Touched)
  PROVE  LeadingAxisSlabs /\ Leading
<1> DEFINE G == Grid(shape, chunk)
           p == Len(plan)
<1>1. /\ G \in SUBSET Tuples /\ IsFiniteSet(G)
      /\ \A k : k \in G <=> k \in Tuples /\ \A a \in Axes : k[a] * chunk[a] < shape[a]
  BY GridMeans
<1>2. /\ plan = RowMajor(G) /\ p = Cardinality(G) /\ p \in Nat \ {0} /\ plan # <<>>
      /\ DOMAIN plan = 1 .. p
      /\ \A n \in 1 .. p : plan[n] \in G /\ Cardinality(Below(G, plan[n])) = n - 1
  <2>1. plan = RowMajor(G)
    BY AllTouched
  <2>2. p \in Nat \ {0} /\ plan # <<>> /\ DOMAIN plan = 1 .. p /\ \A n \in 1 .. p : plan[n] \in G
    BY PlanMeans
  <2>3. p = Cardinality(G) /\ \A n \in 1 .. Cardinality(G) : Cardinality(Below(G, plan[n])) = n - 1
    BY <1>1, <2>1, RowMajorMeans
  <2> QED BY <2>1, <2>2, <2>3
<1> HIDE DEF G
<1>3. \A k \in G : \A a \in Axes \ {1} : k[a] = 0
  <2> SUFFICES ASSUME NEW k \in G, NEW a \in Axes \ {1} PROVE k[a] = 0
    OBVIOUS
  <2>1. /\ k[a] \in Nat /\ chunk[a] \in Nat \ {0} /\ shape[a] \in Nat
        /\ k[a] * chunk[a] < shape[a] /\ shape[a] <= chunk[a]
    BY <1>1, ExtentType DEF Tuples, Wide
  <2>2. k[a] * chunk[a] < 1 * chunk[a] /\ 1 \in Nat
    <3>1. k[a] * chunk[a] \in Nat /\ 1 * chunk[a] = chunk[a]
      BY <2>1, Product
    <3> QED BY <2>1, <3>1
  <2>3. k[a] < 1
    BY <2>1, <2>2, Product
  <2> QED BY <2>1, <2>3
<1>4. ASSUME NEW k \in G PROVE Cardinality(Below(G, k)) = k[1]
  <2> DEFINE row(x) == [a \in Axes |-> IF a = 1 THEN x ELSE 0]
             f == [x \in 0 .. k[1] - 1 |-> row(x)]
  <2>0. 1 \in Axes /\ k[1] \in Nat /\ k \in Tuples /\ \A b \in Axes : b \in Nat \ {0}
    BY <1>1, AxesAre DEF Tuples
  <2>1. \A x \in 0 .. k[1] - 1 : row(x) \in G /\ Before(row(x), k)
    <3> SUFFICES ASSUME NEW x \in 0 .. k[1] - 1 PROVE row(x) \in G /\ Before(row(x), k)
      OBVIOUS
    <3>1. row(x) \in Tuples /\ x \in Nat /\ x < k[1]
      BY <2>0 DEF Tuples
    <3>2. \A a \in Axes : row(x)[a] * chunk[a] < shape[a]
      <4> TAKE a \in Axes
      <4>1. /\ row(x)[a] = (IF a = 1 THEN x ELSE 0) /\ row(x)[a] \in Nat /\ row(x)[a] <= k[a]
            /\ k[a] \in Nat /\ chunk[a] \in Nat \ {0} /\ shape[a] \in Nat
            /\ k[a] * chunk[a] < shape[a]
        <5>1. k[a] \in Nat /\ chunk[a] \in Nat \ {0} /\ shape[a] \in Nat
              /\ k[a] * chunk[a] < shape[a]
          BY <1>1, ExtentType DEF Tuples
        <5>2. row(x)[a] = (IF a = 1 THEN x ELSE 0)
          OBVIOUS
        <5> HIDE DEF row
        <5> QED BY <3>1, <5>1, <5>2
      <4> HIDE DEF row
      <4>2. /\ row(x)[a] * chunk[a] <= k[a] * chunk[a]
            /\ row(x)[a] * chunk[a] \in Nat /\ k[a] * chunk[a] \in Nat
        BY <4>1, Product
      <4> QED BY <4>1, <4>2
    <3>3. row(x)[1] < k[1]
      BY <2>0, <3>1
    <3> HIDE DEF row
    <3>4. row(x) \in G
      BY <1>1, <3>1, <3>2
    <3>5. \A b \in Axes : ~(b < 1)
      BY <2>0
    <3>6. Before(row(x), k)
      BY <2>0, <3>3, <3>5 DEF Before
    <3> QED BY <3>4, <3>6
  <2>2. \A j \in Below(G, k) : j[1] \in 0 .. k[1] - 1 /\ row(j[1]) = j
    <3> SUFFICES ASSUME NEW j \in G, Before(j, k)
                 PROVE  j[1] \in 0 .. k[1] - 1 /\ row(j[1]) = j
      BY DEF Below
    <3>1. PICK a \in Axes : j[a] < k[a]
      BY DEF Before
    <3>2. j \in Tuples /\ j[a] \in Nat /\ k[a] \in Nat /\ j[1] \in Nat
      BY <1>1, <2>0 DEF Tuples
    <3>3. a = 1
      <4>1. k[a] # 0
        BY <3>1, <3>2
      <4> QED BY <1>3, <4>1
    <3>4. \A b \in Axes : row(j[1])[b] = j[b]
      BY <1>3
    <3>5. row(j[1]) = j
      BY <3>2, <3>4 DEF Tuples
    <3> QED BY <2>0, <3>1, <3>2, <3>3, <3>5
  <2>3. f \in Bijection(0 .. k[1] - 1, Below(G, k))
    <3>1. \A x \in 0 .. k[1] - 1 : f[x] = row(x) /\ row(x)[1] = x
      BY <2>0
    <3>2. f \in [0 .. k[1] - 1 -> Below(G, k)]
      BY <2>1 DEF Below
    <3> HIDE DEF f, row
    <3>3. \A x, y \in 0 .. k[1] - 1 : f[x] = f[y] => x = y
      <4> SUFFICES ASSUME NEW x \in 0 .. k[1] - 1, NEW y \in 0 .. k[1] - 1, f[x] = f[y]
                   PROVE  x = y
        OBVIOUS
      <4>1. row(x) = row(y) /\ row(x)[1] = x /\ row(y)[1] = y
        BY <3>1
      <4> QED BY <4>1
    <3>4. \A j \in Below(G, k) : \E x \in 0 .. k[1] - 1 : f[x] = j
      BY <2>2, <3>1
    <3> QED BY <3>2, <3>3, <3>4 DEF Bijection, Injection, Surjection, IsInjective
  <2>4. IsFiniteSet(0 .. k[1] - 1) /\ Cardinality(0 .. k[1] - 1) = k[1]
    <3>1. 0 \in Int /\ k[1] - 1 \in Int
      BY <2>0
    <3>2. IsFiniteSet(0 .. k[1] - 1) /\ Cardinality(0 .. k[1] - 1) =
             IF 0 > k[1] - 1 THEN 0 ELSE (k[1] - 1) - 0 + 1
      BY <3>1, FS_Interval
    <3> QED BY <2>0, <3>2
  <2>5. ExistsBijection(0 .. k[1] - 1, Below(G, k))
    BY <2>3 DEF ExistsBijection
  <2> QED BY <2>4, <2>5, FS_Bijection
<1>5. \A n \in 1 .. p : plan[n][1] = n - 1
  <2> TAKE n \in 1 .. p
  <2>1. plan[n] \in G /\ Cardinality(Below(G, plan[n])) = n - 1
    BY <1>2
  <2> QED BY <1>4, <2>1
<1> HIDE DEF p
<1>6. \A n \in 1 .. p - 1 : plan[n + 1][1] = plan[n][1] + 1
  <2> TAKE n \in 1 .. p - 1
  <2>1. n \in 1 .. p /\ n + 1 \in 1 .. p /\ (n + 1) - 1 = (n - 1) + 1
    BY <1>2
  <2>2. plan[n + 1][1] = (n + 1) - 1 /\ plan[n][1] = n - 1
    BY <1>5, <2>1
  <2> QED BY <2>1, <2>2
<1>7. Leading
  BY <1>6 DEF Leading, p
<1>8. \A a \in Axes \ {1} : \A n \in DOMAIN plan : plan[n][a] = plan[1][a]
  <2> TAKE a \in Axes \ {1}
  <2> TAKE n \in DOMAIN plan
  <2>1. 1 \in 1 .. p /\ n \in 1 .. p
    BY <1>2
  <2>2. plan[n] \in G /\ plan[1] \in G
    BY <1>2, <2>1
  <2> QED BY <1>3, <2>2
<1>9. LeadingAxisSlabs
  BY <1>2, <1>6, <1>8 DEF LeadingAxisSlabs, Wide, p
<1> QED BY <1>7, <1>9

(* Where the bytes of the whole dataset lie one after the other, the code's
   test of the plan succeeds. *)
LEMMA SlabsMayView ==
  ASSUME shape \in Extents, chunk \in Extents, SelInv, plan = RowMajor(Touched),
         NEW padded \in BOOLEAN, LaidOut(padded), Slabbed
  PROVE  MayView
<1> DEFINE p == Len(plan)
           sums == Sums(Sizes(Parts))
           t == Len(Selected)
<1>1. /\ Wide /\ Selected = RowMajor(Whole) /\ Pad \notin Range(file)
      /\ \A a \in Axes : sel[a].step = 1
  BY DEF Slabbed, Wide, Whole
<1>2. PICK n0 \in 0 .. Len(file) - t : SubSeq(file, n0 + 1, n0 + t) = Selected
  BY DEF Slabbed
<1>3. /\ Selected = RowMajor(Selection) /\ Selected \in Seq(Selection)
      /\ t = Cardinality(Selection) /\ t \in Nat
      /\ Selection \in SUBSET Tuples /\ IsFiniteSet(Selection)
      /\ \A i \in Selection : Inside(shape, i)
  BY SelectionMeans
<1>4. Selection = Whole
  BY <1>1, <1>3, WholeMeans, RowMajorIs
<1>5. LeadingAxisSlabs /\ Leading
  BY <1>1, <1>4, SlabsLead
<1>6. /\ Blocks(Parts, p) /\ Selection \in SUBSET Upto(Parts, p)
      /\ \A n \in 1 .. p : Parts[n] = Elements(shape, chunk, plan[n])
  BY <1>5, PartsAreBlocks
<1>7. /\ p \in Nat \ {0} /\ plan # <<>> /\ DOMAIN plan = 1 .. p
      /\ \A n \in 1 .. p : plan[n] \in Grid(shape, chunk)
  BY PlanMeans
<1>8. \A n \in 1 .. p :
        /\ Parts[n] \in SUBSET Tuples /\ IsFiniteSet(Parts[n])
        /\ Cardinality(Parts[n]) \in Nat \ {0}
        /\ \A i : i \in Parts[n] <=> i \in Tuples /\ Inside(shape, i) /\ plan[n] = ChunkOf(chunk, i)
  BY <1>6, <1>7, ElementsMeans
<1>9. Selection = Upto(Parts, p)
  <2> SUFFICES ASSUME NEW i \in Upto(Parts, p) PROVE i \in Selection
    BY <1>6
  <2>1. PICK n \in 1 .. p : i \in Parts[n]
    BY DEF Upto
  <2> QED BY <1>4, <1>8, <2>1, WholeMeans
<1>10. /\ sums \in [0 .. p -> Nat] /\ sums[0] = 0
       /\ \A n \in 1 .. p : sums[n] = sums[n - 1] + Cardinality(Parts[n])
       /\ t = sums[p]
  <2>1. /\ Sizes(Parts) \in Seq(Nat) /\ Len(Sizes(Parts)) = p
        /\ \A n \in 1 .. p : Sizes(Parts)[n] = Cardinality(Parts[n])
    BY <1>6, SizesType
  <2>2. p \in 0 .. p
    BY <1>7
  <2>3. Cardinality(Upto(Parts, p)) = sums[p]
    BY <1>6, <2>2, UptoCounts
  <2> QED BY <1>3, <1>9, <2>1, <2>3, SumsMeans
<1> HIDE DEF p, t, sums
<1>11. file \in Seq(Tuples) /\ Len(file) \in Nat /\ n0 \in Nat /\ n0 + t <= Len(file)
  <2>1. file \in Seq(Tuples)
    BY DEF LaidOut
  <2> QED BY <1>3, <2>1
<1>12. \A y \in 1 .. t : n0 + y \in 1 .. Len(file) /\ file[n0 + y] = Selected[y]
  <2> TAKE y \in 1 .. t
  <2>1. n0 + y \in 1 .. Len(file)
    BY <1>3, <1>11
  <2>2. SubSeq(file, n0 + 1, n0 + t)[y] = file[n0 + y]
    <3>1. SubSeq(file, n0 + 1, n0 + t) =
            [x \in 1 .. (n0 + t) - (n0 + 1) + 1 |-> file[x + (n0 + 1) - 1]]
      BY <1>3, <1>11
    <3>2. (n0 + t) - (n0 + 1) + 1 = t /\ y + (n0 + 1) - 1 = n0 + y
      BY <1>3, <1>11
    <3> QED BY <3>1, <3>2
  <2> QED BY <1>2, <2>1, <2>2
(* An element of the window is held by its own chunk, which is raw. *)
<1>13. ASSUME NEW n \in 1 .. p, NEW m \in 1 .. Cardinality(Parts[n])
       PROVE  /\ stored[plan[n]].raw
              /\ (n0 + sums[n - 1] + m) - stored[plan[n]].at \in 1 .. stored[plan[n]].len
              /\ Payload(shape, chunk, plan[n], padded)
                   [(n0 + sums[n - 1] + m) - stored[plan[n]].at] = RowMajor(Parts[n])[m]
  <2> DEFINE i == RowMajor(Parts[n])[m]
             x == n0 + sums[n - 1] + m
  <2>1. /\ sums[n - 1] + m \in 1 .. t /\ Selected[sums[n - 1] + m] = i
    <3>1. /\ Sums(Sizes(Parts))[n - 1] + m \in 1 .. Cardinality(Upto(Parts, p))
          /\ RowMajor(Upto(Parts, p))[Sums(Sizes(Parts))[n - 1] + m] = RowMajor(Parts[n])[m]
      BY <1>6, ConcatenatedRows
    <3> QED BY <1>3, <1>9, <3>1 DEF sums
  <2>2. i \in Parts[n]
    BY <1>8, RowMajorMeans
  <2>3. i \in Tuples /\ Inside(shape, i) /\ plan[n] = ChunkOf(chunk, i) /\ i # Other /\ i # Pad
    BY <1>8, <2>2, MarksMean
  <2>4. sums[n - 1] \in Nat /\ m \in Nat /\ n0 + (sums[n - 1] + m) = x /\ x \in Nat
    <3>1. n - 1 \in 0 .. p
      BY <1>7
    <3>2. sums[n - 1] \in Nat /\ m \in Nat
      BY <1>8, <1>10, <3>1
    <3> QED BY <1>11, <3>2
  <2>5. x \in 1 .. Len(file) /\ file[x] = i
    BY <1>12, <2>1, <2>4
  <2> HIDE DEF i, x
  <2>6. PICK k \in Grid(shape, chunk) :
          stored[k].raw /\ stored[k].at < x /\ x <= stored[k].at + stored[k].len
    BY <2>3, <2>5 DEF LaidOut
  <2>7. /\ stored[k].at \in Nat /\ stored[k].len \in Nat
        /\ stored[k].len = Len(Payload(shape, chunk, k, padded))
        /\ \A y \in 1 .. stored[k].len :
             file[stored[k].at + y] = Payload(shape, chunk, k, padded)[y]
    BY <2>6 DEF LaidOut
  <2>8. x - stored[k].at \in 1 .. stored[k].len /\ stored[k].at + (x - stored[k].at) = x
    <3>1. PICK a \in Nat, l \in Nat : a = stored[k].at /\ l = stored[k].len
      BY <2>7
    <3>2. a < x /\ x <= a + l
      BY <2>6, <3>1
    <3>3. x - a \in 1 .. l /\ a + (x - a) = x
      BY <2>4, <3>2
    <3> QED BY <3>1, <3>3
  <2>9. Payload(shape, chunk, k, padded)[x - stored[k].at] = i
    BY <2>5, <2>7, <2>8
  <2>10. i \in Elements(shape, chunk, k) \cup {Pad}
    <3>1. Payload(shape, chunk, k, padded) \in Seq(Elements(shape, chunk, k) \cup {Pad})
      BY PayloadMeans
    <3>2. Payload(shape, chunk, k, padded)[x - stored[k].at] \in Elements(shape, chunk, k) \cup {Pad}
      BY <2>7, <2>8, <3>1
    <3> QED BY <2>9, <3>2
  <2>11. k = plan[n]
    BY <2>3, <2>10, ElementsMeans
  <2> QED BY <2>6, <2>8, <2>9, <2>11 DEF i, x
<1>14. \A n \in 1 .. p : stored[plan[n]].raw
  <2> TAKE n \in 1 .. p
  <2>1. 1 \in 1 .. Cardinality(Parts[n])
    BY <1>8
  <2> QED BY <1>13, <2>1
(* No padding in the file, so none in these payloads. *)
<1>15. \A n \in 1 .. p :
         /\ Payload(shape, chunk, plan[n], padded) = RowMajor(Parts[n])
         /\ stored[plan[n]].len = Cardinality(Parts[n])
         /\ stored[plan[n]].at \in Nat
  <2> TAKE n \in 1 .. p
  <2> DEFINE w == Payload(shape, chunk, plan[n], padded)
  <2>1. /\ plan[n] \in Grid(shape, chunk) /\ stored[plan[n]].raw
    BY <1>7, <1>14
  <2>2. /\ stored[plan[n]].at \in Nat /\ stored[plan[n]].len = Len(w)
        /\ stored[plan[n]].at + stored[plan[n]].len <= Len(file)
        /\ stored[plan[n]].len \in Nat
        /\ \A m \in 1 .. stored[plan[n]].len : file[stored[plan[n]].at + m] = w[m]
    BY <2>1 DEF LaidOut
  <2>3. (\A m \in 1 .. Len(w) : w[m] # Pad) => w = RowMajor(Parts[n])
    <3>1. Parts[n] = Elements(shape, chunk, plan[n])
      BY <1>6
    <3>2. (\A m \in 1 .. Len(w) : w[m] # Pad) => w = RowMajor(Elements(shape, chunk, plan[n]))
      BY <2>1, PayloadMeans
    <3> QED BY <3>1, <3>2
  <2> HIDE DEF w
  <2>4. ASSUME NEW m \in 1 .. Len(w) PROVE w[m] # Pad
    <3>1. stored[plan[n]].at + m \in 1 .. Len(file) /\ w[m] = file[stored[plan[n]].at + m]
      <4>1. m \in 1 .. stored[plan[n]].len
        BY <2>2
      <4>2. w[m] = file[stored[plan[n]].at + m]
        BY <2>2, <4>1
      <4>3. PICK a \in Nat, l \in Nat : a = stored[plan[n]].at /\ l = stored[plan[n]].len
        BY <2>2
      <4>4. m \in 1 .. l /\ a + l <= Len(file)
        BY <2>2, <4>1, <4>3
      <4>5. a + m \in 1 .. Len(file)
        BY <1>11, <4>4
      <4> QED BY <4>2, <4>3, <4>5
    <3>2. file[stored[plan[n]].at + m] \in Range(file)
      BY <1>11, <3>1 DEF Range
    <3> QED BY <1>1, <3>1, <3>2
  <2>5. w = RowMajor(Parts[n])
    BY <2>3, <2>4
  <2>6. Len(w) = Cardinality(Parts[n])
    BY <1>8, <2>5, RowMajorMeans
  <2> QED BY <2>2, <2>5, <2>6 DEF w
(* So every chunk lies where its elements are in the window. *)
<1>16. \A n \in 1 .. p : stored[plan[n]].at = n0 + sums[n - 1]
  <2> TAKE n \in 1 .. p
  <2> DEFINE c == Cardinality(Parts[n])
             d == (n0 + sums[n - 1] + 1) - stored[plan[n]].at
             r == RowMajor(Parts[n])
  <2>1. c \in Nat \ {0} /\ 1 \in 1 .. c
    BY <1>8
  <2>2. d \in 1 .. c /\ r[d] = r[1]
    <3>1. /\ (n0 + sums[n - 1] + 1) - stored[plan[n]].at \in 1 .. stored[plan[n]].len
          /\ Payload(shape, chunk, plan[n], padded)
               [(n0 + sums[n - 1] + 1) - stored[plan[n]].at] = RowMajor(Parts[n])[1]
      BY <1>13, <2>1
    <3>2. /\ Payload(shape, chunk, plan[n], padded) = RowMajor(Parts[n])
          /\ stored[plan[n]].len = Cardinality(Parts[n])
      BY <1>15
    <3> QED BY <3>1, <3>2
  <2>3. \A y \in 1 .. c : Cardinality(Below(Parts[n], r[y])) = y - 1
    BY <1>8, RowMajorMeans
  <2>4. sums[n - 1] \in Nat
    <3>1. n - 1 \in 0 .. p
      BY <1>7
    <3> QED BY <1>10, <3>1
  <2> HIDE DEF c, r
  <2>5. d - 1 = 1 - 1 /\ d \in Int
    <3> HIDE DEF d
    <3> QED BY <2>1, <2>2, <2>3
  <2>6. stored[plan[n]].at \in Nat
    BY <1>15
  <2>7. n0 \in Nat
    BY <1>11
  <2>8. (n0 + sums[n - 1] + 1) - stored[plan[n]].at = 1
    <3> HIDE DEF d
    <3>1. d = 1
      BY <2>5
    <3> QED BY <3>1 DEF d
  <2> HIDE DEF d
  <2>9. PICK x \in Nat, y \in Nat : x = sums[n - 1] /\ y = stored[plan[n]].at
    BY <2>4, <2>6
  <2>10. (n0 + x + 1) - y = 1
    BY <2>8, <2>9
  <2>11. y = n0 + x
    BY <2>7, <2>10
  <2> QED BY <2>9, <2>11
<1>17. Adjacent
  <2> SUFFICES ASSUME NEW n \in 1 .. Len(plan) - 1
               PROVE  stored[plan[n]].at + stored[plan[n]].len = stored[plan[n + 1]].at
    BY DEF Adjacent
  <2>1. n \in 1 .. p /\ n + 1 \in 1 .. p /\ (n + 1) - 1 = n /\ n - 1 \in 0 .. p /\ n \in 0 .. p
    BY <1>7 DEF p
  <2>2. /\ stored[plan[n]].at = n0 + sums[n - 1] /\ stored[plan[n + 1]].at = n0 + sums[n]
        /\ stored[plan[n]].len = Cardinality(Parts[n])
        /\ sums[n] = sums[n - 1] + Cardinality(Parts[n])
    BY <1>10, <1>15, <1>16, <2>1
  <2>3. sums[n - 1] \in Nat /\ Cardinality(Parts[n]) \in Nat
    BY <1>8, <1>10, <2>1
  <2> QED BY <1>11, <2>2, <2>3
<1>18. TotalRaw = t
  <2>1. /\ Lengths \in Seq(Nat) /\ Len(Lengths) = p
        /\ \A n \in 1 .. p : Lengths[n] = stored[plan[n]].len
        /\ TotalRaw = Sums(Lengths)[p]
    BY LengthsType DEF p
  <2>2. /\ Sizes(Parts) \in Seq(Nat) /\ Len(Sizes(Parts)) = p
        /\ \A n \in 1 .. p : Sizes(Parts)[n] = Cardinality(Parts[n])
    BY <1>6, SizesType DEF p
  <2>3. \A n \in 1 .. Len(Lengths) : Lengths[n] = Sizes(Parts)[n]
    BY <1>15, <2>1, <2>2
  <2>4. Lengths = Sizes(Parts)
    BY <2>1, <2>2, <2>3, SameSummands
  <2> QED BY <1>10, <2>1, <2>4 DEF sums
<1>19. stored[plan[1]].at + TotalRaw <= Len(file)
  <2>1. 1 \in 1 .. p /\ 1 - 1 = 0
    BY <1>7
  <2>2. stored[plan[1]].at = n0 + 0
    BY <1>10, <1>16, <2>1
  <2> QED BY <1>3, <1>11, <1>18, <2>2
<1>20. \A n \in DOMAIN plan : stored[plan[n]].raw
  BY <1>7, <1>14
<1> QED BY <1>1, <1>5, <1>7, <1>17, <1>18, <1>19, <1>20 DEF MayView, Contiguous, t

-----------------------------------------------------------------------------
(* The inductive invariant *)

FileInv ==
  /\ shape \in Extents /\ chunk \in Extents
  /\ \E padded \in BOOLEAN : LaidOut(padded)

AnswerInv ==
  \/ /\ answer.by = "view" /\ MayView
     /\ answer.elements =
          SubSeq(file, stored[plan[1]].at + 1, stored[plan[1]].at + TotalRaw)
  \/ answer.by = "copy" /\ ~MayView /\ answer.elements = Selected

(* The inductive invariant. *)
Inv ==
  /\ FileInv
  /\ SelInv
  /\ pc \in {"open", "asked", "planned", "answered"}
  /\ pc \in {"planned", "answered"} => plan = RowMajor(Touched)
  /\ pc = "answered" => AnswerInv

(* The invariant holds of every file that is opened. *)
LEMMA InitInv == Init => Inv
<1> SUFFICES ASSUME Init PROVE Inv
  OBVIOUS
<1>1. FileInv
  BY InitLaidOut DEF FileInv
<1>2. SelInv
  <2> SUFFICES ASSUME NEW a \in Axes
               PROVE  /\ sel[a].lo \in Nat /\ sel[a].hi \in Nat /\ sel[a].step \in Nat \ {0}
                      /\ sel[a].lo < sel[a].hi /\ sel[a].hi <= shape[a]
    BY DEF SelInv
  <2>1. sel[a] = [lo |-> 0, hi |-> shape[a], step |-> 1]
    BY DEF Init
  <2>2. shape[a] \in Nat \ {0}
    BY <1>1, ExtentType DEF FileInv
  <2> QED BY <2>1, <2>2
<1>3. pc = "open"
  BY DEF Init
<1> QED BY <1>1, <1>2, <1>3 DEF Inv

(* A file that does not change stays laid out. *)
LEMMA FileInvSame ==
  ASSUME FileInv, UNCHANGED <<shape, chunk, file, stored>>
  PROVE  FileInv'
<1>1. PICK padded \in BOOLEAN : LaidOut(padded)
  BY DEF FileInv
<1>2. LaidOut(padded)'
  <2>1. shape' = shape /\ chunk' = chunk /\ file' = file /\ stored' = stored
    OBVIOUS
  <2>2. LaidOut(padded)' <=> LaidOut(padded)
    BY <2>1, Zenon DEF LaidOut
  <2> QED BY <1>1, <2>2
<1>3. (shape \in Extents /\ chunk \in Extents)'
  BY DEF FileInv
<1> QED BY <1>2, <1>3 DEF FileInv

(* A selection that is asked for is within the shape. *)
LEMMA AskInv ==
  ASSUME Inv, NEW slices \in [Axes -> Slices], Ask(slices)
  PROVE  Inv'
<1>1. UNCHANGED <<shape, chunk, file, stored>> /\ pc' = "asked" /\ sel' = slices
  BY DEF Ask
<1>2. FileInv'
  BY <1>1, FileInvSame DEF Inv
<1>3. SelInv'
  <2> SUFFICES ASSUME NEW a \in Axes
               PROVE  /\ slices[a].lo \in Nat /\ slices[a].hi \in Nat
                      /\ slices[a].step \in Nat \ {0}
                      /\ slices[a].lo < slices[a].hi /\ slices[a].hi <= shape[a]
    BY <1>1 DEF SelInv
  <2>1. /\ slices[a] \in Slices /\ slices[a].hi <= shape[a]
    BY DEF Ask
  <2>2. MaxDim \in Nat /\ MaxStep \in Nat
    BY ConstantsAssumption
  <2> QED BY <2>1, <2>2 DEF Slices, Dims
<1> QED BY <1>1, <1>2, <1>3 DEF Inv

(* The file is what it is, and the selection what was asked. *)
LEMMA SameInputs ==
  ASSUME Inv, UNCHANGED <<shape, chunk, sel, file, stored>>
  PROVE  /\ FileInv' /\ SelInv' /\ Touched' = Touched /\ Selected' = Selected
         /\ UNCHANGED plan => (MayView' <=> MayView) /\ TotalRaw' = TotalRaw
<1>1. FileInv'
  BY FileInvSame DEF Inv
<1>2. SelInv'
  BY DEF Inv, SelInv
<1>3. Touched' = Touched /\ Selected' = Selected
  BY DEF Touched, Selected, Chosen
<1>4. ASSUME UNCHANGED plan PROVE (MayView' <=> MayView) /\ TotalRaw' = TotalRaw
  BY <1>3, <1>4 DEF MayView, Contiguous, LeadingAxisSlabs, Adjacent, TotalRaw
<1> QED BY <1>1, <1>2, <1>3, <1>4

(* Every step keeps the invariant. *)
LEMMA StepInv == Inv /\ [Next]_vars => Inv'
<1> SUFFICES ASSUME Inv, [Next]_vars PROVE Inv'
  OBVIOUS
<1>1. ASSUME NEW slices \in [Axes -> Slices], Ask(slices) PROVE Inv'
  BY <1>1, AskInv
<1>2. CASE PlanRead
  <2>1. UNCHANGED <<shape, chunk, sel, file, stored>> /\ pc' = "planned" /\ plan' = RowMajor(Touched)
    BY <1>2 DEF PlanRead, Touched
  <2>2. FileInv' /\ SelInv' /\ Touched' = Touched
    BY <2>1, SameInputs
  <2> QED BY <2>1, <2>2 DEF Inv
<1>3. CASE View
  <2>1. /\ UNCHANGED <<shape, chunk, sel, file, stored, plan>> /\ pc' = "answered"
        /\ pc = "planned" /\ MayView
        /\ answer' = [by |-> "view", elements |->
             SubSeq(file, stored[plan[1]].at + 1, stored[plan[1]].at + TotalRaw)]
    BY <1>3 DEF View
  <2>2. /\ FileInv' /\ SelInv' /\ Touched' = Touched /\ (MayView' <=> MayView)
        /\ TotalRaw' = TotalRaw
    BY <2>1, SameInputs
  <2>3. AnswerInv'
    BY <2>1, <2>2 DEF AnswerInv
  <2> QED BY <2>1, <2>2, <2>3 DEF Inv
<1>4. CASE Copy
  <2>1. /\ UNCHANGED <<shape, chunk, sel, file, stored, plan>> /\ pc' = "answered"
        /\ pc = "planned" /\ ~MayView
        /\ answer' = [by |-> "copy", elements |-> Selected]
    BY <1>4 DEF Copy
  <2>2. /\ FileInv' /\ SelInv' /\ Touched' = Touched /\ (MayView' <=> MayView)
        /\ Selected' = Selected
    BY <2>1, SameInputs
  <2>3. AnswerInv'
    BY <2>1, <2>2 DEF AnswerInv
  <2> QED BY <2>1, <2>2, <2>3 DEF Inv
<1>5. CASE UNCHANGED vars
  <2>1. UNCHANGED <<shape, chunk, sel, file, stored, plan, pc, answer>>
    BY <1>5 DEF vars
  <2>2. /\ FileInv' /\ SelInv' /\ Touched' = Touched /\ (MayView' <=> MayView)
        /\ Selected' = Selected /\ TotalRaw' = TotalRaw
    BY <2>1, SameInputs
  <2>3. AnswerInv => AnswerInv'
    BY <2>1, <2>2 DEF AnswerInv
  <2> QED BY <2>1, <2>2, <2>3 DEF Inv
<1> QED BY <1>1, <1>2, <1>3, <1>4, <1>5 DEF Next

-----------------------------------------------------------------------------
(* Theorems *)

(* In every state the file is laid out in chunks, the selection is within the
   shape, the plan is what the selection touches, and the answer is a view just
   where the code's test succeeds. *)
THEOREM Invariance == Spec => []Inv
<1>1. Init => Inv
  BY InitInv
<1>2. Inv /\ [Next]_vars => Inv'
  BY StepInv
<1> QED BY <1>1, <1>2, PTL DEF Spec

(* Whatever lies where in the file, read_numpy() gives the selection, element
   by element in row-major order: also where it only maps the file. *)
THEOREM ReadAlwaysFaithful == Spec => []ReadFaithful
<1>1. Inv => ReadFaithful
  <2> SUFFICES ASSUME Inv, pc = "answered" PROVE answer.elements = Selected
    BY DEF ReadFaithful
  <2>1. AnswerInv
    BY DEF Inv
  <2>2. ASSUME answer.by = "view", MayView PROVE
          SubSeq(file, stored[plan[1]].at + 1, stored[plan[1]].at + TotalRaw) = Selected
    <3>1. PICK padded \in BOOLEAN : LaidOut(padded)
      BY DEF Inv, FileInv
    <3> QED BY <2>2, <3>1, ViewIsSelected DEF Inv, FileInv
  <2> QED BY <2>1, <2>2 DEF AnswerInv
<1> QED BY <1>1, Invariance, PTL

(* Where a dataset lies in the file as it is in memory, in one chunk or in
   slabs that follow each other, it is viewed and never copied. *)
THEOREM SlabsAlwaysViewed == Spec => []ViewsSlabs
<1>1. Inv => ViewsSlabs
  <2> SUFFICES ASSUME Inv, pc = "answered", Slabbed PROVE answer.by = "view"
    BY DEF ViewsSlabs
  <2>1. AnswerInv
    BY DEF Inv
  <2>2. PICK padded \in BOOLEAN : LaidOut(padded)
    BY DEF Inv, FileInv
  <2>3. MayView
    BY <2>2, SlabsMayView DEF Inv, FileInv
  <2> QED BY <2>1, <2>3 DEF AnswerInv
<1> QED BY <1>1, Invariance, PTL
=============================================================================
